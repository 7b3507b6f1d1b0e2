CONSTANTS
    MaxRow = 2
    Call = {1, 2}
    MaxClicks = 2
    MaxOther = 1
    Limit = 1
    MaxCode = 2
    MaxTry = 3
    MaxRival = 1
SPECIFICATION PortalSpec
INVARIANTS PortalTypeOK ShownIsTrue FlagsFollowCalls CodeAdmitsOnce
CHECK_DEADLOCK FALSE
