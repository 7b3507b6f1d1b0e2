SPECIFICATION Spec
CONSTANTS
    s1 = s1
    s2 = s2
    d1 = d1
    d2 = d2
    Slots = {s1}
    Days = {d1, d2}
    DayOf <- OneDay
    MaxRows = 1
    MaxReqs = 2
    MaxVer = 1
    MaxRaces = 1
    Tabs = {"cancelled"}
    Guest = TRUE
    Links <- LinksFew
INVARIANTS TypeOK CallsAddressTheirRow TermsWereShown ToldPaidIsPaid
\* A visitor may stop anywhere.
CHECK_DEADLOCK FALSE
