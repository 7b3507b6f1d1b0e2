\* fairness of the jobs, one crash or lost answer
SPECIFICATION FairSpec
CONSTANTS
    User = {u1, u2}
    Request = {r1}
    Reconciler = reconciler
    None = none
    MaxBooking = 2
    MaxOffer = 1
    MaxHold = 1
    MaxFault = 1
    WrongAmounts = FALSE
PROPERTIES
    NoTransferAfterStart
    RowsStayEnded
    PendingIsDecided
    HoldsEnd
\* the tables are bounded, and a sold slot may rest for ever
CHECK_DEADLOCK FALSE
