\* fairness of the jobs, with requests that race
SPECIFICATION FairSpec
CONSTANTS
    User = {u1}
    Slot = {s1}
    Request = {r1, r2}
    Reconciler = reconciler
    None = none
    MaxBooking = 1
    MaxPayment = 2
    MaxFault = 0
    Crashes = FALSE
    WrongAmounts = FALSE
PROPERTIES
    UnpaidIsReleased
    CapturedIsRecorded
\* the tables are bounded, and a sold slot may rest for ever
CHECK_DEADLOCK FALSE
