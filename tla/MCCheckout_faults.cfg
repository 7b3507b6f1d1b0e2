\* one crash or lost answer, wrong amounts, two requests
SPECIFICATION Spec
CONSTANTS
    User = {u1}
    Slot = {s1}
    Request = {r1, r2}
    Reconciler = reconciler
    None = none
    MaxBooking = 1
    MaxPayment = 2
    MaxFault = 1
    Crashes = TRUE
    WrongAmounts = TRUE
SYMMETRY Symmetry
INVARIANTS
    ConfirmedIsPaid
PROPERTIES
    EndedStaysEnded
    LateSuccessIsFlagged
\* the tables are bounded, and a sold slot may rest for ever
CHECK_DEADLOCK FALSE
