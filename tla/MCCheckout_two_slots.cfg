\* one user moves from one slot to another
SPECIFICATION Spec
CONSTANTS
    User = {u1}
    Slot = {s1, s2}
    Request = {r1}
    Reconciler = reconciler
    None = none
    MaxBooking = 3
    MaxPayment = 1
    MaxFault = 0
    Crashes = FALSE
    WrongAmounts = FALSE
SYMMETRY Symmetry
INVARIANTS
    SlotMatchesBookings
    OneCheckoutPerUser
\* the tables are bounded, and a sold slot may rest for ever
CHECK_DEADLOCK FALSE
