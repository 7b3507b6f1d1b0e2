\* cancelled, sold or released, and cancelled again, also with wrong amounts
SPECIFICATION Spec
CONSTANTS
    User = {u1, u2}
    Request = {r1}
    Reconciler = reconciler
    None = none
    MaxBooking = 3
    MaxOffer = 2
    MaxHold = 1
    MaxFault = 0
    WrongAmounts = TRUE
SYMMETRY Symmetry
INVARIANTS
    ResaleInv
    TransferIsWhole
PROPERTIES
    ImplementsResale
\* the tables are bounded, and a sold slot may rest for ever
CHECK_DEADLOCK FALSE
