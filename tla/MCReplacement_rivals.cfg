\* two holds, on one offer or on two
SPECIFICATION Spec
CONSTANTS
    User = {u1, u2}
    Request = {r1}
    Reconciler = reconciler
    None = none
    MaxBooking = 2
    MaxOffer = 2
    MaxHold = 2
    MaxFault = 0
    WrongAmounts = FALSE
SYMMETRY Symmetry
INVARIANTS
    OffersAreBacked
    TransferIsWhole
\* the tables are bounded, and a sold slot may rest for ever
CHECK_DEADLOCK FALSE
