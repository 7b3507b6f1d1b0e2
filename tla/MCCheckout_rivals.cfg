\* two users compete for one slot
SPECIFICATION Spec
CONSTANTS
    User = {u1, u2}
    Slot = {s1}
    Request = {r1}
    Reconciler = reconciler
    None = none
    MaxBooking = 2
    MaxPayment = 2
    MaxFault = 0
    Crashes = FALSE
    WrongAmounts = FALSE
SYMMETRY Symmetry
INVARIANTS
    MoneyIsAccounted
    IndInv
PROPERTIES
    SoldSlotIsRefunded
    ImplementsSlotSale
\* the tables are bounded, and a sold slot may rest for ever
CHECK_DEADLOCK FALSE
