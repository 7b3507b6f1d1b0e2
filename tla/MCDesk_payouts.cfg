\* two bookings, two settlements, two cards
SPECIFICATION Spec
CONSTANTS
    b1 = b1
    b2 = b2
    c1 = c1
    c2 = c2
    Booking = {b1, b2}
    Card = {c1, c2}
    NoCard = none
    Price <- MCPrice
    Percent = 10
    Step = 10
    MaxSettlement = 2
    MaxRow = 1
    MaxCalls = 2
    MaxClicks = 2
    MaxOther = 1
SYMMETRY Symmetry
INVARIANTS
    TypeOK
    PaidOnce
    PayoutIsDue
PROPERTIES
    DecidedStays
\* clicks and rows are bounded
CHECK_DEADLOCK FALSE
