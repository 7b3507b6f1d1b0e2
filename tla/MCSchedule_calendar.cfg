\* one page, its calls, and other managers' updates
SPECIFICATION Spec
CONSTANTS
    Day <- MCDay
    Week = 1
    Midnight = 1
    Span <- MCSpan
    Price <- MCPrice
    Edits <- MCEdits
    MaxSlot = 3
    MaxBooking = 2
    MaxEdits = 2
    MaxCalls = 1
    MaxClicks = 2
INVARIANTS
    TypeOK
    LiveIsReserved
PROPERTIES
    NoOverlap
    BookedIsKept
CHECK_DEADLOCK FALSE
