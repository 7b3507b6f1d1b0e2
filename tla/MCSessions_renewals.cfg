\* two tabs, two calls in flight, two requests the API works on
SPECIFICATION Spec
CONSTANTS
    Tab = {t1, t2}
    Call = {c1, c2}
    Worker = {w1, w2}
    Nobody = nobody
    MaxToken = 3
    MaxClicks = 3
    MaxOther = 1
SYMMETRY Symmetry
INVARIANTS
    TypeOK
    OneLiveToken
    NoFalseReuse
PROPERTIES
    EndedStaysEnded
\* clicks and rows are bounded
CHECK_DEADLOCK FALSE
