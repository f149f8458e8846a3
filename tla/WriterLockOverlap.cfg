SPECIFICATION Spec
CONSTANTS
    p1 = p1
    p2 = p2
    x1 = x1
    x2 = x2
    NoOne = NoOne
    Process = {p1, p2}
    Page = {x1, x2}
    MaxStarts = 2
SYMMETRY Interchangeable
CHECK_DEADLOCK FALSE
INVARIANT NoPageLost
