SPECIFICATION Spec
CONSTANTS
    p1 = p1
    p2 = p2
    p3 = p3
    x1 = x1
    x2 = x2
    NoOne = NoOne
    Process = {p1, p2, p3}
    Page = {x1, x2}
    MaxStarts = 4
SYMMETRY Interchangeable
CHECK_DEADLOCK FALSE
INVARIANTS TypeOK OneWriter NoPageLostApart AllOrNothing
PROPERTY HolderNamed
