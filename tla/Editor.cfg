SPECIFICATION Spec
CONSTANTS
    t1 = t1
    t2 = t2
    Tab = {t1, t2}
    Gone = Gone
    NoDraft = NoDraft
    ReadsFail = TRUE
    MaxEdits = 3
    MaxDeletes = 1
SYMMETRY Interchangeable
CHECK_DEADLOCK FALSE
INVARIANTS TypeOK RefusedTextStays
PROPERTIES NoSilentClobber ErrorKeepsText
