SPECIFICATION Spec
CONSTANTS
    c1 = c1
    c2 = c2
    c3 = c3
    c4 = c4
    Calls = {c1, c2}
    MaxQueued = 2
SYMMETRY Sym
INVARIANT NothingLate
CHECK_DEADLOCK FALSE
