SPECIFICATION FairSpec
CONSTANTS
    c1 = c1
    c2 = c2
    c3 = c3
    c4 = c4
    Calls = {c1, c2, c3}
    MaxQueued = 2
INVARIANT TypeOK
INVARIANT OneStraggler
INVARIANT FenceHasCause
PROPERTY ImplementsOneShotIO
PROPERTY EveryCallReturns
CHECK_DEADLOCK FALSE
