CONSTANTS
    k1 = k1  k2 = k2
    N = 2
    A = 2
    MaxSize = 2
    Keys = {k1, k2}
    NoMeta = NoMeta
    Faults = TRUE
    Rotates = TRUE
    MaxStops = 2
    MaxTail = 7
SPECIFICATION Spec
INVARIANTS LossExplained RowsInMemory MetaMatches
CHECK_DEADLOCK FALSE
