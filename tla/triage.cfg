CONSTANTS
    k1 = k1  k2 = k2  k3 = k3
    Keys = {k1, k2, k3}
    LowKeys = {k3}
    Window = 2
    MaxEntries = 2
    LowRate = 2
    MaxCount = 2
SPECIFICATION Spec
PROPERTIES NoDuplicate SentBeforeMerged Recurs CountTold
