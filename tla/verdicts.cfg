CONSTANTS
    f1 = f1  f2 = f2  other = other
    Files = {f1, f2}
    MaxVerdicts = 4
    Limit = 2
    Keys <- MCKeys
    LowKeys = {}
    LowRate = 1
    MaxCount = 1
    Window = 1
    MaxEntries = 2
SPECIFICATION OfflineSpec
INVARIANTS OfflineTypeOK
PROPERTIES FirstTold LostBehind HandedOver
