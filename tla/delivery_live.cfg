CONSTANTS
    p1 = p1  p2 = p2  f1 = f1  f2 = f2  s1 = s1  s2 = s2  s3 = s3  s4 = s4
    N = 2
    Producers = {p1}
    Flushers = {f1}
    Seqs = {s1}
    NoSeq = NoSeq
    MaxQueue = 2
    LoadAlarms = 0
    BatchMax = 2
    MaxInFlight = 1
    MaxRetries = 1
    ChanCap = 1
    AckCap = 1
    AckTracking = TRUE
    MaxRestarts = 0
SPECIFICATION LiveSpec
PROPERTIES QueuedIsAccepted
CHECK_DEADLOCK FALSE
