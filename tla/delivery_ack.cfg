CONSTANTS
    p1 = p1  p2 = p2  f1 = f1  f2 = f2  s1 = s1  s2 = s2  s3 = s3  s4 = s4
    N = 2
    Producers = {p1}
    Flushers = {f1}
    Seqs = {s1, s2, s3}
    NoSeq = NoSeq
    MaxQueue = 1
    LoadAlarms = 1
    BatchMax = 2
    MaxInFlight = 1
    MaxRetries = 0
    ChanCap = 1
    AckCap = 1
    AckTracking = TRUE
    MaxRestarts = 1
SPECIFICATION Spec
SYMMETRY Symmetry
INVARIANTS RowsInQueue QueueBound InFlightBound
PROPERTIES KeepsContract
CHECK_DEADLOCK FALSE
