CONSTANTS
    p1 = p1  p2 = p2  p3 = p3  p4 = p4  p5 = p5  p6 = p6
    Pids = {p1, p2, p3, p4, p5, p6}
    None = None
    MaxRestarts = 1
    BaseDelay = 1
    MaxDelay = 3
    Width = 3
    MaxCrashes = 3
SPECIFICATION LiveSpec
INVARIANTS NoTwin
PROPERTIES SparesWatched BacksOff ComesBack
