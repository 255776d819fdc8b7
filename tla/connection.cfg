CONSTANTS
    MaxGens = 3
SPECIFICATION Spec
INVARIANTS NoWedge NoStrays
PROPERTIES Recovers MonitorStops
CHECK_DEADLOCK FALSE
