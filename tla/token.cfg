CONSTANTS
    MaxRetries = 3
    Trouble = 4
SPECIFICATION Spec
INVARIANTS NeverLost
PROPERTIES  RefreshedWhenDue
CHECK_DEADLOCK FALSE
