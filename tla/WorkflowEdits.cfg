SPECIFICATION Spec
CONSTANTS
    N = 2
    Settings <- MCSettings
    MaxRetries = 1
    MaxLegs = 4
INVARIANTS EditsStayPut
CHECK_DEADLOCK FALSE
