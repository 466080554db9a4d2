SPECIFICATION Spec
CONSTANTS
    N = 2
    Settings <- MCSettings
    MaxRetries = 1
    MaxLegs = 4
INVARIANTS TypeOK GateHolds NothingDropped OrderKept RejectedNotKept StopEnds RetriesBounded CancelStops
CHECK_DEADLOCK FALSE
