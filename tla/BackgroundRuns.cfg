SPECIFICATION Spec
CONSTANTS
    MaxExecs = 3
    MaxAlive = 2
    Retries = 1
    MaxRetries = 1
    MaxEvents = 2
INVARIANTS TypeOK RecordsTellTruth RetriesFollow CancelEndsRun EntriesAreLive SessionKeepsAll
CHECK_DEADLOCK FALSE
