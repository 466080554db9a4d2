SPECIFICATION FairSpec
CONSTANTS
    c1 = c1 c2 = c2
    None = None
    Clients = {c1, c2}
    MaxEvents = 4
    MaxBuffer = 2
    MaxLegs = 2
    MaxResumes = 2
    Unbuffered = {2}
    KnownRun = TRUE
    Retention = TRUE
INVARIANTS TypeOK SkippedIsTrimmed NoQueueLeaks
PROPERTIES EndedWithAll StreamsEnd ImplementsLog
CHECK_DEADLOCK FALSE
