SPECIFICATION Spec
CONSTANTS
    w1 = w1 w2 = w2 s1 = s1 s2 = s2 t1 = t1 t2 = t2 t3 = t3
    fast = fast slow = slow broken = broken
    None = None
    Workers = {w1, w2}
    Schedules = {s1}
    Tasks = {t1, t2}
    Crons = {fast, broken}
    BadCrons = {broken}
    Period <- MCPeriod
    Grace = 2
    MaxConcurrent = 1
    MaxRetries = 1
    AtomicClaim = FALSE
    DbFaults = FALSE
    MaxTime = 3
    MaxBoots = 2
    MaxRequests = 1
SYMMETRY Perms
INVARIANTS TypeOK MutualExclusion HolderOwnsLock StoppedIsQuiet RecordsAreFinal ClaimedWithinLimit ServedIsNotDue
PROPERTIES ImplementsLease
CHECK_DEADLOCK FALSE
