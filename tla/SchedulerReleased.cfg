SPECIFICATION Spec
CONSTANTS
    w1 = w1 w2 = w2 s1 = s1 s2 = s2 t1 = t1 t2 = t2 t3 = t3
    fast = fast slow = slow broken = broken
    None = None
    Workers = {w1}
    Schedules = {s1}
    Tasks = {t1}
    Crons = {fast}
    BadCrons = {}
    Period <- MCPeriod
    Grace = 2
    MaxConcurrent = 1
    MaxRetries = 0
    AtomicClaim = TRUE
    DbFaults = FALSE
    MaxTime = 3
    MaxBoots = 2
    MaxRequests = 0
PROPERTIES LockAlwaysReleased
CHECK_DEADLOCK FALSE
