SPECIFICATION Spec
CONSTANTS
    p0 = p0 p1 = p1 t1 = t1 t2 = t2
    First = p0
    Procs = {p0}
    Tools = {t1, t2}
    Kinds <- MCKinds
    Retries = 0
    Gated = TRUE
    DbFaults = FALSE
    Crashes = FALSE
    MaxRounds = 2
    MaxRequests = 2
INVARIANTS RanOnlyApproved
CHECK_DEADLOCK FALSE
