SPECIFICATION Spec
CONSTANTS
    p0 = p0 p1 = p1 t1 = t1 t2 = t2
    First = p0
    Procs = {p0, p1}
    Tools = {t1, t2}
    Kinds <- MCKinds
    Retries = 1
    Gated = FALSE
    DbFaults = TRUE
    Crashes = TRUE
    MaxRounds = 2
    MaxRequests = 2
INVARIANTS TypeOK FirstPauseApproved TurnedDownByVerdict RanOnce MirrorAgrees
CHECK_DEADLOCK FALSE
