SPECIFICATION Spec
CONSTANTS
    c1 = c1 c2 = c2
    Calls = {c1, c2}
    MaxTasks = 2
    MaxRuns = 2
SYMMETRY Perms
INVARIANTS TypeOK FailureSpreads SavedAgrees MarksKept
PROPERTIES StartsWhenReady
CHECK_DEADLOCK FALSE
