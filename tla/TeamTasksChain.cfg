SPECIFICATION Spec
CONSTANTS
    c1 = c1 c2 = c2
    Calls = {c1, c2}
    MaxTasks = 3
    MaxRuns = 2
SYMMETRY Perms
INVARIANTS DoneUnblocks
CHECK_DEADLOCK FALSE
