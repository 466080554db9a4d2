SPECIFICATION Spec
CONSTANTS
    c1 = c1 c2 = c2
    None = None
    Clients = {c1, c2}
    MaxEvents = 3
    MaxBuffer = 3
    MaxLegs = 2
    MaxResumes = 3
    Unbuffered = {}
    KnownRun = FALSE
    Retention = FALSE
PROPERTIES ResumesSubscribed
CHECK_DEADLOCK FALSE
