CONSTANTS
    a = a
    b = b
    None = None
    Ideas = {a, b}
    Backends = {"session"}
    Callers = {"board"}
    MaxSessions = 2
    MaxCrashes = 1
    MaxQueue = 1
SPECIFICATION Spec
INVARIANTS
    RestartReattaches
CHECK_DEADLOCK FALSE
