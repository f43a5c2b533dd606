CONSTANTS
    a = a
    b = b
    None = None
    Ideas = {a, b}
    Backends = {"session"}
    Callers = {"agent"}
    MaxSessions = 2
    MaxCrashes = 1
    MaxQueue = 1
SPECIFICATION FairSpec
PROPERTIES
    RunsSettle
CHECK_DEADLOCK FALSE
