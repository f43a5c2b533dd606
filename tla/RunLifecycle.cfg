CONSTANTS
    a = a
    b = b
    None = None
    Ideas = {a}
    Backends = {"card", "session"}
    Callers = {"board"}
    MaxSessions = 2
    MaxCrashes = 1
    MaxQueue = 1
SPECIFICATION FairSpec
INVARIANTS
    TypeOK
    RunsFollowed
    DirectRunShown
PROPERTIES
    RunsSettle
    FinishedReachesReview
CHECK_DEADLOCK FALSE
