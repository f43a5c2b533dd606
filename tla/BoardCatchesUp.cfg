CONSTANTS
    Ideas = {a}
    Bound = {a}
    Undos = 1
    None = None
    FirstBoards <- MCArchived
    StackLimit = 2
    MaxEvents = 3
SPECIFICATION FairSpec
PROPERTIES
    RunsEnd
    CatchesUp
CHECK_DEADLOCK FALSE
