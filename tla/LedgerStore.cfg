CONSTANTS
    idea = idea
    again = again
    run = run
    open = open
    close = close
    bad = bad
    Refused = Refused
    Torn = Torn
    Absent = Absent
    Items <- MCItems
    Stamp = run
    Requests <- MCRequests
    EffectOf <- MCEffectOf
    CacheLimit = 2
    Retention = 1
    Imports <- MCImports
    Faults = {"rename", "write"}
    MaxRevision = 2
    MaxKept = 2
SPECIFICATION Spec
SYMMETRY Symmetry
INVARIANTS
    TypeOK
    AnswersAreOnDisk
    CommittedOnce
    RevisionNamesBoard
PROPERTIES
    BoardsAreKept
CHECK_DEADLOCK FALSE
