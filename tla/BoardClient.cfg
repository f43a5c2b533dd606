CONSTANTS
    Ideas = {a, b}
    Bound = {a}
    Undos = 2
    None = None
    FirstBoards <- MCFirstBoards
    StackLimit = 2
    MaxEvents = 3
SPECIFICATION Spec
INVARIANTS
    TypeOK
PROPERTIES
    UndoPutsBack
    ReportTells
    NothingElseLeftOpen
CHECK_DEADLOCK FALSE
