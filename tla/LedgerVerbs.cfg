CONSTANTS
    a = a
    b = b
    c = c
    None = None
    Ids = {a, b, c}
    RelationLimit = 3
    Workspaces = {"home", "work"}
    Ranks = {1, 2}
    TriageRanks <- MCTriageRanks
    Patches <- MCPatches
    Sources <- MCSources
    ImportOf <- MCImportOf
    MaxNumber = 4
    WorkspaceOrder <- MCWorkspaceOrder
    Filters <- MCFilters
    MaxGestures = 1
    MaxOthers = 1
SPECIFICATION VerbSpec
SYMMETRY Symmetry
INVARIANTS
    RelationsLive
    BlocksAcyclic
    RelatesSymmetric
    NoSelfParent
PROPERTIES
    NewNumberFresh
    MergeFoldsLoser
    TriageLands
    OneIdeaMoves
    ReorderHonoured
    DropLands
    OnlyTheCardMoves
CHECK_DEADLOCK FALSE
