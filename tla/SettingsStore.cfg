CONSTANTS
    a = a
    b = b
    None = None
    Tabs = {a, b}
    Workspaces = {"home", "work"}
    Models = {"small", "large"}
    MaxRevision = 3
SPECIFICATION Spec
INVARIANTS
    RevisionNamesMap
PROPERTIES
    FencedWritesSafe
CHECK_DEADLOCK FALSE
