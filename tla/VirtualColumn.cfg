CONSTANTS
    None = None
    x = x
    y = y
    a = a
    b = b
    c = c
    d = d
    Columns = {x, y}
    Ids = {a, b, c, d}
    Boards <- MCBoards
    Estimate <- MCEstimate
    Heights = {1, 3}
    Viewports = {2, 3}
    Overscan = 1
    MinRows = 1
    MaxEvents = 2
    MaxCalls = 16
SPECIFICATION Spec
INVARIANTS
    TypeOK
    ViewportFilled
    ReaderStays
    ComesToRest
CHECK_DEADLOCK FALSE
