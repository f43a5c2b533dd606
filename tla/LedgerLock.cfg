CONSTANTS
    a = a
    b = b
    c = c
    d = d
    e = e
    p = p
    q = q
    None = None
    Unreadable = Unreadable
    Hosts = {a, b, c, d, e}
    Pids = {p, q}
    PidOf <- MCPidOf
    CanSignal <- MCCanSignal
SPECIFICATION Spec
INVARIANTS
    SingleWriter
PROPERTIES
    TurnedAwayForCause
SYMMETRY MCAlike
CHECK_DEADLOCK FALSE
