SPECIFICATION RingSpec
CONSTANTS
    Procs = {p1, p2}
    Strings = {a, b, c}
    Capacities = {2}
    AllocLimit = 3
INVARIANT PopHasItem
CHECK_DEADLOCK FALSE
