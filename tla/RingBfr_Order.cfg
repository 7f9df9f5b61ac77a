SPECIFICATION RingSpec
CONSTANTS
    Procs = {p1}
    Strings = {a, b, c}
    Capacities = {3}
    AllocLimit = 3
PROPERTY PopsOldest
