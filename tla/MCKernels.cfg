SPECIFICATION KernelsSpec
CONSTANTS
    Width = 4
    Height = 3
    Banner <- SomeBanner
    Codes <- SomeCodes
    Typed = {"x"}
    MaxLines = 1
    Procs = {p1}
    Strings = {a, b, c}
    Capacities = {0, 1, 2, 3, 4}
    AllocLimit = 3
INVARIANTS
    ScreenCurrent
    LinesCounted
    PopReadsInside
    DeliversRecent
PROPERTIES
    TypingUndone
CHECK_DEADLOCK FALSE
