SPECIFICATION LabSpec
CONSTANTS
    BS = 3
    IntRange = 4
    MaxSpurious = 2
    N = 5
    Readers = {r1, r2, r3, r4, r5}
    Writers = {w1, w2}
    Workers = 4
    maxThreads = 3
INVARIANTS
    IndexInBounds
    PredicateHolds
    NoLostWakeup
    ForkExclusion
    WriterAlone
    Throttled
PROPERTIES
    ImplementsLifo
    Progress
