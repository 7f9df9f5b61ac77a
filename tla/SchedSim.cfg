SPECIFICATION AllSpec
CONSTANTS
    Workloads <- Small
    Arguments <- Arglists
    timeQuantum = 5
    Word = 256
    MaxTicks = 160
INVARIANTS
    Conservation
    WorkConserving
    QuantumKept
    Accounting
PROPERTIES
    ShortestRuns
    Terminates
    SameSchedule
