SPECIFICATION Spec
CONSTANTS
    BS = 3
    IntRange = 3
    MaxSpurious = 0
    N = 2
    Readers = {}
    Writers = {}
    Workers = 1
    maxThreads = 2
PROPERTY ConsumesStoredItem
