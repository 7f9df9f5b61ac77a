SPECIFICATION FairSpec
CONSTANTS
    Clients = {c1, c2}
    Room = 1
    MaxChunks <- OneTalks
INVARIANTS
    Registered
    NoneCutOff
    EchoesInOrder
PROPERTIES
    ShutdownEnds
    NoneLeaked
