SPECIFICATION LabsSpec
CONSTANTS
    Keys = {1, 2, 3, 4, 5, 6, 7}
    M = 5
    Items = {1, 2, 3}
    hSize = 6
    Lists <- SomeLists
    Rows = 2
    Columns = 2
    Data = {1, 2}
    freeListSize = 4
    Numbers = {1, 2, 3}
    HALF = 2
    Operands = {0, 1, 3, 4, 7, 16, 21, 63}
    MaxValue = 80
    MaxBlocks = 5
    Texts <- SomeTexts
    Words <- SomeWords
    Letters <- SomeLetters
    MaxUnary = 3
    Lines <- SomeLines
    Requests <- SomeRequests
    Alphabet <- SomeAlphabet
    MaxSaid = 4
    CommandLines <- SomeCommandLines
    Keyed <- SomeKeyed
    ExitLine <- SomeExitLine
    MaxEntries = 3
INVARIANTS
    SearchTreesKept
    HeapsKept
    NodesKept
    ListsAgree
    BigNumbersAgree
    DecryptsWhatItEncrypts
    MachinesAgree
    PeersAgree
    TerminalHeld
    LineKept
PROPERTY LineEnds
CHECK_DEADLOCK FALSE
