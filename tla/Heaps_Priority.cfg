SPECIFICATION HeapsSpec
CONSTANTS
    Items = {1, 2, 3}
    hSize = 4
INVARIANT TasksInOrder
CHECK_DEADLOCK FALSE
