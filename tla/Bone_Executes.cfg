SPECIFICATION FairSpec
CONSTANTS
    Habits = {{}}
    MaxEdits = 1
    MaxPrograms = 2
    Flawed = FALSE
    Timely = TRUE
CHECK_DEADLOCK FALSE
PROPERTY AlwaysExecutes
