SPECIFICATION FairSpec
CONSTANTS
    Habits = {{}}
    MaxEdits = 2
    MaxPrograms = 3
    Flawed = FALSE
    Timely = TRUE
CHECK_DEADLOCK FALSE
PROPERTY Rebuilt
