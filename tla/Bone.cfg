SPECIFICATION FairSpec
CONSTANTS
    Habits = {{}, {"r", "q"}}
    MaxEdits = 2
    MaxPrograms = 3
    Flawed = TRUE
    Timely = FALSE
CHECK_DEADLOCK FALSE
INVARIANTS
    Tracked
PROPERTIES
    Executes
    Rebuilds
    Prompt
