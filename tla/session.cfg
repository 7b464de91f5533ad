SPECIFICATION Spec
CONSTANTS
    Setups <- MCSetups
    Modes <- MCModes
    Size = 2
    Sizes = {1, 2}
    BufSizes = {0, 2}
    Habits = {}
INVARIANTS
    NothingLost
    InPlace
    EventsRight
    ExitComplete
CHECK_DEADLOCK FALSE
