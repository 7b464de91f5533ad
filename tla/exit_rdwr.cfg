SPECIFICATION Spec
CONSTANTS
    Setups <- MCSetups
    Modes <- MCReadWrite
    Size = 2
    Sizes = {1, 2}
    BufSizes = {0, 2}
    Habits = {}
INVARIANTS
    ExitComplete
CHECK_DEADLOCK FALSE
