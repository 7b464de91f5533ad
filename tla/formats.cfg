CONSTANTS
    UBits = 3
    BBits = 4
    LongBits = 12
    MaxGroups = 4
    BufSize = 4
    MaxFails = 1
    MaxZeros = 100
    Thousand = 44
    Bits <- MCBits
    Tasks <- MCTasks
SPECIFICATION Spec
INVARIANTS
    AsAsked
    FitsField
    ReadsBack
