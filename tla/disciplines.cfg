SPECIFICATION Spec
CONSTANTS
  Starts <- MCStarts
  Counts <- MCCounts
  Data <- MCData
  Targets <- MCTargets
  MaxLength = 4
  Width = 2
  Magic <- MCMagic
  BufSize = 4
  Chunk = 3
  CR = 13
  LF = 10
  Address = {1, 3}
  Bucket <- MCBucket
  Newline = 10
  StdioSize = 2
  Habits = {}
INVARIANT TeeHasAll
INVARIANT TableRight
PROPERTY ImplementsSource
CHECK_DEADLOCK FALSE
