CONSTANTS
  Byte <- MCByte
  Sep = 2
  Nul = 0
  Kinds <- MCKinds
  BufSize = 2
  MaxInput = 3
  MaxBack = 1
  Blocks <- MCBlocks
  Ops = {"getr", "reserve", "read", "unget"}
SPECIFICATION Spec
PROPERTIES ImplementsReader LeavesRest
