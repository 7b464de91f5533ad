SPECIFICATION Spec
CONSTANTS
  Setups <- MCSetups
  PipeSize = 2
  Most = 5
  Window = 5
  Sizes = {1, 2, 3}
  FilterSizes = {2, 3}
  Chunk = 2
INVARIANTS InOrder FilterComplete Protected
PROPERTIES PollRight CallsReturn
CHECK_DEADLOCK FALSE
