SPECIFICATION FairSpec
CONSTANTS
  Threads = {o, t, u}
  None = none
  Opener = o
  Variants <- AllVariants
  Calls <- MCCalls
  Disciplined = {}
  Callers <- MCCallers
  MaxDepth = 2
INVARIANT MutualExclusion
INVARIANT CountIsDepth
PROPERTY ImplementsLock
PROPERTY NeverBlocks
