SPECIFICATION FairSpec
CONSTANTS
  Byte <- MCByte
  Zero = 0
  Page = 2
  Size = 4
  Blksz = 2
  Grain = 8
  MaxPos = 6
  Initial <- MCInitial
  Payloads <- MCPayloads
  MaxRead = 5
  Ops <- AllOps
  Faults = {"writefail", "readfail", "shortread"}
INVARIANT PositionsAgree
INVARIANT BufferCoherent
PROPERTY SyncDurable
PROPERTY ImplementsFile
PROPERTY CallsReturn
