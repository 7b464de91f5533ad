SPECIFICATION AllSpec
CONSTANTS
  Byte <- MCByte
  Zero = 0
  Junk = 9
  Grain = 2
  Origins <- MCOrigins
  MaxPos = 5
  MaxSize = 8
  Payloads <- MCPayloads
  Ops = {"write", "read", "seek", "resize", "tell", "size", "sync"}
  Faults = {"nomem", "nofile"}
PROPERTY KindsAreFiles
