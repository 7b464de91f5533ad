SPECIFICATION Spec
CONSTANTS
  w1 = w1
  w2 = w2
  w3 = w3
  r1 = r1
  Writers = {w1, w2, w3}
  Readers = {r1}
  AtStart = {w1}
  MaxOpen = 3
  Main = Main
  None = None
  Cap <- OneAndTwo
  ArrayLen = 2
  FileLen = 2
  Pools = 2
  MaxBytes = 2
  Modes = {"plain", "share"}
  Faults = {"writefail", "nomem"}
  MaxFaults = 1
SYMMETRY Alike
INVARIANTS ListsConsistent NothingLost Serial
PROPERTIES SyncAllDurable
