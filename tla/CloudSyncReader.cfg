SPECIFICATION FairSpec
CONSTANTS
  d1 = d1  d2 = d2  x = x  y = y
  None = None  NoGroup = NoGroup
  Devices = {d1, d2}
  Writers = {d1}
  First <- MCEmpty
  Ids = {1,2}
  Bodies = {x}
  PageLimit = 1
  PushLimit = 2
  MaxSaves = 2
  MaxEdits = 3
  MaxLate = 1
  Faults = {"network", "kill"}
INVARIANTS NeverAhead SyncedIsLogged ReaderMirrors
PROPERTIES ChangesKept ImplementsReplica ReaderCatchesUp Drains
CHECK_DEADLOCK FALSE
