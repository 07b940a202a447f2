SPECIFICATION BackupSpec
CONSTANTS
  d1 = d1  d2 = d2  x = x  y = y
  None = None  NoGroup = NoGroup
  Devices = {d1, d2}
  Writers = {d1}
  Uploaders = {d2}
  Restorers = {}
  Given = {None}
  First <- MCEmpty
  Ids = {1}
  Bodies = {x}
  PageLimit = 2
  PushLimit = 2
  MaxSaves = 2
  MaxEdits = 2
  MaxLate = 1
  Faults = {}
INVARIANTS SnapshotCoversWatermark
CHECK_DEADLOCK FALSE
