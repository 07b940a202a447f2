SPECIFICATION BackupSpec
CONSTANTS
  d1 = d1  d2 = d2  x = x  y = y
  None = None  NoGroup = NoGroup
  Devices = {d1, d2}
  Writers = {d1, d2}
  Uploaders = {d1}
  Restorers = {d2}
  Given <- MCGiven
  First <- MCSeeded
  Ids = {1}
  Bodies = {x, y}
  PageLimit = 2
  PushLimit = 2
  MaxSaves = 3
  MaxEdits = 3
  MaxLate = 0
  Faults = {}
INVARIANTS TypeOK BackupTypeOK NeverAhead SyncedIsLogged
PROPERTIES ParkedNotCovered KeptUnlessRestored
CHECK_DEADLOCK FALSE
