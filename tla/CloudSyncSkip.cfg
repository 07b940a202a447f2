SPECIFICATION Spec
CONSTANTS
  d1 = d1  d2 = d2  x = x  y = y
  None = None  NoGroup = NoGroup
  Devices = {d1, d2}
  Writers = {d1, d2}
  First <- MCSeeded
  Ids = {1, 2}
  Bodies = {x, y}
  PageLimit = 2
  PushLimit = 2
  MaxSaves = 2
  MaxEdits = 2
  MaxLate = 1
  Faults = {}
PROPERTIES NoneSkipped
CHECK_DEADLOCK FALSE
