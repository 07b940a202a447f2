SPECIFICATION Spec
CONSTANTS
  h1 = h1  h2 = h2  u1 = u1  u2 = u2  b1 = b1  b2 = b2
  None = None
  Handlers = {h1, h2}
  Users = {u1, u2}
  Ids = {b1, b2}
  MaxRequests = 1
  Window = 1
  MaxClock = 2
SYMMETRY Symmetry
INVARIANTS TypeOK Restorable ListComplete DownloadServed LimitHeld
CHECK_DEADLOCK FALSE
