SPECIFICATION Spec
CONSTANTS
  proj = proj  site = site  rec = rec
  NoGroup = NoGroup
  Existing = {proj, site}
  Entities = {proj, site, rec}
  Transactions <- MCLife
  Limit = 3
INVARIANTS DeleteReachesServer
CHECK_DEADLOCK FALSE
