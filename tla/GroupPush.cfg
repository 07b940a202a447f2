SPECIFICATION Spec
CONSTANTS
  proj = proj  site = site  rec = rec
  NoGroup = NoGroup
  Existing = {proj, site}
  Entities = {proj, site, rec}
  Transactions <- MCRecord
  Limit = 3
INVARIANTS TypeOK NothingLost GroupOrder
CHECK_DEADLOCK FALSE
