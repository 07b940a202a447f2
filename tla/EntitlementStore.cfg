SPECIFICATION FairSpec
CONSTANTS
  h1 = h1  h2 = h2  t1 = t1  t2 = t2  pro = pro  max = max  app = app
  None = None
  Handlers = {h1, h2}
  Tokens = {t1}
  Owners = {t1, t2}
  Products = {pro, max}
  States <- MCStates
  App = app
  Transactions <- MCTransactions
  StatusLists <- MCStatusLists
  Failures <- MCFailures
  MaxChanges = 3
  MaxVerifies = 2
INVARIANTS TypeOK GrantOwned GrantTrue LookupAgrees
PROPERTIES Heals
CHECK_DEADLOCK FALSE
