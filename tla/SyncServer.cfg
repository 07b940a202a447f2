SPECIFICATION FairLogSpec
CONSTANTS
  h1 = h1  h2 = h2  a1 = a1  a2 = a2  e1 = e1  e2 = e2  p = p  q = q
  None = None
  Handlers = {h1, h2}
  Accounts = {a1, a2}
  Entities = {e1, e2}
  Hashes = {p, q}
  Batches <- MCBatches
  MaxBatch = 2
  MaxPull = 2
  Sinces = {0, 1}
  Limits = {1, 3}
INVARIANTS TypeOK LogWellFormed HeadsMatchLog PageComplete AcceptedIsCommitted
PROPERTIES AppendOnly PushAnswered ImplementsLog
