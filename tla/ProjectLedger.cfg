SPECIFICATION Spec
CONSTANTS
  p1 = p1
  p2 = p2
  r1 = r1
  r2 = r2
  None = None
  Projects <- MCProjects
  Records <- MCRecords
  Hours = {1}
  Rates = {1, 2}
  Quantity <- MCQuantity
  MaxFen = 1
  MaxGroups = 1
  MaxFlows = 2
SYMMETRY Symmetric
INVARIANTS
  TypeOK
  BooksSound
