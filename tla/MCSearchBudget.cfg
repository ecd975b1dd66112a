SPECIFICATION FairSpec
CONSTANTS
  a = a
  b = b
  c = c
  d = d
  x = x
  Node = {a, b, c, d}
  Search = {x}
  OriginOf <- FromA
  Requested <- NoBudget
  InitPeers <- MeshPeers
  Introductions <- TailTurnsUp
  defaultBudget = 3
  maxBudget = 3
  MaxUint64 = 15
  MaxGranted = 7
INVARIANTS TypeOK BudgetConserved TravelBounded
PROPERTIES IncrementalSearchEnds RequestsDieOut
CHECK_DEADLOCK FALSE
