SPECIFICATION Spec
CONSTANTS
  a = a
  b = b
  c = c
  d = d
  x = x
  Node = {a, b, c}
  Search = {x}
  OriginOf <- FromA
  Requested <- NoBudget
  InitPeers <- HalfPeers
  Introductions <- ThirdTurnsUp
  defaultBudget = 2
  maxBudget = 2
  MaxUint64 = 7
  MaxGranted = 4
INVARIANT BudgetConserved
CHECK_DEADLOCK FALSE
