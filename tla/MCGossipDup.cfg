SPECIFICATION Spec
CONSTANTS
  a = a
  b = b
  c = c
  Node = {a, b}
  Source = {a}
  Creator = {client, timer}
  Body = {x, y}
  InitPeers <- PairPeers
  MaxID = 2
  HandlerLimit = 1
  MongerLimit = 1
  NetCapacity = 1
INVARIANTS UniqueID
