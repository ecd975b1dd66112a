SPECIFICATION Spec
CONSTANTS
  a = a
  b = b
  c = c
  Node = {a, b, c}
  Source = {a}
  Creator = {client}
  Body = {x, y}
  InitPeers <- LinePeers
  MaxID = 2
  HandlerLimit = 1
  MongerLimit = 1
  NetCapacity = 1
INVARIANTS OriginAhead UniqueID
SYMMETRY Bodies
PROPERTIES ImplementsReplication
