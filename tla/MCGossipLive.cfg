SPECIFICATION FairSpec
CONSTANTS
  a = a
  b = b
  c = c
  Node = {a, b}
  Source = {a}
  Creator = {client}
  Body = {x}
  InitPeers <- JoinPeers
  MaxID = 2
  HandlerLimit = 1
  MongerLimit = 0
  NetCapacity = 8
PROPERTIES Convergence
