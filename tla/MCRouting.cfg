SPECIFICATION Spec
CONSTANTS
  a = a
  b = b
  d = d
  Node = {a, b, d}
  Source = {d}
  Client = {a}
  Link <- RingLink
  HopLimit = 1
  MaxID = 2
  NoRoute = NoRoute
INVARIANTS TypeOK LoopFree LastIDIsLargest RouteLeadsOn RouteFromRumor
