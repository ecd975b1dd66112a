SPECIFICATION Spec
CONSTANTS
  a = a
  b = b
  c = c
  x = x
  y = y
  z = z
  Node = {a, b, c}
  Name = {x, y, z}
  NoName = NoName
  Files <- OneEach
  Fitness <- Falling
  Hears <- ThroughC
  AckAll = FALSE
  Repeated = FALSE
INVARIANT ChainsAgree
CHECK_DEADLOCK FALSE
CONSTRAINT InTurn
