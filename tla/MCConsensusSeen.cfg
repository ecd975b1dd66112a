SPECIFICATION Spec
CONSTANTS
  a = a
  b = b
  c = c
  x = x
  y = y
  z = z
  Node = {a, b}
  Name = {x, y, z}
  NoName = NoName
  Files <- TwoEach
  Fitness <- TurnAbout
  Hears <- EachOther
  AckAll = FALSE
  Repeated = FALSE
INVARIANT SeenWhenChecked
CHECK_DEADLOCK FALSE
