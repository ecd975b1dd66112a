SPECIFICATION Spec
CONSTANTS
  a = a
  b = b
  Node = {a, b}
  AckAll = FALSE
  MaxBlocks <- TwoBlocks
  Repeated = FALSE
INVARIANTS TypeOK OneConfirmationPerRound NoLostWakeup MajorityConfirmed
PROPERTY ImplementsClock
SYMMETRY Alike
CHECK_DEADLOCK FALSE
