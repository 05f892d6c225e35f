CONSTANTS
  c1 = c1  c2 = c2  c3 = c3
  Calls <- OneCall
  Class <- OneE20
  Amount <- Once
  Invokes <- Once
  MaxTroubles = 1
SPECIFICATION Spec
CHECK_DEADLOCK FALSE
PROPERTY StatusMovesForward
