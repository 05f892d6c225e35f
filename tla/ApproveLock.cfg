CONSTANTS
  c1 = c1  c2 = c2  c3 = c3
  Calls <- ThreeCalls
  Class <- AllClasses
  Amount <- Amounts
  Invokes <- Twice
  MaxTroubles = 1
SPECIFICATION Spec
CHECK_DEADLOCK FALSE
INVARIANTS TypeOK   LockedAsAsked ErrorIsRecorded
