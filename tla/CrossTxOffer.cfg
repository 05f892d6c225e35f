CONSTANTS
  l = l  d1 = d1  d2 = d2  v1 = v1  c1 = c1  c2 = c2
  LockCall = l
  RedeemCalls <- OneRedeem
  RevokeCalls <- None
  Checks <- OneCheck
  NoTx = NoTx
  Standard = "E20"  Inbound = TRUE
  T = 1
  MaxStart = 0
  TryTimes = 1
  MaxFaults = 1
  MaxCrashes = 0
SPECIFICATION Spec
CHECK_DEADLOCK FALSE
INVARIANT BuddyLockedCanRedeem
