CONSTANTS
  c1 = c1  c2 = c2  c3 = c3  eth = eth
  Calls <- ThreeCalls
  Accounts <- OneAccount
  Account <- AllEth
  Creator <- LockAndRedeems
  NonceGiven <- AllCalls
  OwnNonces <- One
  MaxOutside = 2
  MaxCrashes = 2
SPECIFICATION FairSpec
CHECK_DEADLOCK FALSE
INVARIANTS TypeOK  OnlyStraysAreReused
PROPERTIES MutexIsServed ServesAsDesk
