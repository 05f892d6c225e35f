CONSTANTS
  l = l  d1 = d1  d2 = d2  v1 = v1  c1 = c1  c2 = c2
  LockCall = l
  RedeemCalls <- TwoRedeems
  RevokeCalls <- OneRevoke
  Checks <- TwoChecks
  NoTx = NoTx
  Standard = "E20"  Inbound = TRUE
  T = 1
  MaxStart = 0
  TryTimes = 2
  MaxFaults = 2
  MaxCrashes = 1
SPECIFICATION Spec
CHECK_DEADLOCK FALSE
SYMMETRY Symmetry
INVARIANTS
  TypeOK LockFailKeepsNoFunds RestartLosesOnlyBuddyMark
  RedeemOfferIsGood RevokeOfferIsGood OffersExclude
PROPERTIES TellsWhatHappened SettledStays
