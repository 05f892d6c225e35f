CONSTANTS
  l = l  n = n  d1 = d1  v1 = v1  c1 = c1  c2 = c2
  LockCall = l
  NoticeCall = n
  RedeemCalls <- OneRedeem
  RevokeCalls <- OneRevoke
  Checks <- TwoChecks
  NoTx = NoTx
  WalletAsks = TRUE
  MaxFaults = 1
  MaxExpiries = 1
  MaxCrashes = 1
SPECIFICATION FairSpec
CHECK_DEADLOCK FALSE
INVARIANTS TypeOK FailedKeepsNoFunds ConfirmedIsDeep OfferCanBeTaken
PROPERTIES TellsWhatHappened SettledStays LockedIsRecoverable RedeemIsTold
