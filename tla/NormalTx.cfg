CONSTANTS
  r1 = r1  r2 = r2  o1 = o1
  Calls <- TwoRefunds
  Kind <- RefundKinds
  Otas <- OneOta
  OtaTx <- SameOta
  TryTimes = 2
  MaxTroubles = 2
SPECIFICATION FairSpec
CHECK_DEADLOCK FALSE
INVARIANTS TypeOK FailedIsNotSent RefundIsSpent
PROPERTIES TellsItsFate SentIsSettled RefundIsNoted
