CONSTANTS
  k1 = k1  k2 = k2  other = other  o1 = o1  o2 = o2  o3 = o3
  Accounts <- TwoAccounts
  Otas <- TwoOtas
  OtaAt <- AtTwo
  OtaOf <- OfTwo
  MaxHeight = 3
  Boundary = 0
  BatchSize = 1  BatchMax = 2  BatchMin = 1
  Few = 1  Many = 1
  OneTime = 1
  RingSize = 2
  Lag = 1
  MaxTroubles = 1
SPECIFICATION FairSpec
CHECK_DEADLOCK FALSE
PROPERTIES OthersAreStillFound
