SPECIFICATION FairLaunchSpec
CONSTANTS
  Word = 16
  N = 2
  Funds = 2
  CountMax = 2
  GiftMax = 0
  MaxTime = 2
  Limits = {1, 3}
  Amounts = {1, 2}
  m1 = m1
  r1 = r1
  r2 = r2
  Mints <- OneMint
  NoMint = NoMint
  Reserves <- TwoPrices
  NoCurve = NoCurve
  OtherReserves = {}
  TokensOut = {0, 3}
  Unspent = {0}
  Runs <- OneRun
  NoBundle = NoBundle
  NoRecord = NoRecord
  Torn = Torn
PROPERTIES
  SaleSettles
  StakeIsSpentOrReturned
CHECK_DEADLOCK FALSE
