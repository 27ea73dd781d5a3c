SPECIFICATION LaunchSpec
CONSTANTS
  Word = 16
  N = 1
  Funds = 1
  CountMax = 2
  GiftMax = 0
  MaxTime = 2
  Limits = {1}
  Amounts = {1}
  m1 = m1
  r1 = r1
  r2 = r2
  Mints <- OneMint
  NoMint = NoMint
  Reserves <- OnePrice
  NoCurve = NoCurve
  OtherReserves = {}
  TokensOut = {0, 3}
  Unspent = {0, 1}
  Runs <- OneRun
  NoBundle = NoBundle
  NoRecord = NoRecord
  Torn = Torn
INVARIANT
  StateFileReadable
CHECK_DEADLOCK FALSE
