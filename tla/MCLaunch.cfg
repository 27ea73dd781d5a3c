SPECIFICATION LaunchSpec
CONSTANTS
  Word = 16
  N = 1
  Funds = 1
  CountMax = 2
  GiftMax = 0
  MaxTime = 2
  Limits = {1}
  Amounts = {1}
  m1 = m1
  r1 = r1
  r2 = r2
  Mints <- OneMint
  NoMint = NoMint
  Reserves <- OnePrice
  NoCurve = NoCurve
  OtherReserves = {}
  TokensOut = {3}
  Unspent = {0}
  Runs <- TwoRuns
  NoBundle = NoBundle
  NoRecord = NoRecord
  Torn = Torn
SYMMETRY RunSymmetry
VIEW Relevant
INVARIANTS
  LandedBuyIsFinal
  SubmittedIsRecorded
  RecordTellsAnswer
PROPERTIES
  RefundWindowIsFinal
  ImplementsSale
CHECK_DEADLOCK FALSE
