SPECIFICATION Spec
CONSTANTS
  Word = 16
  N = 2
  Funds = 2
  CountMax = 2
  GiftMax = 0
  MaxTime = 3
  Limits = {0, 1, 2, 3}
  Amounts = {0, 1, 2}
  m1 = m1
  m2 = m2
  Mints <- OneMint
  NoMint = NoMint
  Reserves <- Prices
  NoCurve = NoCurve
  OtherReserves = {}
  TokensOut = {0, 3, 5}
  Unspent = {0, 1}
INVARIANT
  SettledPoolCanClose
CHECK_DEADLOCK FALSE
