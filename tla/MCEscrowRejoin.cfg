SPECIFICATION Spec
CONSTANTS
  Word = 16
  N = 2
  Funds = 3
  CountMax = 2
  GiftMax = 0
  MaxTime = 5
  Limits = {0, 1, 2, 4}
  Amounts = {0, 1, 2, 3}
  m1 = m1
  m2 = m2
  Mints <- OneMint
  NoMint = NoMint
  Reserves <- Prices
  NoCurve = NoCurve
  OtherReserves = {}
  TokensOut = {0, 3, 5}
  Unspent = {0, 1}
INVARIANT
  AnyoneMayContribute
CHECK_DEADLOCK FALSE
