SPECIFICATION SpikeSpec
CONSTANTS
  f1 = f1
  l1 = l1
  p1 = p1
  FullRuns <- OneFull
  LiteRuns = {}
  ProbeRuns = {}
  Funding = 5
  FullFloor = 3
  LiteFloor = 2
  BuySol = 2
  Reserve = 1
  ProbeReserve = 1
  Tip = 1
  MinOut = 1
  Rents = {0, 1}
  TokensOut = {0, 2}
  LamportLimit = 3
  TokenLimit = 1
INVARIANT LandedIsProven
CHECK_DEADLOCK FALSE
