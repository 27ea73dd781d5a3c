SPECIFICATION SpikeSpec
CONSTANTS
  f1 = f1
  l1 = l1
  p1 = p1
  FullRuns <- OneFull
  LiteRuns <- OneLite
  ProbeRuns <- OneProbe
  Funding = 4
  FullFloor = 3
  LiteFloor = 2
  BuySol = 1
  Reserve = 1
  ProbeReserve = 1
  Tip = 1
  MinOut = 1
  Rents = {0, 1}
  TokensOut = {0, 2}
  LamportLimit = 2
  TokenLimit = 1
INVARIANTS
  SpikeTypeOK
  ReportIsEarned
  OneBuyPerRun
  RejectionIsFinal
CHECK_DEADLOCK FALSE
