SPECIFICATION Spec
CONSTANTS
  Word = 16
  N = 2
  Funds = 3
  CountMax = 2
  GiftMax = 1
  MaxTime = 5
  Limits = {0, 1, 4}
  Amounts = {0, 1, 2, 3}
  m1 = m1
  m2 = m2
  Mints <- TwoMints
  NoMint = NoMint
  Reserves <- Prices
  NoCurve = NoCurve
  OtherReserves <- OtherBytes
  TokensOut = {0, 3, 5}
  Unspent = {0, 1}
INVARIANTS
  TypeOK
  LedgerMatchesStakes
  SolFollowsStatus
  WholeUntilBuy
  BuyXorRefund
  CreatorGetsNoStake
  CountMatchesStakes
  RaiseWithinTerms
  StageAgreesWithChain
  VaultCoversClaims
  SameShareForAll
  NoDueCallFails
  ShareWithinRecordedPrice
  RefundsWaitForLaunch
PROPERTIES
  StakesFrozenAfterBuy
  Lifecycle
  ImplementsSale
CHECK_DEADLOCK FALSE
