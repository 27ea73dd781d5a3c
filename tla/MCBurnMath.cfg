SPECIFICATION Spec
CONSTANTS
  Word = 16
  Bound = 9
INVARIANTS
  
  SplittingNeverGains
  WholeStakeIsWholeShare
  MirrorErrsOneWay
