SPECIFICATION Spec
CONSTANTS
  Word = 8
  Bound = 7
INVARIANT TsMirrorsRust
