SPECIFICATION SimsSpec
CONSTANTS
  L1Ways = 2
  L1Sets = 2
  L2Ways = 2
  L2Sets = 4
  Block = {0, 1, 2, 4, 8}
  WrAllocs = {0, 1}
INVARIANTS
  Coherent
  WritesKept
  RankedMatches
  VectorConsistent
  VectorMatches
