SPECIFICATION Spec
CONSTANTS
  L1Ways = 2
  L1Sets = 1
  L2Ways = 2
  L2Sets = 2
  L1Cyc = 1
  L2Cyc = 5
  MemCyc = 100
  Block = {0, 1, 2, 3, 4}
  WrAllocs = {0, 1, 2}
  UintMax = 65535
  MaxAccesses = 5
INVARIANTS
  TypeOK
  Coherent
  WritesKept
  AccountingExact
PROPERTIES
  ImplementsLRU
