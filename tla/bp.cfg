SPECIFICATION Spec
CONSTANTS
  indexBits = 1
  historySize = 1
  tagSize = 1
  FsmStates = {1}
  Shares = {0, 1, 2}
  PCs = {8, 16, 20, 65544}
  Outcomes <- MCOutcomes
  HighBits = {FALSE, TRUE}
  MaxBranches = 4
INVARIANTS
  TypeOK
  PredictionExact
  FlushesExact
PROPERTY
  EntriesIndependent
CHECK_DEADLOCK FALSE
