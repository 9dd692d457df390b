SPECIFICATION Spec
CONSTANTS
  indexBits = 1
  historySize = 1
  tagSize = 1
  FsmStates = {1}
  Shares = {0}
  PCs = {8, 16}
  Outcomes <- MCOutcomes
  HighBits = {FALSE, TRUE}
  MaxBranches = 2
INVARIANT
  HistoryIndexesTable
CHECK_DEADLOCK FALSE
