SPECIFICATION FinegrainedSpec
CONSTANTS
  RegsCount = 2
  DataWords = 4
  DataStart = 0
  UintMax = 15
  NumThreads = 2
  Programs <- WrapPrograms
  Image <- WrapImage
  Latencies = {5, 6, 7}
  Overheads = {0}
  Uninitialised <- Garbage
INVARIANT
  NeverPastHalt
