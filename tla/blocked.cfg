SPECIFICATION BlockedSpec
CONSTANTS
  RegsCount = 2
  DataWords = 4
  DataStart = 8
  UintMax = 65535
  NumThreads = 3
  Programs <- MCPrograms
  Image <- MCImage
  Latencies = {0, 2, 3}
  Overheads = {0, 1, 3}
  Uninitialised = {}
INVARIANTS
  TypeOK
  NeverPastHalt
  ScheduleInvisible
  ScanInv
PROPERTIES
  SwitchOnlyOnWait
  ImplementsBlocked
  AllThreadsHalt
