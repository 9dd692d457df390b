SPECIFICATION Spec
CONSTANTS
  RegsCount = 2
  DataWords = 4
  DataStart = 8
  UintMax = 65535
  NumThreads = 2
  Programs <- SimPrograms
  Image <- MCImage
  Latencies = {0, 2, 3}
  Overheads = {0, 2}
  Uninitialised = {}
INVARIANTS
  PrintedRegistersAgree
  SecondRunSeesFirst
  SameInstructions
