SPECIFICATION MainSpec
CONSTANTS
  Regs = {0, 1}
  Latencies = {0, 1, 3}
  MaxInsts = 3
  IntMax = 32767
  OpsFiles <- MCOpsFiles
  LongTails <- MCLongTails
  MAX_OPS = 2
  PROG_SIZE_QUOTA = 2
  MaxLines = 4
INVARIANTS
  TypeOK
  LinkedExact
  ProgDepthExact
  AnswersExact
  ProgramRead
