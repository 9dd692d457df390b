SPECIFICATION Spec
CONSTANTS
  MaxThreads = 2
  InstCapacity = 2
  DataCapacity = 8
  MaxLines = 7
  MaxHeader = 1
INVARIANT
  AnyProgramLoads
CHECK_DEADLOCK FALSE
