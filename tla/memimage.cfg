SPECIFICATION Spec
CONSTANTS
  MaxThreads = 2
  InstCapacity = 2
  DataCapacity = 2
  MaxLines = 8
  MaxHeader = 2
INVARIANTS
  TypeOK
  ImageLoaded
CHECK_DEADLOCK FALSE
