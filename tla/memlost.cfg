SPECIFICATION Spec
CONSTANTS
  MaxThreads = 2
  InstCapacity = 2
  DataCapacity = 2
  MaxLines = 7
  MaxHeader = 1
INVARIANT
  DataSectionsLoaded
CHECK_DEADLOCK FALSE
