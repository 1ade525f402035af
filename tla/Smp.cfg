CONSTANTS
  MAX_CPUS = 2
  SPINS = 2
  RECORD = 1
  MaxPanics = 1
  None = None
SPECIFICATION FairSpec
INVARIANTS
  LockOrder
  
PROPERTIES
  BootCompletes
  
CHECK_DEADLOCK FALSE
