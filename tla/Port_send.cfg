CONSTANTS
  Threads = {1, 2, 3, 4}
  Boot = 1
  Names = {a}
  PORT_CAPACITY = 1
  MaxPorts = 2
  MaxMessages = 2
SPECIFICATION Spec
INVARIANTS
  SendTriesAgain
CHECK_DEADLOCK FALSE
