CONSTANTS
  Threads = {1, 2, 3, 4}
  Boot = 1
  Names = {a}
  PORT_CAPACITY = 2
  MaxPorts = 2
  MaxMessages = 3
SPECIFICATION Spec
INVARIANTS
  DeliveryExact
  RegistryConsistent
PROPERTIES
  ClosedIsFinal
CHECK_DEADLOCK FALSE
