CONSTANTS
  Threads = {1, 2, 3, 4}
  Boot = 1
  Names = {a}
  PORT_CAPACITY = 1
  MaxPorts = 1
  MaxMessages = 2
SPECIFICATION FairSpec
PROPERTIES
  CloseReleasesReceivers
  AwaitedMessageDelivered
CHECK_DEADLOCK FALSE
