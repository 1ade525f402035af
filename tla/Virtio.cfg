CONSTANTS
  IdxMod = 8
  SyncQueues = {"tx", "blk"}
  ChainLength <- MCChainLength
  QueueSizes <- MCQueueSizes
  MaxFrames = 9
SPECIFICATION FairSpec
INVARIANTS
  FreeListSound
  QueueNeverFull
  DeviceOnlyOwnsInFlight
  FramesDeliveredInOrder
  EchoAnsweredOnce
PROPERTIES
  RequestCompletes
CHECK_DEADLOCK FALSE
