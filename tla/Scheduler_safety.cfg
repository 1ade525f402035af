CONSTANTS
  MaxTid = 4
  TimerCpus = {0, 1}
SPECIFICATION Spec
INVARIANTS
  RunqueueOwnsThreads
  ContextComplete
  InterruptMaskRestored
  SuccessorQueued
  FreedStackUndisturbed
PROPERTIES
  ImplementsRoundRobin
CHECK_DEADLOCK FALSE
