CONSTANTS
  MaxTid = 2
  TimerCpus = {0}
SPECIFICATION Spec
INVARIANTS
  RunqueueUninterruptible
CHECK_DEADLOCK FALSE
