CONSTANTS
  MaxTid = 2
  TimerCpus = {0}
SPECIFICATION FairSpec
PROPERTIES
  TickPreempts
CHECK_DEADLOCK FALSE
