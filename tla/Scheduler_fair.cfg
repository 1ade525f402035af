CONSTANTS
  MaxTid = 3
  TimerCpus = {}
SPECIFICATION CooperativeSpec
PROPERTIES
  NoStarvation
CHECK_DEADLOCK FALSE
