SPECIFICATION FairSpec
CONSTANTS
  NCpu = 1
  MAX_TASKS = 2
  Program <- AnyProgram
  SleepMs = {1, 2}
  EventMax = {1, 2}
  TickLimit = 5
  KeyLimit = 3
INVARIANTS ReadyIsOffCpu NoLostWakeup
PROPERTIES NoEarlyWake NoStarvation SleepersWake
