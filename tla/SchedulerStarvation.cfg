SPECIFICATION FairSpec
CONSTANTS
  NCpu = 1
  MAX_TASKS = 3
  Program <- Spinners
  SleepMs = {1}
  EventMax = {1}
  TickLimit = 2
  KeyLimit = 1
PROPERTY NoStarvation
