SPECIFICATION Spec
CONSTANTS
  NCpu = 2
  MAX_TASKS = 2
  Program <- AnyProgram
  SleepMs = {1}
  EventMax = {1}
  TickLimit = 2
  KeyLimit = 1
INVARIANT RunsOnOneCpu
