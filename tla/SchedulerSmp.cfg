SPECIFICATION Spec
CONSTANTS
  NCpu = 2
  MAX_TASKS = 3
  Program <- LastNeverBlocks
  SleepMs = {1}
  EventMax = {1}
  TickLimit = 2
  KeyLimit = 1
INVARIANTS TypeOK IInv ReadyIsOffCpu ExclusiveExecution NoTaskLost TrapsOnOwnStack FrameIsOwn
PROPERTIES DeadStaysDead
