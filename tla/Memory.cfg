SPECIFICATION Spec
CONSTANTS
  CPU = {0, 1}
  BSP = 0
  MemMaps <- Maps
  WordBits = 4
  WordsPerPage = 4
  Levels = 4
  Radix = 3
  HEAP_ALIGN = 2
  HEAP_BLOCK_SIZE = 4
  Workloads <- SerialCalls
  UnmapPages = {7}
  MmapPages = {2, 17}
  USER_ADDRESS_MAX = 54
  MMAP_BASE = 6
  FB_USER_BASE = 5
  USER_STACK_TOP = 52
  KHEAP_START = 60
  USER_STACK_PAGES = 1
  GuardPages = 1
  FbFrames <- Screen
  HeapPages = 2
  PageBytes = 20
  CellsPerPage = 2
  Images <- Files
  KERNEL_STACK_SIZE = 7
  MAX_TASKS = 1
INVARIANTS TypeOK FramesOwnedOnce GrantedRanges HeapSound LoadedIntact
PROPERTIES MappingStable AllocComplete MmapReleases
CHECK_DEADLOCK FALSE
