CONSTANTS
  BlocksTotal = 27
  BlocksPerGroup = 14
  InodesTotal = 5
  InodesPerGroup = 3
  Reserved <- MCReserved
  Occupied <- MCOccupied
  ROOT_INO = 1
  RootDirBlock = 1
  RootMax = 2
  LeafMax = 3
  DirMax = 3
  NameSize <- MCNameSize
  Short = {}
  Name = {a}
  METADATA_CSUM = TRUE
  CSUM_SEED = FALSE
  MaxLen = 1
  MaxSize <- MCMaxSize
  MaxGap = 1
  MaxCalls = 5
  MaxFaults = 0
SPECIFICATION Spec
CHECK_DEADLOCK FALSE
INVARIANT AllAckedKept
