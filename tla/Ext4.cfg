CONSTANTS
  BlocksTotal = 27
  BlocksPerGroup = 14
  InodesTotal = 5
  InodesPerGroup = 3
  Reserved <- MCReserved
  Occupied <- MCOccupied
  ROOT_INO = 1
  RootDirBlock = 1
  RootMax = 2
  LeafMax = 4
  DirMax = 3
  NameSize <- MCNameSize
  Short = {s}
  Name = {a, b, c, d, s}
  METADATA_CSUM = TRUE
  CSUM_SEED = TRUE
  MaxLen = 3
  MaxSize <- MCMaxSize
  MaxGap = 1
  MaxCalls = 4
  MaxFaults = 1
SYMMETRY Symmetry
SPECIFICATION Spec
CHECK_DEADLOCK FALSE
INVARIANTS TypeOK RefsAllocated BlocksOwnedOnce AckedKept OwnData CountsTrack
 
