SPECIFICATION Spec
CONSTANTS
  Port = {1, 2}
  Capacity <- TwoDrives
  WindowSectors = 2
  XFER_SPINS = 2
  Layouts <- DriveLayouts
  MAX_PARTITIONS = 3
  Payload = {1}
  MaxRequests = 2
INVARIANTS TypeOK TransfersFaithful MountSound
PROPERTIES SlotQuiet PartitionConfined XferReturns
CHECK_DEADLOCK FALSE
