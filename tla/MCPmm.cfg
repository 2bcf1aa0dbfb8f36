CONSTANTS
  PAGE_SIZE = 2
  BITS_PER_BYTE = 2
  BITS_PER_WORD = 4
  PMM_MAX_REGIONS = 3
  LOW_MEM = 4
  ZoneLimit <- Zones
  BootInfos <- BootInfosCovered
  MaxRun = 3
SPECIFICATION Spec
INVARIANTS TypeOK Accounting ExclusiveOwnership ReservedNeverGiven NoFrameLost AllocComplete
CHECK_DEADLOCK FALSE
