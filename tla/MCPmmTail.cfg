CONSTANTS
  PAGE_SIZE = 2
  BITS_PER_BYTE = 2
  BITS_PER_WORD = 4
  PMM_MAX_REGIONS = 3
  LOW_MEM = 4
  ZoneLimit <- Zones
  BootInfos <- BootInfosTail
  MaxRun = 3
SPECIFICATION Spec
INVARIANT ReservedNeverGiven
CHECK_DEADLOCK FALSE
