SPECIFICATION FairSpec
CONSTANTS
  PARTITION_ALIGN = 256
  blockSize = 64
  numPartitionTableSectors = 2
  Word = 16777216
  Word32 = 65536
  Devices <- MCDevices
  Offsets <- MCOffsets
  Sizes <- MCSizes
  MaxParts = 3
INVARIANTS TypeOK SuccessIsSound PercentagesFit
PROPERTIES NeverMoved Returns
CHECK_DEADLOCK FALSE
