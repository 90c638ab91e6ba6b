SPECIFICATION Spec
CONSTANTS
  PARTITION_ALIGN = 256
  blockSize = 64
  numPartitionTableSectors = 2
  Word = 16777216
  Word32 = 65536
  Devices <- MCSmallest
  Offsets <- MCOffsets
  Sizes <- MCPlainSizes
  MaxParts = 1
INVARIANTS SpaceIsThere
CHECK_DEADLOCK FALSE
