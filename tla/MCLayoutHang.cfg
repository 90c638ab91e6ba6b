SPECIFICATION FairSpec
CONSTANTS
  PARTITION_ALIGN = 256
  blockSize = 64
  numPartitionTableSectors = 2
  Word = 16777216
  Word32 = 65536
  Devices <- MCLargest
  Offsets <- MCLargestOffsets
  Sizes <- MCPlainSizes
  MaxParts = 2
PROPERTIES LocationIsFound
CHECK_DEADLOCK FALSE
