SPECIFICATION Spec
CONSTANTS
  PARTITION_ALIGN = 256
  blockSize = 64
  numPartitionTableSectors = 2
  Word = 16777216
  Word32 = 65536
  Devices <- MCDevices
  Offsets <- MCOffsets
  Sizes <- MCSizes
  MaxParts = 1
INVARIANTS SizeIsInBytes
CHECK_DEADLOCK FALSE
