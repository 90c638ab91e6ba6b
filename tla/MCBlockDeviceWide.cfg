SPECIFICATION Spec
CONSTANTS
  SectorCount = 2
  SectorSize = 1
  SectorModulus = 2
  Byte <- MCByte
  Erased = 0
  Junk = junk
  BufferCounts <- MCNoneOne
  MaxSize = 1
INVARIANTS ReadsInitialised
