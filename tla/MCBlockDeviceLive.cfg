SPECIFICATION FairSpec
CONSTANTS
  SectorCount = 3
  SectorSize = 1
  SectorModulus = 8
  Byte <- MCByte
  Erased = 0
  Junk = junk
  BufferCounts <- MCTwo
  MaxSize = 2
INVARIANTS SlotDiscipline FlushProgress
PROPERTIES ImplementsStorage CallReturns
