SPECIFICATION Spec
CONSTANTS
  SectorCount = 2
  SectorSize = 2
  SectorModulus = 8
  Byte <- MCByte
  Erased = 0
  Junk = junk
  BufferCounts <- MCNoneOne
  MaxSize = 3
INVARIANTS TypeOK SlotDiscipline TransferInBounds ReadsInitialised
PROPERTIES CoherencePreserved ImplementsStorage
