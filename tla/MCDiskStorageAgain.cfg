SPECIFICATION Spec
CONSTANTS
  driveSectors = 12
  sectorSize = 2
  GPT_ITEMS = 2
  entriesPerSector = 1
  Word32 = 1024
  partAlignSectors = 2
  Disks <- MCBlank
  Tables <- MCTwoTables
  MaxFormats = 2
INVARIANTS RoundTrip GptConsistent
