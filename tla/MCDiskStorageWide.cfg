SPECIFICATION Spec
CONSTANTS
  driveSectors = 12
  sectorSize = 2
  GPT_ITEMS = 4
  entriesPerSector = 2
  Word32 = 12
  partAlignSectors = 2
  Disks <- MCBlank
  Tables <- MCTables
  MaxFormats = 1
INVARIANTS RoundTrip
