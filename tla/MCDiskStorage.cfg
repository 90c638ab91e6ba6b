SPECIFICATION FairSpec
CONSTANTS
  driveSectors = 12
  sectorSize = 2
  GPT_ITEMS = 4
  entriesPerSector = 2
  Word32 = 1024
  partAlignSectors = 2
  Disks <- MCDisks
  Tables <- MCTables
  MaxFormats = 1
INVARIANTS TypeOK RoundTrip NothingInvented GptConsistent
PROPERTIES DataUntouched CallsReturn
