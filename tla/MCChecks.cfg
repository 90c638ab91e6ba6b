SPECIFICATION Spec
CONSTANTS
  Word32 = 268435456
  Texts <- MCTexts
  GPT_HEADER_SIZE <- MCHeaderSize
  Signature <- MCSignature
  HeaderFields <- MCHeaderFields
  Remnants <- MCRemnants
  DriveSizes <- MCDriveSizes
  Sectors <- MCSectors
  Volumes <- MCVolumes
  sectorSize = 2
  Size32 = 5
  Files <- MCFiles
  FileSizes <- MCFileSizes
INVARIANTS ChecksumIsCrc32 HeadersVerified GeometryInverts VolumesFound FilesReopen
CHECK_DEADLOCK FALSE
