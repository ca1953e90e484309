SPECIFICATION FairSpec
CONSTANTS
  Release = TRUE
  Builds <- MCBuilds
  DiskLen = 4
  HeadLen = 3
  MaxU = 15
  Dumps <- MCDumps
  RawBmaps <- MCRawBmaps
  Uploads <- MCUploads
  Images <- MCImages
  RamSizes = {1, 2, 3}
  RamReserve = 1
INVARIANTS
  TypeOK
  MountsSafe
  BmapSound
  UploadNotStranded
  VerifiedBeforeDisk
  
PROPERTIES
  ImplementsDiskFlash
  BootEntryRemains
  FlashNotRepeated
