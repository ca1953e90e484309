SPECIFICATION FairSpec
CONSTANTS
  Builds <- MCDebug
  Boot = "boot"
  Ext4 <- MCData
PROPERTIES
  RecordReachesOds
  BadRecordGoes
