SPECIFICATION Spec
CONSTANTS
  Builds <- MCBuilds
  Boot = "boot"
  Ext4 <- MCExt4
INVARIANTS
  TypeOK
  RecordKept
  StatusIsCurrent
