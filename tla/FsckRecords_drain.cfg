SPECIFICATION Spec
CONSTANTS
  Builds <- MCUboot
  Boot = "boot"
  Ext4 <- MCExt4
INVARIANTS
  KeptUntilStatus
