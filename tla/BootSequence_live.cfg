SPECIFICATION FairSpec
CONSTANTS
  Release = TRUE
  Grub = TRUE
  ResizeData = FALSE
  NoArgs = none
  Args = {none, a1}
PROPERTIES
  BootSettles
  RollbackReported
