SPECIFICATION Spec
CONSTANTS
  Release = TRUE
  Grub = FALSE
  ResizeData = FALSE
  NoArgs = none
  Args = {none, a1}
INVARIANTS
  FatalWithUpdateReboots
