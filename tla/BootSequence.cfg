SPECIFICATION Spec
CONSTANTS
  Release = FALSE
  Grub = FALSE
  ResizeData = TRUE
  NoArgs = none
  Args = {none, a1}
INVARIANTS
  TypeOK
  FirstBootNeverAfterUpdate
  MarkerMeansStepsDone
  PendingUpdateNotStranded
  BootargsRebootOnce
  ConfNotStale
PROPERTIES
  FlagsClearedInOrder
