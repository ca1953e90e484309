SPECIFICATION Spec
CONSTANTS
  Release = TRUE
  EtcPaths = {e1}
  DataPaths = {d1}
INVARIANTS
  ResetAlwaysRecorded
