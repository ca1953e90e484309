SPECIFICATION FairSpec
CONSTANTS
  Release = TRUE
  EtcPaths = {e1}
  DataPaths = {d1}
INVARIANTS
  TypeOK
  StatusTruthful
  PreservedSomewhere
  ResetNotRepeated
  FailureSignalled
PROPERTIES
  DestroyedUnmounted
  ResetAnswered
