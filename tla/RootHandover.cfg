SPECIFICATION Spec
CONSTANTS
  Failed = Failed
  Images <- MCImages
  FactoryFiles = {f1, f2}
  Links <- MCLinks
  DataLinks <- MCDataLinks
  Modules <- MCModules
  ConfLines <- MCConfLines
  ModDep <- MCModDep
  Needs <- MCNeeds
  Builtin <- MCBuiltin
  MaxOdd = 3
INVARIANTS
  TypeOK
  ShellKeepsMounts
  
  ListConsumedMeansLinked
  ModulesReported
