SPECIFICATION Spec
CONSTANTS
  dynamic = dynamic
  static = static
  Contexts <- MCDynamicOnly
  Staged <- MCStaged
  NonBlocking <- MCDynamicOnly
  OutputCount = 2
  MaxRun = 2
INVARIANT ResultsMatch
CHECK_DEADLOCK FALSE
