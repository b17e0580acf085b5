SPECIFICATION FairSpec
CONSTANTS
  dynamic = dynamic
  static = static
  Contexts <- MCContexts
  Staged <- MCStaged
  NonBlocking <- MCNone
  OutputCount = 2
  MaxRun = 2
INVARIANTS
  TypeOK
  ResultsMatch
  GraphInfers
PROPERTIES
  HostCopiesOrdered
  ServiceSpec
  Delivered
  CallReturns
CHECK_DEADLOCK FALSE
