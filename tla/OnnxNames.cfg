SPECIFICATION FairSpec
CONSTANTS
  Models <- MCModels
  Word <- MCWord
  FieldWord = 512
  Base = 100000
  Fallback <- MCFallback
INVARIANTS
  TypeOK
  Nested
  RealNames
  NeverOutOfStep
PROPERTY Returns
