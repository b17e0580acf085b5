SPECIFICATION FairSpec
CONSTANTS
  M1 = M1
  M2 = M2
  M3 = M3
  Models = {M1, M2, M3}
  Classes = {0, 1}
  Answer <- MCAnswer
  Size <- MCSize
  Commands <- MCCommands
  Addresses = {a1, a2}
  Null = Null
  Undef = Undef
  MaxRuns = 3
INVARIANTS
  TypeOK
  ExitTellsMatch
  BuffersLive
  RunsWholeEngine
PROPERTY
  RunEnds
