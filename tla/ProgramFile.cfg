SPECIFICATION FairSpec
CONSTANTS
  t1 = t1
  t2 = t2
  q1 = q1
  q2 = q2
  x1 = x1
  x2 = x2
  x3 = x3
  Threads <- MCThreads
  Programs <- MCPrograms
  Size <- MCSize
  Paths <- MCPaths
  Capacity = 3
  MaxCalls = 2
  Null = Null
INVARIANTS
  TypeOK
  OwnBytes
  LoadedIsSaved
  FilesAccounted
PROPERTY CallsReturn
