SPECIFICATION FairSpec
CONSTANTS
  Radix = 4
  kMagic <- MCMagic
  Engines <- MCEngines
  Sources <- MCSources
  Chunk = 3
  NoEngine = NoEngine
INVARIANTS
  TypeOK
  RoundTrip
  NeverPartial
  InBounds
  AllocLinear
  AcceptedIsPacked
PROPERTY Returns
