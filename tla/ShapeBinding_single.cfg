SPECIFICATION Spec
CONSTANTS
  Graphs <- MCGraphs
  InputNames <- MCInputNames
  DimCalls <- MCDimCalls
  ShapeCalls <- MCShapeCalls
  BufferCalls <- MCBufferCalls
  MaxDims = 8
  Null = Null
INVARIANTS
  TypeOK
  ReportedOpen
  ShapesAsReported
  EachToItsBuffer
  StridesPacked
