SPECIFICATION Spec
CONSTANTS
  Graphs <- MCGraphs
  InputNames <- MCInputNames
  DimCalls <- MCDimCalls
  ShapeCalls <- MCShapeCalls
  BufferCalls <- MCBufferCalls
  MaxDims = 8
  Null = Null
INVARIANT OutputShapeResolved
