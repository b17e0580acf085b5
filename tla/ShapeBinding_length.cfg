SPECIFICATION Spec
CONSTANTS
  Graphs <- MCLength
  InputNames <- MCInputNames
  DimCalls <- MCLengthCalls
  ShapeCalls <- MCShapeCalls
  BufferCalls <- MCBufferCalls
  MaxDims = 8
  Null = Null
INVARIANT ShapesAsReported
