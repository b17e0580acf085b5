SPECIFICATION Spec
CONSTANTS
  Graphs <- MCPair
  InputNames <- MCInputNames
  DimCalls <- MCPairCalls
  ShapeCalls <- MCShapeCalls
  BufferCalls <- MCBufferCalls
  MaxDims = 8
  Null = Null
INVARIANT ParsedAsReported
