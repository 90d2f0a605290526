CONSTANTS
  None = None
  RootName = "Root"
  MaxDepth = 40
  PascalOf <- MCPascalOf
  NameOrder <- MCNameOrder
  SnakeOf <- MCSnakeOf
  Docs <- MCDocsSize
SPECIFICATION Spec
CHECK_DEADLOCK FALSE
INVARIANT NoInfiniteSize
