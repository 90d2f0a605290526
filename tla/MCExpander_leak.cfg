CONSTANTS
  None = None
  RootName = "Root"
  MaxDepth = 40
  PascalOf <- MCPascalOf
  NameOrder <- MCNameOrder
  SnakeOf <- MCSnakeOf
  Docs <- MCDocs
SPECIFICATION Spec
CHECK_DEADLOCK FALSE
INVARIANT NamesIndependentOfSiblings
