CONSTANTS
  None = None
  NoView = NoView
  RootName = "Root"
  MaxDepth = 20
  PascalOf <- MCPascalOf
  NameOrder <- MCNameOrder
  SnakeOf <- MCSnakeOf
SPECIFICATION Spec
CHECK_DEADLOCK FALSE
PROPERTY ImplementsEffectiveView
