CONSTANTS
  Alphabet = {"a", " ", "\t", "\n"}
  MaxLen = 6
  Widths = {7, 8}
  NoDoc = NoDoc
SPECIFICATION Spec
CHECK_DEADLOCK FALSE
INVARIANTS TextKept LinesBounded
