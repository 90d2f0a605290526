CONSTANTS
  Alphabet = {"a", "s", "1", "_", "$", "-"}
  MaxLen = 3
  NoIdent = NoIdent
SPECIFICATION Spec
CHECK_DEADLOCK FALSE
INVARIANT NoBareUnderscore
