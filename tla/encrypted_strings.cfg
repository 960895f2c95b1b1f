SPECIFICATION Spec
CONSTANTS
  NotU8 = NotU8
  Pieces <- MCPieces
  Inputs <- MCInputs
INVARIANTS
  TypeOK
  ParsedAsDeclared
  DecryptionMayRely
CHECK_DEADLOCK FALSE
