SPECIFICATION Spec
CONSTANTS
  NotU8 = NotU8
  Pieces <- MCPieces
  Inputs <- MCInputs
INVARIANTS
  OnlyAesCbcHmacAccepted
CHECK_DEADLOCK FALSE
