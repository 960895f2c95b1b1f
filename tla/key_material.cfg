SPECIFICATION Spec
CONSTANTS
  MaxByte = 2
  AesKeyLen = 2
  SymmetricHmacKeyLen = 4
  MaxLen = 8
  CoseKeys <- MCCoseKeys
  Inputs <- MCInputs
INVARIANTS
  TypeOK
  KeyAsDeclared
  PaddedKeysComeBack
  ReadAsInPayload
CHECK_DEADLOCK FALSE
