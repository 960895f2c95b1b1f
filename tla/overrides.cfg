SPECIFICATION Spec
CONSTANTS
  MaxArgs = 5
  Args <- MCArgs
  CommandLines <- MCCommandLines
  AllowedSets <- MCAllowedSets
INVARIANTS
  IInv
  ParsedAsDeclared
CHECK_DEADLOCK FALSE
