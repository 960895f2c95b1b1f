SPECIFICATION Spec
CONSTANTS
  MaxFields = 2
  NoOrg = NoOrg
  NoItemKey = NoItemKey
  Items <- MCItems
  KeyRings <- MCKeyRings
  Keys <- MCKeys
  Fields <- MCFields
INVARIANTS
  IInv
  ItemAsDeclared
  OpenedUnderItsKeys
PROPERTIES
  OnlyGenuineContentIsJudged
CHECK_DEADLOCK FALSE
