SPECIFICATION KdfSpec
CONSTANTS
  NoCredential = NoCredential
  LongPasswords <- MCLongPasswords
  MaxDerivations = 2
  Credentials <- MCCredentials
  Normalized <- MCNormalized
  Derived <- MCDerived
  Stretched <- MCStretched
INVARIANTS
  KdfTypeOK
  RefusedByRangeOrLength
CHECK_DEADLOCK FALSE
