SPECIFICATION FairSpec
CONSTANTS
  NoCredential = NoCredential
  LongPasswords = {}
  MaxDerivations = 2
  Credentials <- MCCredentials
  Normalized <- MCNormalized
  Derived <- MCDerived
  Stretched <- MCStretched
  NoOrg = NoOrg
  NoItemKey = NoItemKey
  NoPrivate = NoPrivate
  Vaults <- MCVaults
INVARIANTS
  OnlyGenuineOpens
  FailuresHaveAReason
PROPERTIES
  OnlyTheOwnerGetsIn
  OnlyAlongSeals
  SoundItemsOpen
CHECK_DEADLOCK FALSE
