SPECIFICATION Spec
CONSTANTS
  Kids = {1, 2, 3}
  Jtis = {j1}
  Procs = {p}
  None = None
  SKEW = 1
  MAX_TTL = 1
  MAX_REVOKED = 1
  MaxTime = 3
  MaxCrashes = 1
  MaxSetbacks = 1
INVARIANTS
  MintedKeysExist
  ActiveKeyExists
  OldKidsNeverMint
  RevocationsHold
CHECK_DEADLOCK FALSE
