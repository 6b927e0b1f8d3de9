SPECIFICATION VaultSpec
CONSTANTS
  Runs = {r1, r2}
  NumPaths = 2
  NumBackups = 1
  Secrets = {s1}
  WrongSecret = s0
  MaxCommands = 2
  MaxEdits = 2
  MaxDamage = 1
INVARIANTS
  LockedIsRecoverable
  BackupsRestore
PROPERTIES
  UnlockedAsSealed
SYMMETRY Alike
CHECK_DEADLOCK FALSE
