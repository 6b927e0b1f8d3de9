SPECIFICATION FairSpec
CONSTANTS
  Names = {n1, n2}
  Keys = {k1, k2}
  Certs = {c1, c2, c3, c4}
  MaxCrashes = 1
  MaxLosses = 1
  Absent = Absent
  Junk = Junk
  None = None
  MaxTampers = 0
INVARIANTS
  RegistryIsTrue
PROPERTIES
  NoUncertifiedRemoval
  OnlyBurnsDestroyKeys
  DeletionSpec
  MasterBurnCompletes
CHECK_DEADLOCK FALSE
