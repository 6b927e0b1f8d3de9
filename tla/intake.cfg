SPECIFICATION Spec
CONSTANTS
  Machines = {m1, m2}
  Labels = {l1}
  Digests = {d1, d2}
  None = None
  MaxRecords = 3
  MaxCrashes = 1
  MaxRot = 1
SYMMETRY Symmetry
INVARIANTS
  VerifyCatchesDamage
  RecordsAreTrue
  OnlyTargetsBurn
CHECK_DEADLOCK FALSE
