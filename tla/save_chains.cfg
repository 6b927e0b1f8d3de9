SPECIFICATION Spec
CONSTANTS
  Machines = {m1, m2}
  Remote = remote
  Blobs = {b1, b2}
  Torn = torn
  Absent = Absent
  None = None
  MaxCommits = 2
  MaxMishaps = 1
SYMMETRY Symmetry
INVARIANTS
  JournalsAreWhole
PROPERTIES
  JournalsOnlyGrow
  RollbacksAreRefused
CHECK_DEADLOCK FALSE
