SPECIFICATION Spec
CONSTANTS
  Names = {n1, n2}
  Callers = {c1, c2}
  MaxCommands = 5
  MaxLives = 2
  MaxCrashes = 1
INVARIANTS
  ListedIsReadable
  DeletedIsGone
  NothingOutlivesTheAccount
CHECK_DEADLOCK FALSE
