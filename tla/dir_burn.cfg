SPECIFICATION Spec
CONSTANTS
  NumPaths = 2
  CliNames = {cli1}
  NoName = NoName
  Names <- AllNames
  Callers = {"dirburn", "cli"}
  MaxKeys = 2
  MaxBurns = 2
  MaxEdits = 2
  MaxCrashes = 1
INVARIANTS
  RegistryMatchesKeys
  PapersAreTrue
PROPERTIES
  DeletionSpec
  OnlyListedFilesDie
CHECK_DEADLOCK FALSE
