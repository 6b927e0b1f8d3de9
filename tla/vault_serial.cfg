SPECIFICATION Spec
CONSTANTS
  Names = {mom, sam}
  Devices = {phone}
  Integrations = {pos}
  Procs = {p}
  None = None
  Serial = TRUE
  MaxIds = 3
  MaxCrashes = 1
SYMMETRY Symmetry
INVARIANTS
  ChildSurface
  KeysAsPromised
  SharesAreCurrent
  AccountsAreWhole
CHECK_DEADLOCK FALSE
