SPECIFICATION SpecAudit
CONSTANTS
  Certs = {1, 2, 3, 4}
  MaxCrashes = 2
  MaxTampers = 1
INVARIANTS
  VerifyIsExact
  TornWriteCostsOneRecord
PROPERTIES
  BrokenChainStaysBroken
CHECK_DEADLOCK FALSE
