SPECIFICATION EraseSpec
CONSTANTS
  NumPaths = 2
  NoFile = NoFile
  Devices <- MCDevices
  MaxData = 5
  MaxJobs = 2
  MaxFaults = 1
  MaxMoves = 1
INVARIANTS
  CertifiedIsOverwritten
  ErasedMeansClean
PROPERTIES
  SlackWipeKeepsThePlanned
  LockedIsReported
  OnlyWhatWasConfirmedDies
CHECK_DEADLOCK FALSE
