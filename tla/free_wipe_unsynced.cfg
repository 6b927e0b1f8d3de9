SPECIFICATION EraseSpec
CONSTANTS
  NumPaths = 1
  NoFile = NoFile
  Devices <- MCDevices
  MaxData = 5
  MaxJobs = 2
  MaxFaults = 1
  MaxMoves = 2
INVARIANT FreeWipeReachesTheDisk
CHECK_DEADLOCK FALSE
