SPECIFICATION Spec
CONSTANTS
  Messages <- Sent
  Source <- SentSource
  Txn <- SentTxn
  NoTxn = "no txn"
  Callers = {c1, c2}
  MaxDays = 2
  MaxIngests = 4
  MaxCrashes = 2
INVARIANTS
  NoDuplicates
  ListedIsWhole
  TornLineCostsOneReceipt
SYMMETRY Alike
CHECK_DEADLOCK FALSE
