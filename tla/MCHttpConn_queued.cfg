SPECIFICATION FairSpec
CONSTANTS
  RxLen = 4
  TxLen = 2
  Requests <- Kept
  MaxReqs = 3
  FileSizes = {0, 3, 4}
  Pipelining = TRUE
  Shrinking = FALSE
PROPERTIES QueuedServed
