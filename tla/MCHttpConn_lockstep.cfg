SPECIFICATION FairSpec
CONSTANTS
  RxLen = 4
  TxLen = 2
  Requests <- AllKinds
  MaxReqs = 3
  FileSizes = {0, 3, 4}
  Pipelining = FALSE
  Shrinking = FALSE
INVARIANTS NoneSkipped
PROPERTIES WholeAnswered HangupCloses
