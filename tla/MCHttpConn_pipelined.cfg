SPECIFICATION Spec
CONSTANTS
  RxLen = 4
  TxLen = 2
  Requests <- AllKinds
  MaxReqs = 3
  FileSizes = {0, 3, 4}
  Pipelining = TRUE
  Shrinking = TRUE
INVARIANTS TypeOK BodyConserved FileOpenWhileSent AnsweredInOrder AnsweredWhole HeaderAligned NothingAfterClose
