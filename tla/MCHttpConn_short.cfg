SPECIFICATION Spec
CONSTANTS
  RxLen = 4
  TxLen = 2
  Requests <- OneFile
  MaxReqs = 2
  FileSizes = {0, 3, 4}
  Pipelining = FALSE
  Shrinking = FALSE
PROPERTIES SentAsPromised
