SPECIFICATION FairSpec
CONSTANTS
  NSlots   = 2
  ChainLen = 0
  Fds      = {3}
  Conds <- ReadOrWrite
INVARIANTS ScanBudget
PROPERTIES NothingLeftBehind Delivers ScanCompletes TerminateFromScan
