SPECIFICATION FairSpec
CONSTANTS
  NSlots   = 2
  ChainLen = 0
  Fds      = {3}
  Conds <- ReadOnly
PROPERTIES TerminateStops
