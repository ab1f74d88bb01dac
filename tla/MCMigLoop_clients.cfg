SPECIFICATION Spec
CONSTANTS
  NSlots   = 2
  ChainLen = 1
  Fds   <- OneFd
  Conds <- ReadOnly
INVARIANTS TypeOK FreeStackExact FreeSlotsInert PolledFdAgrees FreedExactlyOnce CallUnionIntact
