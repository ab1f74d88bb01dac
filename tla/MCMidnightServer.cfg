SPECIFICATION FairServerSpec
CONSTANTS
  NSlots   = 3
  ChainLen = 0
  Fds   <- SomeFds
  Conds <- ReadOrWrite
  Setups <- NoneOrAll
INVARIANT DescriptorsOwned
PROPERTIES UsesLoop BacklogServed StartsOnPort80
