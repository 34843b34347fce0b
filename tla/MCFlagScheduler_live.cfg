CONSTANTS
  plain = plain
  ruled = ruled
  bare = bare
  off = off
  on = on
  None = None
  Callers = {"scheduler"}
  Flags <- MCFlags
  Variants <- MCVariants
  Offers <- MCOffers
  InitDoc <- MCInitDoc
  Configs <- LiveConfigs
  DefaultConfig <- Short
  Prompt = TRUE
  MaxRequests = 2
  MaxFaults = 0
  InboxCap = 2
SPECIFICATION FairSpec
PROPERTIES
  StopRestores
  HoldsEnd
CHECK_DEADLOCK FALSE
