CONSTANTS
  plain = plain
  ruled = ruled
  bare = bare
  off = off
  on = on
  None = None
  Callers = {"scheduler"}
  Flags <- MCFlags
  Variants <- MCVariants
  Offers <- MCOffers
  InitDoc <- MCInitDoc
  Configs <- TightConfigs
  DefaultConfig <- Tight
  Prompt = TRUE
  MaxRequests = 1
  MaxFaults = 0
  InboxCap = 2
SPECIFICATION Spec
PROPERTIES
  RevertEndsItsOwnHold
CHECK_DEADLOCK FALSE
