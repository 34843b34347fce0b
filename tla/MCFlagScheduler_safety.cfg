CONSTANTS
  plain = plain
  ruled = ruled
  bare = bare
  off = off
  on = on
  None = None
  Callers = {"scheduler"}
  Flags <- MCFlags
  Variants <- MCVariants
  Offers <- MCOffers
  InitDoc <- MCInitDoc
  Configs <- SafetyConfigs
  DefaultConfig <- Loose
  Prompt = TRUE
  MaxRequests = 2
  MaxFaults = 0
  InboxCap = 2
SPECIFICATION Spec
INVARIANTS
  TypeOK
  HeldFlagHasRevert
  AtRestUnlessHeld
PROPERTIES
  ImplementsHolds
CHECK_DEADLOCK FALSE
