CONSTANTS
  plain = plain
  ruled = ruled
  bare = bare
  off = off
  on = on
  None = None
  Callers = {"scheduler"}
  Flags <- MCFlags
  Variants <- MCVariants
  Offers <- MCOffers
  InitDoc <- MCInitDoc
  Configs <- LooseConfigs
  DefaultConfig <- Loose
  Prompt = FALSE
  MaxRequests = 2
  MaxFaults = 1
  InboxCap = 1
SPECIFICATION Spec
INVARIANTS
  NextUpIsAccurate
  HeldFlagHasRevert
  OneIntervalAhead
PROPERTIES
  IntervalsDoNotOverlap
CHECK_DEADLOCK FALSE
