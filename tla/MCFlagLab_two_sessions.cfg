CONSTANTS
  ruled = ruled
  plain = plain
  other = other
  off = off
  on = on
  None = None
  Nobody = nobody
  Callers = {l1, l2, nobody}
  Learners = {l1, l2}
  Flags <- MCFlags
  Variants <- MCVariants
  Managed <- MCManaged
  Safe <- MCSafe
  Faults <- OneFault
  InitDoc <- MCInitDoc
  Edits <- Dashboard
  Polls = 2
  MaxPresses = 2
  MaxEdits = 0
  MaxFaults = 0
SPECIFICATION Spec
PROPERTIES
  RecoveryKept
CHECK_DEADLOCK FALSE
