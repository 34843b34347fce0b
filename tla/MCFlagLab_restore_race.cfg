CONSTANTS
  ruled = ruled
  plain = plain
  other = other
  off = off
  on = on
  None = None
  Nobody = nobody
  Callers = {l1, nobody}
  Learners = {l1}
  Flags <- MCFlags
  Variants <- MCVariants
  Managed <- MCManaged
  Safe <- MCSafe
  Faults <- OneFault
  InitDoc <- MCInitDoc
  Edits <- Dashboard
  Polls = 2
  MaxPresses = 2
  MaxEdits = 1
  MaxFaults = 0
SPECIFICATION Spec
PROPERTIES
  NormalRestoreKeepsEdits
CHECK_DEADLOCK FALSE
