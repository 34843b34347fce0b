CONSTANTS
  ruled = ruled
  plain = plain
  other = other
  off = off
  on = on
  None = None
  Nobody = nobody
  Callers = {l1, nobody}
  Learners = {l1}
  Flags <- MCFlags
  Variants <- MCVariants
  Managed <- MCManaged
  Safe <- MCSafe
  Faults <- OneFault
  InitDoc <- MCInitDoc
  Edits <- MCEdits
  Polls = 2
  MaxPresses = 4
  MaxEdits = 1
  MaxFaults = 2
SPECIFICATION FairSpec
INVARIANTS
  TypeOK
  NoOrphanFault
PROPERTIES
  RecoveryKept
  UneditedRestoreIsExact
  ScriptRunsEnd
CHECK_DEADLOCK FALSE
