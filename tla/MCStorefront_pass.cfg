CONSTANTS
  Tabs = {t1, t2}
  p = p
  Products <- MCProducts
  OldItems <- MCOldItems
  MaxQuantity = 2
  MaxRetries = 1
  Slots = {1, 2}
  MaxPresses = 2
  MaxFaults = 1
SPECIFICATION FairSpec
INVARIANTS
  TypeOK
  ReadsOwnWrites
  ConfirmedMeansPlaced
  DeclinedMeansUncharged
PROPERTIES
  UpdateLands
  Settles
