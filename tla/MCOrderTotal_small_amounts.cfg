CONSTANTS
  NanosMod = 4
  Int32Bound = 16
  Int64Bound = 1000
  Uint32 = 8
  Currencies = {"EUR", "USD"}
  Currency = "EUR"
  Costs <- MCCosts
  Quantities <- MCQuantities
  MaxItems = 2
SPECIFICATION Spec
INVARIANTS
  SumsAreValid
CHECK_DEADLOCK FALSE
