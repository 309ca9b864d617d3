CONSTANTS
  NULL = NULL
  anna = anna
  ben = ben
  Users <- MCUsers
  Referrer <- MCReferrer
  InitialBalance <- MCInitialBalance
  Totals = {2, 20}
  Rates <- MCRates
  HoldTime = 1
  BatchSize = 1
  Adjustments <- MCAdjustments
  Keys = {k1}
  MaxOrders = 3
  MaxTime = 2
SPECIFICATION Spec
INVARIANTS
  DebtAudited
  NetPosition
  HoldRespected
  CompensatedOnce
  KeysOnce
PROPERTIES
  LedgerAppendOnly
  MatureReleased
CHECK_DEADLOCK FALSE
