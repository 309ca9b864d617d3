CONSTANTS
  ann = ann
  bob = bob
  guide = guide
  NULL = NULL
  Subs <- MCSubs
  Items <- MCItems
  ItemOf <- MCItemOf
  Slots <- MCSlots
  RestockBatchSize = 2
  Concurrent = 1
  RestockMaxAttempts = 1
  RestockMaxFaults = 1
SPECIFICATION RestockSpec
INVARIANTS
  NotifiedOnce
  NotifiedHeard
PROPERTIES
  CancelSticks
  EventuallyServed
