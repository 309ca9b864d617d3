SPECIFICATION FulfillmentSpec
CONSTANTS
  Notes = {n1, n2, n3}
  Jobs = {j1, j2}
  Messages = {m1}
  MaxTalks = 2
  MaxCopies = 1
SYMMETRY Symmetric
INVARIANTS
  CompletedOnce
  OneTalk
  FiledInTime
CHECK_DEADLOCK FALSE
