SPECIFICATION Spec
CONSTANTS
  Goods = {g1, g2}
  Tasks = {t1, t2}
  Quantities = {2}
  MaxFields = 1
  MaxDrafts = 2
  MaxEdits = 1
SYMMETRY Symmetric
INVARIANTS
  
  PaidForForm
PROPERTIES
  ClosedNeverPaid
CHECK_DEADLOCK FALSE
