SPECIFICATION Spec
CONSTANTS
    Invoices = {i1}
    Charges = {c1}
    Tasks = {t1, t2, t3}
    MaxFaults = 2
    NoOne = NoOne
INVARIANTS
    CreditedOnce
    RowsTellCredits
PROPERTIES
    PaidIsCredited
CHECK_DEADLOCK FALSE
