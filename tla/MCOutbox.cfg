SPECIFICATION Spec
CONSTANTS
  Notes = {n1, n2, n3}
  BatchSize = 2
  MaxAttempts = 3
  MaxErrors = 2
  MaxFaults = 2
INVARIANTS
  CopiesBounded
PROPERTIES
  MailKept
  EventuallyClosed
CHECK_DEADLOCK TRUE
