SPECIFICATION Spec
CONSTANTS
  r1 = r1
  r2 = r2
  None = None
  Runs = {r1, r2}
  NRecipients = 3
  BatchSize = 2
  MaxRetries = 1
  NoConsent = {3}
  Ambiguous = TRUE
SYMMETRY Symmetry
CHECK_DEADLOCK FALSE
INVARIANTS OneLateMessage
PROPERTIES ImplementsDispatchLedger
