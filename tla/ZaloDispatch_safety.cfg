SPECIFICATION Spec
CONSTANTS
  r1 = r1
  r2 = r2
  None = None
  Runs = {r1, r2}
  NRecipients = 3
  MaxRetries = 1
  NoConsent = {3}
  Ambiguous = FALSE
SYMMETRY Symmetry
CHECK_DEADLOCK FALSE
INVARIANTS AtMostOnce DeliveredIsRecorded
PROPERTIES ImplementsDispatchLedger
