SPECIFICATION Spec
CONSTANTS
  r1 = r1
  r2 = r2
  None = None
  Runs = {r1, r2}
  NRecipients = 1
  MaxRetries = 1
  NoConsent = {}
  Ambiguous = TRUE
SYMMETRY Symmetry
CHECK_DEADLOCK FALSE
INVARIANTS AtMostOnce
