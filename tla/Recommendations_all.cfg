SPECIFICATION Spec
CONSTANTS
  r1 = r1
  r2 = r2
  q1 = q1
  q2 = q2
  None = None
  Runs = {r1, r2}
  Requests = {q1, q2}
  NBatches = 2
  TTL = 1
  MaxDelay = 1
  MaxEdits = 1
SYMMETRY Symmetry
INVARIANTS ServedRunComplete InvalidatedNotServed AnswersNotTooOld
