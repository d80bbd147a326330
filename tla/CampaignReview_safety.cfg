SPECIFICATION Spec
CONSTANTS
  q1 = q1
  q2 = q2
  p1 = p1
  p2 = p2
  t1 = t1
  t2 = t2
  None = None
  Requests <- MCRequests
  Plans <- MCPlans
  Terms <- MCTerms
  ClientStatuses = {"Running"}
  MaxStamp = 4
  MaxFlows = 2
SYMMETRY Symmetry
CHECK_DEADLOCK FALSE
INVARIANTS ApprovedIsReviewed RunsWhatWasReviewed AuditTracksPlan
PROPERTIES RunningFlowIsPinned ImplementsGovernedCampaign
