--------------------------- MODULE GovernedCampaign ---------------------------
(***************************************************************************)
(* What the governance of a campaign promises, without saying how: every   *)
(* request acts on the campaign as though it had it to itself, in one      *)
(* step.  There is no stamp, no stale read and no merge here.              *)
(***************************************************************************)
EXTENDS Naturals

CONSTANTS Plans, Terms, MaxFlows, ClientStatuses, None

VARIABLES
  plan, terms, flow, \* the content
  approval, status,  \* the two state machines
  signed,            \* every plan and flow that was approved
  running            \* plan and flow under execution, or None

content == <<plan, terms, flow>>
vars == <<content, approval, status, signed, running>>

Governed == [plan |-> plan, flow |-> flow]

Init ==
  /\ plan \in Plans /\ terms \in Terms /\ flow = 1
  /\ approval \in {"Draft", "InReview"} /\ status = "Draft"
  /\ signed = {} /\ running = None

-----------------------------------------------------------------------------
\* A change of content takes back what was decided about the old one.
Redecided ==
  approval' = IF content' # content /\ approval \in {"Approved", "Rejected"}
              THEN "InReview" ELSE approval

Edit ==
  /\ plan' \in Plans /\ terms' \in Terms
  /\ Redecided
  /\ UNCHANGED <<flow, status, signed, running>>

\* A save may make a new version of the workflow, of a campaign at rest.
Save ==
  /\ status # "Running"
  /\ plan' \in Plans /\ terms' \in Terms
  /\ flow' \in {flow, flow + 1} \cap (1 .. MaxFlows)
  /\ Redecided /\ approval' # "Approved"
  /\ status' \in ClientStatuses \cup {status}
  /\ UNCHANGED <<signed, running>>

\* The generic update: no governed column, but at any approval.
Patch ==
  /\ terms' \in Terms
  /\ status' \in ClientStatuses \cup {status}
  /\ UNCHANGED <<plan, flow, approval, signed, running>>

Decide(from, to) ==
  /\ approval = from /\ approval' = to
  /\ UNCHANGED <<content, status, running>>

Submit == Decide("Draft", "InReview") /\ UNCHANGED signed
Reject == Decide("InReview", "Rejected") /\ UNCHANGED signed
Approve == Decide("InReview", "Approved") /\ signed' = signed \cup {Governed}

-----------------------------------------------------------------------------
Activate ==
  /\ approval = "Approved" /\ status # "Running"
  /\ status' = "Running"
  /\ UNCHANGED <<content, approval, signed, running>>

NotSubmitted ==
  /\ status' = "Failed"
  /\ UNCHANGED <<content, approval, signed, running>>

\* The plan and the workflow that are executed are those of this moment.
Execute ==
  /\ approval = "Approved" /\ status \in {"Running", "Failed"}
  /\ running = None /\ running' = Governed
  /\ UNCHANGED <<content, approval, status, signed>>

\* Nothing is reported Completed that was not executed.
Settle ==
  /\ running' = None
  /\ IF status \in {"Running", "Failed"}
       THEN status' = "Failed" \/ (status' = "Completed" /\ running # None)
       ELSE UNCHANGED status
  /\ UNCHANGED <<content, approval, signed>>

Next ==
  \/ Edit \/ Save \/ Patch \/ Submit \/ Reject \/ Approve
  \/ Activate \/ NotSubmitted \/ Execute \/ Settle

Spec == Init /\ [][Next]_vars

-----------------------------------------------------------------------------
\* What follows for one request at a time: only what was approved is Approved,
\* and only what was approved is executed.
OnlySigned ==
  /\ approval = "Approved" => Governed \in signed
  /\ running # None => running \in signed
=============================================================================
