---------------------------- MODULE CampaignReview ----------------------------
(***************************************************************************)
(* customer360-api: the governed life of one campaign row.  A request      *)
(* reads the row, works, and in a second step locks it, compares its       *)
(* updated_at with the one it read and writes; the generic PATCH is the    *)
(* exception, it writes without the comparison.  Activation and the        *)
(* workflow runner write the same row from the backend.                    *)
(*                                                                         *)
(* The columns are grouped by who may write them.  plan: segment, strategy *)
(* and content plan, governed requests only.  terms: objective and dates,  *)
(* governed requests and the generic PATCH.  flow: the pinned workflow     *)
(* version.  updated_at is a stamp: it is only ever compared for equality. *)
(***************************************************************************)
EXTENDS Naturals, FiniteSets

CONSTANTS
  Requests,   \* API requests in flight at once
  Plans, Terms, \* values of the governed and of the general columns
  ClientStatuses, \* values of the free-text status that clients send
  MaxStamp,   \* bound: writes of the row
  MaxFlows,   \* bound: saved workflow versions
  None

Approvals == {"Draft", "InReview", "Approved", "Rejected"}
Statuses == {"Draft", "Running", "Completed", "Failed"}
Operations == {"edit", "save", "patch", "submit", "approve", "reject"}

Columns == [plan : Plans, terms : Terms, flow : 1 .. MaxFlows]

ASSUME ReviewAssumption ==
  /\ MaxStamp \in Nat /\ MaxFlows \in Nat \ {0}
  /\ Plans # {} /\ Terms # {} /\ ClientStatuses \subseteq Statuses
  /\ None \notin Columns \cup [plan : Plans, flow : 1 .. MaxFlows]

VARIABLES
  row,       \* the committed crm_campaign row
  request,   \* [Requests -> the request under way, or None]
  audited,   \* plan and flow in the after_data of the last audit row
  reviewed,  \* history: the content the last approver read
  signed,    \* history: every plan and flow an approver read
  backend,   \* what the holder of the execution lock is doing
  running    \* plan and flow the workflow runner has loaded, or None

history == <<reviewed, signed>>
execution == <<backend, running>>
vars == <<row, request, audited, history, execution>>

Row == [plan : Plans, terms : Terms, flow : 1 .. MaxFlows,
        approval : Approvals, status : Statuses, stamp : 0 .. MaxStamp]
Request == [op : Operations, read : Row, new : Row]
Governed(r) == [plan |-> r.plan, flow |-> r.flow]
Content(r) == [plan |-> r.plan, terms |-> r.terms, flow |-> r.flow]

\* One type invariant: the row keeps its two state machines apart.
TypeOK ==
  /\ row \in Row
  /\ request \in [Requests -> Request \cup {None}]
  /\ audited \in [plan : Plans, flow : 1 .. MaxFlows]
  /\ reviewed \in Columns \cup {None}
  /\ signed \subseteq [plan : Plans, flow : 1 .. MaxFlows]
  /\ backend \in {"idle", "activating", "refused", "running"}
  /\ running \in [plan : Plans, flow : 1 .. MaxFlows] \cup {None}

-----------------------------------------------------------------------------
(* A campaign created with its workflow is a Draft, one planned by the AI  *)
(* agent is InReview; it owns its first workflow version.                  *)
Init ==
  /\ \E p \in Plans, t \in Terms, a \in {"Draft", "InReview"} :
       row = [plan |-> p, terms |-> t, flow |-> 1,
              approval |-> a, status |-> "Draft", stamp |-> 0]
  /\ request = [q \in Requests |-> None]
  /\ audited = Governed(row)
  /\ reviewed = None /\ signed = {}
  /\ backend = "idle" /\ running = None

\* The ORM writes the columns whose value differs from the one it loaded.
Columnwise(read, new) ==
  [c \in DOMAIN row |-> IF new[c] # read[c] THEN new[c] ELSE row[c]]

Restamped(r) == [r EXCEPT !.stamp = row.stamp + 1]

\* Mutant: updated_at is not compared.
NotChecked(read) == TRUE

\* _check_not_concurrently_modified
Unmodified(read) == read.stamp = row.stamp

\* Mutant: only a rejected campaign goes back to review.
DemotedIfRejected(read, new) ==
  IF Content(new) # Content(read) /\ read.approval = "Rejected"
  THEN "InReview" ELSE new.approval

\* edit_draft: an edit that changes something calls for a fresh review.
Demoted(read, new) ==
  IF Content(new) # Content(read) /\ read.approval \in {"Approved", "Rejected"}
  THEN "InReview" ELSE new.approval

EditOf(read, p, t) ==
  LET new == [read EXCEPT !.plan = p, !.terms = t]
  IN  [new EXCEPT !.approval = Demoted(read, new)]

\* update: a changed definition is saved as the next version of the flow.
SaveOf(read, p, t, f, s) ==
  LET new == [read EXCEPT !.plan = p, !.terms = t, !.flow = f]
  IN  [new EXCEPT !.approval = Demoted(read, new), !.status = s]

SaveVersions(read) == {read.flow, read.flow + 1} \cap (1 .. MaxFlows)

-----------------------------------------------------------------------------
(* The first half of a request: read the row, refuse or prepare the new    *)
(* values in the session.                                                  *)
Read(q, op, new) ==
  /\ request[q] = None
  /\ request' = [request EXCEPT ![q] = [op |-> op, read |-> row, new |-> new]]
  /\ UNCHANGED <<row, audited, history, execution>>

ReadEdit(q) == \E p \in Plans, t \in Terms : Read(q, "edit", EditOf(row, p, t))

\* update refuses a Running campaign, and one still Approved after the edit.
SaveAllowed(new) == row.status # "Running" /\ new.approval # "Approved"

ReadSave(q) ==
  \E p \in Plans, t \in Terms, f \in SaveVersions(row),
     s \in ClientStatuses \cup {row.status} :
    /\ SaveAllowed(SaveOf(row, p, t, f, s))
    /\ Read(q, "save", SaveOf(row, p, t, f, s))

\* _block_edit_of_approved_campaign looks at the row as it was read.
ReadPatch(q) ==
  /\ row.approval # "Approved"
  /\ \E t \in Terms, s \in ClientStatuses \cup {row.status} :
       Read(q, "patch", [row EXCEPT !.terms = t, !.status = s])

ReadSubmit(q) ==
  /\ row.approval = "Draft"
  /\ Read(q, "submit", [row EXCEPT !.approval = "InReview"])

Reviewable == row.approval = "InReview"

ReadApprove(q) ==
  /\ Reviewable
  /\ Read(q, "approve", [row EXCEPT !.approval = "Approved"])

ReadReject(q) ==
  /\ Reviewable
  /\ Read(q, "reject", [row EXCEPT !.approval = "Rejected"])

\* Validation fails, a content item is no longer available, the client is gone.
Refuse(q) ==
  /\ request[q] # None
  /\ request' = [request EXCEPT ![q] = None]
  /\ UNCHANGED <<row, audited, history, execution>>

-----------------------------------------------------------------------------
(* The second half: lock, compare, write, commit.                          *)
Commits(q, ops) ==
  /\ request[q] # None
  /\ request[q].op \in ops
  /\ row.stamp < MaxStamp
  /\ request' = [request EXCEPT ![q] = None]

Write(q) == row' = Restamped(Columnwise(request[q].read, request[q].new))

\* edit_draft and update leave an audit row with the new values.
CommitEdit(q) ==
  /\ Commits(q, {"edit", "save"})
  /\ Unmodified(request[q].read)
  /\ Write(q)
  /\ audited' = Governed(request[q].new)
  /\ UNCHANGED <<history, execution>>

CommitReview(q) ==
  /\ Commits(q, {"submit", "approve", "reject"})
  /\ Unmodified(request[q].read)
  /\ Write(q)
  /\ IF request[q].op = "approve"
       THEN /\ reviewed' = Content(request[q].read)
            /\ signed' = signed \cup {Governed(request[q].read)}
       ELSE UNCHANGED history
  /\ UNCHANGED <<audited, execution>>

CommitPatch(q) ==
  /\ Commits(q, {"patch"})
  /\ Write(q)
  /\ UNCHANGED <<audited, history, execution>>

Conflict(q) ==
  /\ request[q] # None
  /\ request[q].op # "patch"
  /\ ~ Unmodified(request[q].read)
  /\ request' = [request EXCEPT ![q] = None]
  /\ UNCHANGED <<row, audited, history, execution>>

-----------------------------------------------------------------------------
(* The backend.  One execution at a time, by the advisory lock.            *)
\* Mutant: the backend leaves updated_at alone.
BackendWriteUnstamped(status) ==
  /\ row' = [row EXCEPT !.status = status]
  /\ UNCHANGED <<request, audited, history>>

BackendWrite(status) ==
  /\ row.stamp < MaxStamp
  /\ row' = Restamped([row EXCEPT !.status = status])
  /\ UNCHANGED <<request, audited, history>>

\* activate_campaign; a Completed campaign is replayed by explicit restart.
Activate ==
  /\ backend = "idle"
  /\ row.status # "Running"
  /\ row.approval = "Approved"
  /\ BackendWrite("Running")
  /\ backend' = "activating"
  /\ UNCHANGED running

\* The workflow job is launched, or could not be submitted.
Submitted ==
  /\ backend = "activating"
  /\ backend' = "idle"
  /\ UNCHANGED <<row, request, audited, history, running>>

SubmissionFailed ==
  /\ backend = "activating"
  /\ BackendWrite("Failed")
  /\ backend' = "idle"
  /\ UNCHANGED running

\* Mutant: the runner does not look at the approval.
RunnerTrustsStatus == TRUE

RunnerMayRun == row.approval = "Approved"

\* run_campaign_workflow loads the row with its pinned workflow, and refuses
\* a campaign that is no longer Approved.
Load ==
  /\ backend = "idle"
  /\ row.status \in {"Running", "Failed"}
  /\ IF RunnerMayRun
       THEN backend' = "running" /\ running' = Governed(row)
       ELSE backend' = "refused" /\ UNCHANGED running
  /\ UNCHANGED <<row, request, audited, history>>

\* _set_campaign_status leaves a status other than Running and Failed alone.
Settle ==
  /\ backend \in {"running", "refused"}
  /\ backend' = "idle" /\ running' = None
  /\ IF row.status \in {"Running", "Failed"}
       THEN \E s \in {"Completed", "Failed"} :
              /\ backend = "refused" => s = "Failed"
              /\ BackendWrite(s)
       ELSE UNCHANGED <<row, request, audited, history>>

Next ==
  \/ \E q \in Requests :
       \/ ReadEdit(q) \/ ReadSave(q) \/ ReadPatch(q)
       \/ ReadSubmit(q) \/ ReadApprove(q) \/ ReadReject(q)
       \/ CommitEdit(q) \/ CommitReview(q) \/ CommitPatch(q)
       \/ Conflict(q) \/ Refuse(q)
  \/ Activate \/ Submitted \/ SubmissionFailed \/ Load \/ Settle

Spec == Init /\ [][Next]_vars

-----------------------------------------------------------------------------
\* approve: the plan and the workflow of an Approved campaign are those its
\* approver read, whatever edits, saves and reviews raced with the approval.
ApprovedIsReviewed ==
  row.approval = "Approved" =>
    reviewed # None /\ Governed(row) = Governed(reviewed)

\* _block_edit_of_approved_campaign: once Approved, objective and dates also
\* stay as the approver read them until a re-review.
ApprovedTermsUntouched ==
  row.approval = "Approved" => Content(row) = reviewed

\* run_campaign_workflow: the runner only ever executes a plan and workflow
\* version that an approver has read and approved.
RunsWhatWasReviewed == running # None => running \in signed

\* edit_draft: the audit trail has no gap and no phantom; the after_data of
\* its last entry is what the row holds, so no edit was lost under another.
AuditTracksPlan == audited = Governed(row)

\* update: a campaign that activation has marked Running meanwhile does not
\* get another workflow version from a save that read it before.
RunningFlowIsPinned ==
  [][row'.flow # row.flow => row.status # "Running"]_vars

-----------------------------------------------------------------------------
Governance == INSTANCE GovernedCampaign WITH
  plan <- row.plan, terms <- row.terms, flow <- row.flow,
  approval <- row.approval, status <- row.status

\* _check_not_concurrently_modified: the requests, which read, work and compare
\* the stamp when they write, and the backend together act on the campaign as
\* though each had it to itself; a conflict leaves no trace.  The PATCH does not
\* compare, and is atomic all the same, since it writes only its own columns.
ImplementsGovernedCampaign == Governance!Spec
=============================================================================
