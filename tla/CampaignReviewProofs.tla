------------------------- MODULE CampaignReviewProofs -------------------------
(***************************************************************************)
(* Proofs about CampaignReview for any number of concurrent requests, any  *)
(* plans, terms, workflow versions and writes.                             *)
(***************************************************************************)
EXTENDS CampaignReview, TLAPS

(***************************************************************************)
(* The inductive invariant.  A request whose stamp still matches has read  *)
(* the row as it is, so what it prepared is what it writes; and each kind  *)
(* of request prepares only the changes it may make.                       *)
(***************************************************************************)
\* Every write makes the stamps of all earlier reads old.
ReadsAreStamped ==
  \A q \in Requests : request[q] # None =>
    /\ request[q].read.stamp <= row.stamp
    /\ Unmodified(request[q].read) => request[q].read = row

\* What the operations have in common: no request touches the stamp, and none
\* makes a campaign Approved but an approval.
Prepared(op, read, new) ==
  /\ new.stamp = read.stamp
  /\ op = "edit" => new.flow = read.flow
  /\ op = "edit" /\ new.approval = "Approved" =>
       Governed(new) = Governed(read) /\ read.approval = "Approved"
  /\ op = "save" => read.status # "Running" /\ new.approval # "Approved"
  /\ op = "patch" =>
       Governed(new) = Governed(read) /\ new.approval = read.approval
  /\ op \in {"submit", "approve", "reject"} =>
       Governed(new) = Governed(read)
  /\ op \in {"submit", "reject"} => new.approval # "Approved"

RequestsPrepared ==
  \A q \in Requests : request[q] # None =>
    Prepared(request[q].op, request[q].read, request[q].new)

\* The plan and the workflow of an Approved campaign are signed.
ApprovedIsSigned == row.approval = "Approved" => Governed(row) \in signed

RequestInv == TypeOK /\ ReadsAreStamped /\ RequestsPrepared
ReviewInv ==
  /\ RequestInv
  /\ ApprovedIsReviewed /\ ApprovedIsSigned
  /\ RunsWhatWasReviewed /\ AuditTracksPlan

-----------------------------------------------------------------------------
LEMMA ReviewInit == Init => ReviewInv
<1> SUFFICES ASSUME Init PROVE ReviewInv
  OBVIOUS
<1> USE ReviewAssumption
<1>1. TypeOK
  BY DEF Init, TypeOK, Row, Governed, Approvals, Statuses
<1>2. ReadsAreStamped /\ RequestsPrepared
  BY DEF Init, ReadsAreStamped, RequestsPrepared
<1>3. ApprovedIsReviewed /\ ApprovedIsSigned /\ RunsWhatWasReviewed
      /\ AuditTracksPlan
  BY DEF Init, ApprovedIsReviewed, ApprovedIsSigned, RunsWhatWasReviewed,
         AuditTracksPlan
<1>4. QED
  BY <1>1, <1>2, <1>3 DEF ReviewInv, RequestInv

\* A column that a request leaves as it read it keeps the row's value; the
\* others get the new one.
LEMMA ColumnwiseRow ==
  ASSUME row \in Row, NEW read \in Row, NEW new \in Row
  PROVE  LET merged == Columnwise(read, new)
         IN  /\ merged \in Row
             /\ merged.plan = IF new.plan # read.plan THEN new.plan ELSE row.plan
             /\ merged.terms = IF new.terms # read.terms THEN new.terms
                                                         ELSE row.terms
             /\ merged.flow = IF new.flow # read.flow THEN new.flow ELSE row.flow
             /\ merged.approval = IF new.approval # read.approval
                                  THEN new.approval ELSE row.approval
             /\ merged.status = IF new.status # read.status
                                THEN new.status ELSE row.status
             /\ merged.stamp = IF new.stamp # read.stamp
                               THEN new.stamp ELSE row.stamp
<1> DEFINE merged == Columnwise(read, new)
           names == {"plan", "terms", "flow", "approval", "status", "stamp"}
<1>1. DOMAIN row = names
  BY DEF Row
<1>2. merged = [c \in names |-> IF new[c] # read[c] THEN new[c] ELSE row[c]]
  BY <1>1 DEF Columnwise
<1>3. \A c \in names :
        merged[c] = IF new[c] # read[c] THEN new[c] ELSE row[c]
  BY <1>2
<1>4. /\ merged.plan \in Plans /\ merged.terms \in Terms
      /\ merged.flow \in 1 .. MaxFlows /\ merged.approval \in Approvals
      /\ merged.status \in Statuses /\ merged.stamp \in 0 .. MaxStamp
  BY <1>3 DEF Row
<1>5. merged = [plan |-> merged.plan, terms |-> merged.terms,
                flow |-> merged.flow, approval |-> merged.approval,
                status |-> merged.status, stamp |-> merged.stamp]
  BY <1>2
<1>6. merged \in Row
  BY <1>4, <1>5 DEF Row
<1>7. QED
  BY <1>3, <1>6

\* Each read prepares what its operation may.
LEMMA EditPrepared ==
  ASSUME NEW read \in Row, NEW p \in Plans, NEW t \in Terms
  PROVE  /\ EditOf(read, p, t) \in Row
         /\ Prepared("edit", read, EditOf(read, p, t))
<1> DEFINE new == [read EXCEPT !.plan = p, !.terms = t]
<1>1. /\ new \in Row
      /\ new.approval = read.approval /\ new.stamp = read.stamp
      /\ new.flow = read.flow
  BY DEF Row
<1>2. EditOf(read, p, t) = [new EXCEPT !.approval = Demoted(read, new)]
  BY DEF EditOf
<1>3. Demoted(read, new) \in Approvals
  BY <1>1 DEF Demoted, Row, Approvals
<1>4. Demoted(read, new) = "Approved" =>
        Governed(new) = Governed(read) /\ read.approval = "Approved"
  BY <1>1 DEF Demoted, Content, Governed
<1> HIDE DEF new
<1>5. /\ EditOf(read, p, t) \in Row
      /\ EditOf(read, p, t).approval = Demoted(read, new)
      /\ EditOf(read, p, t).stamp = new.stamp
      /\ EditOf(read, p, t).flow = new.flow
      /\ EditOf(read, p, t).plan = new.plan
  BY <1>1, <1>2, <1>3 DEF Row
<1>6. QED
  BY <1>1, <1>4, <1>5 DEF Prepared, Governed

LEMMA SavePrepared ==
  ASSUME row \in Row, NEW p \in Plans, NEW t \in Terms,
         NEW f \in SaveVersions(row), NEW s \in ClientStatuses \cup {row.status},
         SaveAllowed(SaveOf(row, p, t, f, s))
  PROVE  /\ SaveOf(row, p, t, f, s) \in Row
         /\ Prepared("save", row, SaveOf(row, p, t, f, s))
<1> DEFINE new == [row EXCEPT !.plan = p, !.terms = t, !.flow = f]
           approval == Demoted(row, new)
<1>1. f \in 1 .. MaxFlows /\ s \in Statuses
  BY ReviewAssumption DEF SaveVersions, Row
<1>2. new \in Row /\ new.approval = row.approval /\ new.stamp = row.stamp
  BY <1>1 DEF Row
<1>3. approval \in Approvals
  BY <1>2 DEF Demoted, Row, Approvals
<1>4. SaveOf(row, p, t, f, s) =
        [[new EXCEPT !.approval = approval] EXCEPT !.status = s]
  BY <1>2 DEF SaveOf, Row
<1> HIDE DEF new, approval
<1>5. [new EXCEPT !.approval = approval] \in Row
      /\ [new EXCEPT !.approval = approval].stamp = row.stamp
  BY <1>2, <1>3 DEF Row
<1>6. SaveOf(row, p, t, f, s) \in Row /\ SaveOf(row, p, t, f, s).stamp = row.stamp
  BY <1>1, <1>4, <1>5 DEF Row
<1>7. QED
  BY <1>6 DEF Prepared, SaveAllowed

-----------------------------------------------------------------------------
(***************************************************************************)
(* Steps that only read, and steps that give a request up.                 *)
(***************************************************************************)
LEMMA ReadKeeps ==
  ASSUME ReviewInv, NEW q \in Requests, NEW op \in Operations, NEW new \in Row,
         Read(q, op, new), Prepared(op, row, new)
  PROVE  ReviewInv'
<1> USE DEF ReviewInv, RequestInv
<1> DEFINE r == [op |-> op, read |-> row, new |-> new]
<1>1. /\ row \in Row /\ r \in Request
      /\ r.op = op /\ r.read = row /\ r.new = new
  BY DEF TypeOK, Request
<1>2. /\ request' = [request EXCEPT ![q] = r]
      /\ UNCHANGED <<row, audited, reviewed, signed, backend, running>>
  BY DEF Read, history, execution
<1> HIDE DEF r
<1>3. request'[q] = r /\ \A p \in Requests \ {q} : request'[p] = request[p]
  BY <1>2 DEF TypeOK
<1>4. TypeOK'
  BY <1>1, <1>2 DEF TypeOK
<1>5. ReadsAreStamped'
  BY <1>1, <1>2, <1>3, ReviewAssumption DEF ReadsAreStamped, Unmodified, Row
<1>6. RequestsPrepared'
  BY <1>1, <1>3 DEF RequestsPrepared
<1>7. QED
  BY <1>2, <1>4, <1>5, <1>6
  DEF ApprovedIsReviewed, ApprovedIsSigned, RunsWhatWasReviewed, AuditTracksPlan

LEMMA DropKeeps ==
  ASSUME ReviewInv, NEW q \in Requests,
         request' = [request EXCEPT ![q] = None],
         UNCHANGED <<row, audited, history, execution>>
  PROVE  ReviewInv'
<1> USE DEF ReviewInv, RequestInv
<1>1. /\ request' \in [Requests -> Request \cup {None}]
      /\ request'[q] = None
      /\ \A p \in Requests \ {q} : request'[p] = request[p]
      /\ UNCHANGED <<row, audited, reviewed, signed, backend, running>>
  BY DEF TypeOK, history, execution
<1>2. QED
  BY <1>1
  DEF TypeOK, ReadsAreStamped, Unmodified, RequestsPrepared, ApprovedIsReviewed,
      ApprovedIsSigned, RunsWhatWasReviewed, AuditTracksPlan

\* A write makes every request under way that read the row before it old.
LEMMA WriteKeeps ==
  ASSUME RequestInv, row' \in Row, row'.stamp = row.stamp + 1,
         \/ UNCHANGED request
         \/ \E q \in Requests : request' = [request EXCEPT ![q] = None]
  PROVE  /\ request' \in [Requests -> Request \cup {None}]
         /\ ReadsAreStamped' /\ RequestsPrepared'
<1> USE DEF RequestInv
<1>1. /\ request' \in [Requests -> Request \cup {None}]
      /\ \A p \in Requests : request'[p] # None => request'[p] = request[p]
  BY DEF TypeOK
<1>2. row.stamp \in Nat /\ \A p \in Requests :
        request[p] # None => request[p].read.stamp \in Nat
  BY ReviewAssumption DEF TypeOK, Request, Row
<1>3. ReadsAreStamped'
  BY <1>1, <1>2 DEF ReadsAreStamped, Unmodified
<1>4. RequestsPrepared'
  BY <1>1 DEF RequestsPrepared
<1>5. QED
  BY <1>1, <1>3, <1>4

LEMMA ReadStep ==
  ASSUME ReviewInv, NEW q \in Requests,
         \/ ReadEdit(q) \/ ReadSave(q) \/ ReadPatch(q)
         \/ ReadSubmit(q) \/ ReadApprove(q) \/ ReadReject(q)
  PROVE  ReviewInv'
<1>0. row \in Row
  BY DEF ReviewInv, RequestInv, TypeOK
<1>1. CASE ReadEdit(q)
  BY <1>0, <1>1, EditPrepared, ReadKeeps DEF ReadEdit, Operations
<1>2. CASE ReadSave(q)
  BY <1>0, <1>2, SavePrepared, ReadKeeps DEF ReadSave, Operations
<1>3. CASE ReadPatch(q)
  <2>1. PICK t \in Terms, s \in ClientStatuses \cup {row.status} :
          Read(q, "patch", [row EXCEPT !.terms = t, !.status = s])
    BY <1>3 DEF ReadPatch
  <2> DEFINE new == [row EXCEPT !.terms = t, !.status = s]
  <2>2. new \in Row
    BY <1>0, ReviewAssumption DEF Row
  <2>3. Prepared("patch", row, new)
    BY <1>0 DEF Prepared, Governed, Row
  <2>4. QED
    BY <2>1, <2>2, <2>3, ReadKeeps DEF Operations
<1>4. ASSUME NEW op \in {"submit", "approve", "reject"}, NEW a \in Approvals,
             a = "Approved" => op = "approve",
             Read(q, op, [row EXCEPT !.approval = a])
      PROVE  ReviewInv'
  <2> DEFINE new == [row EXCEPT !.approval = a]
  <2>1. /\ new \in Row /\ new.approval = a /\ new.stamp = row.stamp
        /\ new.plan = row.plan /\ new.flow = row.flow
    BY <1>0 DEF Row
  <2>2. Prepared(op, row, new)
    BY <1>4, <2>1 DEF Prepared, Governed
  <2>3. op \in Operations
    BY DEF Operations
  <2> HIDE DEF new
  <2>4. Read(q, op, new)
    BY <1>4 DEF new
  <2>5. QED
    BY <2>1, <2>2, <2>3, <2>4, ReadKeeps
<1>5. CASE ReadSubmit(q)
  BY <1>4, <1>5 DEF ReadSubmit, Approvals
<1>6. CASE ReadApprove(q)
  BY <1>4, <1>6 DEF ReadApprove, Approvals
<1>7. CASE ReadReject(q)
  BY <1>4, <1>7 DEF ReadReject, Approvals
<1>8. QED
  BY <1>1, <1>2, <1>3, <1>5, <1>6, <1>7

(***************************************************************************)
(* Commits.                                                                *)
(***************************************************************************)
\* What a governed request writes is what it prepared.
LEMMA GovernedWrite ==
  ASSUME RequestInv, NEW q \in Requests, request[q] # None,
         Unmodified(request[q].read), Write(q), row.stamp < MaxStamp
  PROVE  /\ request[q].read = row /\ request[q].new \in Row
         /\ row' \in Row /\ row'.stamp = row.stamp + 1
         /\ row' = [request[q].new EXCEPT !.stamp = row.stamp + 1]
         /\ Governed(row') = Governed(request[q].new)
         /\ row'.approval = request[q].new.approval
         /\ row'.flow = request[q].new.flow
<1> USE ReviewAssumption DEF RequestInv
<1> DEFINE read == request[q].read
           new == request[q].new
<1>1. read = row /\ new \in Row /\ row \in Row
  BY DEF ReadsAreStamped, TypeOK, Request
<1>2. Columnwise(read, new) = new
  <2>1. DOMAIN row = DOMAIN new
        /\ new = [c \in DOMAIN new |-> new[c]]
    BY <1>1 DEF Row
  <2>2. QED
    BY <1>1, <2>1 DEF Columnwise
<1>3. row' = [new EXCEPT !.stamp = row.stamp + 1]
  BY <1>2 DEF Write, Restamped
<1>4. row.stamp + 1 \in 0 .. MaxStamp
  BY <1>1 DEF Row
<1> HIDE DEF read, new
<1>5. /\ row' \in Row /\ row'.stamp = row.stamp + 1
      /\ Governed(row') = Governed(new)
      /\ row'.approval = new.approval /\ row'.flow = new.flow
  BY <1>1, <1>3, <1>4 DEF Row, Governed
<1>6. QED
  BY <1>1, <1>3, <1>5 DEF read, new

LEMMA CommitEditKeeps ==
  ASSUME ReviewInv, NEW q \in Requests, CommitEdit(q)
  PROVE  ReviewInv'
<1> USE DEF ReviewInv
<1> DEFINE read == request[q].read
           new == request[q].new
<1>1. /\ request[q] # None /\ request[q].op \in {"edit", "save"}
      /\ Prepared(request[q].op, read, new)
      /\ request' = [request EXCEPT ![q] = None]
      /\ audited' = Governed(new)
      /\ UNCHANGED <<reviewed, signed, backend, running>>
  BY DEF CommitEdit, Commits, RequestInv, RequestsPrepared, history, execution
<1>2. /\ read = row /\ new \in Row
      /\ row' \in Row /\ row'.stamp = row.stamp + 1
      /\ Governed(row') = Governed(new)
      /\ row'.approval = new.approval
  BY GovernedWrite DEF CommitEdit, Commits
<1>3. ReadsAreStamped' /\ RequestsPrepared'
      /\ request' \in [Requests -> Request \cup {None}]
  BY <1>1, <1>2, WriteKeeps
<1> HIDE DEF read, new
<1>4. TypeOK'
  BY <1>1, <1>2, <1>3 DEF RequestInv, TypeOK, Governed, Row
<1>5. row'.approval = "Approved" =>
        Governed(row') = Governed(row) /\ row.approval = "Approved"
  BY <1>1, <1>2 DEF Prepared
<1>6. ApprovedIsReviewed' /\ ApprovedIsSigned'
  BY <1>1, <1>5 DEF ApprovedIsReviewed, ApprovedIsSigned
<1>7. RunsWhatWasReviewed' /\ AuditTracksPlan'
  BY <1>1, <1>2 DEF RunsWhatWasReviewed, AuditTracksPlan
<1>8. QED
  BY <1>3, <1>4, <1>6, <1>7 DEF RequestInv

LEMMA CommitReviewKeeps ==
  ASSUME ReviewInv, NEW q \in Requests, CommitReview(q)
  PROVE  ReviewInv'
<1> USE DEF ReviewInv
<1> DEFINE read == request[q].read
           new == request[q].new
<1>1. /\ request[q] # None /\ request[q].op \in {"submit", "approve", "reject"}
      /\ Prepared(request[q].op, read, new)
      /\ request' = [request EXCEPT ![q] = None]
      /\ UNCHANGED <<audited, backend, running>>
  BY DEF CommitReview, Commits, RequestInv, RequestsPrepared, execution
<1>2. /\ read = row /\ row \in Row
      /\ row' \in Row /\ row'.stamp = row.stamp + 1
      /\ Governed(row') = Governed(new)
      /\ row'.approval = new.approval
  BY GovernedWrite DEF CommitReview, Commits, RequestInv, TypeOK
<1>3. ReadsAreStamped' /\ RequestsPrepared'
      /\ request' \in [Requests -> Request \cup {None}]
  BY <1>1, <1>2, WriteKeeps
<1>4. Governed(row') = Governed(row)
  BY <1>1, <1>2 DEF Prepared
<1>5. IF request[q].op = "approve"
      THEN reviewed' = Content(row) /\ signed' = signed \cup {Governed(row)}
      ELSE reviewed' = reviewed /\ signed' = signed
  BY <1>2 DEF CommitReview, history
<1>6. /\ Content(row) \in Columns
      /\ Governed(row) \in [plan : Plans, flow : 1 .. MaxFlows]
      /\ Governed(Content(row)) = Governed(row)
  BY <1>2 DEF Content, Columns, Governed, Row
<1>7. row'.approval = "Approved" => request[q].op = "approve"
  BY <1>1, <1>2 DEF Prepared
<1> HIDE DEF read, new
<1>8. TypeOK'
  BY <1>1, <1>2, <1>3, <1>5, <1>6 DEF RequestInv, TypeOK
<1>9. ApprovedIsReviewed' /\ ApprovedIsSigned'
  BY <1>4, <1>5, <1>6, <1>7, ReviewAssumption
  DEF ApprovedIsReviewed, ApprovedIsSigned
<1>10. RunsWhatWasReviewed' /\ AuditTracksPlan'
  BY <1>1, <1>4, <1>5 DEF RunsWhatWasReviewed, AuditTracksPlan
<1>11. QED
  BY <1>3, <1>8, <1>9, <1>10 DEF RequestInv

\* The generic PATCH writes over a row it may not have read, but never a
\* governed column.
LEMMA CommitPatchKeeps ==
  ASSUME ReviewInv, NEW q \in Requests, CommitPatch(q)
  PROVE  ReviewInv'
<1> USE DEF ReviewInv
<1> DEFINE read == request[q].read
           new == request[q].new
           merged == Columnwise(read, new)
<1>1. /\ request[q] # None /\ request[q].op = "patch"
      /\ Prepared("patch", read, new)
      /\ read \in Row /\ new \in Row /\ row \in Row
      /\ row.stamp < MaxStamp
      /\ request' = [request EXCEPT ![q] = None]
      /\ UNCHANGED <<audited, reviewed, signed, backend, running>>
  BY DEF CommitPatch, Commits, RequestInv, RequestsPrepared, TypeOK, Request,
         history, execution
<1>2. /\ new.plan = read.plan /\ new.flow = read.flow
      /\ new.approval = read.approval
  BY <1>1 DEF Prepared, Governed
<1>3. /\ merged \in Row
      /\ merged.plan = row.plan /\ merged.flow = row.flow
      /\ merged.approval = row.approval
  BY <1>1, <1>2, ColumnwiseRow
<1>4. row' = [merged EXCEPT !.stamp = row.stamp + 1]
      /\ row.stamp + 1 \in 0 .. MaxStamp
  BY <1>1, ReviewAssumption DEF CommitPatch, Write, Restamped, Row
<1> HIDE DEF read, new, merged
<1>5. /\ row' \in Row /\ row'.stamp = row.stamp + 1
      /\ row'.approval = row.approval /\ Governed(row') = Governed(row)
  BY <1>3, <1>4 DEF Row, Governed
<1>6. ReadsAreStamped' /\ RequestsPrepared'
      /\ request' \in [Requests -> Request \cup {None}]
  BY <1>1, <1>5, WriteKeeps
<1>7. TypeOK'
  BY <1>1, <1>5, <1>6 DEF RequestInv, TypeOK
<1>8. QED
  BY <1>1, <1>5, <1>6, <1>7
  DEF RequestInv, ApprovedIsReviewed, ApprovedIsSigned, RunsWhatWasReviewed,
      AuditTracksPlan

(***************************************************************************)
(* The backend.                                                            *)
(***************************************************************************)
LEMMA BackendWriteKeeps ==
  ASSUME ReviewInv, NEW s \in Statuses, BackendWrite(s),
         backend' \in {"idle", "activating", "refused", "running"},
         running' \in {running, None}
  PROVE  ReviewInv'
<1> USE DEF ReviewInv
<1> DEFINE settled == [row EXCEPT !.status = s]
<1>1. /\ row \in Row /\ row.stamp + 1 \in 0 .. MaxStamp
      /\ UNCHANGED <<request, audited, reviewed, signed>>
  BY ReviewAssumption DEF RequestInv, TypeOK, BackendWrite, Row, history
<1>2. /\ settled \in Row /\ settled.approval = row.approval
      /\ settled.plan = row.plan /\ settled.flow = row.flow
  BY <1>1 DEF Row
<1>3. row' = [settled EXCEPT !.stamp = row.stamp + 1]
  BY DEF BackendWrite, Restamped
<1> HIDE DEF settled
<1>4. /\ row' \in Row /\ row'.stamp = row.stamp + 1
      /\ row'.approval = row.approval /\ Governed(row') = Governed(row)
  BY <1>1, <1>2, <1>3 DEF Row, Governed
<1>5. ReadsAreStamped' /\ RequestsPrepared'
      /\ request' \in [Requests -> Request \cup {None}]
  BY <1>1, <1>4, WriteKeeps
<1>6. TypeOK'
  BY <1>1, <1>4, <1>5 DEF RequestInv, TypeOK
<1>7. QED
  BY <1>1, <1>4, <1>5, <1>6
  DEF RequestInv, ApprovedIsReviewed, ApprovedIsSigned, RunsWhatWasReviewed,
      AuditTracksPlan

LEMMA BackendKeeps ==
  ASSUME ReviewInv,
         Activate \/ Submitted \/ SubmissionFailed \/ Load \/ Settle
  PROVE  ReviewInv'
<1>1. CASE Activate
  BY <1>1, BackendWriteKeeps DEF Activate, Statuses
<1>2. CASE SubmissionFailed
  BY <1>2, BackendWriteKeeps DEF SubmissionFailed, Statuses
\* The backend goes on without a write.
<1>3. ASSUME UNCHANGED <<row, request, audited, history>>,
             backend' \in {"idle", "activating", "refused", "running"},
             \/ running' \in {running, None}
             \/ running' = Governed(row) /\ row.approval = "Approved"
      PROVE  ReviewInv'
  <2>1. UNCHANGED <<row, request, audited, reviewed, signed>>
    BY <1>3 DEF history
  <2>2. Governed(row) \in [plan : Plans, flow : 1 .. MaxFlows]
    BY DEF ReviewInv, RequestInv, TypeOK, Governed, Row
  <2>3. QED
    BY <1>3, <2>1, <2>2
    DEF ReviewInv, RequestInv, TypeOK, ReadsAreStamped, Unmodified,
        RequestsPrepared, ApprovedIsReviewed, ApprovedIsSigned,
        RunsWhatWasReviewed, AuditTracksPlan
<1>4. CASE Submitted
  BY <1>3, <1>4 DEF Submitted
<1>5. CASE Load
  BY <1>3, <1>5 DEF Load, RunnerMayRun
<1>6. CASE Settle
  <2>1. CASE row.status \in {"Running", "Failed"}
    BY <1>6, <2>1, BackendWriteKeeps DEF Settle, Statuses
  <2>2. CASE row.status \notin {"Running", "Failed"}
    BY <1>3, <1>6, <2>2 DEF Settle
  <2>3. QED
    BY <2>1, <2>2
<1>7. QED
  BY <1>1, <1>2, <1>4, <1>5, <1>6

\* Every step preserves the invariant.
LEMMA ReviewStep == ReviewInv /\ [Next]_vars => ReviewInv'
<1> SUFFICES ASSUME ReviewInv, [Next]_vars PROVE ReviewInv'
  OBVIOUS
<1>1. CASE UNCHANGED vars
  BY <1>1
  DEF vars, history, execution, ReviewInv, RequestInv, TypeOK, ReadsAreStamped,
      Unmodified, RequestsPrepared, ApprovedIsReviewed, ApprovedIsSigned,
      RunsWhatWasReviewed, AuditTracksPlan
<1>2. ASSUME NEW q \in Requests, Refuse(q) \/ Conflict(q) PROVE ReviewInv'
  BY <1>2, DropKeeps DEF Refuse, Conflict
<1>3. QED
  BY <1>1, <1>2, ReadStep, CommitEditKeeps, CommitReviewKeeps, CommitPatchKeeps,
     BackendKeeps DEF Next

\* Type correctness of the row, the requests and the backend.
THEOREM ReviewTypeCorrect == Spec => []TypeOK
<1>1. ReviewInv => TypeOK
  BY DEF ReviewInv, RequestInv
<1>2. QED
  BY ReviewInit, ReviewStep, <1>1, PTL DEF Spec

\* The plan and the workflow of an Approved campaign are those its approver
\* read, whatever number of edits, saves, patches and reviews raced with the
\* approval.
THEOREM ReviewApproved == Spec => []ApprovedIsReviewed
<1>1. ReviewInv => ApprovedIsReviewed
  BY DEF ReviewInv
<1>2. QED
  BY ReviewInit, ReviewStep, <1>1, PTL DEF Spec

\* The runner only executes a plan and workflow version that an approver read.
THEOREM ReviewRuns == Spec => []RunsWhatWasReviewed
<1>1. ReviewInv => RunsWhatWasReviewed
  BY DEF ReviewInv
<1>2. QED
  BY ReviewInit, ReviewStep, <1>1, PTL DEF Spec

\* The last entry of the audit trail is what the row holds: no edit is lost
\* under another one.
THEOREM ReviewAudit == Spec => []AuditTracksPlan
<1>1. ReviewInv => AuditTracksPlan
  BY DEF ReviewInv
<1>2. QED
  BY ReviewInit, ReviewStep, <1>1, PTL DEF Spec

\* Only a save changes the workflow version, and it had read the row as it is,
\* when it was not Running.
LEMMA FlowStep ==
  ASSUME ReviewInv, [Next]_vars, row'.flow # row.flow
  PROVE  row.status # "Running"
<1> USE DEF ReviewInv
<1>1. row \in Row
  BY DEF RequestInv, TypeOK
<1>2. ASSUME NEW q \in Requests, CommitEdit(q) PROVE row.status # "Running"
  <2>1. /\ request[q].read = row /\ row'.flow = request[q].new.flow
        /\ Prepared(request[q].op, row, request[q].new)
        /\ request[q].op \in {"edit", "save"}
    BY <1>2, GovernedWrite DEF CommitEdit, Commits, RequestInv, RequestsPrepared
  <2>2. QED
    BY <2>1 DEF Prepared
<1>3. ASSUME NEW q \in Requests, CommitReview(q) PROVE FALSE
  <2>1. /\ request[q].read = row
        /\ Governed(row') = Governed(request[q].new)
        /\ Prepared(request[q].op, row, request[q].new)
        /\ request[q].op \in {"submit", "approve", "reject"}
    BY <1>3, GovernedWrite
    DEF CommitReview, Commits, RequestInv, RequestsPrepared
  <2>2. Governed(row') = Governed(row)
    BY <2>1 DEF Prepared
  <2>3. QED
    BY <2>2 DEF Governed
<1>4. ASSUME NEW q \in Requests, CommitPatch(q) PROVE FALSE
  <2>1. /\ Prepared("patch", request[q].read, request[q].new)
        /\ request[q].read \in Row /\ request[q].new \in Row
    BY <1>4
    DEF CommitPatch, Commits, RequestInv, RequestsPrepared, TypeOK, Request
  <2>2. request[q].new.flow = request[q].read.flow
    BY <2>1 DEF Prepared, Governed
  <2>3. Columnwise(request[q].read, request[q].new).flow = row.flow
        /\ Columnwise(request[q].read, request[q].new) \in Row
    BY <1>1, <2>1, <2>2, ColumnwiseRow
  <2>4. row'.flow = row.flow
    BY <1>4, <2>3 DEF CommitPatch, Write, Restamped, Row
  <2>5. QED
    BY <2>4
<1>5. ASSUME NEW s, BackendWrite(s) PROVE FALSE
  BY <1>1, <1>5 DEF BackendWrite, Restamped, Row
<1>6. CASE UNCHANGED vars
  BY <1>6 DEF vars
<1>7. ASSUME NEW q \in Requests,
             \/ ReadEdit(q) \/ ReadSave(q) \/ ReadPatch(q)
             \/ ReadSubmit(q) \/ ReadApprove(q) \/ ReadReject(q)
             \/ Conflict(q) \/ Refuse(q)
      PROVE  FALSE
  BY <1>7
  DEF ReadEdit, ReadSave, ReadPatch, ReadSubmit, ReadApprove, ReadReject, Read,
      Conflict, Refuse
<1>8. CASE Activate \/ Submitted \/ SubmissionFailed \/ Load \/ Settle
  BY <1>5, <1>8 DEF Activate, Submitted, SubmissionFailed, Load, Settle
<1>9. QED
  BY <1>2, <1>3, <1>4, <1>6, <1>7, <1>8 DEF Next

\* A campaign that activation has marked Running keeps its workflow version,
\* also from saves that read it before.
THEOREM ReviewFlowPinned == Spec => RunningFlowIsPinned
<1>1. ReviewInv /\ [Next]_vars =>
        [row'.flow # row.flow => row.status # "Running"]_vars
  BY FlowStep
<1>2. QED
  BY ReviewInit, ReviewStep, <1>1, PTL DEF Spec, RunningFlowIsPinned

-----------------------------------------------------------------------------
(***************************************************************************)
(* The refinement of GovernedCampaign.  What is needed beyond ReviewInv:   *)
(* a request carries exactly what its operation makes of what it has read, *)
(* and only a runner that was not refused has something loaded.            *)
(***************************************************************************)
PreparedAs(op, read, new) ==
  /\ op = "edit" => \E p \in Plans, t \in Terms : new = EditOf(read, p, t)
  /\ op = "save" =>
       /\ read.status # "Running" /\ new.approval # "Approved"
       /\ \E p \in Plans, t \in Terms, f \in SaveVersions(read),
             s \in ClientStatuses \cup {read.status} :
            new = SaveOf(read, p, t, f, s)
  /\ op = "patch" =>
       \E t \in Terms, s \in ClientStatuses \cup {read.status} :
         new = [read EXCEPT !.terms = t, !.status = s]
  /\ op = "submit" =>
       read.approval = "Draft" /\ new = [read EXCEPT !.approval = "InReview"]
  /\ op = "approve" =>
       read.approval = "InReview" /\ new = [read EXCEPT !.approval = "Approved"]
  /\ op = "reject" =>
       read.approval = "InReview" /\ new = [read EXCEPT !.approval = "Rejected"]

RequestsExact ==
  \A q \in Requests : request[q] # None =>
    PreparedAs(request[q].op, request[q].read, request[q].new)

LoadedByRunner == running # None <=> backend = "running"

GovernedInv == ReviewInv /\ RequestsExact /\ LoadedByRunner

LEMMA ReadExact ==
  ASSUME ReviewInv, RequestsExact, NEW q \in Requests, NEW op, NEW new,
         Read(q, op, new), PreparedAs(op, row, new)
  PROVE  RequestsExact'
<1> DEFINE r == [op |-> op, read |-> row, new |-> new]
<1>1. r.op = op /\ r.read = row /\ r.new = new
  OBVIOUS
<1>2. request' = [request EXCEPT ![q] = r] /\ request \in [Requests -> Request \cup {None}]
  BY DEF Read, ReviewInv, RequestInv, TypeOK
<1> HIDE DEF r
<1>3. request'[q] = r /\ \A p \in Requests \ {q} : request'[p] = request[p]
  BY <1>2
<1>4. ASSUME NEW p \in Requests, request'[p] # None
      PROVE  PreparedAs(request'[p].op, request'[p].read, request'[p].new)
  <2>1. CASE p = q
    BY <1>1, <1>3, <2>1
  <2>2. CASE p # q
    BY <1>3, <1>4, <2>2 DEF RequestsExact
  <2>3. QED
    BY <2>1, <2>2
<1>5. QED
  BY <1>4 DEF RequestsExact

\* Every other step keeps the requests under way or ends one.
LEMMA DropExact ==
  ASSUME ReviewInv, RequestsExact,
         \/ UNCHANGED request
         \/ \E q \in Requests : request' = [request EXCEPT ![q] = None]
  PROVE  RequestsExact'
<1>1. \A p \in Requests : request'[p] # None => request'[p] = request[p]
  BY DEF ReviewInv, RequestInv, TypeOK
<1>2. QED
  BY <1>1 DEF RequestsExact

LEMMA ExactStep ==
  ASSUME GovernedInv, [Next]_vars PROVE RequestsExact'
<1> USE DEF GovernedInv
<1>1. ASSUME NEW q \in Requests, ReadEdit(q) \/ ReadSave(q) \/ ReadPatch(q)
      PROVE  RequestsExact'
  <2>1. CASE ReadEdit(q)
    <3>1. PICK p \in Plans, t \in Terms : Read(q, "edit", EditOf(row, p, t))
      BY <2>1 DEF ReadEdit
    <3>2. PreparedAs("edit", row, EditOf(row, p, t))
      BY DEF PreparedAs
    <3>3. QED
      BY <3>1, <3>2, ReadExact
  <2>2. CASE ReadSave(q)
    <3>1. PICK p \in Plans, t \in Terms, f \in SaveVersions(row),
               s \in ClientStatuses \cup {row.status} :
            /\ SaveAllowed(SaveOf(row, p, t, f, s))
            /\ Read(q, "save", SaveOf(row, p, t, f, s))
      BY <2>2 DEF ReadSave
    <3>2. PreparedAs("save", row, SaveOf(row, p, t, f, s))
      BY <3>1 DEF PreparedAs, SaveAllowed
    <3>3. QED
      BY <3>1, <3>2, ReadExact
  <2>3. CASE ReadPatch(q)
    <3>1. PICK t \in Terms, s \in ClientStatuses \cup {row.status} :
            Read(q, "patch", [row EXCEPT !.terms = t, !.status = s])
      BY <2>3 DEF ReadPatch
    <3>2. PreparedAs("patch", row, [row EXCEPT !.terms = t, !.status = s])
      BY DEF PreparedAs
    <3>3. QED
      BY <3>1, <3>2, ReadExact
  <2>4. QED
    BY <1>1, <2>1, <2>2, <2>3
<1>2. ASSUME NEW q \in Requests, ReadSubmit(q) \/ ReadApprove(q) \/ ReadReject(q)
      PROVE  RequestsExact'
  <2>1. PICK op \in {"submit", "approve", "reject"} :
          \E new : Read(q, op, new) /\ PreparedAs(op, row, new)
    BY <1>2 DEF ReadSubmit, ReadApprove, ReadReject, Reviewable, PreparedAs
  <2>2. QED
    BY <2>1, ReadExact
<1>3. ASSUME NEW q \in Requests,
             \/ CommitEdit(q) \/ CommitReview(q) \/ CommitPatch(q)
             \/ Conflict(q) \/ Refuse(q)
      PROVE  RequestsExact'
  <2>1. request' = [request EXCEPT ![q] = None]
    BY <1>3 DEF CommitEdit, CommitReview, CommitPatch, Commits, Conflict, Refuse
  <2>2. QED
    BY <2>1, DropExact
<1>4. CASE \/ Activate \/ Submitted \/ SubmissionFailed \/ Load \/ Settle
           \/ UNCHANGED vars
  <2>1. UNCHANGED request
    BY <1>4 DEF Activate, Submitted, SubmissionFailed, Load, Settle, BackendWrite, vars
  <2>2. QED
    BY <2>1, DropExact
<1>5. QED
  BY <1>1, <1>2, <1>3, <1>4 DEF Next

LEMMA LoadedStep ==
  ASSUME GovernedInv, [Next]_vars PROVE LoadedByRunner'
<1> USE DEF GovernedInv, LoadedByRunner
<1>1. ASSUME NEW q \in Requests,
             \/ ReadEdit(q) \/ ReadSave(q) \/ ReadPatch(q)
             \/ ReadSubmit(q) \/ ReadApprove(q) \/ ReadReject(q)
      PROVE  UNCHANGED execution
  BY <1>1 DEF ReadEdit, ReadSave, ReadPatch, ReadSubmit, ReadApprove, ReadReject,
              Read
<1>2. ASSUME NEW q \in Requests,
             \/ CommitEdit(q) \/ CommitReview(q) \/ CommitPatch(q)
             \/ Conflict(q) \/ Refuse(q)
      PROVE  UNCHANGED execution
  BY <1>2 DEF CommitEdit, CommitReview, CommitPatch, Conflict, Refuse
<1>3. CASE UNCHANGED execution
  BY <1>3 DEF execution
<1>4. CASE Activate \/ Submitted \/ SubmissionFailed \/ Settle
  BY <1>4 DEF Activate, Submitted, SubmissionFailed, Settle
<1>5. CASE Load
  <2>1. Governed(row) # None
    BY ReviewAssumption DEF ReviewInv, RequestInv, TypeOK, Row, Governed
  <2>2. QED
    BY <1>5, <2>1 DEF Load
<1>6. QED
  BY <1>1, <1>2, <1>3, <1>4, <1>5 DEF Next, vars

LEMMA GovernedInit == Init => GovernedInv
<1> SUFFICES ASSUME Init PROVE GovernedInv
  OBVIOUS
<1>1. RequestsExact /\ LoadedByRunner
  BY DEF Init, RequestsExact, LoadedByRunner
<1>2. QED
  BY <1>1, ReviewInit DEF GovernedInv

LEMMA GovernedStep == GovernedInv /\ [Next]_vars => GovernedInv'
  BY ReviewStep, ExactStep, LoadedStep DEF GovernedInv

-----------------------------------------------------------------------------
(***************************************************************************)
(* Each commit is one step of the abstract campaign.                       *)
(***************************************************************************)
LEMMA EditRefines ==
  ASSUME GovernedInv, NEW q \in Requests, CommitEdit(q)
  PROVE  Governance!Edit \/ Governance!Save
<1> DEFINE new == request[q].new
<1>1. /\ request[q] # None /\ request[q].op \in {"edit", "save"}
      /\ PreparedAs(request[q].op, request[q].read, new)
      /\ UNCHANGED <<signed, running>>
  BY DEF CommitEdit, Commits, GovernedInv, RequestsExact, history, execution
<1>2. /\ request[q].read = row /\ row \in Row /\ new \in Row /\ row' \in Row
      /\ row' = [new EXCEPT !.stamp = row.stamp + 1]
  BY GovernedWrite DEF CommitEdit, Commits, GovernedInv, ReviewInv, RequestInv, TypeOK
<1>3. PreparedAs(request[q].op, row, new)
  BY <1>1, <1>2
<1>4. /\ row'.plan = new.plan /\ row'.terms = new.terms /\ row'.flow = new.flow
      /\ row'.approval = new.approval /\ row'.status = new.status
  BY <1>2 DEF Row
<1> HIDE DEF new
<1>5. ASSUME request[q].op = "edit" PROVE Governance!Edit
  <2>1. PICK p \in Plans, t \in Terms : new = EditOf(row, p, t)
    BY <1>3, <1>5 DEF PreparedAs
  <2> DEFINE e == [row EXCEPT !.plan = p, !.terms = t]
  <2>2. /\ e.plan = p /\ e.terms = t /\ e.flow = row.flow /\ e \in Row
        /\ e.approval = row.approval /\ e.status = row.status
    BY <1>2 DEF Row
  <2>3. new = [e EXCEPT !.approval = Demoted(row, e)]
    BY <2>1 DEF EditOf
  <2> HIDE DEF e
  <2>4. /\ new.plan = p /\ new.terms = t /\ new.flow = row.flow
        /\ new.status = row.status /\ new.approval = Demoted(row, e)
    BY <2>2, <2>3 DEF Row
  <2>5. Demoted(row, e) = IF (p # row.plan \/ t # row.terms)
                              /\ row.approval \in {"Approved", "Rejected"}
                          THEN "InReview" ELSE row.approval
    BY <2>2 DEF Demoted, Content
  <2>6. QED
    BY <1>1, <1>4, <2>4, <2>5
    DEF Governance!Edit, Governance!Redecided, Governance!content
<1>6. ASSUME request[q].op = "save" PROVE Governance!Save
  <2>1. /\ row.status # "Running" /\ new.approval # "Approved"
        /\ \E p \in Plans, t \in Terms, f \in SaveVersions(row),
              s \in ClientStatuses \cup {row.status} : new = SaveOf(row, p, t, f, s)
    BY <1>3, <1>6 DEF PreparedAs
  <2>2. PICK p \in Plans, t \in Terms, f \in SaveVersions(row),
             s \in ClientStatuses \cup {row.status} : new = SaveOf(row, p, t, f, s)
    BY <2>1
  <2> DEFINE e == [row EXCEPT !.plan = p, !.terms = t, !.flow = f]
  <2>3. /\ e.plan = p /\ e.terms = t /\ e.flow = f
        /\ e.approval = row.approval /\ DOMAIN e = DOMAIN row
    BY <1>2 DEF Row
  <2>4. new = [e EXCEPT !.approval = Demoted(row, e), !.status = s]
    BY <2>2 DEF SaveOf
  <2> HIDE DEF e
  <2>5. /\ new.plan = p /\ new.terms = t /\ new.flow = f
        /\ new.status = s /\ new.approval = Demoted(row, e)
    BY <1>2, <2>3, <2>4 DEF Row
  <2>6. Demoted(row, e) = IF (p # row.plan \/ t # row.terms \/ f # row.flow)
                              /\ row.approval \in {"Approved", "Rejected"}
                          THEN "InReview" ELSE row.approval
    BY <2>3 DEF Demoted, Content
  <2>7. QED
    BY <1>1, <1>4, <2>1, <2>5, <2>6
    DEF Governance!Save, Governance!Redecided, Governance!content, SaveVersions
<1>7. QED
  BY <1>1, <1>5, <1>6

LEMMA ReviewRefines ==
  ASSUME GovernedInv, NEW q \in Requests, CommitReview(q)
  PROVE  Governance!Submit \/ Governance!Approve \/ Governance!Reject
<1> DEFINE new == request[q].new
<1>1. /\ request[q] # None /\ request[q].op \in {"submit", "approve", "reject"}
      /\ PreparedAs(request[q].op, request[q].read, new)
      /\ UNCHANGED running
  BY DEF CommitReview, Commits, GovernedInv, RequestsExact, execution
<1>2. /\ request[q].read = row /\ row \in Row
      /\ row' = [new EXCEPT !.stamp = row.stamp + 1] /\ new \in Row
  BY GovernedWrite DEF CommitReview, Commits, GovernedInv, ReviewInv, RequestInv, TypeOK
<1>3. PreparedAs(request[q].op, row, new)
  BY <1>1, <1>2
<1>4. /\ row'.plan = new.plan /\ row'.terms = new.terms /\ row'.flow = new.flow
      /\ row'.approval = new.approval /\ row'.status = new.status
  BY <1>2 DEF Row
<1>5. signed' = IF request[q].op = "approve"
                THEN signed \cup {Governed(row)} ELSE signed
  BY <1>2 DEF CommitReview, history
<1> HIDE DEF new
<1>6. ASSUME NEW from \in Approvals, NEW to \in Approvals, row.approval = from,
             new = [row EXCEPT !.approval = to]
      PROVE  Governance!Decide(from, to)
  <2>1. /\ new.plan = row.plan /\ new.terms = row.terms /\ new.flow = row.flow
        /\ new.status = row.status /\ new.approval = to
    BY <1>2, <1>6 DEF Row
  <2>2. QED
    BY <1>1, <1>4, <1>6, <2>1 DEF Governance!Decide, Governance!content
<1>7. CASE request[q].op = "submit"
  BY <1>3, <1>5, <1>6, <1>7 DEF PreparedAs, Governance!Submit, Approvals
<1>8. CASE request[q].op = "approve"
  BY <1>3, <1>5, <1>6, <1>8
  DEF PreparedAs, Governance!Approve, Governance!Governed, Governed, Approvals
<1>9. CASE request[q].op = "reject"
  BY <1>3, <1>5, <1>6, <1>9 DEF PreparedAs, Governance!Reject, Approvals
<1>10. QED
  BY <1>1, <1>7, <1>8, <1>9

LEMMA PatchRefines ==
  ASSUME GovernedInv, NEW q \in Requests, CommitPatch(q)
  PROVE  Governance!Patch
<1> DEFINE read == request[q].read
           new == request[q].new
           merged == Columnwise(read, new)
<1>1. /\ PreparedAs("patch", read, new)
      /\ read \in Row /\ new \in Row /\ row \in Row
      /\ UNCHANGED <<signed, running>>
      /\ row' = [merged EXCEPT !.stamp = row.stamp + 1]
  BY DEF CommitPatch, Commits, Write, Restamped, GovernedInv, ReviewInv, RequestInv,
         RequestsExact, TypeOK, Request, history, execution
<1>2. PICK t \in Terms, s \in ClientStatuses \cup {read.status} :
        new = [read EXCEPT !.terms = t, !.status = s]
  BY <1>1 DEF PreparedAs
<1>3. /\ new.plan = read.plan /\ new.flow = read.flow
      /\ new.approval = read.approval /\ new.terms = t /\ new.status = s
  BY <1>1, <1>2 DEF Row
<1>4. /\ merged \in Row
      /\ merged.plan = row.plan /\ merged.flow = row.flow
      /\ merged.approval = row.approval
      /\ merged.terms = IF new.terms # read.terms THEN new.terms ELSE row.terms
      /\ merged.status = IF new.status # read.status THEN new.status ELSE row.status
  BY <1>1, <1>3, ColumnwiseRow
<1>5. merged.terms \in Terms /\ merged.status \in ClientStatuses \cup {row.status}
  BY <1>3, <1>4 DEF Row
<1> HIDE DEF read, new, merged
<1>6. /\ row'.plan = row.plan /\ row'.flow = row.flow
      /\ row'.approval = row.approval
      /\ row'.terms = merged.terms /\ row'.status = merged.status
  BY <1>1, <1>4 DEF Row
<1>7. QED
  BY <1>1, <1>5, <1>6 DEF Governance!Patch

\* The backend's own writes.
LEMMA BackendRefines ==
  ASSUME GovernedInv, Activate \/ SubmissionFailed \/ Load \/ Settle
  PROVE  \/ Governance!Activate \/ Governance!NotSubmitted
         \/ Governance!Execute \/ Governance!Settle \/ UNCHANGED Governance!vars
<1>0. row \in Row /\ LoadedByRunner
  BY DEF GovernedInv, ReviewInv, RequestInv, TypeOK
<1>1. ASSUME NEW s \in Statuses, BackendWrite(s)
      PROVE  /\ row'.status = s /\ row'.approval = row.approval
             /\ UNCHANGED Governance!content /\ UNCHANGED signed
  <2> DEFINE e == [row EXCEPT !.status = s]
  <2>1. /\ e.plan = row.plan /\ e.terms = row.terms /\ e.flow = row.flow
        /\ e.approval = row.approval /\ e.status = s /\ DOMAIN e = DOMAIN row
    BY <1>0 DEF Row
  <2>2. row' = [e EXCEPT !.stamp = row.stamp + 1] /\ UNCHANGED signed
    BY <1>1 DEF BackendWrite, Restamped, history
  <2> HIDE DEF e
  <2>3. /\ row'.plan = e.plan /\ row'.terms = e.terms /\ row'.flow = e.flow
        /\ row'.approval = e.approval /\ row'.status = e.status
    BY <1>0, <2>1, <2>2 DEF Row
  <2>4. QED
    BY <2>1, <2>2, <2>3 DEF Governance!content
<1>2. CASE Activate
  BY <1>1, <1>2 DEF Activate, Governance!Activate, Statuses
<1>3. CASE SubmissionFailed
  BY <1>1, <1>3 DEF SubmissionFailed, Governance!NotSubmitted, Statuses
<1>4. CASE Load
  BY <1>0, <1>4
  DEF Load, RunnerMayRun, LoadedByRunner, history, Governance!Execute,
      Governance!Governed, Governed, Governance!vars, Governance!content
<1>5. CASE Settle
  <2>1. running' = None /\ (backend = "refused" => running = None)
    BY <1>0, <1>5 DEF Settle, LoadedByRunner
  <2>2. CASE row.status \in {"Running", "Failed"}
    <3>1. PICK s \in {"Completed", "Failed"} :
            (backend = "refused" => s = "Failed") /\ BackendWrite(s)
      BY <1>5, <2>2 DEF Settle
    <3>2. s = "Failed" \/ (s = "Completed" /\ running # None)
      <4>1. backend \in {"running", "refused"} /\ s \in {"Completed", "Failed"}
        BY <1>5 DEF Settle
      <4>2. backend = "running" => running # None
        BY <1>0, <1>5 DEF LoadedByRunner, Settle
      <4>3. QED
        BY <3>1, <4>1, <4>2
    <3>3. QED
      BY <1>1, <2>1, <2>2, <3>1, <3>2 DEF Governance!Settle, Statuses
  <2>3. CASE row.status \notin {"Running", "Failed"}
    BY <1>5, <2>1, <2>3 DEF Settle, history, Governance!Settle, Governance!content
  <2>4. QED
    BY <2>2, <2>3
<1>6. QED
  BY <1>2, <1>3, <1>4, <1>5

\* Reads, refusals and conflicts do not show.
LEMMA SilentRefines ==
  ASSUME NEW q \in Requests,
         \/ ReadEdit(q) \/ ReadSave(q) \/ ReadPatch(q)
         \/ ReadSubmit(q) \/ ReadApprove(q) \/ ReadReject(q)
         \/ Conflict(q) \/ Refuse(q)
  PROVE  UNCHANGED Governance!vars
<1>1. UNCHANGED <<row, signed, running>>
  BY DEF ReadEdit, ReadSave, ReadPatch, ReadSubmit, ReadApprove, ReadReject, Read,
         Conflict, Refuse, history, execution
<1>2. QED
  BY <1>1 DEF Governance!vars, Governance!content

LEMMA NextRefines ==
  GovernedInv /\ [Next]_vars => [Governance!Next]_(Governance!vars)
<1> SUFFICES ASSUME GovernedInv, [Next]_vars
             PROVE  [Governance!Next]_(Governance!vars)
  OBVIOUS
<1>1. ASSUME NEW q \in Requests, CommitEdit(q) PROVE Governance!Next
  BY <1>1, EditRefines DEF Governance!Next
<1>2. ASSUME NEW q \in Requests, CommitReview(q) PROVE Governance!Next
  BY <1>2, ReviewRefines DEF Governance!Next
<1>3. ASSUME NEW q \in Requests, CommitPatch(q) PROVE Governance!Next
  BY <1>3, PatchRefines DEF Governance!Next
<1>4. CASE Activate \/ SubmissionFailed \/ Load \/ Settle
  BY <1>4, BackendRefines DEF Governance!Next
<1>5. CASE Submitted \/ UNCHANGED vars
  BY <1>5 DEF Submitted, vars, history, execution, Governance!vars,
              Governance!content
<1>6. QED
  BY <1>1, <1>2, <1>3, <1>4, <1>5, SilentRefines DEF Next

\* The optimistic concurrency of the review API is as good as a lock: however
\* reads, commits, conflicts and the backend's writes interleave, every change of
\* the campaign is one atomic operation of GovernedCampaign.
THEOREM ReviewImplements == Spec => ImplementsGovernedCampaign
<1>1. Init => Governance!Init
  BY DEF Init, Governance!Init
<1>2. Spec => []GovernedInv
  BY GovernedInit, GovernedStep, PTL DEF Spec
<1>3. QED
  BY <1>1, <1>2, NextRefines, PTL DEF Spec, ImplementsGovernedCampaign, Governance!Spec

\* What the abstract campaign promises follows without looking at requests:
\* only what was approved is Approved, and only what was approved is executed.
THEOREM GovernanceSigned == Governance!Spec => []Governance!OnlySigned
<1> USE DEF Governance!OnlySigned, Governance!Governed, Governance!content
<1>1. Governance!Init => Governance!OnlySigned
  BY DEF Governance!Init
<1>2. Governance!OnlySigned /\ [Governance!Next]_(Governance!vars)
        => Governance!OnlySigned'
  BY DEF Governance!Next, Governance!vars, Governance!Edit, Governance!Save,
         Governance!Patch, Governance!Submit, Governance!Reject,
         Governance!Approve, Governance!Decide, Governance!Redecided,
         Governance!Activate, Governance!NotSubmitted, Governance!Execute,
         Governance!Settle
<1>3. QED
  BY <1>1, <1>2, PTL DEF Governance!Spec
=============================================================================
