----------------------- MODULE CampaignExecutionProofs ------------------------
(***************************************************************************)
(* Proofs about CampaignExecution for any number of activation jobs,       *)
(* workflow runs, profiles, action nodes and retries.                      *)
(***************************************************************************)
EXTENDS CampaignExecution, FiniteSetTheorems, TLAPS

(***************************************************************************)
(* The inductive invariant.  Activations and passes exclude each other by  *)
(* the campaign lock; execution ids are allocated one after the other,     *)
(* each by a request that had observed the one before; and what a pass has *)
(* behind it without an error is completed in the ledger.                  *)
(***************************************************************************)
InActivation == {"marked", "refused"}
Recording == {"calling", "Failed"} \cup Terminal
InPass == {"pass"} \cup Recording

\* Only the holder of the lock is inside an activation or a pass.
Exclusion ==
  /\ \A j \in Jobs : act[j].pc \in InActivation => lock = j
  /\ \A r \in Runs : wf[r].pc \in InPass => lock = r

\* The i-th execution comes from a request that observed the one before it.
InSequence ==
  /\ execId = Len(origin)
  /\ \A i \in DOMAIN origin : origin[i] = i - 1

\* Jobs whose observation is out of date: at most one execution, the initial
\* one, has no job of its own.
Outdated == {j \in Jobs : act[j].pc # "none" /\ act[j].expected < Len(origin)}

Allocated == Len(origin) <= Cardinality(Outdated) + 1

\* An activation works on the current execution of a Running campaign, a pass
\* on that of a campaign that is not Completed.
HolderIsCurrent ==
  /\ \A j \in Jobs :
       act[j].pc \in InActivation =>
         status = "Running" /\ act[j].exec = execId /\ act[j].exec # 0
  /\ \A r \in Runs :
       wf[r].pc \in InPass =>
         status \in {"Running", "Failed"} /\ wf[r].exec = execId

\* A campaign has an execution from its first activation on, and so has
\* whatever was submitted for it.
HasExecution ==
  /\ status = "Draft" <=> execId = 0
  /\ \A r \in Runs : wf[r].pc # "none" => wf[r].exec # 0

\* A run that recorded its intent is on an action of a path.
OnPath == \A r \in Runs : wf[r].pc \in Recording => wf[r].cur \in reach

\* The order in which a pass comes to the actions.
Before(a, c) == a[1] < c[1] \/ (a[1] = c[1] /\ a[2] < c[2])

\* A pass without an error has completed every action behind it.
HandledSoFar ==
  \A r \in Runs :
    wf[r].pc \in InPass /\ ~wf[r].errors =>
      \A a \in reach :
        Before(a, wf[r].cur) => ledger[wf[r].exec][a] \in Terminal

ExecInv ==
  /\ TypeOK /\ Exclusion /\ OnPath
  /\ HolderIsCurrent /\ HasExecution
  /\ InSequence /\ Allocated
LedgerInv == ExecInv /\ CallsAreLedgered /\ HandledSoFar /\ CompletedMeansHandled

(***************************************************************************)
(* The places a pass can be at.                                            *)
(***************************************************************************)
Places == Actions \cup {EndOfPass}

LEMMA NextPlaces ==
  ASSUME NEW a \in Actions
  PROVE  NextNode(a) \in Places /\ NextProfile(a) \in Places
  BY CampaignAssumption
  DEF Places, Actions, EndOfPass, NextNode, NextProfile

LEMMA FirstPlace ==
  (IF NProfiles = 0 THEN EndOfPass ELSE <<1, 1>>) \in Places
  BY CampaignAssumption DEF Places, Actions, EndOfPass

\* Everything before the next place is the action passed or before it.
LEMMA BeforeNext ==
  ASSUME NEW a \in Actions, NEW c \in Actions, Before(a, NextNode(c))
  PROVE  a = c \/ Before(a, c)
  BY CampaignAssumption DEF Actions, NextNode, NextProfile, Before

\* Nothing is before the first place, everything before the last.
LEMMA BeforeFirst ==
  ASSUME NEW a \in Actions
  PROVE  ~Before(a, IF NProfiles = 0 THEN EndOfPass ELSE <<1, 1>>)
  BY CampaignAssumption DEF Actions, EndOfPass, Before

LEMMA BeforeEnd ==
  ASSUME NEW a \in Actions
  PROVE  Before(a, EndOfPass)
  BY CampaignAssumption DEF Actions, EndOfPass, Before

-----------------------------------------------------------------------------
Statuses == {"Draft", "Running", "Completed", "Failed"}

JobType(n) == [pc : ActivationPCs, restart : BOOLEAN, expected : 0..n,
               tries : Nat, exec : 0..n, lost : BOOLEAN]
RunType(n) == [pc : RunPCs, exec : 0..n, tries : Nat, cur : Places,
               errors : BOOLEAN, lost : BOOLEAN]

LEMMA RetriedJob ==
  ASSUME NEW j \in Jobs, NEW n \in Nat, NEW op \in JobType(n),
         op.tries <= MaxRetries[j]
  PROVE  /\ Raised(j, op) \in JobType(n)
         /\ Raised(j, op).tries <= MaxRetries[j]
         /\ Raised(j, op).pc \in {"queued", "done"}
         /\ Raised(j, op).exec = op.exec
         /\ Raised(j, op).expected = op.expected
<1> USE CampaignAssumption
<1>1. CASE op.tries < MaxRetries[j]
  <2>1. Raised(j, op) = [op EXCEPT !.pc = "queued", !.tries = op.tries + 1]
    BY <1>1 DEF Raised
  <2>2. op.tries + 1 \in Nat /\ op.tries + 1 <= MaxRetries[j]
    BY <1>1 DEF JobType
  <2>3. QED
    BY <2>1, <2>2 DEF JobType, ActivationPCs
<1>2. CASE ~(op.tries < MaxRetries[j])
  <2>1. Raised(j, op) = [op EXCEPT !.pc = "done"]
    BY <1>2 DEF Raised
  <2>2. QED
    BY <2>1 DEF JobType, ActivationPCs, Idle
<1>3. QED
  BY <1>1, <1>2

LEMMA RetriedRun ==
  ASSUME NEW r \in Runs, NEW n \in Nat, NEW op \in RunType(n),
         op.tries <= MaxRetries[r]
  PROVE  /\ Raised(r, op) \in RunType(n)
         /\ Raised(r, op).tries <= MaxRetries[r]
         /\ Raised(r, op).pc \in {"queued", "done"}
         /\ Raised(r, op).exec = op.exec
<1> USE CampaignAssumption
<1>1. CASE op.tries < MaxRetries[r]
  <2>1. Raised(r, op) = [op EXCEPT !.pc = "queued", !.tries = op.tries + 1]
    BY <1>1 DEF Raised
  <2>2. op.tries + 1 \in Nat /\ op.tries + 1 <= MaxRetries[r]
    BY <1>1 DEF RunType
  <2>3. QED
    BY <2>1, <2>2 DEF RunType, RunPCs
<1>2. CASE ~(op.tries < MaxRetries[r])
  <2>1. Raised(r, op) = [op EXCEPT !.pc = "done"]
    BY <1>2 DEF Raised
  <2>2. QED
    BY <2>1 DEF RunType, RunPCs, Idle
<1>3. QED
  BY <1>1, <1>2

\* What is left of a run that is out of its pass.
LEMMA UnwoundRun ==
  ASSUME NEW n \in Nat, NEW op \in RunType(n)
  PROVE  /\ Unwound(op) \in RunType(n)
         /\ Unwound(op).pc = op.pc
         /\ Unwound(op).exec = op.exec
         /\ Unwound(op).tries = op.tries
  BY DEF Unwound, RunType, Places

\* An attempt that leaves the status alone is retried like any other.
LEMMA UnmarkedRun ==
  ASSUME NEW r \in Runs, NEW n \in Nat, NEW op \in RunType(n),
         op.tries <= MaxRetries[r]
  PROVE  /\ RaisedUnmarked(r, op) \in RunType(n)
         /\ RaisedUnmarked(r, op).tries <= MaxRetries[r]
         /\ RaisedUnmarked(r, op).pc \in {"queued", "done"}
         /\ RaisedUnmarked(r, op).exec = op.exec
<1> DEFINE up == Raised(r, op)
           last == op.tries = MaxRetries[r]
<1>1. /\ up \in RunType(n) /\ up.tries <= MaxRetries[r]
      /\ up.pc \in {"queued", "done"} /\ up.exec = op.exec
  BY RetriedRun
<1>2. last \in BOOLEAN
  OBVIOUS
<1>3. RaisedUnmarked(r, op) = [up EXCEPT !.lost = last]
  BY DEF RaisedUnmarked
<1> HIDE DEF up, last
<1>4. QED
  BY <1>1, <1>2, <1>3 DEF RunType

LEMMA ExecInit == Init => ExecInv
<1> SUFFICES ASSUME Init PROVE ExecInv
  OBVIOUS
<1> USE CampaignAssumption
<1>1. Cardinality(Jobs) \in Nat
  BY FS_CardinalityType
<1>2. /\ execId = Len(origin) /\ Len(origin) \in {0, 1}
      /\ origin \in Seq(0..(Cardinality(Jobs) + 1))
      /\ \A i \in DOMAIN origin : origin[i] = i - 1
  <2>1. CASE origin = <<>> /\ execId = 0
    BY <1>1, <2>1
  <2>2. CASE origin = <<0>> /\ execId = 1
    <3>1. Len(origin) = 1 /\ DOMAIN origin = {1} /\ origin[1] = 0
      BY <2>2
    <3>2. 0 \in 0..(Cardinality(Jobs) + 1)
      BY <1>1
    <3>3. QED
      BY <2>2, <3>1, <3>2
  <2>3. QED
    BY <2>1, <2>2 DEF Init
<1>3. TypeOK
  <2>1. act \in [Jobs -> JobType(Len(origin))]
    BY <1>2 DEF Init, JobType, ActivationPCs, Idle
  <2>2. wf \in [Runs -> RunType(Len(origin))]
    BY <1>2 DEF Init, RunType, RunPCs, Idle, Places
  <2>3. ledger \in [Execs -> [Actions ->
                      {"absent", "Running", "Failed"} \cup Terminal]]
    BY DEF Init, Terminal
  <2>4. QED
    BY <1>2, <2>1, <2>2, <2>3 DEF Init, TypeOK, JobType, RunType, Places
<1>4. Exclusion /\ OnPath /\ HolderIsCurrent /\ HasExecution
  BY DEF Init, Exclusion, OnPath, HolderIsCurrent, HasExecution,
         InActivation, InPass, Recording, Terminal
<1>5. InSequence
  BY <1>2 DEF InSequence
<1>6. Allocated
  <2>1. Outdated = {}
    BY DEF Init, Outdated
  <2>2. Cardinality(Outdated) = 0
    BY <2>1, FS_EmptySet
  <2>3. QED
    BY <1>2, <2>2 DEF Allocated
<1>7. QED
  BY <1>3, <1>4, <1>5, <1>6 DEF ExecInv
-----------------------------------------------------------------------------
LedgerType ==
  [Execs -> [Actions -> {"absent", "Running", "Failed"} \cup Terminal]]

LEMMA PassPCs ==
  /\ InPass \cap Idle = {} /\ "queued" \notin InPass
  /\ InActivation \cap Idle = {} /\ "queued" \notin InActivation
  /\ Recording \subseteq InPass
  BY DEF InPass, InActivation, Recording, Idle, Terminal

\* What a step of a workflow run may do: change its own record, and, as the
\* holder of the lock or when it takes the free lock, lock and status.
LEMMA RunFrame ==
  ASSUME ExecInv, NEW r \in Runs, NEW w \in RunType(Len(origin)),
         wf' = [wf EXCEPT ![r] = w],
         w.tries <= MaxRetries[r], w.exec = wf[r].exec, wf[r].pc # "none",
         w.pc \in Recording => w.cur \in reach,
         UNCHANGED CampaignVars, UNCHANGED act,
         ledger' \in LedgerType,
         \/ /\ UNCHANGED <<lock, status>>
            /\ w.pc \in InPass => wf[r].pc \in InPass
         \/ /\ lock = None /\ lock' = r
            /\ Loadable(r) /\ UNCHANGED status
         \/ /\ lock = r /\ lock' = None
            /\ w.pc \notin InPass
            /\ status' \in Statuses
            /\ status' = "Draft" <=> status = "Draft"
  PROVE  ExecInv'
<1> USE CampaignAssumption DEF ExecInv
<1>1. /\ wf \in [Runs -> RunType(Len(origin))]
      /\ \A q \in Runs \ {r} : wf'[q] = wf[q]
      /\ wf'[r] = w
  BY DEF TypeOK, RunType, Places
<1>2. UNCHANGED <<execId, origin, reach, act>>
  BY DEF CampaignVars
<1>3. TypeOK'
  <2>1. wf' \in [Runs -> RunType(Len(origin))]
    BY <1>1
  <2>2. \A q \in Runs : wf'[q].tries <= MaxRetries[q]
    BY <1>1 DEF TypeOK
  <2>3. lock' \in Jobs \cup Runs \cup {None} /\ status' \in Statuses
    BY DEF TypeOK, Statuses
  <2>4. QED
    BY <1>2, <2>1, <2>2, <2>3 DEF TypeOK, RunType, Places, Statuses, LedgerType
<1>4. Exclusion'
  BY <1>1, <1>2, PassPCs DEF Exclusion
<1>5. OnPath'
  BY <1>1, <1>2 DEF OnPath
<1>6. HolderIsCurrent'
  <2>1. \A q \in Runs : wf'[q].pc \in InPass => /\ lock' = q
                                                 /\ UNCHANGED status
    BY <1>1, <1>4, <1>2 DEF Exclusion
  <2>2. \A j \in Jobs : act'[j].pc \in InActivation => /\ lock' = j
                                                       /\ UNCHANGED status
    BY <1>2, <1>4 DEF Exclusion
  <2>3. \A q \in Runs : wf'[q].pc \in InPass =>
                          status \in {"Running", "Failed"}
                          /\ wf'[q].exec = execId
    BY <1>1, <2>1, <1>4 DEF HolderIsCurrent, Exclusion, Loadable
  <2>4. QED
    BY <1>2, <2>1, <2>2, <2>3 DEF HolderIsCurrent
<1>7. HasExecution'
  BY <1>1, <1>2 DEF HasExecution
<1>8. InSequence' /\ Allocated'
  BY <1>2 DEF InSequence, Allocated, Outdated
<1>9. QED
  BY <1>3, <1>4, <1>5, <1>6, <1>7, <1>8

\* However a run leaves its pass, or an attempt ends before one.
Leaves(r) ==
  \/ RunRefused(r) \/ RunEnds(r) \/ RunRaises(r) \/ RunRaisesUnmarked(r)
  \/ RunCrash(r)

LEMMA RunLeft ==
  ASSUME TypeOK, NEW r \in Runs, Leaves(r)
  PROVE  \E w \in RunType(Len(origin)) :
           /\ wf' = [wf EXCEPT ![r] = w]
           /\ w.tries <= MaxRetries[r] /\ w.exec = wf[r].exec
           /\ w.pc \notin InPass /\ w.pc \notin Recording
<1>1. /\ wf[r] \in RunType(Len(origin)) /\ wf[r].tries <= MaxRetries[r]
      /\ Len(origin) \in Nat
  BY DEF TypeOK, RunType, Places
\* The record before it is unwound.
<1>2. ASSUME NEW v \in RunType(Len(origin)), v.tries <= MaxRetries[r],
             v.exec = wf[r].exec, v.pc \in {"queued", "done", "dead"},
             \/ wf' = [wf EXCEPT ![r] = v]
             \/ wf' = [wf EXCEPT ![r] = Unwound(v)]
      PROVE  \E w \in RunType(Len(origin)) :
               /\ wf' = [wf EXCEPT ![r] = w]
               /\ w.tries <= MaxRetries[r] /\ w.exec = wf[r].exec
               /\ w.pc \notin InPass /\ w.pc \notin Recording
  <2>1. v.pc \notin InPass /\ v.pc \notin Recording
    BY <1>2, PassPCs DEF Idle
  <2>2. CASE wf' = [wf EXCEPT ![r] = v]
    BY <1>2, <2>1, <2>2
  <2>3. CASE wf' = [wf EXCEPT ![r] = Unwound(v)]
    <3>1. /\ Unwound(v) \in RunType(Len(origin))
          /\ Unwound(v).pc = v.pc /\ Unwound(v).exec = v.exec
          /\ Unwound(v).tries = v.tries
      BY <1>1, UnwoundRun
    <3>2. QED
      BY <1>2, <2>1, <2>3, <3>1
  <2>4. QED
    BY <1>2, <2>2, <2>3
<1>3. CASE RunRefused(r) \/ RunRaisesUnmarked(r)
  <2> DEFINE v == RaisedUnmarked(r, wf[r])
  <2>1. /\ v \in RunType(Len(origin)) /\ v.tries <= MaxRetries[r]
        /\ v.pc \in {"queued", "done"} /\ v.exec = wf[r].exec
    BY <1>1, UnmarkedRun
  <2>2. \/ wf' = [wf EXCEPT ![r] = v]
        \/ wf' = [wf EXCEPT ![r] = Unwound(v)]
    BY <1>3 DEF RunRefused, RunRaisesUnmarked
  <2> HIDE DEF v
  <2>3. QED
    BY <1>2, <2>1, <2>2
<1>4. CASE RunRaises(r)
  <2> DEFINE v == Raised(r, wf[r])
  <2>1. /\ v \in RunType(Len(origin)) /\ v.tries <= MaxRetries[r]
        /\ v.pc \in {"queued", "done"} /\ v.exec = wf[r].exec
    BY <1>1, RetriedRun
  <2>2. wf' = [wf EXCEPT ![r] = Unwound(v)]
    BY <1>4 DEF RunRaises
  <2> HIDE DEF v
  <2>3. QED
    BY <1>2, <2>1, <2>2
<1>5. ASSUME NEW pc \in {"done", "dead"},
             wf' = [wf EXCEPT ![r] = Unwound([wf[r] EXCEPT !.pc = pc])]
      PROVE  \E w \in RunType(Len(origin)) :
               /\ wf' = [wf EXCEPT ![r] = w]
               /\ w.tries <= MaxRetries[r] /\ w.exec = wf[r].exec
               /\ w.pc \notin InPass /\ w.pc \notin Recording
  <2> DEFINE v == [wf[r] EXCEPT !.pc = pc]
  <2>1. /\ v \in RunType(Len(origin)) /\ v.pc = pc
        /\ v.tries = wf[r].tries /\ v.exec = wf[r].exec
    BY <1>1 DEF RunType, RunPCs, Idle
  <2>2. wf' = [wf EXCEPT ![r] = Unwound(v)]
    BY <1>5
  <2> HIDE DEF v
  <2>3. QED
    BY <1>1, <1>2, <2>1, <2>2
<1>6. CASE RunEnds(r)
  BY <1>5, <1>6 DEF RunEnds
<1>7. CASE RunCrash(r)
  BY <1>5, <1>7 DEF RunCrash
<1>8. QED
  BY <1>3, <1>4, <1>6, <1>7 DEF Leaves

\* Every step of a workflow run preserves the invariant.
LEMMA RunStepExec ==
  ASSUME ExecInv, NEW r \in Runs, RunStep(r) \/ RunCrash(r)
  PROVE  ExecInv'
<1> USE CampaignAssumption DEF ExecInv
<1>0. /\ wf[r] \in RunType(Len(origin)) /\ wf[r].tries <= MaxRetries[r]
      /\ ledger \in LedgerType
      /\ reach \subseteq Actions
      /\ Len(origin) \in Nat
      /\ status \in Statuses
  BY DEF TypeOK, RunType, Places, LedgerType, Statuses
<1>p. Actions \subseteq Places /\ EndOfPass \in Places
  BY DEF Places
<1>2. CASE RunBegin(r)
  <2> DEFINE w == [wf[r] EXCEPT
                     !.pc = "pass",
                     !.cur = IF NProfiles = 0 THEN EndOfPass ELSE <<1, 1>>,
                     !.errors = FALSE]
  <2>1. w \in RunType(Len(origin))
    BY <1>0, FirstPlace DEF RunType, RunPCs
  <2>2. w.pc = "pass" /\ w.tries = wf[r].tries /\ w.exec = wf[r].exec
    BY <1>0 DEF RunType
  <2>3. wf' = [wf EXCEPT ![r] = w]
    BY <1>2 DEF RunBegin
  <2> HIDE DEF w
  <2>4. QED
    BY <1>0, <1>2, <2>1, <2>2, <2>3, RunFrame
    DEF RunBegin, Recording, Terminal
\* The journey goes on from an action.
<1>3. ASSUME NEW c \in Places, NEW e \in BOOLEAN,
             wf' = [wf EXCEPT ![r] = [@ EXCEPT !.pc = "pass", !.cur = c,
                                               !.errors = e]],
             wf[r].pc \in InPass, ledger' \in LedgerType,
             UNCHANGED <<CampaignVars, status, lock, act>>
      PROVE  ExecInv'
  <2> DEFINE w == [wf[r] EXCEPT !.pc = "pass", !.cur = c, !.errors = e]
  <2>1. w \in RunType(Len(origin))
    BY <1>0 DEF RunType, RunPCs
  <2>2. w.pc = "pass" /\ w.tries = wf[r].tries /\ w.exec = wf[r].exec
    BY <1>0 DEF RunType
  <2>3. wf' = [wf EXCEPT ![r] = w]
    BY <1>3
  <2> HIDE DEF w
  <2>4. wf[r].pc # "none" /\ "pass" \notin Recording
    BY <1>3, PassPCs DEF Idle, Recording, Terminal
  <2>5. QED
    BY <1>0, <1>3, <2>1, <2>2, <2>3, <2>4, RunFrame
<1>4. ASSUME wf[r].cur \in Actions, GoOn(r),
             wf[r].pc \in InPass, ledger' \in LedgerType,
             UNCHANGED <<CampaignVars, status, lock, act>>
      PROVE  ExecInv'
  <2>1. wf' = [wf EXCEPT ![r] = [@ EXCEPT !.pc = "pass",
                                          !.cur = NextNode(wf[r].cur),
                                          !.errors = wf[r].errors]]
    BY <1>0, <1>4 DEF GoOn, RunType, TypeOK
  <2>2. NextNode(wf[r].cur) \in Places /\ wf[r].errors \in BOOLEAN
    BY <1>0, <1>4, NextPlaces DEF RunType
  <2>3. QED
    BY <1>3, <1>4, <2>1, <2>2
<1>5. ASSUME wf[r].cur \in Actions, JourneyFails(r),
             wf[r].pc \in InPass, ledger' \in LedgerType,
             UNCHANGED <<CampaignVars, status, lock, act>>
      PROVE  ExecInv'
  <2>1. wf' = [wf EXCEPT ![r] = [@ EXCEPT !.pc = "pass",
                                          !.cur = NextProfile(wf[r].cur),
                                          !.errors = TRUE]]
    BY <1>0, <1>5 DEF JourneyFails
  <2>2. NextProfile(wf[r].cur) \in Places
    BY <1>5, NextPlaces
  <2>3. QED
    BY <1>3, <1>5, <2>1, <2>2
<1>6. CASE NodePassed(r)
  BY <1>4, <1>6, <1>0 DEF NodePassed, InPass
<1>7. CASE JourneyRaises(r)
  BY <1>5, <1>7, <1>0 DEF JourneyRaises, InPass
<1>8. CASE BeginCompleted(r)
  BY <1>4, <1>8, <1>0 DEF BeginCompleted, InPass
\* The op stays at its place.
<1>9. ASSUME NEW pc \in RunPCs, wf' = [wf EXCEPT ![r].pc = pc],
             wf[r].pc \in InPass, pc \in Recording => wf[r].cur \in reach,
             ledger' \in LedgerType,
             UNCHANGED <<CampaignVars, status, act>>,
             UNCHANGED lock \/ (lock = r /\ lock' = None /\ pc \notin InPass)
      PROVE  ExecInv'
  <2> DEFINE w == [wf[r] EXCEPT !.pc = pc]
  <2>1. /\ w \in RunType(Len(origin))
        /\ w.pc = pc /\ w.tries = wf[r].tries /\ w.exec = wf[r].exec
        /\ w.cur = wf[r].cur
    BY <1>0 DEF RunType
  <2>2. wf' = [wf EXCEPT ![r] = w]
    BY <1>9
  <2> HIDE DEF w
  <2>3. wf[r].pc # "none"
    BY <1>9, PassPCs DEF Idle
  <2>4. QED
    BY <1>0, <1>9, <2>1, <2>2, <2>3, RunFrame
<1>10. CASE Begin(r)
  <2>1. ledger' \in LedgerType
    BY <1>0, <1>10 DEF Begin, LedgerType
  <2>2. QED
    BY <1>9, <1>10, <2>1 DEF Begin, RunPCs, InPass
<1>11. ASSUME NEW outcome \in Terminal \cup {"Failed"},
              ProviderAnswers(r, outcome)
       PROVE  ExecInv'
  <2>1. wf[r].cur \in reach /\ wf[r].pc \in InPass
    BY <1>11 DEF ProviderAnswers, OnPath, Recording, InPass
  <2>2. QED
    BY <1>0, <1>9, <1>11, <2>1 DEF ProviderAnswers, RunPCs
<1>12. CASE FinishDone(r)
  <2>1. wf[r].pc \in InPass /\ wf[r].cur \in Actions
    BY <1>0, <1>12 DEF FinishDone, InPass, Recording, OnPath
  <2>2. ledger' \in LedgerType
    BY <1>0, <1>12 DEF FinishDone, LedgerType
  <2>3. QED
    BY <1>4, <1>12, <2>1, <2>2 DEF FinishDone
<1>13. CASE FinishFailed(r)
  <2>1. wf[r].pc \in InPass /\ wf[r].cur \in Actions
    BY <1>0, <1>13 DEF FinishFailed, InPass, Recording, OnPath
  <2>2. ledger' \in LedgerType
    BY <1>0, <1>13 DEF FinishFailed, LedgerType
  <2>3. QED
    BY <1>5, <1>13, <2>1, <2>2 DEF FinishFailed
<1>14. CASE FinishRaises(r)
  BY <1>0, <1>5, <1>14 DEF FinishRaises, InPass, Recording, OnPath
\* The holder ends its pass and sets the status.
<1>15. ASSUME NEW s \in {"Completed", "Failed"}, SetCampaignStatus(r, s),
              wf[r].pc = "pass"
       PROVE  lock = r /\ status' \in Statuses
              /\ (status' = "Draft" <=> status = "Draft")
  BY <1>0, <1>15 DEF SetCampaignStatus, Statuses, Exclusion, InPass
<1>16. CASE RunEnds(r) \/ RunRaises(r) \/ RunRaisesUnmarked(r)
  <2>1. PICK w \in RunType(Len(origin)) :
          /\ wf' = [wf EXCEPT ![r] = w]
          /\ w.tries <= MaxRetries[r] /\ w.exec = wf[r].exec
          /\ w.pc \notin InPass /\ w.pc \notin Recording
    BY <1>16, RunLeft DEF Leaves
  <2>2. /\ wf[r].pc = "pass" /\ wf[r].pc # "none"
        /\ UNCHANGED <<CampaignVars, act, ledger>> /\ lock' = None
    BY <1>16 DEF RunEnds, RunRaises, RunRaisesUnmarked
  <2>3. lock = r
    BY <2>2 DEF Exclusion, InPass
  <2>4. status' \in Statuses /\ (status' = "Draft" <=> status = "Draft")
    <3>1. CASE RunEnds(r) \/ RunRaises(r)
      BY <1>15, <3>1 DEF RunEnds, RunRaises
    <3>2. CASE RunRaisesUnmarked(r)
      BY <1>0, <3>2 DEF RunRaisesUnmarked
    <3>3. QED
      BY <1>16, <3>1, <3>2
  <2>5. QED
    BY <1>0, <2>1, <2>2, <2>3, <2>4, RunFrame
<1>17. CASE RunRefused(r)
  <2>1. PICK w \in RunType(Len(origin)) :
          /\ wf' = [wf EXCEPT ![r] = w]
          /\ w.tries <= MaxRetries[r] /\ w.exec = wf[r].exec
          /\ w.pc \notin InPass /\ w.pc \notin Recording
    BY <1>17, RunLeft DEF Leaves
  <2>2. /\ wf[r].pc # "none"
        /\ UNCHANGED <<CampaignVars, status, lock, act, ledger>>
    BY <1>17 DEF RunRefused
  <2>3. QED
    BY <1>0, <2>1, <2>2, RunFrame
<1>18. CASE RunCrash(r)
  <2>1. PICK w \in RunType(Len(origin)) :
          /\ wf' = [wf EXCEPT ![r] = w]
          /\ w.tries <= MaxRetries[r] /\ w.exec = wf[r].exec
          /\ w.pc \notin InPass /\ w.pc \notin Recording
    BY <1>18, RunLeft DEF Leaves
  <2>2. /\ wf[r].pc # "none"
        /\ UNCHANGED <<CampaignVars, status, act, ledger>>
        /\ lock' = IF lock = r THEN None ELSE lock
    BY <1>18 DEF RunCrash, Idle
  <2>3. QED
    BY <1>0, <2>1, <2>2, RunFrame
<1>19. QED
  BY <1>2, <1>6, <1>7, <1>8, <1>10, <1>11, <1>12, <1>13, <1>14, <1>16, <1>17,
     <1>18 DEF RunStep

-----------------------------------------------------------------------------
\* A set of jobs that gains one gains one in number.
LEMMA OutdatedGrows ==
  ASSUME NEW S \in SUBSET Jobs, NEW T \in SUBSET Jobs, S \subseteq T
  PROVE  /\ Cardinality(S) \in Nat /\ Cardinality(T) \in Nat
         /\ Cardinality(Jobs) \in Nat
         /\ Cardinality(S) <= Cardinality(T)
         /\ Cardinality(T) <= Cardinality(Jobs)
         /\ \A j \in T \ S : Cardinality(S) + 1 <= Cardinality(T)
<1>1. IsFiniteSet(Jobs) /\ IsFiniteSet(T) /\ IsFiniteSet(S)
  BY CampaignAssumption, FS_Subset
<1>2. /\ Cardinality(S) <= Cardinality(T)
      /\ Cardinality(T) <= Cardinality(Jobs)
  BY <1>1, FS_Subset
<1>3. ASSUME NEW j \in T \ S PROVE Cardinality(S) + 1 <= Cardinality(T)
  <2>1. IsFiniteSet(S \cup {j}) /\ Cardinality(S \cup {j}) = Cardinality(S) + 1
    BY <1>1, <1>3, FS_AddElement
  <2>2. S \cup {j} \subseteq T
    BY <1>3
  <2>3. QED
    BY <1>1, <2>1, <2>2, FS_Subset
<1>4. QED
  BY <1>1, <1>2, <1>3, FS_CardinalityType

\* There are no more executions than rows of the ledger.
LEMMA ExecutionsBounded ==
  ASSUME ExecInv
  PROVE  /\ Cardinality(Jobs) \in Nat
         /\ Len(origin) \in 0..(Cardinality(Jobs) + 1)
         /\ execId = Len(origin)
         /\ execId # 0 => execId \in Execs
<1>1. Outdated \in SUBSET Jobs /\ Len(origin) \in Nat
  BY DEF Outdated, ExecInv, TypeOK
<1>2. QED
  BY <1>1, OutdatedGrows DEF ExecInv, Allocated, InSequence, Execs

\* A step of an activation that allocates no execution.
LEMMA JobFrame ==
  ASSUME ExecInv, NEW j \in Jobs, NEW a \in JobType(Len(origin)),
         act' = [act EXCEPT ![j] = a],
         a.tries <= MaxRetries[j], a.expected = act[j].expected,
         act[j].pc # "none", a.pc # "none",
         UNCHANGED CampaignVars, UNCHANGED <<wf, ledger>>,
         \/ /\ UNCHANGED <<lock, status>>
            /\ a.pc \in InActivation => act[j].pc \in InActivation
            /\ a.exec = act[j].exec
         \/ /\ lock = j /\ lock' = None
            /\ a.pc \notin InActivation
            /\ status' \in Statuses
            /\ status' = "Draft" <=> status = "Draft"
  PROVE  ExecInv'
<1> USE CampaignAssumption DEF ExecInv
<1>1. /\ act \in [Jobs -> JobType(Len(origin))]
      /\ \A q \in Jobs \ {j} : act'[q] = act[q]
      /\ act'[j] = a
  BY DEF TypeOK, JobType
<1>2. UNCHANGED <<execId, origin, reach, wf, ledger>>
  BY DEF CampaignVars
<1>3. TypeOK'
  <2>1. act' \in [Jobs -> JobType(Len(origin))]
    BY <1>1
  <2>2. \A q \in Jobs : act'[q].tries <= MaxRetries[q]
    BY <1>1 DEF TypeOK
  <2>3. lock' \in Jobs \cup Runs \cup {None} /\ status' \in Statuses
    BY DEF TypeOK, Statuses
  <2>4. QED
    BY <1>2, <2>1, <2>2, <2>3 DEF TypeOK, JobType, Statuses
<1>4. Exclusion'
  BY <1>1, <1>2 DEF Exclusion
<1>5. OnPath'
  BY <1>2 DEF OnPath
<1>6. HolderIsCurrent'
  <2>1. \A q \in Runs : wf'[q].pc \in InPass => UNCHANGED status
    BY <1>2, <1>4 DEF Exclusion
  <2>2. \A q \in Jobs : act'[q].pc \in InActivation =>
                          UNCHANGED status /\ act[q].pc \in InActivation
                          /\ act'[q].exec = act[q].exec
    BY <1>1, <1>4 DEF Exclusion
  <2>3. QED
    BY <1>2, <2>1, <2>2 DEF HolderIsCurrent
<1>7. HasExecution'
  BY <1>2 DEF HasExecution
<1>8. InSequence'
  BY <1>2 DEF InSequence
<1>9. Allocated'
  <2>1. Outdated' = Outdated
    BY <1>1, <1>2 DEF Outdated
  <2>2. QED
    BY <1>2, <2>1 DEF Allocated
<1>10. QED
  BY <1>3, <1>4, <1>5, <1>6, <1>7, <1>8, <1>9

LEMMA ApiActivateExec ==
  ASSUME ExecInv, NEW j \in Jobs, NEW restart \in BOOLEAN,
         ApiActivate(j, restart)
  PROVE  ExecInv'
<1> USE CampaignAssumption DEF ExecInv
<1> DEFINE a == [act[j] EXCEPT !.pc = "queued", !.restart = restart,
                               !.expected = execId]
<1>1. /\ act \in [Jobs -> JobType(Len(origin))]
      /\ execId \in 0..Len(origin)
      /\ act[j].tries <= MaxRetries[j]
  BY DEF TypeOK, JobType
<1>2. /\ a \in JobType(Len(origin))
      /\ a.pc = "queued" /\ a.expected = execId
      /\ a.tries = act[j].tries /\ a.exec = act[j].exec
  BY <1>1 DEF JobType, ActivationPCs
<1>3. act' = [act EXCEPT ![j] = a] /\ act[j].pc = "none"
  BY DEF ApiActivate
<1>4. UNCHANGED <<status, execId, origin, lock, wf, ledger, reach>>
  BY DEF ApiActivate
<1> HIDE DEF a
<1>5. act'[j] = a /\ \A q \in Jobs \ {j} : act'[q] = act[q]
  BY <1>1, <1>3
<1>6. TypeOK'
  <2>1. act' \in [Jobs -> JobType(Len(origin))]
    BY <1>1, <1>2, <1>3
  <2>2. \A q \in Jobs : act'[q].tries <= MaxRetries[q]
    BY <1>1, <1>2, <1>5 DEF TypeOK
  <2>3. QED
    BY <1>4, <2>1, <2>2 DEF TypeOK, JobType
<1>7. Exclusion' /\ HolderIsCurrent'
  BY <1>2, <1>4, <1>5, PassPCs DEF Exclusion, HolderIsCurrent
<1>8. OnPath' /\ HasExecution' /\ InSequence'
  BY <1>4 DEF OnPath, HasExecution, InSequence
<1>9. Allocated'
  <2>1. Outdated' = Outdated
    BY <1>1, <1>2, <1>3, <1>4, <1>5 DEF Outdated, InSequence
  <2>2. QED
    BY <1>4, <2>1 DEF Allocated
<1>10. QED
  BY <1>6, <1>7, <1>8, <1>9

\* A run submitted by the activation that holds the lock.
LEMMA NewRunExec ==
  ASSUME ExecInv, NEW j \in Jobs, act[j].pc = "marked",
         (\E r \in Runs : NewRun(j, r)) \/ UNCHANGED wf,
         NEW pc \in {"done", "refused"},
         act' = [act EXCEPT ![j].pc = pc],
         lock' = (IF pc = "done" THEN None ELSE lock),
         UNCHANGED <<status, execId, origin, ledger, reach>>
  PROVE  ExecInv'
<1> USE CampaignAssumption DEF ExecInv
<1>1. /\ act \in [Jobs -> JobType(Len(origin))]
      /\ wf \in [Runs -> RunType(Len(origin))]
      /\ \A q \in Jobs : act[q].tries <= MaxRetries[q]
      /\ \A q \in Runs : wf[q].tries <= MaxRetries[q]
  BY DEF TypeOK, JobType, RunType, Places
<1>2. lock = j /\ act[j].exec = execId /\ act[j].exec # 0 /\ execId \in 0..Len(origin)
  BY DEF Exclusion, HolderIsCurrent, InActivation, TypeOK
<1>3. /\ \A q \in Runs : wf[q].pc \notin InPass
      /\ \A q \in Jobs \ {j} : act[q].pc \notin InActivation
  BY <1>2 DEF Exclusion
<1>4. \A q \in Runs :
        \/ wf'[q] = wf[q]
        \/ wf'[q] = [wf[q] EXCEPT !.pc = "queued", !.exec = execId]
  BY <1>1, <1>2 DEF NewRun
<1>5. \A q \in Runs :
        /\ wf'[q] \in RunType(Len(origin))
        /\ wf'[q].tries = wf[q].tries
        /\ wf'[q].pc \notin InPass
        /\ wf'[q].pc # "none" => wf'[q].exec # 0
  <2> TAKE q \in Runs
  <2>1. CASE wf'[q] = wf[q]
    BY <1>1, <1>3, <2>1 DEF HasExecution
  <2>2. CASE wf'[q] = [wf[q] EXCEPT !.pc = "queued", !.exec = execId]
    <3>1. /\ wf'[q] \in RunType(Len(origin))
          /\ wf'[q].tries = wf[q].tries /\ wf'[q].pc = "queued"
          /\ wf'[q].exec = execId
      <4>1. wf[q] \in RunType(Len(origin)) /\ "queued" \in RunPCs
        BY <1>1 DEF RunPCs
      <4>2. QED
        BY <1>2, <2>2, <4>1 DEF RunType
    <3>2. QED
      BY <1>2, <3>1, PassPCs
  <2>3. QED
    BY <1>4, <2>1, <2>2
<1>6. /\ act'[j] \in JobType(Len(origin))
      /\ act'[j].pc = pc /\ act'[j].tries = act[j].tries
      /\ act'[j].exec = act[j].exec /\ act'[j].expected = act[j].expected
      /\ \A q \in Jobs \ {j} : act'[q] = act[q]
  BY <1>1 DEF JobType, ActivationPCs, Idle
<1>7. TypeOK'
  <2>1. wf' \in [Runs -> RunType(Len(origin))]
    <3>1. DOMAIN wf' = Runs /\ wf' = [q \in Runs |-> wf'[q]]
      BY <1>1 DEF NewRun
    <3>2. QED
      BY <1>5, <3>1
  <2>2. act' \in [Jobs -> JobType(Len(origin))]
    BY <1>1, <1>6
  <2>3. /\ \A q \in Jobs : act'[q].tries <= MaxRetries[q]
        /\ \A q \in Runs : wf'[q].tries <= MaxRetries[q]
    BY <1>1, <1>5, <1>6
  <2>4. lock' \in Jobs \cup Runs \cup {None}
    BY DEF TypeOK
  <2>5. QED
    BY <2>1, <2>2, <2>3, <2>4 DEF TypeOK, JobType, RunType, Places
<1>8. Exclusion' /\ HolderIsCurrent'
  <2>1. "done" \notin InActivation /\ "marked" \in InActivation
    BY DEF InActivation
  <2>2. QED
    BY <1>2, <1>3, <1>5, <1>6, <2>1 DEF Exclusion, HolderIsCurrent
<1>9. OnPath' /\ HasExecution' /\ InSequence'
  BY <1>5, PassPCs DEF OnPath, HasExecution, InSequence
<1>10. Allocated'
  <2>1. Outdated' = Outdated
    BY <1>6 DEF Outdated
  <2>2. QED
    BY <2>1 DEF Allocated
<1>11. QED
  BY <1>7, <1>8, <1>9, <1>10

\* The only step that allocates an execution: its job becomes outdated.
LEMMA ActivateMarkExec ==
  ASSUME ExecInv, NEW j \in Jobs, ActivateMark(j)
  PROVE  ExecInv'
<1> USE CampaignAssumption DEF ExecInv
<1>1. /\ act \in [Jobs -> JobType(Len(origin))]
      /\ wf \in [Runs -> RunType(Len(origin))]
      /\ \A q \in Jobs : act[q].tries <= MaxRetries[q]
      /\ origin \in Seq(0..(Cardinality(Jobs) + 1))
      /\ execId = Len(origin) /\ Len(origin) \in Nat
      /\ status \in Statuses
  BY DEF TypeOK, JobType, RunType, Places, InSequence, Statuses
<1>2. /\ act[j].pc = "queued" /\ lock = None
      /\ lock' = j /\ status' = "Running"
      /\ act' = [act EXCEPT ![j].pc = "marked", ![j].exec = execId',
                            ![j].lost = FALSE]
      /\ UNCHANGED <<wf, ledger, reach>>
  BY DEF ActivateMark
<1>3. /\ \A q \in Runs : wf[q].pc \notin InPass
      /\ \A q \in Jobs : act[q].pc \notin InActivation
  BY <1>2 DEF Exclusion
<1>4. /\ execId' = Len(origin') /\ execId' # 0
      /\ Len(origin') \in Nat /\ Len(origin) <= Len(origin')
      /\ origin' \in Seq(0..(Cardinality(Jobs) + 1))
      /\ InSequence' /\ Allocated'
  <2>1. CASE status = "Completed" \/ execId = 0
    <3>1. execId' = Len(origin) + 1 /\ origin' = Append(origin, act[j].expected)
      BY <2>1 DEF ActivateMark
    <3>2. act[j].expected = Len(origin) /\ act[j].expected \in 0..Len(origin)
      BY <1>1, <2>1 DEF ActivateMark, MayActivate, JobType
    <3>3. Len(origin) \in 0..(Cardinality(Jobs) + 1)
      BY ExecutionsBounded
    <3>4. /\ Len(origin') = Len(origin) + 1
          /\ origin' \in Seq(0..(Cardinality(Jobs) + 1))
          /\ \A i \in 1..Len(origin') : origin'[i] = i - 1
      <4> DEFINE x == act[j].expected
      <4>1. x \in 0..(Cardinality(Jobs) + 1) /\ x = Len(origin)
        BY <3>2, <3>3
      <4> HIDE DEF x
      <4>2. /\ Append(origin, x) \in Seq(0..(Cardinality(Jobs) + 1))
            /\ Len(Append(origin, x)) = Len(origin) + 1
            /\ Append(origin, x)[Len(origin) + 1] = x
            /\ \A i \in 1..Len(origin) : Append(origin, x)[i] = origin[i]
        BY <1>1, <4>1
      <4>3. \A i \in 1..Len(origin) : origin[i] = i - 1
        BY <1>1 DEF InSequence
      <4>4. origin' = Append(origin, x)
        BY <3>1 DEF x
      <4>5. QED
        BY <1>1, <4>1, <4>2, <4>3, <4>4
    <3>5. InSequence'
      BY <3>1, <3>4 DEF InSequence
    <3>6. /\ \A q \in Jobs : act'[q].expected = act[q].expected
          /\ \A q \in Jobs : act[q].pc # "none" => act'[q].pc # "none"
          /\ act'[j].pc # "none"
      BY <1>1, <1>2 DEF JobType
    <3>7. /\ Outdated \subseteq Outdated' /\ j \in Outdated' \ Outdated
          /\ Outdated \in SUBSET Jobs /\ Outdated' \in SUBSET Jobs
      BY <1>1, <3>2, <3>4, <3>6 DEF Outdated, JobType
    <3>8. Cardinality(Outdated) + 1 <= Cardinality(Outdated')
          /\ Cardinality(Outdated) \in Nat /\ Cardinality(Outdated') \in Nat
      BY <3>7, OutdatedGrows
    <3>9. Allocated'
      BY <1>1, <3>4, <3>8 DEF Allocated
    <3>10. QED
      BY <1>1, <3>1, <3>4, <3>5, <3>9
  <2>2. CASE ~(status = "Completed" \/ execId = 0)
    <3>1. UNCHANGED <<execId, origin>>
      BY <2>2 DEF ActivateMark
    <3>2. Outdated' = Outdated
      BY <1>1, <1>2, <3>1 DEF Outdated, JobType
    <3>3. QED
      BY <1>1, <2>2, <3>1, <3>2 DEF InSequence, Allocated
  <2>3. QED
    BY <2>1, <2>2
<1>5. /\ act'[j].pc = "marked" /\ act'[j].exec = execId'
      /\ \A q \in Jobs \ {j} : act'[q] = act[q]
  BY <1>1, <1>2 DEF JobType
<1>6. TypeOK'
  <2>1. 0..Len(origin) \subseteq 0..Len(origin') /\ execId' \in 0..Len(origin')
    BY <1>1, <1>4
  <2>2. wf' \in [Runs -> RunType(Len(origin'))]
    BY <1>1, <1>2, <2>1 DEF RunType
  <2>3. act \in [Jobs -> JobType(Len(origin'))]
    BY <1>1, <2>1 DEF JobType
  <2>4. [act[j] EXCEPT !.pc = "marked", !.exec = execId', !.lost = FALSE]
          \in JobType(Len(origin'))
    BY <2>1, <2>3 DEF JobType, ActivationPCs
  <2>5. act' = [act EXCEPT ![j] =
                  [act[j] EXCEPT !.pc = "marked", !.exec = execId',
                                 !.lost = FALSE]]
    BY <1>1, <1>2
  <2>6. act' \in [Jobs -> JobType(Len(origin'))]
    BY <2>3, <2>4, <2>5
  <2>7. \A q \in Jobs : act'[q].tries <= MaxRetries[q]
    BY <1>1, <1>2 DEF JobType
  <2>8. lock' \in Jobs \cup Runs \cup {None}
    BY <1>2
  <2>9. QED
    BY <1>2, <1>4, <2>1, <2>2, <2>6, <2>7, <2>8
    DEF TypeOK, JobType, RunType, Places
<1>7. Exclusion' /\ HolderIsCurrent'
  BY <1>2, <1>3, <1>4, <1>5 DEF Exclusion, HolderIsCurrent
<1>8. OnPath' /\ HasExecution'
  BY <1>2, <1>4 DEF OnPath, HasExecution
<1>9. QED
  BY <1>4, <1>6, <1>7, <1>8

LEMMA JobStepExec ==
  ASSUME ExecInv, NEW j \in Jobs, ActivationStep(j) \/ ActivationCrash(j)
  PROVE  ExecInv'
<1> USE CampaignAssumption DEF ExecInv
<1>1. /\ act[j] \in JobType(Len(origin)) /\ act[j].tries <= MaxRetries[j]
      /\ Len(origin) \in Nat /\ status \in Statuses
  BY DEF TypeOK, JobType, Statuses
<1>2. /\ Raised(j, act[j]) \in JobType(Len(origin))
      /\ Raised(j, act[j]).tries <= MaxRetries[j]
      /\ Raised(j, act[j]).pc \in {"queued", "done"}
      /\ Raised(j, act[j]).exec = act[j].exec
      /\ Raised(j, act[j]).expected = act[j].expected
  BY <1>1, RetriedJob
<1>3. Raised(j, act[j]).pc \notin InActivation /\ Raised(j, act[j]).pc # "none"
  BY <1>2, PassPCs DEF Idle
<1>4. CASE ActivateRefused(j)
  <2>1. /\ act' = [act EXCEPT ![j] = Raised(j, act[j])] /\ act[j].pc # "none"
        /\ UNCHANGED <<CampaignVars, lock, status, wf, ledger>>
    BY <1>4 DEF ActivateRefused, CampaignVars
  <2>2. QED
    BY <1>2, <1>3, <2>1, JobFrame
<1>5. CASE ActivateMark(j)
  BY <1>5, ActivateMarkExec
<1>6. CASE SubmitOk(j)
  BY <1>6, NewRunExec DEF SubmitOk
<1>7. CASE SubmitRaises(j)
  BY <1>7, NewRunExec DEF SubmitRaises
<1>8. CASE MarkSubmissionFailed(j)
  <2>1. /\ act' = [act EXCEPT ![j] = Raised(j, act[j])] /\ act[j].pc = "refused"
        /\ UNCHANGED <<CampaignVars, wf, ledger>> /\ lock' = None
    BY <1>8 DEF MarkSubmissionFailed, CampaignVars
  <2>2. lock = j /\ status = "Running"
    BY <2>1 DEF Exclusion, HolderIsCurrent, InActivation
  <2>3. status' \in Statuses /\ (status' = "Draft" <=> status = "Draft")
    BY <1>8, <2>2 DEF MarkSubmissionFailed, Statuses
  <2>4. QED
    BY <1>2, <1>3, <2>1, <2>2, <2>3, JobFrame
<1>9. CASE ActivationCrash(j)
  <2> DEFINE a == [act[j] EXCEPT !.pc = "dead"]
  <2>1. /\ a \in JobType(Len(origin))
        /\ a.pc = "dead" /\ a.tries = act[j].tries /\ a.exec = act[j].exec
        /\ a.expected = act[j].expected
    BY <1>1 DEF JobType, ActivationPCs, Idle
  <2>2. /\ act' = [act EXCEPT ![j] = a] /\ act[j].pc # "none"
        /\ UNCHANGED <<CampaignVars, status, wf, ledger>>
        /\ lock' = IF lock = j THEN None ELSE lock
    BY <1>9 DEF ActivationCrash, CampaignVars
  <2> HIDE DEF a
  <2>3. "dead" \notin InActivation
    BY DEF InActivation
  <2>4. QED
    BY <1>1, <2>1, <2>2, <2>3, JobFrame
<1>10. CASE MarkRaises(j)
  <2> DEFINE a == [Raised(j, act[j]) EXCEPT !.lost = TRUE]
  <2>1. /\ a \in JobType(Len(origin))
        /\ a.pc = Raised(j, act[j]).pc /\ a.tries = Raised(j, act[j]).tries
        /\ a.exec = act[j].exec /\ a.expected = act[j].expected
    BY <1>2 DEF JobType
  <2>2. /\ act' = [act EXCEPT ![j] = a] /\ act[j].pc = "refused"
        /\ UNCHANGED <<CampaignVars, status, wf, ledger>> /\ lock' = None
    BY <1>10 DEF MarkRaises, CampaignVars
  <2> HIDE DEF a
  <2>3. lock = j
    BY <2>2 DEF Exclusion, InActivation
  <2>4. QED
    BY <1>1, <1>2, <1>3, <2>1, <2>2, <2>3, JobFrame
<1>11. QED
  BY <1>4, <1>5, <1>6, <1>7, <1>8, <1>9, <1>10 DEF ActivationStep

\* Every step preserves the execution invariant.
LEMMA ExecStep == ExecInv /\ [Next]_vars => ExecInv'
<1> SUFFICES ASSUME ExecInv, [Next]_vars PROVE ExecInv'
  OBVIOUS
<1>1. CASE UNCHANGED vars
  BY <1>1
  DEF vars, ExecInv, TypeOK, Exclusion, OnPath, HolderIsCurrent, HasExecution,
      InSequence, Allocated, Outdated
<1>2. QED
  BY <1>1, ApiActivateExec, JobStepExec, RunStepExec DEF Next

\* Type correctness of the campaign, its jobs, runs and ledger.
THEOREM CampaignTypeCorrect == Spec => []TypeOK
<1>1. ExecInv => TypeOK
  BY DEF ExecInv
<1>2. QED
  BY ExecInit, ExecStep, <1>1, PTL DEF Spec

\* An activation between its commit and the end of its submission, and a run
\* between its first and its last profile, holds the campaign lock: no two of
\* them overlap, whatever crashes and retries there are.
THEOREM CampaignExclusion == Spec => []Exclusion
<1>1. ExecInv => Exclusion
  BY DEF ExecInv
<1>2. QED
  BY ExecInit, ExecStep, <1>1, PTL DEF Spec

\* No two executions come from requests that had observed the same one,
\* whatever the number of jobs that observed it and are retried.
THEOREM CampaignOneReplay == Spec => []OneReplayPerObservation
<1>1. ExecInv => OneReplayPerObservation
  BY DEF ExecInv, InSequence, TypeOK, OneReplayPerObservation
<1>2. QED
  BY ExecInit, ExecStep, <1>1, PTL DEF Spec

-----------------------------------------------------------------------------
(***************************************************************************)
(* The ledger.                                                             *)
(***************************************************************************)
LEMMA LedgerInit == Init => LedgerInv
<1> SUFFICES ASSUME Init PROVE LedgerInv
  OBVIOUS
<1>1. ExecInv
  BY ExecInit
<1>2. CallsAreLedgered /\ HandledSoFar
  BY DEF Init, CallsAreLedgered, HandledSoFar, InPass, Recording, Terminal
<1>3. CompletedMeansHandled
  <2>1. reach \subseteq Actions /\ (execId # 0 => execId \in Execs)
    BY <1>1, ExecutionsBounded DEF ExecInv, TypeOK
  <2>2. QED
    BY <2>1 DEF Init, CompletedMeansHandled, Terminal
<1>4. QED
  BY <1>1, <1>2, <1>3 DEF LedgerInv

\* What a step of a workflow run may do to the ledger.
LEMMA LedgerFrame ==
  ASSUME LedgerInv, NEW r \in Runs, NEW w,
         wf' = [wf EXCEPT ![r] = w],
         UNCHANGED CampaignVars,
         UNCHANGED ledger \/ wf[r].pc \in InPass,
         w.pc \in Recording =>
           ledger'[w.exec][w.cur] = "Running" /\ w.exec = execId,
         w.pc \in InPass /\ ~w.errors =>
           \A a \in reach : Before(a, w.cur) => ledger'[w.exec][a] \in Terminal,
         status' = "Completed" =>
           \/ status = "Completed"
           \/ \A a \in reach : ledger'[execId][a] \in Terminal
  PROVE  CallsAreLedgered' /\ HandledSoFar' /\ CompletedMeansHandled'
<1> USE DEF LedgerInv, ExecInv
<1>1. /\ \A q \in Runs \ {r} : wf'[q] = wf[q]
      /\ wf'[r] = w
      /\ UNCHANGED <<execId, origin, reach>>
  BY DEF TypeOK, CampaignVars
<1>2. \A q \in Runs \ {r} : wf[q].pc \in InPass => UNCHANGED ledger
  BY DEF Exclusion
<1>3. status = "Completed" => UNCHANGED ledger
  BY DEF HolderIsCurrent
<1>4. CallsAreLedgered'
  <2> SUFFICES ASSUME NEW q \in Runs, wf'[q].pc \in Recording
               PROVE  ledger'[wf'[q].exec][wf'[q].cur] = "Running"
                      /\ wf'[q].exec = execId'
    BY DEF CallsAreLedgered, RowOf, Recording
  <2>1. CASE q = r
    BY <1>1, <2>1
  <2>2. CASE q # r
    BY <1>1, <1>2, <2>2, PassPCs DEF CallsAreLedgered, RowOf, Recording
  <2>3. QED
    BY <2>1, <2>2
<1>5. HandledSoFar'
  BY <1>1, <1>2 DEF HandledSoFar
<1>6. CompletedMeansHandled'
  BY <1>1, <1>3 DEF CompletedMeansHandled
<1>7. QED
  BY <1>4, <1>5, <1>6

LEMMA RunStepLedger ==
  ASSUME LedgerInv, NEW r \in Runs, RunStep(r) \/ RunCrash(r)
  PROVE  CallsAreLedgered' /\ HandledSoFar' /\ CompletedMeansHandled'
<1> USE CampaignAssumption DEF LedgerInv, ExecInv
<1>0. /\ wf[r] \in RunType(Len(origin))
      /\ ledger \in LedgerType
      /\ reach \subseteq Actions
      /\ status \in Statuses
  BY DEF TypeOK, RunType, Places, LedgerType, Statuses
\* Out of the pass.
<1>1. ASSUME NEW w, wf' = [wf EXCEPT ![r] = w], w.pc \notin InPass,
             UNCHANGED <<CampaignVars, ledger>>,
             status' = "Completed" =>
               \/ status = "Completed"
               \/ \A a \in reach : ledger[execId][a] \in Terminal
      PROVE  CallsAreLedgered' /\ HandledSoFar' /\ CompletedMeansHandled'
  BY <1>1, PassPCs, LedgerFrame
<1>2. Leaves(r) =>
        \E w : /\ wf' = [wf EXCEPT ![r] = w]
               /\ w.pc \notin InPass
               /\ UNCHANGED <<CampaignVars, ledger>>
  <2>1. SUFFICES ASSUME Leaves(r)
                 PROVE  \E w : /\ wf' = [wf EXCEPT ![r] = w]
                               /\ w.pc \notin InPass
                               /\ UNCHANGED <<CampaignVars, ledger>>
    OBVIOUS
  <2>2. PICK w \in RunType(Len(origin)) :
          wf' = [wf EXCEPT ![r] = w] /\ w.pc \notin InPass
    BY <2>1, RunLeft
  <2>3. UNCHANGED <<CampaignVars, ledger>>
    BY <2>1
    DEF Leaves, RunRefused, RunEnds, RunRaises, RunRaisesUnmarked, RunCrash
  <2>4. QED
    BY <2>2, <2>3
<1>3. CASE RunRefused(r) \/ RunRaisesUnmarked(r) \/ RunCrash(r)
  <2>1. Leaves(r) /\ UNCHANGED status
    BY <1>3 DEF Leaves, RunRefused, RunRaisesUnmarked, RunCrash
  <2>2. QED
    BY <1>1, <1>2, <2>1
<1>4. CASE RunBegin(r)
  <2> DEFINE first == IF NProfiles = 0 THEN EndOfPass ELSE <<1, 1>>
             w == [wf[r] EXCEPT !.pc = "pass", !.cur = first, !.errors = FALSE]
  <2>1. w.pc = "pass" /\ w.cur = first
    BY <1>0 DEF RunType
  <2>2. wf' = [wf EXCEPT ![r] = w]
        /\ UNCHANGED <<CampaignVars, status, act, ledger>>
    BY <1>4 DEF RunBegin
  <2>3. \A a \in reach : ~Before(a, first)
    BY <1>0, BeforeFirst
  <2> HIDE DEF w, first
  <2>4. w.pc \notin Recording
    BY <2>1 DEF Recording, Terminal
  <2>5. QED
    BY <2>1, <2>2, <2>3, <2>4, LedgerFrame
\* On to the next node: the action is behind the pass now.
<1>5. ASSUME GoOn(r), wf[r].cur \in Actions, wf[r].pc \in InPass,
             UNCHANGED <<CampaignVars, status>>,
             \A a \in Actions : a # wf[r].cur =>
               ledger'[wf[r].exec][a] = ledger[wf[r].exec][a],
             wf[r].cur \in reach => ledger'[wf[r].exec][wf[r].cur] \in Terminal
      PROVE  CallsAreLedgered' /\ HandledSoFar' /\ CompletedMeansHandled'
  <2> DEFINE w == [wf[r] EXCEPT !.pc = "pass", !.cur = NextNode(wf[r].cur)]
  <2>1. /\ w.pc = "pass" /\ w.cur = NextNode(wf[r].cur)
        /\ w.exec = wf[r].exec /\ w.errors = wf[r].errors
    BY <1>0 DEF RunType
  <2>2. wf' = [wf EXCEPT ![r] = w]
    BY <1>0, <1>5 DEF GoOn, TypeOK
  <2> HIDE DEF w
  <2>3. ASSUME ~w.errors, NEW a \in reach, Before(a, w.cur)
        PROVE  ledger'[w.exec][a] \in Terminal
    <3>1. a = wf[r].cur \/ Before(a, wf[r].cur)
      BY <1>0, <1>5, <2>1, <2>3, BeforeNext
    <3>2. Before(a, wf[r].cur) => ledger[wf[r].exec][a] \in Terminal
      BY <1>5, <2>1, <2>3 DEF HandledSoFar
    <3>3. QED
      BY <1>0, <1>5, <2>1, <3>1, <3>2
  <2>4. w.pc \notin Recording
    BY <2>1 DEF Recording, Terminal
  <2>5. QED
    BY <1>5, <2>1, <2>2, <2>3, <2>4, LedgerFrame
<1>6. ASSUME JourneyFails(r), wf[r].pc \in InPass,
             UNCHANGED <<CampaignVars, status>>
      PROVE  CallsAreLedgered' /\ HandledSoFar' /\ CompletedMeansHandled'
  <2> DEFINE w == [wf[r] EXCEPT !.pc = "pass", !.cur = NextProfile(wf[r].cur),
                                !.errors = TRUE]
  <2>1. w.pc = "pass" /\ w.errors = TRUE
    BY <1>0 DEF RunType
  <2>2. wf' = [wf EXCEPT ![r] = w]
    BY <1>0, <1>6 DEF JourneyFails, TypeOK
  <2> HIDE DEF w
  <2>3. w.pc \notin Recording
    BY <2>1 DEF Recording, Terminal
  <2>4. QED
    BY <1>6, <2>1, <2>2, <2>3, LedgerFrame
<1>7. CASE NodePassed(r)
  BY <1>5, <1>7 DEF NodePassed, InPass
<1>8. CASE JourneyRaises(r)
  BY <1>6, <1>8 DEF JourneyRaises, InPass
<1>9. CASE BeginCompleted(r)
  BY <1>0, <1>5, <1>9 DEF BeginCompleted, InPass, RowOf
\* What a holder writes goes to the current execution.
<1>10. wf[r].pc \in InPass => wf[r].exec \in Execs /\ wf[r].exec = execId
  BY ExecutionsBounded DEF HolderIsCurrent, HasExecution
<1>11. ASSUME NEW s, wf[r].pc \in InPass, wf[r].cur \in Actions,
              ledger' = [ledger EXCEPT ![wf[r].exec][wf[r].cur] = s]
       PROVE  /\ ledger'[wf[r].exec][wf[r].cur] = s
              /\ \A a \in Actions : a # wf[r].cur =>
                   ledger'[wf[r].exec][a] = ledger[wf[r].exec][a]
  BY <1>0, <1>10, <1>11 DEF LedgerType
<1>12. CASE Begin(r)
  <2> DEFINE w == [wf[r] EXCEPT !.pc = "calling"]
  <2>1. /\ w.pc = "calling" /\ w.exec = wf[r].exec /\ w.cur = wf[r].cur
        /\ w.errors = wf[r].errors
    BY <1>0 DEF RunType
  <2>2. wf' = [wf EXCEPT ![r] = w]
    BY <1>12 DEF Begin
  <2>3. /\ wf[r].pc \in InPass /\ wf[r].cur \in reach
        /\ RowOf(r) \notin Terminal
        /\ UNCHANGED <<CampaignVars, status, lock, act>>
    BY <1>12 DEF Begin, InPass
  <2>4. /\ ledger'[w.exec][w.cur] = "Running" /\ w.exec = execId
        /\ \A a \in Actions : a # w.cur => ledger'[w.exec][a] = ledger[w.exec][a]
    BY <1>0, <1>10, <1>11, <1>12, <2>1, <2>3 DEF Begin
  <2> HIDE DEF w
  <2>5. ASSUME ~w.errors, NEW a \in reach, Before(a, w.cur)
        PROVE  ledger'[w.exec][a] \in Terminal
    <3>1. ledger[w.exec][a] \in Terminal
      BY <2>1, <2>3, <2>5 DEF HandledSoFar
    <3>2. a # w.cur
      BY <2>1, <2>3, <3>1 DEF RowOf
    <3>3. QED
      BY <1>0, <2>4, <3>1, <3>2
  <2>6. QED
    BY <2>2, <2>3, <2>4, <2>5, LedgerFrame
<1>13. ASSUME NEW outcome \in Terminal \cup {"Failed"},
              ProviderAnswers(r, outcome)
       PROVE  CallsAreLedgered' /\ HandledSoFar' /\ CompletedMeansHandled'
  <2> DEFINE w == [wf[r] EXCEPT !.pc = outcome]
  <2>1. /\ w.pc = outcome /\ w.exec = wf[r].exec /\ w.cur = wf[r].cur
        /\ w.errors = wf[r].errors
    BY <1>0 DEF RunType
  <2>2. wf' = [wf EXCEPT ![r] = w]
    BY <1>13 DEF ProviderAnswers
  <2>3. /\ wf[r].pc = "calling" /\ wf[r].pc \in InPass
        /\ UNCHANGED <<CampaignVars, status, lock, act, ledger>>
    BY <1>13 DEF ProviderAnswers, InPass, Recording
  <2>4. ledger[w.exec][w.cur] = "Running" /\ w.exec = execId
    BY <2>1, <2>3 DEF CallsAreLedgered, RowOf
  <2>5. ~w.errors => \A a \in reach :
          Before(a, w.cur) => ledger[w.exec][a] \in Terminal
    BY <2>1, <2>3 DEF HandledSoFar
  <2> HIDE DEF w
  <2>6. QED
    BY <2>2, <2>3, <2>4, <2>5, LedgerFrame
<1>14. CASE FinishDone(r)
  <2>1. wf[r].pc \in InPass /\ wf[r].cur \in Actions
    BY <1>0, <1>14 DEF FinishDone, InPass, Recording, OnPath
  <2>2. /\ ledger'[wf[r].exec][wf[r].cur] = wf[r].pc
        /\ \A a \in Actions : a # wf[r].cur =>
             ledger'[wf[r].exec][a] = ledger[wf[r].exec][a]
    BY <1>11, <1>14, <2>1 DEF FinishDone
  <2>3. QED
    BY <1>5, <1>14, <2>1, <2>2 DEF FinishDone
<1>15. CASE FinishFailed(r)
  BY <1>6, <1>15 DEF FinishFailed, InPass, Recording
<1>16. CASE FinishRaises(r)
  BY <1>6, <1>16 DEF FinishRaises, InPass, Recording
<1>17. CASE RunEnds(r)
  <2>1. wf[r].pc = "pass" /\ wf[r].pc \in InPass /\ wf[r].cur = EndOfPass
    BY <1>17 DEF RunEnds, InPass
  <2>2. ASSUME status' = "Completed", status # "Completed", NEW a \in reach
        PROVE  ledger[execId][a] \in Terminal
    <3>1. ~wf[r].errors
      BY <1>17, <2>2 DEF RunEnds, SetCampaignStatus
    <3>2. Before(a, wf[r].cur)
      BY <1>0, <2>1, BeforeEnd
    <3>3. QED
      BY <1>10, <2>1, <3>1, <3>2 DEF HandledSoFar
  <2>3. QED
    BY <1>1, <1>2, <1>17, <2>2 DEF Leaves
<1>18. CASE RunRaises(r)
  <2>1. status' = "Completed" => status = "Completed"
    BY <1>18 DEF RunRaises, SetCampaignStatus
  <2>2. QED
    BY <1>1, <1>2, <1>18, <2>1 DEF Leaves
<1>20. QED
  BY <1>3, <1>4, <1>7, <1>8, <1>9, <1>12, <1>13, <1>14, <1>15, <1>16, <1>17,
     <1>18 DEF RunStep

\* An activation leaves the ledger and every pass alone.
LEMMA JobStepLedger ==
  ASSUME LedgerInv, NEW j \in Jobs,
         \/ \E restart \in BOOLEAN : ApiActivate(j, restart)
         \/ ActivationStep(j) \/ ActivationCrash(j)
  PROVE  CallsAreLedgered' /\ HandledSoFar' /\ CompletedMeansHandled'
<1> USE DEF LedgerInv, ExecInv
<1>1. UNCHANGED <<ledger, reach>>
  BY DEF ApiActivate, ActivationStep, ActivateRefused, ActivateMark, SubmitOk,
         SubmitRaises, MarkSubmissionFailed, MarkRaises, ActivationCrash
<1>2. wf' = wf \/ \E r \in Runs : NewRun(j, r)
  BY DEF ApiActivate, ActivationStep, ActivateRefused, ActivateMark, SubmitOk,
         SubmitRaises, MarkSubmissionFailed, MarkRaises, ActivationCrash
<1>3. \A q \in Runs : wf'[q].pc \in InPass => wf'[q] = wf[q]
  <2>1. CASE wf' = wf
    BY <2>1
  <2>2. ASSUME NEW r \in Runs, NewRun(j, r), NEW q \in Runs,
               wf'[q].pc \in InPass
        PROVE  wf'[q] = wf[q]
    <3>1. CASE q = r
      <4>1. wf[r] \in RunType(Len(origin))
        BY DEF TypeOK, RunType, Places
      <4>2. wf'[r] = [wf[r] EXCEPT !.pc = "queued", !.exec = act[j].exec]
        BY <2>2 DEF NewRun, TypeOK
      <4>3. wf'[r].pc = "queued"
        BY <4>1, <4>2 DEF RunType
      <4>4. QED
        BY <2>2, <3>1, <4>3, PassPCs
    <3>2. CASE q # r
      BY <2>2, <3>2 DEF NewRun, TypeOK
    <3>3. QED
      BY <3>1, <3>2
  <2>3. QED
    BY <1>2, <2>1, <2>2
<1>4. (\E q \in Runs : wf[q].pc \in InPass) => execId' = execId
  BY CampaignAssumption
  DEF Exclusion, ApiActivate, ActivationStep, ActivateRefused, ActivateMark,
      SubmitOk, SubmitRaises, MarkSubmissionFailed, MarkRaises, ActivationCrash
<1>5. status' = "Completed" => status = "Completed" /\ execId' = execId
  BY DEF ApiActivate, ActivationStep, ActivateRefused, ActivateMark, SubmitOk,
         SubmitRaises, MarkSubmissionFailed, MarkRaises, ActivationCrash
<1>6. CallsAreLedgered'
  BY <1>1, <1>3, <1>4, PassPCs DEF CallsAreLedgered, RowOf, Recording
<1>7. HandledSoFar' /\ CompletedMeansHandled'
  BY <1>1, <1>3, <1>5 DEF HandledSoFar, CompletedMeansHandled
<1>8. QED
  BY <1>6, <1>7

\* Every step preserves what the ledger says.
LEMMA LedgerStep == LedgerInv /\ [Next]_vars => LedgerInv'
<1> SUFFICES ASSUME LedgerInv, [Next]_vars PROVE LedgerInv'
  OBVIOUS
<1>1. ExecInv'
  BY ExecStep DEF LedgerInv
<1>2. CASE UNCHANGED vars
  BY <1>1, <1>2
  DEF vars, LedgerInv, CallsAreLedgered, RowOf, HandledSoFar,
      CompletedMeansHandled
<1>3. QED
  BY <1>1, <1>2, JobStepLedger, RunStepLedger DEF Next, LedgerInv

\* No run, however stale, duplicated or retried, calls a provider but for the
\* current execution and with the row of that very action committed Running.
THEOREM CampaignCallsLedgered == Spec => []CallsAreLedgered
<1>1. LedgerInv => CallsAreLedgered
  BY DEF LedgerInv
<1>2. QED
  BY LedgerInit, LedgerStep, <1>1, PTL DEF Spec

\* A Completed campaign has completed every action its profiles reach, however
\* many passes, failures, retries and crashes it took.
THEOREM CampaignCompletedHandled == Spec => []CompletedMeansHandled
<1>1. LedgerInv => CompletedMeansHandled
  BY DEF LedgerInv
<1>2. QED
  BY LedgerInit, LedgerStep, <1>1, PTL DEF Spec

\* A run writes no row but its own, which is not completed.
LEMMA RowsStep ==
  ASSUME LedgerInv, [Next]_vars, NEW e \in Execs, NEW a \in Actions,
         ledger[e][a] \in Terminal
  PROVE  ledger'[e][a] = ledger[e][a]
<1> USE DEF LedgerInv, ExecInv
<1>1. ledger \in LedgerType
  BY DEF TypeOK, LedgerType
<1>2. ASSUME NEW r \in Runs, NEW s, RowOf(r) \notin Terminal,
             ledger' = [ledger EXCEPT ![wf[r].exec][wf[r].cur] = s]
      PROVE  ledger'[e][a] = ledger[e][a]
  BY <1>1, <1>2 DEF LedgerType, RowOf
<1>3. \A r \in Runs : wf[r].pc \in Recording => RowOf(r) \notin Terminal
  BY DEF CallsAreLedgered, Recording, Terminal
<1>4. ASSUME NEW r \in Runs, Begin(r) PROVE ledger'[e][a] = ledger[e][a]
  BY <1>2, <1>4 DEF Begin
<1>5. ASSUME NEW r \in Runs, FinishDone(r) PROVE ledger'[e][a] = ledger[e][a]
  <2>1. RowOf(r) \notin Terminal
    BY <1>3, <1>5 DEF FinishDone, Recording
  <2>2. QED
    BY <1>2, <1>5, <2>1 DEF FinishDone
<1>6. ASSUME NEW r \in Runs, FinishFailed(r) PROVE ledger'[e][a] = ledger[e][a]
  <2>1. RowOf(r) \notin Terminal
    BY <1>3, <1>6 DEF FinishFailed, Recording
  <2>2. QED
    BY <1>2, <1>6, <2>1 DEF FinishFailed
<1>7. CASE UNCHANGED ledger
  BY <1>7
<1>8. CASE UNCHANGED vars
  BY <1>8 DEF vars
<1>9. ASSUME NEW j \in Jobs,
             \/ \E restart \in BOOLEAN : ApiActivate(j, restart)
             \/ ActivationStep(j) \/ ActivationCrash(j)
      PROVE  UNCHANGED ledger
  BY <1>9
  DEF ApiActivate, ActivationStep, ActivateRefused, ActivateMark, SubmitOk,
      SubmitRaises, MarkSubmissionFailed, MarkRaises, ActivationCrash
<1>10. ASSUME NEW r \in Runs, RunStep(r) \/ RunCrash(r)
       PROVE  UNCHANGED ledger \/ Begin(r) \/ FinishDone(r) \/ FinishFailed(r)
  BY <1>10
  DEF RunStep, RunCrash, RunRefused, RunBegin, NodePassed, JourneyRaises,
      BeginCompleted, ProviderAnswers, FinishRaises, RunEnds, RunRaises,
      RunRaisesUnmarked
<1>11. QED
  BY <1>4, <1>5, <1>6, <1>7, <1>8, <1>9, <1>10 DEF Next

\* Only an activation that allocates an execution takes a campaign out of
\* Completed.
LEMMA ReopenStep ==
  ASSUME LedgerInv, [Next]_vars, status = "Completed", status' # "Completed"
  PROVE  execId' # execId
<1> USE DEF LedgerInv, ExecInv
<1>1. PICK o \in Jobs \cup Runs :
        \/ o \in Jobs /\ ((\E restart \in BOOLEAN : ApiActivate(o, restart))
                          \/ ActivationStep(o) \/ ActivationCrash(o))
        \/ o \in Runs /\ (RunStep(o) \/ RunCrash(o))
  BY DEF Next, vars
<1>2. CASE o \in Jobs /\ ActivateMark(o)
  BY <1>2 DEF ActivateMark, InSequence, TypeOK
<1>3. CASE o \in Jobs /\ MarkSubmissionFailed(o)
  BY <1>3 DEF MarkSubmissionFailed, HolderIsCurrent, InActivation
<1>4. CASE o \in Runs /\ (RunStep(o) \/ RunCrash(o))
  BY <1>4
  DEF RunStep, RunCrash, RunRefused, RunBegin, NodePassed, JourneyRaises,
      BeginCompleted, Begin, ProviderAnswers, FinishDone, FinishFailed,
      FinishRaises, RunEnds, RunRaises, RunRaisesUnmarked, SetCampaignStatus
<1>5. QED
  BY <1>1, <1>2, <1>3, <1>4
  DEF ApiActivate, ActivationStep, ActivateRefused, SubmitOk, SubmitRaises,
      MarkRaises, ActivationCrash

\* Nothing a campaign has completed is undone by a late submission failure, a
\* duplicate run, a stale run or a retry: a replay is the only way on.
THEOREM CampaignCompletedFinal == Spec => CompletedIsFinal
<1>1. LedgerInv /\ [Next]_vars =>
        [\A e \in Execs, a \in Actions :
           ledger[e][a] \in Terminal => ledger'[e][a] = ledger[e][a]]_vars
  BY RowsStep
<1>2. LedgerInv /\ [Next]_vars =>
        [status = "Completed" /\ status' # "Completed" => execId' # execId]_vars
  BY ReopenStep
<1>3. QED
  BY LedgerInit, LedgerStep, <1>1, <1>2, PTL
  DEF Spec, CompletedIsFinal, TerminalRowsFinal, CompletedOnlyReplayed

-----------------------------------------------------------------------------
(***************************************************************************)
(* The execution is an ActionLedger: the calls are those of the run that   *)
(* holds the lock, so a pass is a sequence of calls and records, and all   *)
(* that jobs, locks, retries and deaths add is stuttering and lost calls.  *)
(***************************************************************************)
CallsOf(w) == {w[r].cur : r \in {q \in Runs : w[q].pc \in Recording}}

LEMMA CalledIsCallsOf == Called = CallsOf(wf) /\ Called' = CallsOf(wf')
  BY DEF Called, CallsOf, Recording

\* One run in a call makes one call, none makes none.
LEMMA CallsOfOne ==
  ASSUME NEW w, NEW r \in Runs,
         \A q \in Runs \ {r} : w[q].pc \notin Recording
  PROVE  /\ w[r].pc \in Recording => CallsOf(w) = {w[r].cur}
         /\ w[r].pc \notin Recording => CallsOf(w) = {}
  BY DEF CallsOf

LEMMA CallsOfNone ==
  ASSUME NEW w, \A q \in Runs : w[q].pc \notin Recording
  PROVE  CallsOf(w) = {}
  BY DEF CallsOf

\* A run that is in no call before or after changes nothing.
LEMMA CallsOfSame ==
  ASSUME NEW w, NEW v, NEW r \in Runs,
         \A q \in Runs \ {r} : v[q] = w[q],
         w[r].pc \notin Recording, v[r].pc \notin Recording
  PROVE  CallsOf(v) = CallsOf(w)
  BY DEF CallsOf

\* With the lock free or with a job, no provider is being called.
LEMMA NoCalls ==
  ASSUME ExecInv, lock \notin Runs
  PROVE  Called = {}
<1>1. \A q \in Runs : wf[q].pc \notin Recording
  BY PassPCs DEF ExecInv, Exclusion
<1>2. QED
  BY <1>1, CallsOfNone, CalledIsCallsOf

LEMMA RunStepOrders ==
  ASSUME LedgerInv, CompletedMeansHandled',
         NEW r \in Runs, RunStep(r) \/ RunCrash(r)
  PROVE  [Orders!Next]_(Orders!vars)
<1> USE DEF LedgerInv, ExecInv
<1>1. /\ wf \in [Runs -> RunType(Len(origin))] /\ wf[r] \in RunType(Len(origin))
      /\ wf[r].tries <= MaxRetries[r] /\ Len(origin) \in Nat
      /\ lock \in Jobs \cup Runs \cup {None}
  BY DEF TypeOK, RunType, Places
<1>2. Leaves(r) => \E w : wf' = [wf EXCEPT ![r] = w] /\ w.pc \notin Recording
  BY RunLeft
\* Outside a call.
<1>3. ASSUME NEW w, wf' = [wf EXCEPT ![r] = w],
             wf[r].pc \notin Recording, w.pc \notin Recording
      PROVE  Called' = Called
  <2>1. wf'[r] = w /\ \A q \in Runs \ {r} : wf'[q] = wf[q]
    BY <1>1, <1>3
  <2>2. QED
    BY <1>3, <2>1, CallsOfSame, CalledIsCallsOf
\* Within a pass.
<1>4. wf[r].pc \in InPass =>
        \A q \in Runs \ {r} : wf[q].pc \notin Recording
  BY PassPCs DEF Exclusion
<1>5. wf[r].pc \in InPass =>
        /\ wf[r].pc \in Recording => Called = {wf[r].cur}
        /\ wf[r].pc \notin Recording => Called = {}
  BY <1>4, CallsOfOne, CalledIsCallsOf
<1>6. ASSUME NEW w, wf' = [wf EXCEPT ![r] = w], wf[r].pc \in InPass
      PROVE  /\ w.pc \in Recording => Called' = {w.cur}
             /\ w.pc \notin Recording => Called' = {}
  <2>1. wf'[r] = w /\ \A q \in Runs \ {r} : wf'[q] = wf[q]
    BY <1>1, <1>6
  <2>2. \A q \in Runs \ {r} : wf'[q].pc \notin Recording
    BY <1>4, <1>6, <2>1
  <2>3. QED
    BY <2>1, <2>2, CallsOfOne, CalledIsCallsOf
<1>7. wf[r].pc \in InPass =>
        status \in {"Running", "Failed"} /\ wf[r].exec = execId
  BY DEF HolderIsCurrent
<1>8. "pass" \notin Recording /\ "pass" \in InPass /\ Recording \subseteq InPass
  BY DEF InPass, Recording, Terminal
\* A step that changes nothing the ledger sees.
<1>9. ASSUME UNCHANGED <<CampaignVars, status, ledger, Called>>
      PROVE  [Orders!Next]_(Orders!vars)
  BY <1>9 DEF Orders!vars, CampaignVars
<1>10. CASE RunRefused(r)
  <2>1. Called' = Called
    BY <1>2, <1>3, <1>10, PassPCs DEF Leaves, RunRefused
  <2>2. QED
    BY <1>9, <1>10, <2>1 DEF RunRefused
<1>11. CASE RunBegin(r)
  <2> DEFINE w == [wf[r] EXCEPT
                     !.pc = "pass",
                     !.cur = IF NProfiles = 0 THEN EndOfPass ELSE <<1, 1>>,
                     !.errors = FALSE]
  <2>1. wf' = [wf EXCEPT ![r] = w] /\ w.pc = "pass"
    BY <1>1, <1>11 DEF RunBegin, RunType
  <2> HIDE DEF w
  <2>2. wf[r].pc \notin Recording /\ w.pc \notin Recording
    BY <1>8, <1>11, <2>1, PassPCs DEF RunBegin
  <2>3. Called' = Called
    BY <1>3, <2>1, <2>2
  <2>4. QED
    BY <1>9, <1>11, <2>3 DEF RunBegin
\* The journey goes on.
<1>12. ASSUME GoOn(r) \/ JourneyFails(r), wf[r].pc \in InPass
       PROVE  Called' = {}
  <2> DEFINE v == [wf[r] EXCEPT !.pc = "pass", !.cur = NextNode(wf[r].cur)]
             w == [wf[r] EXCEPT !.pc = "pass", !.cur = NextProfile(wf[r].cur),
                                !.errors = TRUE]
  <2>1. wf' = [wf EXCEPT ![r] = v] \/ wf' = [wf EXCEPT ![r] = w]
    BY <1>1, <1>12 DEF GoOn, JourneyFails
  <2>2. v.pc = "pass" /\ w.pc = "pass"
    BY <1>1 DEF RunType
  <2> HIDE DEF v, w
  <2>3. QED
    BY <1>6, <1>8, <1>12, <2>1, <2>2
<1>13. CASE NodePassed(r) \/ JourneyRaises(r) \/ BeginCompleted(r)
  <2>1. /\ wf[r].pc = "pass"
        /\ GoOn(r) \/ JourneyFails(r)
        /\ UNCHANGED <<CampaignVars, status, ledger>>
    BY <1>13 DEF NodePassed, JourneyRaises, BeginCompleted
  <2>2. Called = {} /\ Called' = {}
    BY <1>5, <1>8, <1>12, <2>1
  <2>3. QED
    BY <1>9, <2>1, <2>2
<1>14. CASE Begin(r)
  <2> DEFINE w == [wf[r] EXCEPT !.pc = "calling"]
  <2>1. /\ wf' = [wf EXCEPT ![r] = w] /\ w.pc = "calling" /\ w.cur = wf[r].cur
        /\ wf[r].pc = "pass"
    BY <1>1, <1>14 DEF Begin, RunType
  <2> HIDE DEF w
  <2>2. Called = {} /\ Called' = {wf[r].cur}
    BY <1>5, <1>6, <1>8, <2>1 DEF Recording
  <2>3. wf[r].exec = execId /\ status \in {"Running", "Failed"}
    BY <1>7, <1>8, <2>1
  <2>4. Orders!Call(wf[r].cur)
    BY <1>14, <2>2, <2>3
    DEF Begin, RowOf, CampaignVars, Terminal, Orders!Call, Orders!UnderWay,
        Orders!Row, Orders!Write, Orders!Terminal
  <2>5. QED
    BY <1>14, <2>4 DEF Begin, Orders!Next
<1>15. ASSUME NEW outcome \in Terminal \cup {"Failed"},
              ProviderAnswers(r, outcome)
       PROVE  [Orders!Next]_(Orders!vars)
  <2> DEFINE w == [wf[r] EXCEPT !.pc = outcome]
  <2>1. /\ wf' = [wf EXCEPT ![r] = w] /\ w.pc = outcome /\ w.cur = wf[r].cur
        /\ wf[r].pc = "calling"
    BY <1>1, <1>15 DEF ProviderAnswers, RunType
  <2> HIDE DEF w
  <2>2. wf[r].pc \in Recording /\ w.pc \in Recording
    BY <2>1 DEF Recording
  <2>3. Called' = Called
    BY <1>5, <1>6, <1>8, <2>1, <2>2
  <2>4. QED
    BY <1>9, <1>15, <2>3 DEF ProviderAnswers
\* What is recorded is the call in progress.
<1>16. wf[r].pc \in Recording =>
         /\ wf[r].cur \in reach /\ wf[r].exec = execId
         /\ Called = {wf[r].cur}
  BY <1>5, <1>7, <1>8 DEF OnPath
<1>17. ASSUME NEW s \in Terminal \cup {"Failed"}, wf[r].pc \in Recording,
              GoOn(r) \/ JourneyFails(r),
              ledger' = [ledger EXCEPT ![wf[r].exec][wf[r].cur] = s],
              UNCHANGED <<CampaignVars, status>>
       PROVE  Orders!Next
  <2>1. Called' = {}
    BY <1>8, <1>12, <1>17
  <2>2. Orders!Record(wf[r].cur, s)
    BY <1>16, <1>17, <2>1
    DEF CampaignVars, Orders!Record, Orders!Write
  <2>3. s \in Orders!Terminal \cup {"Failed"}
    BY DEF Terminal, Orders!Terminal
  <2>4. QED
    BY <1>16, <1>17, <2>2, <2>3 DEF Orders!Next
<1>18. CASE FinishDone(r)
  BY <1>17, <1>18 DEF FinishDone, Recording
<1>19. CASE FinishFailed(r)
  BY <1>17, <1>19 DEF FinishFailed, Recording
<1>20. CASE FinishRaises(r)
  <2>1. Called' = {}
    BY <1>8, <1>12, <1>20 DEF FinishRaises, Recording
  <2>2. Orders!Lose
    BY <1>20, <2>1 DEF FinishRaises, CampaignVars, Orders!Lose
  <2>3. QED
    BY <2>2 DEF Orders!Next
\* The end of a pass: the status is written by the holder of the lock.
<1>21. ASSUME NEW w, wf' = [wf EXCEPT ![r] = w], w.pc \notin Recording,
              wf[r].pc = "pass", NEW s \in {"Failed", "Completed"},
              SetCampaignStatus(r, s), UNCHANGED <<CampaignVars, ledger>>
       PROVE  Orders!Next
  <2>1. Called = {} /\ Called' = {}
    BY <1>5, <1>6, <1>8, <1>21
  <2>2. status \in {"Running", "Failed"} /\ status' = s
    BY <1>7, <1>8, <1>21 DEF SetCampaignStatus
  <2>3. s = "Completed" => Orders!Handled
    BY <1>21, <2>2
    DEF CompletedMeansHandled, CampaignVars, Terminal,
        Orders!Handled, Orders!Row, Orders!Terminal
  <2>4. Orders!End
    BY <1>21, <2>1, <2>2, <2>3 DEF CampaignVars, Orders!End, Orders!UnderWay
  <2>5. QED
    BY <2>4 DEF Orders!Next
<1>22. CASE RunEnds(r)
  BY <1>2, <1>21, <1>22 DEF Leaves, RunEnds
<1>23. CASE RunRaises(r)
  BY <1>2, <1>21, <1>23 DEF Leaves, RunRaises
\* A run that leaves without a word loses its call, if there is one.
<1>24. CASE RunRaisesUnmarked(r) \/ RunCrash(r)
  <2>1. PICK w : wf' = [wf EXCEPT ![r] = w] /\ w.pc \notin Recording
    BY <1>2, <1>24 DEF Leaves
  <2>2. UNCHANGED <<CampaignVars, status, ledger>>
    BY <1>24 DEF RunRaisesUnmarked, RunCrash
  <2>3. CASE wf[r].pc \in Recording
    <3>1. Called' = {}
      BY <1>6, <1>8, <2>1, <2>3
    <3>2. Orders!Lose
      BY <2>2, <3>1 DEF CampaignVars, Orders!Lose
    <3>3. QED
      BY <3>2 DEF Orders!Next
  <2>4. CASE wf[r].pc \notin Recording
    BY <1>3, <1>9, <2>1, <2>2, <2>4
  <2>5. QED
    BY <2>3, <2>4
<1>25. QED
  BY <1>10, <1>11, <1>13, <1>14, <1>15, <1>18, <1>19, <1>20, <1>22, <1>23,
     <1>24 DEF RunStep

\* An activation makes no call, and all but its commit and the failure of its
\* submission is out of the ledger's sight.
LEMMA JobStepOrders ==
  ASSUME LedgerInv, ExecInv', NEW j \in Jobs,
         \/ \E restart \in BOOLEAN : ApiActivate(j, restart)
         \/ ActivationStep(j) \/ ActivationCrash(j)
  PROVE  [Orders!Next]_(Orders!vars)
<1> USE CampaignAssumption DEF LedgerInv, ExecInv
<1>1. Called' = Called
  <2>1. wf' = wf \/ \E r \in Runs : NewRun(j, r)
    BY DEF ApiActivate, ActivationStep, ActivateRefused, ActivateMark, SubmitOk,
           SubmitRaises, MarkSubmissionFailed, MarkRaises, ActivationCrash
  <2>2. CASE wf' = wf
    BY <2>2, CalledIsCallsOf
  <2>3. ASSUME NEW r \in Runs, NewRun(j, r) PROVE Called' = Called
    <3> DEFINE w == [wf[r] EXCEPT !.pc = "queued", !.exec = act[j].exec]
    <3>1. wf[r] \in RunType(Len(origin)) /\ wf \in [Runs -> RunType(Len(origin))]
      BY DEF TypeOK, RunType, Places
    <3>2. wf' = [wf EXCEPT ![r] = w] /\ w.pc = "queued" /\ wf[r].pc = "none"
      BY <2>3, <3>1 DEF NewRun, RunType
    <3> HIDE DEF w
    <3>3. wf'[r] = w /\ \A q \in Runs \ {r} : wf'[q] = wf[q]
      BY <3>1, <3>2
    <3>4. wf[r].pc \notin Recording /\ wf'[r].pc \notin Recording
      BY <3>2, <3>3 DEF Recording, Terminal
    <3>5. CallsOf(wf') = CallsOf(wf)
      BY <3>3, <3>4, CallsOfSame
    <3>6. QED
      BY <3>5, CalledIsCallsOf
  <2>4. QED
    BY <2>1, <2>2, <2>3
<1>2. UNCHANGED <<ledger, reach>>
  BY DEF ApiActivate, ActivationStep, ActivateRefused, ActivateMark, SubmitOk,
         SubmitRaises, MarkSubmissionFailed, MarkRaises, ActivationCrash
<1>3. CASE UNCHANGED <<status, execId>>
  BY <1>1, <1>2, <1>3 DEF Orders!vars
<1>4. CASE ActivateMark(j)
  <2>1. Called = {}
    BY <1>4, NoCalls DEF ActivateMark
  <2>2. execId' = (IF status = "Failed" THEN execId ELSE execId + 1)
    <3>1. status \in Statuses /\ Len(origin) \in Nat /\ execId = Len(origin)
      BY DEF TypeOK, Statuses, InSequence
    <3>2. execId = 0 <=> status = "Draft"
      BY DEF HasExecution
    <3>3. status # "Running"
      BY <1>4 DEF ActivateMark, MayActivate
    <3>4. execId' = IF status = "Completed" \/ execId = 0
                    THEN Len(origin) + 1 ELSE execId
      BY <1>4 DEF ActivateMark
    <3>5. QED
      BY <3>1, <3>2, <3>3, <3>4 DEF Statuses
  <2>3. execId' \in Execs
    <3>1. /\ Outdated' \in SUBSET Jobs /\ Len(origin') \in Nat
          /\ execId' = Len(origin') /\ Len(origin') <= Cardinality(Outdated') + 1
      BY DEF Outdated, TypeOK, InSequence, Allocated
    <3>2. /\ Cardinality(Jobs) \in Nat /\ Cardinality(Outdated') \in Nat
          /\ Cardinality(Outdated') <= Cardinality(Jobs)
      BY <3>1, OutdatedGrows
    <3>3. execId' # 0
      BY <1>4 DEF HasExecution, ActivateMark
    <3>4. QED
      BY <3>1, <3>2, <3>3 DEF Execs
  <2>4. Orders!Activate
    BY <1>1, <1>2, <1>4, <2>1, <2>2, <2>3
    DEF ActivateMark, MayActivate, Orders!Activate
  <2>5. QED
    BY <2>4 DEF Orders!Next
<1>5. CASE MarkSubmissionFailed(j)
  <2>1. lock = j /\ status = "Running" /\ act[j].exec = execId
    BY <1>5 DEF MarkSubmissionFailed, Exclusion, HolderIsCurrent, InActivation
  <2>2. Called = {}
    BY <2>1, NoCalls
  <2>3. status' = "Failed" /\ UNCHANGED execId
    BY <1>5, <2>1 DEF MarkSubmissionFailed
  <2>4. Orders!End
    BY <1>1, <1>2, <2>1, <2>2, <2>3 DEF Orders!End, Orders!UnderWay
  <2>5. QED
    BY <2>4 DEF Orders!Next
<1>6. QED
  BY <1>3, <1>4, <1>5
  DEF ApiActivate, ActivationStep, ActivateRefused, SubmitOk, SubmitRaises,
      MarkRaises, ActivationCrash

\* Jobs, runs, locks, journeys, retries and deaths together implement the
\* ActionLedger: each step is one of its steps or none.
THEOREM CampaignImplementsLedger == Spec => ImplementsActionLedger
<1>1. Init => Orders!Init
  <2> SUFFICES ASSUME Init PROVE Orders!Init
    OBVIOUS
  <2>1. LedgerInv
    BY LedgerInit
  <2>2. Called = {}
    BY CampaignAssumption, <2>1, NoCalls DEF Init, LedgerInv
  <2>3. ledger \in [Execs -> [Actions -> {"absent"} \cup Orders!Terminal]]
    BY DEF Init, Orders!Terminal
  <2>4. \/ status = "Draft" /\ execId = 0
        \/ status = "Completed" /\ execId = 1 /\ Orders!Handled
    BY <2>1
    DEF Init, LedgerInv, CompletedMeansHandled, Terminal,
        Orders!Handled, Orders!Row, Orders!Terminal
  <2>5. reach \subseteq Actions
    BY DEF Init
  <2>6. QED
    BY <2>2, <2>3, <2>4, <2>5 DEF Orders!Init
<1>2. LedgerInv /\ LedgerInv' /\ [Next]_vars => [Orders!Next]_(Orders!vars)
  <2> SUFFICES ASSUME LedgerInv, LedgerInv', [Next]_vars
               PROVE  [Orders!Next]_(Orders!vars)
    OBVIOUS
  <2>1. CASE UNCHANGED vars
    BY <2>1 DEF vars, Called, Orders!vars
  <2>2. ExecInv' /\ CompletedMeansHandled'
    BY DEF LedgerInv
  <2>3. QED
    BY <2>1, <2>2, JobStepOrders, RunStepOrders DEF Next
<1>3. QED
  BY LedgerInit, LedgerStep, <1>1, <1>2, PTL
  DEF Spec, ImplementsActionLedger, Orders!Spec

\* What the campaign inherits by implementing it: one call at a time, under its
\* Running row and while the campaign is not Completed; no Completed campaign
\* with an action left; and no completed row that is ever written again.
THEOREM ActionLedgerKept == Orders!Spec => []Orders!Kept /\ Orders!RowsFinal
<1> DEFINE Rows == {"absent", "Running", "Failed"} \cup Orders!Terminal
           Inv == /\ ledger \in [Execs -> [Actions -> Rows]]
                  /\ reach \subseteq Actions /\ Called \subseteq reach
                  /\ status \in Statuses
                  /\ status # "Draft" => execId \in Execs
                  /\ Orders!Kept
<1>1. Orders!Init => Inv
  <2>1. 1 \in Execs
    BY CampaignAssumption, FS_CardinalityType DEF Execs
  <2>2. Orders!Init => /\ ledger \in [Execs -> [Actions -> Rows]]
                       /\ status \in Statuses
    BY DEF Orders!Init, Statuses
  <2>3. QED
    BY <2>1, <2>2 DEF Orders!Init, Orders!Kept
\* A row is only written for a call, or for an action that is not completed.
<1>2. ASSUME Inv, NEW a \in reach, NEW s \in Rows,
             Orders!Row(a) \notin Orders!Terminal, status # "Draft",
             Orders!Write(a, s)
      PROVE  /\ ledger' \in [Execs -> [Actions -> Rows]]
             /\ ledger'[execId][a] = s
             /\ \A e \in Execs, b \in Actions :
                  ledger[e][b] \in Orders!Terminal => ledger'[e][b] = ledger[e][b]
  BY <1>2 DEF Orders!Row, Orders!Write
<1>3. ASSUME Inv, NEW a \in reach, Orders!Call(a)
      PROVE  /\ Inv'
             /\ \A e \in Execs, b \in Actions :
                  ledger[e][b] \in Orders!Terminal => ledger'[e][b] = ledger[e][b]
  <2>1. /\ Orders!Row(a) \notin Orders!Terminal /\ Orders!Write(a, "Running")
        /\ status \in {"Running", "Failed"} /\ Called' = {a}
        /\ UNCHANGED <<status, execId, reach>>
    BY <1>3 DEF Orders!Call, Orders!UnderWay
  <2>2. "Running" \in Rows
    OBVIOUS
  <2> HIDE DEF Rows
  <2>3. /\ ledger' \in [Execs -> [Actions -> Rows]]
        /\ ledger'[execId][a] = "Running"
        /\ \A e \in Execs, b \in Actions :
             ledger[e][b] \in Orders!Terminal => ledger'[e][b] = ledger[e][b]
    BY <1>2, <1>3, <2>1, <2>2
  <2>4. Orders!Kept'
    BY <2>1, <2>3 DEF Orders!Kept, Orders!Row
  <2>5. QED
    BY <1>3, <2>1, <2>3, <2>4
<1>4. ASSUME Inv, NEW a \in reach, NEW s \in Orders!Terminal \cup {"Failed"},
             Orders!Record(a, s)
      PROVE  /\ Inv'
             /\ \A e \in Execs, b \in Actions :
                  ledger[e][b] \in Orders!Terminal => ledger'[e][b] = ledger[e][b]
  <2>1. /\ a \in Called /\ Called' = {} /\ Orders!Write(a, s)
        /\ UNCHANGED <<status, execId, reach>>
    BY <1>4 DEF Orders!Record
  <2>2. /\ Orders!Row(a) \notin Orders!Terminal /\ s \in Rows
        /\ status \in {"Running", "Failed"}
    BY <1>4, <2>1 DEF Orders!Kept, Orders!Terminal
  <2> HIDE DEF Rows
  <2>3. /\ ledger' \in [Execs -> [Actions -> Rows]]
        /\ \A e \in Execs, b \in Actions :
             ledger[e][b] \in Orders!Terminal => ledger'[e][b] = ledger[e][b]
    BY <1>2, <1>4, <2>1, <2>2
  <2>4. Orders!Kept'
    BY <2>1, <2>2 DEF Orders!Kept
  <2>5. QED
    BY <1>4, <2>1, <2>3, <2>4
<1>5. ASSUME Inv, Orders!Activate \/ Orders!Lose \/ Orders!End
      PROVE  Inv' /\ UNCHANGED ledger
  <2>1. CASE Orders!Activate
    BY <1>5, <2>1 DEF Orders!Activate, Orders!Kept, Statuses
  <2>2. CASE Orders!Lose
    BY <1>5, <2>2 DEF Orders!Lose, Orders!Kept, Orders!Handled, Orders!Row
  <2>3. CASE Orders!End
    BY <1>5, <2>3
    DEF Orders!End, Orders!UnderWay, Orders!Kept, Orders!Handled, Orders!Row,
        Statuses
  <2>4. QED
    BY <1>5, <2>1, <2>2, <2>3
<1>6. Inv /\ [Orders!Next]_(Orders!vars) =>
        /\ Inv'
        /\ [\A e \in Execs, a \in Actions :
              ledger[e][a] \in Orders!Terminal =>
                ledger'[e][a] = ledger[e][a]]_(Orders!vars)
  <2> SUFFICES ASSUME Inv, [Orders!Next]_(Orders!vars)
               PROVE  /\ Inv'
                      /\ UNCHANGED Orders!vars \/
                         \A e \in Execs, a \in Actions :
                           ledger[e][a] \in Orders!Terminal =>
                             ledger'[e][a] = ledger[e][a]
    OBVIOUS
  <2>1. CASE UNCHANGED Orders!vars
    BY <2>1 DEF Orders!vars, Orders!Kept, Orders!Handled, Orders!Row
  <2> HIDE DEF Inv
  <2>2. QED
    BY <1>3, <1>4, <1>5, <2>1 DEF Orders!Next
<1>7. Inv => Orders!Kept
  OBVIOUS
<1> HIDE DEF Inv
<1>8. Inv /\ [Orders!Next]_(Orders!vars) => Inv'
  BY <1>6
<1>9. Inv /\ [Orders!Next]_(Orders!vars) =>
        [\A e \in Execs, a \in Actions :
           ledger[e][a] \in Orders!Terminal =>
             ledger'[e][a] = ledger[e][a]]_(Orders!vars)
  BY <1>6
<1>10. Orders!Spec => []Inv
  BY <1>1, <1>8, PTL DEF Orders!Spec
<1>11. Orders!Spec => []Orders!Kept
  BY <1>7, <1>10, PTL
<1>12. Orders!Spec => Orders!RowsFinal
  BY <1>9, <1>10, PTL DEF Orders!Spec, Orders!RowsFinal
<1>13. QED
  BY <1>11, <1>12
=============================================================================
