-------------------------- MODULE CampaignExecution --------------------------
(***************************************************************************)
(* One campaign's operational state in customer360-backend/                *)
(* campaign_activation: the admin API submits activation jobs, an          *)
(* activation job marks the campaign Running and submits a workflow job,   *)
(* a workflow job walks every profile through the saved graph and records  *)
(* each action in a ledger.  All jobs are Dagster ops with a retry policy; *)
(* activation and workflow jobs exclude each other by a session advisory   *)
(* lock that PostgreSQL frees when the connection closes.                  *)
(*                                                                         *)
(* Data that the properties do not tell apart is a choice: whether the     *)
(* approvals, the segment and the graph pass validation, what a provider   *)
(* answers, and (reach) which action nodes each profile's path contains.   *)
(***************************************************************************)
EXTENDS Naturals, Sequences, FiniteSets

CONSTANTS
  Jobs,        \* activation jobs the API may submit
  Runs,        \* workflow runs that may be submitted
  NProfiles,   \* profiles of the segment, in the order they are read
  NNodes,      \* action nodes of the graph, in the order of a journey
  MaxRetries,  \* [Jobs and Runs -> RetryPolicy(max_retries) explored]
  None

ASSUME CampaignAssumption ==
  /\ IsFiniteSet(Jobs)
  /\ Jobs \cap Runs = {}
  /\ None \notin Jobs \cup Runs
  /\ NProfiles \in Nat /\ NNodes \in Nat \ {0}
  /\ MaxRetries \in [Jobs \cup Runs -> Nat]

VARIABLES
  status,   \* crm_campaign.status
  execId,   \* crm_campaign.workflow_execution_id, 0 for NULL
  origin,   \* history: the i-th execution id allocated came from a request
            \* that had observed execution id origin[i]
  lock,     \* holder of the campaign-workflow advisory lock
  act,      \* [Jobs -> activation job]
  wf,       \* [Runs -> workflow run]
  ledger,   \* crm_campaign_workflow_action_runs.status by execution, action
  reach     \* the actions on the profiles' paths

vars == <<status, execId, origin, lock, act, wf, ledger, reach>>

Actions == (1..NProfiles) \X (1..NNodes)
EndOfPass == <<NProfiles + 1, 1>>
Execs == 1..(Cardinality(Jobs) + 1)
Terminal == {"Sent", "Skipped"}      \* Applied is Sent for a tag action

\* pc of an op that has not begun, of one that ended, and of one whose process
\* died.
Idle == {"none", "done", "dead"}

\* A campaign that was never activated, or one whose first execution has
\* completed every action its profiles reach.
Init ==
  /\ reach \in SUBSET Actions
  /\ \/ /\ status = "Draft"
        /\ execId = 0
        /\ origin = <<>>
        /\ ledger = [e \in Execs |-> [a \in Actions |-> "absent"]]
     \/ /\ status = "Completed"
        /\ execId = 1
        /\ origin = <<0>>
        /\ ledger = [e \in Execs |-> [a \in Actions |->
                       IF e = 1 /\ a \in reach THEN "Sent" ELSE "absent"]]
  /\ lock = None
  /\ act = [j \in Jobs |->
              [pc |-> "none", restart |-> FALSE, expected |-> 0, tries |-> 0,
               exec |-> 0, lost |-> FALSE]]
  /\ wf = [r \in Runs |->
             [pc |-> "none", exec |-> 0, tries |-> 0,
              cur |-> EndOfPass, errors |-> FALSE, lost |-> FALSE]]

\* An exception leaves the op: Dagster runs it again or the run ends.
Raised(o, op) ==
  IF op.tries < MaxRetries[o]
  THEN [op EXCEPT !.pc = "queued", !.tries = @ + 1]
  ELSE [op EXCEPT !.pc = "done"]

\* The same, of an attempt that leaves the campaign's status as it is; lost is
\* history: the op ended, or its retries cannot but end, without writing it.
RaisedUnmarked(o, op) ==
  [Raised(o, op) EXCEPT !.lost = op.tries = MaxRetries[o]]

(***************************************************************************)
(* POST /admin/campaigns/{id}/activate: checks without the lock, then      *)
(* submits a job that carries the execution id it observed.                *)
(***************************************************************************)
ApiActivate(j, restart) ==
  /\ act[j].pc = "none"
  /\ status # "Running"
  /\ restart <=> status = "Completed"
  /\ act' = [act EXCEPT ![j] = [@ EXCEPT !.pc = "queued",
                                         !.restart = restart,
                                         !.expected = execId]]
  /\ UNCHANGED <<status, execId, origin, lock, wf, ledger, reach>>

(***************************************************************************)
(* activate_campaign.                                                      *)
(***************************************************************************)
\* Mutant: the observed execution id is not compared.
MayActivateStale(op) ==
  /\ status # "Running"
  /\ status = "Completed" => op.restart
  /\ op.restart => status \in {"Completed", "Failed"}

\* The status and execution-id checks under the lock.
MayActivate(op) ==
  /\ status # "Running"
  /\ status = "Completed" => op.restart /\ op.expected = execId
  /\ op.restart => status \in {"Completed", "Failed"}

\* The lock is not free, a check fails, or the approvals or the segment do
\* not validate: the op raises and nothing changes.
ActivateRefused(j) ==
  /\ act[j].pc = "queued"
  /\ act' = [act EXCEPT ![j] = Raised(j, @)]
  /\ UNCHANGED <<status, execId, origin, lock, wf, ledger, reach>>

\* Mutant: a replay reuses the execution id.
ActivateMarkReusing(j) ==
  /\ act[j].pc = "queued"
  /\ lock = None
  /\ MayActivate(act[j])
  /\ lock' = j
  /\ status' = "Running"
  /\ IF execId = 0
     THEN /\ execId' = Len(origin) + 1
          /\ origin' = Append(origin, act[j].expected)
     ELSE UNCHANGED <<execId, origin>>
  /\ act' = [act EXCEPT ![j].pc = "marked", ![j].exec = execId',
                        ![j].lost = FALSE]
  /\ UNCHANGED <<wf, ledger, reach>>

ActivateMark(j) ==
  /\ act[j].pc = "queued"
  /\ lock = None
  /\ MayActivate(act[j])
  /\ lock' = j
  /\ status' = "Running"
  /\ IF status = "Completed" \/ execId = 0
     THEN /\ execId' = Len(origin) + 1
          /\ origin' = Append(origin, act[j].expected)
     ELSE UNCHANGED <<execId, origin>>
  /\ act' = [act EXCEPT ![j].pc = "marked", ![j].exec = execId',
                        ![j].lost = FALSE]
  /\ UNCHANGED <<wf, ledger, reach>>

\* submit_job_execution: a run exists from here on.
NewRun(j, r) ==
  /\ wf[r].pc = "none"
  /\ wf' = [wf EXCEPT ![r].pc = "queued", ![r].exec = act[j].exec]

SubmitOk(j) ==
  /\ act[j].pc = "marked"
  /\ \E r \in Runs : NewRun(j, r)
  /\ act' = [act EXCEPT ![j].pc = "done"]
  /\ lock' = None
  /\ UNCHANGED <<status, execId, origin, ledger, reach>>

\* The submission raises, before or after Dagster created the run.
SubmitRaises(j) ==
  /\ act[j].pc = "marked"
  /\ (\E r \in Runs : NewRun(j, r)) \/ UNCHANGED wf
  /\ act' = [act EXCEPT ![j].pc = "refused"]
  /\ UNCHANGED <<status, execId, origin, lock, ledger, reach>>

\* Mutant: a failed submission is only raised, not recorded.
SubmissionFailureRaised(j) ==
  /\ act[j].pc = "refused"
  /\ act' = [act EXCEPT ![j] = Raised(j, @)]
  /\ lock' = None
  /\ UNCHANGED <<status, execId, origin, wf, ledger, reach>>

MarkSubmissionFailed(j) ==
  /\ act[j].pc = "refused"
  /\ status' = IF act[j].exec = execId THEN "Failed" ELSE status
  /\ act' = [act EXCEPT ![j] = Raised(j, @)]
  /\ lock' = None
  /\ UNCHANGED <<execId, origin, wf, ledger, reach>>

\* Writing Failed raises too (the connection may be gone): the campaign stays
\* Running, and the op's retries are refused for that.
MarkRaises(j) ==
  /\ act[j].pc = "refused"
  /\ act' = [act EXCEPT ![j] = [Raised(j, @) EXCEPT !.lost = TRUE]]
  /\ lock' = None
  /\ UNCHANGED <<status, execId, origin, wf, ledger, reach>>

ActivationCrash(j) ==
  /\ act[j].pc \in {"queued", "marked", "refused"}
  /\ act' = [act EXCEPT ![j].pc = "dead"]
  /\ lock' = IF lock = j THEN None ELSE lock
  /\ UNCHANGED <<status, execId, origin, wf, ledger, reach>>

(***************************************************************************)
(* run_campaign_workflow: waits for the lock, loads the campaign.          *)
(***************************************************************************)
CampaignVars == <<execId, origin, reach>>

\* The local variables of run_campaign_workflow are gone.
Unwound(op) == [op EXCEPT !.cur = EndOfPass, !.errors = FALSE]

\* What the load query and the comparison after it ask of the campaign's row.
Loadable(r) == status \in {"Running", "Failed"} /\ wf[r].exec = execId

\* The op raises before campaign_loaded: connecting or locking fails, the row
\* is not Loadable, its segment has meanwhile been deactivated or the flow
\* cannot be loaded.  The status is left alone.
RunRefused(r) ==
  /\ wf[r].pc = "queued"
  /\ wf' = [wf EXCEPT ![r] = RaisedUnmarked(r, @)]
  /\ UNCHANGED <<CampaignVars, status, lock, act, ledger>>

RunBegin(r) ==
  /\ wf[r].pc = "queued"
  /\ lock = None
  /\ Loadable(r)
  /\ lock' = r
  /\ wf' = [wf EXCEPT ![r].pc = "pass",
                      ![r].cur = IF NProfiles = 0 THEN EndOfPass ELSE <<1, 1>>,
                      ![r].errors = FALSE]
  /\ UNCHANGED <<CampaignVars, status, act, ledger>>

(***************************************************************************)
(* FlowEngine.run for one profile after the other.  The journey goes on    *)
(* with the next node, or, after an error, with the next profile.          *)
(***************************************************************************)
NextProfile(a) == <<a[1] + 1, 1>>
NextNode(a) == IF a[2] < NNodes THEN <<a[1], a[2] + 1>> ELSE NextProfile(a)

RowOf(r) == ledger[wf[r].exec][wf[r].cur]

GoOn(r) == wf' = [wf EXCEPT ![r].pc = "pass", ![r].cur = NextNode(@)]

\* Mutant: the journey's error is not counted.
JourneyFailsUncounted(r) ==
  wf' = [wf EXCEPT ![r].pc = "pass", ![r].cur = NextProfile(@)]

JourneyFails(r) ==
  wf' = [wf EXCEPT ![r].pc = "pass", ![r].cur = NextProfile(@),
                   ![r].errors = TRUE]

\* The node is not on the profile's path, or the profile has no consent or
\* contact for it: no ledger row.
NodePassed(r) ==
  /\ wf[r].pc = "pass"
  /\ wf[r].cur \in Actions \ reach
  /\ GoOn(r)
  /\ UNCHANGED <<CampaignVars, status, lock, act, ledger>>

\* A condition, the choice of the next node or WorkflowLedger.begin raises.
JourneyRaises(r) ==
  /\ wf[r].pc = "pass"
  /\ wf[r].cur \in Actions
  /\ JourneyFails(r)
  /\ UNCHANGED <<CampaignVars, status, lock, act, ledger>>

\* WorkflowLedger.begin returns False.
BeginCompleted(r) ==
  /\ wf[r].pc = "pass"
  /\ wf[r].cur \in reach
  /\ RowOf(r) \in Terminal
  /\ GoOn(r)
  /\ UNCHANGED <<CampaignVars, status, lock, act, ledger>>

\* Mutant: the row is only written with the outcome.
BeginUnrecorded(r) ==
  /\ wf[r].pc = "pass"
  /\ wf[r].cur \in reach
  /\ RowOf(r) \notin Terminal
  /\ wf' = [wf EXCEPT ![r].pc = "calling"]
  /\ UNCHANGED <<CampaignVars, status, lock, act, ledger>>

\* begin returns True with the row committed as Running.
Begin(r) ==
  /\ wf[r].pc = "pass"
  /\ wf[r].cur \in reach
  /\ RowOf(r) \notin Terminal
  /\ ledger' = [ledger EXCEPT ![wf[r].exec][wf[r].cur] = "Running"]
  /\ wf' = [wf EXCEPT ![r].pc = "calling"]
  /\ UNCHANGED <<CampaignVars, status, lock, act>>

\* The provider call returns sent or skipped, or raises; a call that raises
\* may have been accepted all the same.
ProviderAnswers(r, outcome) ==
  /\ wf[r].pc = "calling"
  /\ wf' = [wf EXCEPT ![r].pc = outcome]
  /\ UNCHANGED <<CampaignVars, status, lock, act, ledger>>

FinishDone(r) ==
  /\ wf[r].pc \in Terminal
  /\ ledger' = [ledger EXCEPT ![wf[r].exec][wf[r].cur] = wf[r].pc]
  /\ GoOn(r)
  /\ UNCHANGED <<CampaignVars, status, lock, act>>

FinishFailed(r) ==
  /\ wf[r].pc = "Failed"
  /\ ledger' = [ledger EXCEPT ![wf[r].exec][wf[r].cur] = "Failed"]
  /\ JourneyFails(r)
  /\ UNCHANGED <<CampaignVars, status, lock, act>>

\* The ledger update itself raises: the row stays Running.
FinishRaises(r) ==
  /\ wf[r].pc \in Terminal \cup {"Failed"}
  /\ JourneyFails(r)
  /\ UNCHANGED <<CampaignVars, status, lock, act, ledger>>

(***************************************************************************)
(* The end of the pass: audience-sync jobs, then the final status.         *)
(***************************************************************************)
\* _set_campaign_status, guarded by execution id and status.
SetCampaignStatus(r, s) ==
  status' = IF wf[r].exec = execId /\ status \in {"Running", "Failed"}
            THEN s ELSE status

RunEnds(r) ==
  /\ wf[r].pc = "pass"
  /\ wf[r].cur = EndOfPass
  /\ SetCampaignStatus(r, IF wf[r].errors THEN "Failed" ELSE "Completed")
  /\ wf' = [wf EXCEPT ![r] = Unwound([@ EXCEPT !.pc = "done"])]
  /\ lock' = None
  /\ UNCHANGED <<CampaignVars, act, ledger>>

\* Validation after loading, the query for the next profiles or the submission
\* of an audience-sync job raises: the campaign is set to Failed, the op raises.
RunRaises(r) ==
  /\ wf[r].pc = "pass"
  /\ wf[r].cur[2] = 1
  /\ SetCampaignStatus(r, "Failed")
  /\ wf' = [wf EXCEPT ![r] = Unwound(Raised(r, @))]
  /\ lock' = None
  /\ UNCHANGED <<CampaignVars, act, ledger>>

\* "Could not mark failed campaign workflow": the status write fails as well.
RunRaisesUnmarked(r) ==
  /\ wf[r].pc = "pass"
  /\ wf[r].cur[2] = 1
  /\ wf' = [wf EXCEPT ![r] = Unwound(RaisedUnmarked(r, @))]
  /\ lock' = None
  /\ UNCHANGED <<CampaignVars, status, act, ledger>>

\* The worker dies anywhere.
RunCrash(r) ==
  /\ wf[r].pc \notin Idle
  /\ wf' = [wf EXCEPT ![r] = Unwound([@ EXCEPT !.pc = "dead"])]
  /\ lock' = IF lock = r THEN None ELSE lock
  /\ UNCHANGED <<CampaignVars, status, act, ledger>>

-----------------------------------------------------------------------------
ActivationStep(j) ==
  \/ ActivateRefused(j) \/ ActivateMark(j)
  \/ SubmitOk(j) \/ SubmitRaises(j) \/ MarkSubmissionFailed(j) \/ MarkRaises(j)

RunStep(r) ==
  \/ RunRefused(r) \/ RunBegin(r)
  \/ NodePassed(r) \/ JourneyRaises(r) \/ BeginCompleted(r) \/ Begin(r)
  \/ \E outcome \in Terminal \cup {"Failed"} : ProviderAnswers(r, outcome)
  \/ FinishDone(r) \/ FinishFailed(r) \/ FinishRaises(r)
  \/ RunEnds(r) \/ RunRaises(r) \/ RunRaisesUnmarked(r)

Next ==
  \/ \E j \in Jobs :
       \/ \E restart \in BOOLEAN : ApiActivate(j, restart)
       \/ ActivationStep(j)
       \/ ActivationCrash(j)
  \/ \E r \in Runs : RunStep(r) \/ RunCrash(r)

Spec == Init /\ [][Next]_vars

(***************************************************************************)
(* Fairness: Dagster starts every queued run and the process of a run      *)
(* keeps running; every provider call ends, by its 30 s timeout at last.   *)
(***************************************************************************)
Fairness ==
  /\ \A j \in Jobs : WF_vars(ActivationStep(j))
  /\ \A r \in Runs : WF_vars(RunStep(r))

FairSpec == Spec /\ Fairness

-----------------------------------------------------------------------------
(* Properties                                                              *)

ActivationPCs == Idle \cup {"queued", "marked", "refused"}
RunPCs == Idle \cup {"queued", "pass", "calling", "Failed"} \cup Terminal

TypeOK ==
  /\ status \in {"Draft", "Running", "Completed", "Failed"}
  /\ origin \in Seq(0..(Cardinality(Jobs) + 1))
  /\ execId \in 0..Len(origin)
  /\ lock \in Jobs \cup Runs \cup {None}
  /\ act \in [Jobs -> [pc : ActivationPCs, restart : BOOLEAN,
                       expected : 0..Len(origin), tries : Nat,
                       exec : 0..Len(origin), lost : BOOLEAN]]
  /\ wf \in [Runs -> [pc : RunPCs, exec : 0..Len(origin), tries : Nat,
                      cur : Actions \cup {EndOfPass}, errors : BOOLEAN,
                      lost : BOOLEAN]]
  /\ \A j \in Jobs : act[j].tries <= MaxRetries[j]
  /\ \A r \in Runs : wf[r].tries <= MaxRetries[r]
  /\ ledger \in [Execs -> [Actions ->
                   {"absent", "Running", "Failed"} \cup Terminal]]
  /\ reach \subseteq Actions

\* While a provider is being called, and until the outcome is recorded, the
\* ledger row of that very action is Running and belongs to the campaign's
\* current execution: no run, however stale or retried, calls a provider for
\* an action that another one completed.
CallsAreLedgered ==
  \A r \in Runs :
    wf[r].pc \in {"calling", "Failed"} \cup Terminal =>
      RowOf(r) = "Running" /\ wf[r].exec = execId

\* "Rows already Sent, Applied, or Skipped are not retried within the same
\* execution": a completed row never changes again.
TerminalRowsFinal ==
  [][\A e \in Execs, a \in Actions :
       ledger[e][a] \in Terminal => ledger'[e][a] = ledger[e][a]]_vars

\* A Completed campaign has completed every action its profiles reach, also
\* when the pass that completed it was a retry after failures and crashes.
CompletedMeansHandled ==
  status = "Completed" => \A a \in reach : ledger[execId][a] \in Terminal

\* Completed is left only by an explicit replay under a new execution id: a
\* late submission failure, a duplicate run or a stale run never reopens it.
CompletedOnlyReplayed ==
  [][status = "Completed" /\ status' # "Completed" => execId' # execId]_vars

\* Nothing a campaign has completed is undone: not a row of its ledger, and not
\* the campaign itself but for a replay.
CompletedIsFinal == TerminalRowsFinal /\ CompletedOnlyReplayed

\* "An obsolete request cannot start a second replay after the first
\* finishes": no two executions come from requests that had observed the
\* same execution.
OneReplayPerObservation ==
  \A d, e \in DOMAIN origin : origin[d] = origin[e] => d = e

\* Nobody is left to end the current execution: every op that worked on it has
\* ended, one of them by its death or without having written the status.
Abandoned ==
  LET jobs == {j \in Jobs : act[j].exec = execId}
      runs == {r \in Runs : wf[r].exec = execId}
  IN
  /\ \A j \in jobs : act[j].pc \notin {"marked", "refused"}
  /\ \A r \in runs : wf[r].pc \in Idle
  /\ \/ \E j \in jobs : act[j].lost \/ act[j].pc = "dead"
     \/ \E r \in runs : wf[r].lost \/ wf[r].pc = "dead"

\* Running -> Completed or Failed, whatever submissions, journeys, validations
\* and ledger writes fail, however often ops are retried and whoever reopens
\* the campaign: while a submission failure can be recorded or an op of the
\* execution is alive to load the campaign and write its status, it ends.
RunningEndsUnlessAbandoned ==
  status = "Running" ~> status # "Running" \/ Abandoned

\* Every activation comes to an end ("Running --> Failed: submission or workflow
\* error").  It does not: nothing leads on from Abandoned.
RunningEnds == status = "Running" ~> status # "Running"

-----------------------------------------------------------------------------
\* The actions whose provider has been called and whose outcome is not recorded.
Called ==
  {wf[r].cur : r \in {q \in Runs :
                        wf[q].pc \in {"calling", "Failed"} \cup Terminal}}

Orders == INSTANCE ActionLedger WITH execution <- execId, calls <- Called

\* activate_campaign and run_campaign_workflow together: jobs, runs, locks,
\* journeys, retries and deaths are an execution of the due actions with one
\* announced call at a time, in which nothing completed is done again or undone.
ImplementsActionLedger == Orders!Spec
=============================================================================
