---------------------------- MODULE EmailDispatch ----------------------------
(***************************************************************************)
(* customer360-backend/email_engine: send_campaign sends one campaign to   *)
(* the recipients of its segment.  Runs exclude each other by a session    *)
(* advisory lock that is tried, not awaited.  A batch is one transaction:  *)
(* the suppression list is read once, each recipient is sent to and then   *)
(* written to the dispatch ledger under a savepoint, and the commit comes  *)
(* at the end of the batch.                                                *)
(***************************************************************************)
EXTENDS Naturals

CONSTANTS
  Runs,          \* runs of email_engine_job
  NRecipients,   \* recipients, in the order iter_recipients yields them
  BatchSize,
  MaxRetries,    \* RetryPolicy(max_retries)
  NoConsent,     \* recipients without address or email_opt_in
  Ambiguous,     \* may a send that reports failure have been delivered?
  None

ASSUME EmailAssumption ==
  /\ None \notin Runs
  /\ NRecipients \in Nat \ {0} /\ BatchSize \in Nat \ {0} /\ MaxRetries \in Nat
  /\ NoConsent \subseteq 1..NRecipients
  /\ Ambiguous \in BOOLEAN

VARIABLES
  lock,        \* holder of pg advisory lock (1, campaign)
  suppressed,  \* recipients on crm_suppression_list
  committed,   \* committed rows of cdp_campaign_dispatch_logs
  run,         \* [Runs -> the run's local state]
  delivered,   \* history: how often the provider took a message for each
  late         \* history: how many of them once the recipient was suppressed

vars == <<lock, suppressed, committed, run, delivered, late>>
messages == <<delivered, late>>

Recipients == 1..NRecipients
Terminal == {"Sent", "Suppressed"}
Rows == Terminal \cup {"absent", "Failed", "Skipped"}

\* pc, retries used, next recipient, suppression snapshot of the batch, and
\* the rows the run's open transaction wrote.
NoWrites == [p \in Recipients |-> "absent"]
Fresh(tries, pc) ==
  [pc |-> pc, tries |-> tries, next |-> 1, snapshot |-> {}, wrote |-> NoWrites]

Init ==
  /\ lock = None
  /\ suppressed = {}
  /\ committed = [p \in Recipients |-> "absent"]
  /\ run = [r \in Runs |-> Fresh(0, "queued")]
  /\ delivered = [p \in Recipients |-> 0]
  /\ late = [p \in Recipients |-> 0]

\* An exception leaves send_campaign: the connection closes, Dagster retries.
RaisedRun(r) ==
  IF run[r].tries < MaxRetries
  THEN Fresh(run[r].tries + 1, "queued")
  ELSE Fresh(run[r].tries, "done")

\* A recipient unsubscribes, at any time.
Unsubscribe(p) ==
  /\ p \notin suppressed
  /\ suppressed' = suppressed \cup {p}
  /\ UNCHANGED <<lock, committed, run, messages>>

(***************************************************************************)
(* send_campaign.                                                          *)
(***************************************************************************)
SkippedLocked(r) ==
  /\ run[r].pc = "queued"
  /\ lock # None
  /\ run' = [run EXCEPT ![r].pc = "done"]
  /\ UNCHANGED <<lock, suppressed, committed, messages>>

Start(r) ==
  /\ run[r].pc = "queued"
  /\ lock = None
  /\ lock' = r
  /\ run' = [run EXCEPT ![r] = Fresh(@.tries, "lookup")]
  /\ UNCHANGED <<suppressed, committed, messages>>

\* The campaign or template is not approved, the suppression lookup fails
\* (fail closed), the commit or, with the connection gone, the rollback to a
\* savepoint fails: the open transaction is lost.
Raise(r) ==
  /\ run[r].pc \notin {"queued", "done"}
  /\ lock' = IF lock = r THEN None ELSE lock
  /\ run' = [run EXCEPT ![r] = RaisedRun(r)]
  /\ UNCHANGED <<suppressed, committed, messages>>

(***************************************************************************)
(* _process_batch.                                                         *)
(***************************************************************************)
Local == UNCHANGED <<lock, suppressed, committed>>

EndOfBatch(p) == p % BatchSize = 0 \/ p = NRecipients

\* The recipient is done with; row is what the transaction wrote for it.
Advance(r, row) ==
  run' = [run EXCEPT
    ![r].pc = IF EndOfBatch(run[r].next) THEN "commit" ELSE "recipient",
    ![r].next = @ + 1,
    ![r].wrote[run[r].next] = row]

\* _current_status; a transaction writes each recipient's row at most once.
Row(r) == committed[run[r].next]

\* Mutant: an error of the lookup is taken for an empty list (fail open).
SuppressionLookupOpen(r) ==
  /\ run[r].pc = "lookup"
  /\ \E found \in {suppressed, {}} :
       run' = [run EXCEPT ![r].pc = "recipient", ![r].snapshot = found]
  /\ Local /\ UNCHANGED messages

\* The suppression list, once for the batch.
SuppressionLookup(r) ==
  /\ run[r].pc = "lookup"
  /\ run' = [run EXCEPT ![r].pc = "recipient", ![r].snapshot = suppressed]
  /\ Local /\ UNCHANGED messages

AlreadyTerminal(r) ==
  /\ run[r].pc = "recipient"
  /\ Row(r) \in Terminal
  /\ Advance(r, "absent")
  /\ Local /\ UNCHANGED messages

Suppress(r) ==
  /\ run[r].pc = "recipient"
  /\ Row(r) \notin Terminal
  /\ run[r].next \in run[r].snapshot
  /\ Advance(r, "Suppressed")
  /\ Local /\ UNCHANGED messages

Skip(r) ==
  /\ run[r].pc = "recipient"
  /\ Row(r) \notin Terminal
  /\ run[r].next \in NoConsent \ run[r].snapshot
  /\ Advance(r, "Skipped")
  /\ Local /\ UNCHANGED messages

\* The row, the snapshot and the consent allow a message.
ToSend(r) ==
  /\ run[r].pc = "recipient"
  /\ Row(r) \notin Terminal
  /\ run[r].next \notin NoConsent \cup run[r].snapshot
  /\ run' = [run EXCEPT ![r].pc = "send"]
  /\ Local /\ UNCHANGED messages

Deliver(r, n) ==
  /\ delivered' = [delivered EXCEPT ![run[r].next] = @ + n]
  /\ late' = IF run[r].next \in suppressed
             THEN [late EXCEPT ![run[r].next] = @ + n] ELSE late

\* adapter.send reports success.
SendOk(r) ==
  /\ run[r].pc = "send"
  /\ Deliver(r, 1)
  /\ run' = [run EXCEPT ![r].pc = "Sent"]
  /\ Local

\* adapter.send reports failure: not delivered, or the answer was lost.
SendFails(r) ==
  /\ run[r].pc = "send"
  /\ \E n \in (IF Ambiguous THEN {0, 1} ELSE {0}) : Deliver(r, n)
  /\ run' = [run EXCEPT ![r].pc = "Failed"]
  /\ Local

\* Mutant: the result of the send is not looked at.
UpsertSent(r) ==
  /\ run[r].pc \in {"Sent", "Failed"}
  /\ Advance(r, "Sent")
  /\ Local /\ UNCHANGED messages

Upsert(r) ==
  /\ run[r].pc \in {"Sent", "Failed"}
  /\ Advance(r, run[r].pc)
  /\ Local /\ UNCHANGED messages

\* Reading the row, rendering the message or writing the ledger raises:
\* ROLLBACK TO SAVEPOINT, the batch goes on.
RollbackToSavepoint(r) ==
  /\ run[r].pc \in {"recipient", "send", "Sent", "Failed"}
  /\ Advance(r, "absent")
  /\ Local /\ UNCHANGED messages

\* ON CONFLICT DO UPDATE ... WHERE status NOT IN ('Sent', 'Suppressed').
Upserted(wrote) ==
  [p \in Recipients |->
     IF wrote[p] = "absent" \/ committed[p] \in Terminal
     THEN committed[p] ELSE wrote[p]]

CommitBatch(r) ==
  /\ run[r].pc = "commit"
  /\ committed' = Upserted(run[r].wrote)
  /\ IF run[r].next <= NRecipients
     THEN /\ run' = [run EXCEPT ![r].pc = "lookup", ![r].wrote = NoWrites]
          /\ UNCHANGED lock
     ELSE /\ run' = [run EXCEPT ![r] = Fresh(@.tries, "done")]
          /\ lock' = IF lock = r THEN None ELSE lock
  /\ UNCHANGED <<suppressed, messages>>

\* The worker process dies: its transaction and its lock are gone.
Crash(r) ==
  /\ run[r].pc \notin {"queued", "done"}
  /\ lock' = IF lock = r THEN None ELSE lock
  /\ run' = [run EXCEPT ![r] = Fresh(@.tries, "done")]
  /\ UNCHANGED <<suppressed, committed, messages>>
-----------------------------------------------------------------------------
Step(r) ==
  \/ SkippedLocked(r) \/ Start(r) \/ Raise(r)
  \/ SuppressionLookup(r) \/ AlreadyTerminal(r) \/ Suppress(r) \/ Skip(r)
  \/ ToSend(r) \/ SendOk(r) \/ SendFails(r) \/ Upsert(r)
  \/ RollbackToSavepoint(r) \/ CommitBatch(r)

Next ==
  \/ \E p \in Recipients : Unsubscribe(p)
  \/ \E r \in Runs : Step(r) \/ Crash(r)

Spec == Init /\ [][Next]_vars

-----------------------------------------------------------------------------
(* Properties                                                              *)

RunPCs ==
  {"queued", "lookup", "recipient", "send", "Sent", "Failed", "commit", "done"}

TypeOK ==
  /\ lock \in Runs \cup {None}
  /\ suppressed \subseteq Recipients
  /\ committed \in [Recipients -> Rows]
  /\ run \in [Runs -> [pc : RunPCs, tries : 0..MaxRetries,
                       next : 1..NRecipients + 1,
                       snapshot : SUBSET Recipients,
                       wrote : [Recipients -> Rows]]]
  /\ delivered \in [Recipients -> Nat]
  /\ late \in [Recipients -> Nat]

\* "Dagster retries never double-send an already-'Sent' recipient": once a row
\* is committed as Sent or Suppressed, whatever runs are retried or overlap,
\* the row stays and no further message goes out to that recipient.
TerminalNeverResent ==
  [][\A p \in Recipients :
       committed[p] \in Terminal =>
         committed'[p] = committed[p] /\ delivered'[p] = delivered[p]]_vars

\* The suppression list is read once for a batch, so a recipient who
\* unsubscribes during the batch may still be written to.  That happens at most
\* once, however often the run is retried, dies or is started again: "FAIL
\* CLOSED -- do not send a batch whose suppression state is unknown".
OneLateMessage == \A p \in Recipients : late[p] <= 1

-----------------------------------------------------------------------------
Ledger == INSTANCE DispatchLedger WITH row <- committed, Intents <- FALSE

\* send_campaign: the batches, savepoints, locks and retries together are a
\* ledger of which each commit tells the truth, Sent only of a recipient who got a
\* message and Suppressed only of one who unsubscribed, and after which a decided
\* recipient gets none.
ImplementsDispatchLedger == Ledger!Spec
=============================================================================
