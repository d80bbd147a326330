----------------------------- MODULE ZaloDispatch -----------------------------
(***************************************************************************)
(* customer360-backend/notification_engine: send_zalo_campaign sends one   *)
(* zalo_zns campaign, a paid channel.  Unlike the e-mail engine it commits *)
(* the intent (Sending) for each recipient before the provider call and    *)
(* never sends again to a recipient left in Sending.                       *)
(***************************************************************************)
EXTENDS Naturals

CONSTANTS
  Runs,          \* runs of the notification job
  NRecipients,   \* recipients, in the order iter_recipients yields them
  MaxRetries,    \* RetryPolicy(max_retries)
  NoConsent,     \* recipients without phone or zalo_opt_in
  Ambiguous,     \* may a send that reports failure have been delivered?
  None

ASSUME ZaloAssumption ==
  /\ None \notin Runs
  /\ NRecipients \in Nat /\ MaxRetries \in Nat
  /\ NoConsent \subseteq 1..NRecipients
  /\ Ambiguous \in BOOLEAN

VARIABLES
  lock,        \* holder of pg advisory lock (2, campaign)
  suppressed,  \* recipients on crm_suppression_list
  row,         \* committed rows of cdp_campaign_dispatch_logs
  run,         \* [Runs -> the run's local state]
  delivered    \* history: how often the provider took a message for each

vars == <<lock, suppressed, row, run, delivered>>

Recipients == 1..NRecipients
Terminal == {"Sent", "Suppressed"}

Init ==
  /\ lock = None
  /\ suppressed = {}
  /\ row = [p \in Recipients |-> "absent"]
  /\ run = [r \in Runs |-> [pc |-> "queued", tries |-> 0, next |-> 1]]
  /\ delivered = [p \in Recipients |-> 0]

\* A recipient unsubscribes, at any time.
Unsubscribe(p) ==
  /\ p \notin suppressed
  /\ suppressed' = suppressed \cup {p}
  /\ UNCHANGED <<lock, row, run, delivered>>

(***************************************************************************)
(* send_zalo_campaign.                                                     *)
(***************************************************************************)
SkippedLocked(r) ==
  /\ run[r].pc = "queued"
  /\ lock # None
  /\ run' = [run EXCEPT ![r].pc = "done"]
  /\ UNCHANGED <<lock, suppressed, row, delivered>>

Start(r) ==
  /\ run[r].pc = "queued"
  /\ lock = None
  /\ lock' = r
  /\ run' = [run EXCEPT ![r].pc = "recipient", ![r].next = 1]
  /\ UNCHANGED <<suppressed, row, delivered>>

\* An exception leaves the op: Dagster runs it again or the run ends.
Retried(op) ==
  IF op.tries < MaxRetries
  THEN [op EXCEPT !.pc = "queued", !.tries = @ + 1]
  ELSE [op EXCEPT !.pc = "done"]

\* A validation, the query for the next recipients or, with the connection
\* gone, the rollback after an error raises.
Raise(r) ==
  /\ run[r].pc \notin {"queued", "done", "orphan"}
  /\ lock' = None
  /\ run' = [run EXCEPT ![r] = Retried(@)]
  /\ UNCHANGED <<suppressed, row, delivered>>

Finish(r) ==
  /\ run[r].pc = "recipient"
  /\ run[r].next > NRecipients
  /\ lock' = None
  /\ run' = [run EXCEPT ![r].pc = "done"]
  /\ UNCHANGED <<suppressed, row, delivered>>

(***************************************************************************)
(* _process_batch, one recipient after the other.                          *)
(***************************************************************************)
Goto(r, pc) == run' = [run EXCEPT ![r].pc = pc]
NextRecipient(r) ==
  run' = [run EXCEPT ![r].pc = "recipient", ![r].next = @ + 1]

\* ON CONFLICT DO UPDATE ... WHERE status NOT IN ('Sent', 'Suppressed').
UpsertDispatch(p, status) ==
  row' = [row EXCEPT ![p] = IF @ \in Terminal THEN @ ELSE status]

\* Rows that keep a recipient from being sent to.
Settled(status) == status \in Terminal \cup {"Sending"}

ReadRow(r) ==
  /\ run[r].pc = "recipient"
  /\ run[r].next <= NRecipients
  /\ IF Settled(row[run[r].next]) THEN NextRecipient(r) ELSE Goto(r, "check")
  /\ UNCHANGED <<lock, suppressed, row, delivered>>

Withhold(r) ==
  /\ run[r].pc = "check"
  /\ run[r].next \in suppressed \cup NoConsent
  /\ UpsertDispatch(run[r].next,
       IF run[r].next \in suppressed THEN "Suppressed" ELSE "Skipped")
  /\ NextRecipient(r)
  /\ UNCHANGED <<lock, suppressed, delivered>>

MaySend(r) ==
  /\ run[r].pc = "check"
  /\ run[r].next \notin suppressed \cup NoConsent
  /\ Goto(r, "intent")
  /\ UNCHANGED <<lock, suppressed, row, delivered>>

\* Mutant: the intent is written but not committed before the send.
RecordNoIntent(r) ==
  /\ run[r].pc = "intent"
  /\ Goto(r, "send")
  /\ UNCHANGED <<lock, suppressed, row, delivered>>

RecordIntent(r) ==
  /\ run[r].pc = "intent"
  /\ UpsertDispatch(run[r].next, "Sending")
  /\ Goto(r, "send")
  /\ UNCHANGED <<lock, suppressed, delivered>>

Deliver(r, n) == delivered' = [delivered EXCEPT ![run[r].next] = @ + n]

\* Mutant: the adapter repeats a request whose answer it did not get.
SendOkRepeated(r) ==
  /\ run[r].pc = "send"
  /\ \E n \in {1, 2} : Deliver(r, n)
  /\ Goto(r, "Sent")
  /\ UNCHANGED <<lock, suppressed, row>>

SendOk(r) ==
  /\ run[r].pc = "send"
  /\ Deliver(r, 1)
  /\ Goto(r, "Sent")
  /\ UNCHANGED <<lock, suppressed, row>>

\* The adapter reports failure: refused, or the answer was lost (timeout).
SendFails(r) ==
  /\ run[r].pc = "send"
  /\ \E n \in (IF Ambiguous THEN {0, 1} ELSE {0}) : Deliver(r, n)
  /\ Goto(r, "Failed")
  /\ UNCHANGED <<lock, suppressed, row>>

RecordResult(r) ==
  /\ run[r].pc \in {"Sent", "Failed"}
  /\ UpsertDispatch(run[r].next, run[r].pc)
  /\ NextRecipient(r)
  /\ UNCHANGED <<lock, suppressed, delivered>>

\* A database call raises: rollback, and on with the next recipient.
RecipientRaises(r) ==
  /\ run[r].pc \notin {"queued", "done", "orphan"}
  /\ run[r].next <= NRecipients
  /\ NextRecipient(r)
  /\ UNCHANGED <<lock, suppressed, row, delivered>>

\* PostgreSQL ends the session, and with it the lock, while the process is
\* between the commit of the intent and the send.  (Anywhere else the next
\* database call and the rollback after it raise: Raise.)
LoseSession(r) ==
  /\ run[r].pc = "send"
  /\ lock' = None
  /\ Goto(r, "orphan")
  /\ UNCHANGED <<suppressed, row, delivered>>

\* The message goes out all the same; recording the result raises, and so does
\* the rollback on the closed connection.
OrphanSend(r) ==
  /\ run[r].pc = "orphan"
  /\ \E n \in {0, 1} : Deliver(r, n)
  /\ run' = [run EXCEPT ![r] = Retried(@)]
  /\ UNCHANGED <<lock, suppressed, row>>

\* The worker process dies.
Crash(r) ==
  /\ run[r].pc \notin {"queued", "done"}
  /\ lock' = IF lock = r THEN None ELSE lock
  /\ Goto(r, "done")
  /\ UNCHANGED <<suppressed, row, delivered>>

-----------------------------------------------------------------------------
Step(r) ==
  \/ SkippedLocked(r) \/ Start(r) \/ Raise(r) \/ Finish(r)
  \/ ReadRow(r) \/ Withhold(r) \/ MaySend(r) \/ RecordIntent(r)
  \/ SendOk(r) \/ SendFails(r) \/ RecordResult(r) \/ RecipientRaises(r)
  \/ LoseSession(r) \/ OrphanSend(r)

Next ==
  \/ \E p \in Recipients : Unsubscribe(p)
  \/ \E r \in Runs : Step(r) \/ Crash(r)

Spec == Init /\ [][Next]_vars

-----------------------------------------------------------------------------
(* Properties                                                              *)

TypeOK ==
  /\ lock \in Runs \cup {None}
  /\ suppressed \subseteq Recipients
  /\ row \in [Recipients ->
       Terminal \cup {"absent", "Sending", "Failed", "Skipped"}]
  /\ run \in [Runs ->
       [pc : {"queued", "recipient", "check", "intent", "send", "Sent",
              "Failed", "orphan", "done"},
        tries : 0..MaxRetries, next : 1..NRecipients + 1]]
  /\ delivered \in [Recipients -> Nat]

\* "At-most-once -- the safe default for a paid channel: never double-bill":
\* whatever runs overlap, are retried, die or lose their session and with it
\* the lock, no recipient gets two messages.
AtMostOnce == \A p \in Recipients : delivered[p] <= 1

\* "A crash between send and result leaves a durable 'Sending' row": a message
\* the provider took always has a committed row that forbids another send.
DeliveredIsRecorded ==
  \A p \in Recipients : delivered[p] > 0 => row[p] \in {"Sending", "Sent"}

-----------------------------------------------------------------------------
Ledger == INSTANCE DispatchLedger WITH Intents <- TRUE

\* send_zalo_campaign: the runs, their locks and retries together are a ledger
\* that announces each message before it goes and tells the truth about it: Sent
\* only of a delivered message, Failed only of one that was not.
ImplementsDispatchLedger == Ledger!Spec
=============================================================================
