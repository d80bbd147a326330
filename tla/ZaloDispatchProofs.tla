-------------------------- MODULE ZaloDispatchProofs --------------------------
(***************************************************************************)
(* Proofs about ZaloDispatch for any number of runs, recipients and        *)
(* retries.  At the end, proofs about EmailDispatch, the dispatcher of the *)
(* other channel, taken through an instance of it.                         *)
(***************************************************************************)
EXTENDS ZaloDispatch, TLAPS

(***************************************************************************)
(* The inductive invariant.  Only the lock holder is inside the loop, no   *)
(* two runs are sending to one recipient, although those that lost their   *)
(* session are outside the lock, and what a run's program counter says     *)
(* about the row of its recipient holds.                                   *)
(***************************************************************************)
Inside == {"recipient", "check", "intent", "send", "Sent", "Failed"}

PCs == Inside \cup {"queued", "orphan", "done"}

Exclusion == \A r \in Runs : run[r].pc \in Inside => lock = r

InRange ==
  \A r \in Runs : run[r].pc \in (Inside \ {"recipient"}) \cup {"orphan"} =>
                    run[r].next \in Recipients

\* Between the commit of the intent and that of the result, with or without a
\* session.
Sending == {"send", "Sent", "Failed", "orphan"}

Undecided ==
  \A r \in Runs : run[r].pc \in {"check", "intent"} =>
                    ~Settled(row[run[r].next])

Intended ==
  \A r \in Runs : run[r].pc \in Sending => row[run[r].next] = "Sending"

NotYet ==
  \A r \in Runs : run[r].pc \in {"send", "Failed", "orphan"} =>
                    delivered[run[r].next] = 0

OneSender ==
  \A q, r \in Runs :
    q # r /\ run[q].pc \in Sending /\ run[r].pc \in Sending =>
      run[q].next # run[r].next

LoopInv == TypeOK /\ Exclusion /\ InRange
OnceInv ==
  LoopInv /\ Undecided /\ Intended /\ NotYet /\ OneSender
          /\ DeliveredIsRecorded /\ AtMostOnce

\* The initial state satisfies the loop invariant.
LEMMA LoopInit == Init => LoopInv
  BY ZaloAssumption
  DEF Init, LoopInv, TypeOK, Exclusion, InRange, Inside, Recipients, Terminal

\* A retry keeps the bound on retries and leaves the loop.
LEMMA RetriedType ==
  ASSUME NEW op \in [pc : PCs, tries : 0..MaxRetries, next : 1..NRecipients + 1]
  PROVE  Retried(op) \in [pc : {"queued", "done"}, tries : 0..MaxRetries,
                          next : 1..NRecipients + 1]
<1> USE ZaloAssumption
<1>1. CASE op.tries < MaxRetries
  <2>1. op.tries + 1 \in 0..MaxRetries
    BY <1>1
  <2>2. Retried(op) = [op EXCEPT !.pc = "queued", !.tries = op.tries + 1]
    BY <1>1 DEF Retried
  <2>3. QED
    BY <2>1, <2>2
<1>2. CASE ~(op.tries < MaxRetries)
  BY <1>2 DEF Retried
<1>3. QED
  BY <1>1, <1>2

\* Every step preserves the loop invariant.
LEMMA LoopStep == LoopInv /\ [Next]_vars => LoopInv'
<1> SUFFICES ASSUME LoopInv, [Next]_vars PROVE LoopInv'
  OBVIOUS
<1> USE ZaloAssumption
  DEF LoopInv, TypeOK, Exclusion, InRange, Inside, Recipients, Terminal
<1>1. ASSUME NEW p \in Recipients, Unsubscribe(p) PROVE LoopInv'
  BY <1>1 DEF Unsubscribe
<1>2. ASSUME NEW r \in Runs, SkippedLocked(r) PROVE LoopInv'
  BY <1>2 DEF SkippedLocked
<1>3. ASSUME NEW r \in Runs, Start(r) PROVE LoopInv'
  <2>1. \A q \in Runs : run[q].pc \notin Inside
    BY <1>3 DEF Start
  <2>2. /\ run'[r].pc = "recipient" /\ run'[r].next = 1
        /\ run'[r].tries = run[r].tries
        /\ \A q \in Runs \ {r} : run'[q] = run[q]
    BY <1>3 DEF Start
  <2>3. run' \in [Runs -> [pc : PCs, tries : 0..MaxRetries,
                           next : 1..NRecipients + 1]]
    <3>1. 1 \in 1..NRecipients + 1
      OBVIOUS
    <3>2. run[r] \in [pc : PCs, tries : 0..MaxRetries,
                       next : 1..NRecipients + 1]
      BY DEF PCs
    <3>3. [run[r] EXCEPT !.pc = "recipient", !.next = 1]
            \in [pc : PCs, tries : 0..MaxRetries, next : 1..NRecipients + 1]
      BY <3>1, <3>2 DEF PCs
    <3>4. run' = [run EXCEPT ![r] =
                    [run[r] EXCEPT !.pc = "recipient", !.next = 1]]
      BY <1>3 DEF Start
    <3>5. QED
      BY <3>3, <3>4 DEF PCs
  <2>4. TypeOK'
    BY <1>3, <2>3 DEF Start, PCs
  <2>5. Exclusion' /\ InRange'
    BY <1>3, <2>1, <2>2 DEF Start
  <2>6. QED
    BY <2>4, <2>5
<1>4. ASSUME NEW r \in Runs, Raise(r) PROVE LoopInv'
  <2>1. Retried(run[r]) \in [pc : {"queued", "done"}, tries : 0..MaxRetries,
                             next : 1..NRecipients + 1]
    BY RetriedType DEF PCs
  <2>2. /\ run'[r] = Retried(run[r])
        /\ \A q \in Runs \ {r} : run'[q] = run[q]
    BY <1>4 DEF Raise
  <2>3. run' \in [Runs -> [pc : PCs, tries : 0..MaxRetries,
                           next : 1..NRecipients + 1]]
    BY <1>4, <2>1 DEF Raise, PCs
  <2>4. QED
    BY <1>4, <2>1, <2>2, <2>3 DEF Raise, PCs
<1>5. ASSUME NEW r \in Runs, Finish(r) PROVE LoopInv'
  BY <1>5, ZenonT(40) DEF Finish
<1>6. ASSUME NEW r \in Runs, ReadRow(r) PROVE LoopInv'
  <2>1. CASE Settled(row[run[r].next])
    BY <1>6, <2>1, SMTT(20) DEF ReadRow, NextRecipient
  <2>2. CASE ~Settled(row[run[r].next])
    <3>1. /\ run[r].next \in Recipients
          /\ run[r].pc = "recipient"
          /\ run' = [run EXCEPT ![r].pc = "check"]
      BY <1>6, <2>2 DEF ReadRow, Goto
    <3>2. TypeOK'
      BY <1>6, <3>1 DEF ReadRow
    <3>3. Exclusion' /\ InRange'
      BY <1>6, <3>1 DEF ReadRow
    <3>4. QED
      BY <3>2, <3>3
  <2>3. QED
    BY <2>1, <2>2
<1>7. ASSUME NEW r \in Runs, Withhold(r) PROVE LoopInv'
  <2>1. run[r].pc = "check" /\ run[r].next \in Recipients
    BY <1>7 DEF Withhold
  <2>2. run' = [run EXCEPT ![r].pc = "recipient", ![r].next = @ + 1]
    BY <1>7 DEF Withhold, NextRecipient
  <2>3. TypeOK'
    BY <1>7, <2>1, <2>2 DEF Withhold, UpsertDispatch
  <2>4. Exclusion' /\ InRange'
    BY <1>7, <2>1, <2>2 DEF Withhold
  <2>5. QED
    BY <2>3, <2>4
<1>8. ASSUME NEW r \in Runs, MaySend(r) PROVE LoopInv'
  BY <1>8 DEF MaySend, Goto
<1>9. ASSUME NEW r \in Runs, RecordIntent(r) PROVE LoopInv'
  BY <1>9 DEF RecordIntent, UpsertDispatch, Goto
<1>10. ASSUME NEW r \in Runs, SendOk(r) PROVE LoopInv'
  <2>1. delivered' \in [Recipients -> Nat]
    BY <1>10 DEF SendOk, Deliver
  <2>2. QED
    BY <1>10, <2>1 DEF SendOk, Goto
<1>11. ASSUME NEW r \in Runs, SendFails(r) PROVE LoopInv'
  <2>1. delivered' \in [Recipients -> Nat]
    BY <1>11 DEF SendFails, Deliver
  <2>2. QED
    BY <1>11, <2>1, ZenonT(40) DEF SendFails, Goto
<1>12. ASSUME NEW r \in Runs, RecordResult(r) PROVE LoopInv'
  BY <1>12 DEF RecordResult, UpsertDispatch, NextRecipient
<1>13. ASSUME NEW r \in Runs, RecipientRaises(r) PROVE LoopInv'
  <2>1. run[r].pc \in Inside /\ run[r].next \in Recipients
    BY <1>13 DEF RecipientRaises
  <2>2. run' = [run EXCEPT ![r].pc = "recipient", ![r].next = @ + 1]
    BY <1>13 DEF RecipientRaises, NextRecipient
  <2>3. TypeOK'
    BY <1>13, <2>1, <2>2 DEF RecipientRaises
  <2>4. Exclusion' /\ InRange'
    BY <1>13, <2>1, <2>2 DEF RecipientRaises
  <2>5. QED
    BY <2>3, <2>4
<1>14. ASSUME NEW r \in Runs, Crash(r) PROVE LoopInv'
  BY <1>14, SMTT(20) DEF Crash, Goto
<1>15. ASSUME NEW r \in Runs, LoseSession(r) PROVE LoopInv'
  BY <1>15 DEF LoseSession, Goto
<1>16. ASSUME NEW r \in Runs, OrphanSend(r) PROVE LoopInv'
  <2>1. run' \in [Runs -> [pc : PCs, tries : 0..MaxRetries,
                           next : 1..NRecipients + 1]]
    BY <1>16, RetriedType DEF OrphanSend, PCs
  <2>2. /\ run'[r].pc \in {"queued", "done"}
        /\ \A q \in Runs \ {r} : run'[q] = run[q]
    BY <1>16, RetriedType DEF OrphanSend, PCs
  <2>3. delivered' \in [Recipients -> Nat]
    BY <1>16 DEF OrphanSend, Deliver
  <2>4. TypeOK'
    BY <1>16, <2>1, <2>3 DEF OrphanSend, PCs
  <2>5. QED
    BY <1>16, <2>2, <2>4 DEF OrphanSend
<1>17. CASE UNCHANGED vars
  BY <1>17 DEF vars
<1>18. QED
  BY <1>1, <1>2, <1>3, <1>4, <1>5, <1>6, <1>7, <1>8, <1>9, <1>10, <1>11,
     <1>12, <1>13, <1>14, <1>15, <1>16, <1>17 DEF Next, Step

\* Type correctness of the dispatch run and its ledger.
THEOREM ZaloTypeCorrect == Spec => []TypeOK
<1>1. LoopInv => TypeOK
  BY DEF LoopInv
<1>2. QED
  BY LoopInit, LoopStep, <1>1, PTL DEF Spec

-----------------------------------------------------------------------------
\* What the program counters say about rows and messages, initially.
LEMMA OnceInit == Init => OnceInv
  BY LoopInit, ZaloAssumption
  DEF Init, OnceInv, Undecided, Intended, NotYet, OneSender,
      Sending, DeliveredIsRecorded,
      AtMostOnce

\* While one run is in the loop, no other is.
LEMMA Alone ==
  ASSUME LoopInv, NEW r \in Runs, run[r].pc \in Inside
  PROVE  \A q \in Runs \ {r} : run[q].pc \notin Inside
  BY DEF LoopInv, Exclusion

\* Every step preserves it, provided that a send that reports failure was not
\* delivered.
LEMMA OnceStep ==
  ASSUME ~Ambiguous, OnceInv, [Next]_vars
  PROVE  OnceInv'
<1> DEFINE Claims == Undecided /\ Intended /\ NotYet /\ OneSender
                     /\ DeliveredIsRecorded /\ AtMostOnce
<1>0. LoopInv /\ LoopInv'
  BY LoopStep DEF OnceInv
<1> USE ZaloAssumption, <1>0
  DEF OnceInv, LoopInv, TypeOK, InRange, Inside, Undecided, Intended,
      NotYet, OneSender, Sending, DeliveredIsRecorded, AtMostOnce, Settled,
      Terminal
<1>1. ASSUME NEW p \in Recipients, Unsubscribe(p) PROVE Claims'
  BY <1>1 DEF Unsubscribe
<1>2. ASSUME NEW r \in Runs, SkippedLocked(r) PROVE Claims'
  BY <1>2 DEF SkippedLocked
<1>3. ASSUME NEW r \in Runs, Start(r) PROVE Claims'
  BY <1>3 DEF Start
<1>4. ASSUME NEW r \in Runs, Raise(r) PROVE Claims'
  <2>1. run'[r].pc \in {"queued", "done"}
    BY <1>4 DEF Raise, Retried
  <2>2. \A q \in Runs \ {r} : run'[q] = run[q]
    BY <1>4 DEF Raise
  <2>3. QED
    BY <1>4, <2>1, <2>2 DEF Raise
<1>5. ASSUME NEW r \in Runs, Finish(r) PROVE Claims'
  BY <1>5 DEF Finish
<1>6. ASSUME NEW r \in Runs, ReadRow(r) PROVE Claims'
  BY <1>6, SMTT(20) DEF ReadRow, NextRecipient, Goto
<1>7. ASSUME NEW r \in Runs, Withhold(r) PROVE Claims'
  BY <1>7, Alone DEF Withhold, UpsertDispatch, NextRecipient
<1>8. ASSUME NEW r \in Runs, MaySend(r) PROVE Claims'
  BY <1>8 DEF MaySend, Goto
<1>9. ASSUME NEW r \in Runs, RecordIntent(r) PROVE Claims'
  BY <1>9, Alone DEF RecordIntent, UpsertDispatch, Goto
<1>10. ASSUME NEW r \in Runs, SendOk(r) PROVE Claims'
  BY <1>10, Alone DEF SendOk, Deliver, Goto
<1>11. ASSUME NEW r \in Runs, SendFails(r) PROVE Claims'
  BY <1>11, Alone DEF SendFails, Deliver, Goto
<1>12. ASSUME NEW r \in Runs, RecordResult(r) PROVE Claims'
  BY <1>12, Alone DEF RecordResult, UpsertDispatch, NextRecipient
<1>13. ASSUME NEW r \in Runs, RecipientRaises(r) PROVE Claims'
  BY <1>13 DEF RecipientRaises, NextRecipient
<1>14. ASSUME NEW r \in Runs, Crash(r) PROVE Claims'
  BY <1>14 DEF Crash, Goto
<1>15. ASSUME NEW r \in Runs, LoseSession(r) PROVE Claims'
  BY <1>15, Alone DEF LoseSession, Goto
<1>16. ASSUME NEW r \in Runs, OrphanSend(r) PROVE Claims'
  <2>1. run'[r].pc \in {"queued", "done"}
    BY <1>16 DEF OrphanSend, Retried
  <2>2. \A q \in Runs \ {r} : run'[q] = run[q]
    BY <1>16 DEF OrphanSend
  <2>3. /\ run[r].pc = "orphan" /\ run[r].next \in Recipients
        /\ row[run[r].next] = "Sending" /\ delivered[run[r].next] = 0
        /\ row' = row
    BY <1>16 DEF OrphanSend
  <2>4. PICK n \in {0, 1} :
          delivered' = [delivered EXCEPT ![run[r].next] = @ + n]
    BY <1>16 DEF OrphanSend, Deliver
  <2>5. /\ delivered'[run[r].next] \in {0, 1}
        /\ \A p \in Recipients \ {run[r].next} : delivered'[p] = delivered[p]
    BY <2>3, <2>4
  <2>6. Undecided' /\ Intended' /\ OneSender'
    <3>1. Undecided'
      BY <2>1, <2>2, <2>3
    <3>2. Intended'
      BY <2>1, <2>2, <2>3
    <3>3. OneSender'
      <4> SUFFICES ASSUME NEW p \in Runs, NEW q \in Runs, p # q,
                          run'[p].pc \in Sending, run'[q].pc \in Sending
                   PROVE  run'[p].next # run'[q].next
        OBVIOUS
      <4>1. p # r /\ q # r
        BY <2>1
      <4>2. run'[p] = run[p] /\ run'[q] = run[q]
        BY <2>2, <4>1
      <4>3. QED
        BY <4>2
    <3>4. QED
      BY <3>1, <3>2, <3>3
  <2>7. NotYet'
    <3> SUFFICES ASSUME NEW q \in Runs,
                        run'[q].pc \in {"send", "Failed", "orphan"}
                 PROVE  delivered'[run'[q].next] = 0
      OBVIOUS
    <3>1. q # r /\ run'[q] = run[q]
      BY <2>1, <2>2
    <3>2. run[q].next # run[r].next
      BY <2>3, <3>1
    <3>3. run[q].next \in Recipients /\ delivered[run[q].next] = 0
      BY <3>1
    <3>4. QED
      BY <2>5, <3>1, <3>2, <3>3
  <2>8. DeliveredIsRecorded' /\ AtMostOnce'
    BY <2>3, <2>5
  <2>9. QED
    BY <2>6, <2>7, <2>8
<1>17. CASE UNCHANGED vars
  BY <1>17 DEF vars
<1>18. QED
  BY <1>1, <1>2, <1>3, <1>4, <1>5, <1>6, <1>7, <1>8, <1>9, <1>10, <1>11,
     <1>12, <1>13, <1>14, <1>15, <1>16, <1>17 DEF Next, Step

\* "Never double-bill": if a send that reports failure was not delivered, no
\* recipient gets two messages, for any number of overlapping, retried and
\* crashing runs.
THEOREM ZaloAtMostOnce == ~Ambiguous => (Spec => []AtMostOnce)
<1> SUFFICES ASSUME ~Ambiguous PROVE Spec => []AtMostOnce
  OBVIOUS
<1>1. OnceInv /\ [Next]_vars => OnceInv'
  BY OnceStep
<1>2. OnceInv => AtMostOnce
  BY DEF OnceInv
<1>3. QED
  BY OnceInit, <1>1, <1>2, PTL DEF Spec

\* Under the same assumption every message the provider took has a committed
\* row, Sending or Sent, that forbids another send, also right after a crash.
THEOREM ZaloDeliveryRecorded == ~Ambiguous => (Spec => []DeliveredIsRecorded)
<1> SUFFICES ASSUME ~Ambiguous PROVE Spec => []DeliveredIsRecorded
  OBVIOUS
<1>1. OnceInv /\ [Next]_vars => OnceInv'
  BY OnceStep
<1>2. OnceInv => DeliveredIsRecorded
  BY DEF OnceInv
<1>3. QED
  BY OnceInit, <1>1, <1>2, PTL DEF Spec

-----------------------------------------------------------------------------
(***************************************************************************)
(* The refinement of DispatchLedger.  What is needed beyond OnceInv: a run *)
(* says Sent only after a delivery, and is about to write only to someone  *)
(* who consented.                                                          *)
(***************************************************************************)
SentIsDelivered ==
  \A r \in Runs : run[r].pc = "Sent" => delivered[run[r].next] > 0

Consented ==
  \A r \in Runs : run[r].pc \in {"intent"} \cup Sending =>
                    run[r].next \notin NoConsent

TruthInv == OnceInv /\ SentIsDelivered /\ Consented

LEMMA TruthInit == Init => TruthInv
  BY OnceInit DEF Init, TruthInv, SentIsDelivered, Consented, Sending

\* A run gets to these places only from the ones before them.
LEMMA TruthStep == ~Ambiguous /\ TruthInv /\ [Next]_vars => TruthInv'
<1> SUFFICES ASSUME ~Ambiguous, TruthInv, [Next]_vars
             PROVE  SentIsDelivered' /\ Consented'
  BY OnceStep DEF TruthInv
<1> DEFINE RunSet == [pc : PCs, tries : 0..MaxRetries, next : 1..NRecipients + 1]
<1>0. /\ run \in [Runs -> RunSet] /\ delivered \in [Recipients -> Nat]
      /\ InRange
  BY DEF TruthInv, OnceInv, LoopInv, TypeOK, PCs, Inside
<1> USE DEF TruthInv, SentIsDelivered, Consented, Sending
\* Nothing is sent, and the run is at none of these places afterwards.
<1>1. ASSUME NEW r \in Runs, \A q \in Runs \ {r} : run'[q] = run[q],
             UNCHANGED delivered, run'[r].pc \notin {"intent"} \cup Sending
      PROVE  SentIsDelivered' /\ Consented'
  BY <1>1
<1>2. ASSUME NEW r \in Runs,
             \/ SkippedLocked(r) \/ Start(r) \/ Finish(r) \/ Withhold(r)
             \/ RecordResult(r) \/ RecipientRaises(r) \/ Crash(r)
      PROVE  SentIsDelivered' /\ Consented'
  <2>1. /\ \A q \in Runs \ {r} : run'[q] = run[q]
        /\ run'[r].pc \in {"done", "recipient"}
        /\ UNCHANGED delivered
    BY <1>0, <1>2 DEF SkippedLocked, Start, Finish, Withhold, RecordResult,
                      RecipientRaises, Crash, NextRecipient, Goto
  <2>2. QED
    BY <1>1, <2>1
<1>3. ASSUME NEW r \in Runs, Raise(r) PROVE SentIsDelivered' /\ Consented'
  <2>1. /\ \A q \in Runs \ {r} : run'[q] = run[q]
        /\ run'[r] = Retried(run[r]) /\ UNCHANGED delivered
    BY <1>0, <1>3 DEF Raise
  <2>2. Retried(run[r]).pc \in {"queued", "done"}
    BY <1>0, RetriedType
  <2>3. QED
    BY <1>1, <2>1, <2>2
<1>4. ASSUME NEW r \in Runs, ReadRow(r) PROVE SentIsDelivered' /\ Consented'
  <2>1. /\ \A q \in Runs \ {r} : run'[q] = run[q]
        /\ run'[r].pc \in {"recipient", "check"}
        /\ UNCHANGED delivered
    BY <1>0, <1>4 DEF ReadRow, NextRecipient, Goto
  <2>2. QED
    BY <1>1, <2>1
\* The run goes on with its recipient.
<1>5. ASSUME NEW r \in Runs, MaySend(r) \/ RecordIntent(r) \/ LoseSession(r)
      PROVE  SentIsDelivered' /\ Consented'
  <2>1. /\ \A q \in Runs \ {r} : run'[q] = run[q]
        /\ run'[r].next = run[r].next /\ run'[r].pc \in {"intent", "send", "orphan"}
        /\ UNCHANGED delivered
    BY <1>0, <1>5 DEF MaySend, RecordIntent, LoseSession, Goto
  <2>2. run[r].next \notin NoConsent
    BY <1>5 DEF MaySend, RecordIntent, LoseSession
  <2>3. QED
    BY <2>1, <2>2
\* A message goes out, or does not.
<1>6. ASSUME NEW r \in Runs, NEW n \in Nat, Deliver(r, n),
             run[r].pc \in {"send", "orphan"},
             \A q \in Runs \ {r} : run'[q] = run[q],
             run'[r].pc \in Sending => run'[r].next = run[r].next,
             run'[r].pc = "Sent" => n = 1, run'[r].pc # "intent"
      PROVE  SentIsDelivered' /\ Consented'
  <2>1. run[r].next \in Recipients
    BY <1>0, <1>6 DEF InRange, Inside
  <2>2. /\ delivered'[run[r].next] = delivered[run[r].next] + n
        /\ delivered[run[r].next] \in Nat
        /\ \A p \in Recipients \ {run[r].next} : delivered'[p] = delivered[p]
    BY <1>0, <1>6, <2>1 DEF Deliver
  <2>3. Consented'
    BY <1>6
  <2>4. ASSUME NEW q \in Runs, run'[q].pc = "Sent"
        PROVE  delivered'[run'[q].next] > 0
    <3>1. CASE q = r
      BY <1>6, <2>2, <2>4, <3>1
    <3>2. CASE q # r
      <4>1. run'[q] = run[q] /\ run[q].next \in Recipients
        BY <1>0, <1>6, <2>4, <3>2 DEF InRange, Inside
      <4>2. delivered[run[q].next] > 0 /\ delivered[run[q].next] \in Nat
        BY <1>0, <2>4, <4>1
      <4>3. delivered'[run[q].next] >= delivered[run[q].next]
        BY <2>2, <4>1, <4>2
      <4>4. QED
        BY <2>2, <4>1, <4>2, <4>3
    <3>3. QED
      BY <3>1, <3>2
  <2>5. QED
    BY <2>3, <2>4
<1>7. ASSUME NEW r \in Runs, SendOk(r) PROVE SentIsDelivered' /\ Consented'
  <2>1. /\ \A q \in Runs \ {r} : run'[q] = run[q]
        /\ run'[r].next = run[r].next /\ run'[r].pc = "Sent"
        /\ run[r].pc = "send" /\ Deliver(r, 1)
    BY <1>0, <1>7 DEF SendOk, Goto
  <2>2. QED
    BY <1>6, <2>1
<1>8. ASSUME NEW r \in Runs, SendFails(r) PROVE SentIsDelivered' /\ Consented'
  <2>1. /\ \A q \in Runs \ {r} : run'[q] = run[q]
        /\ run'[r].next = run[r].next /\ run'[r].pc = "Failed"
        /\ run[r].pc = "send" /\ Deliver(r, 0)
    BY <1>0, <1>8 DEF SendFails, Goto
  <2>2. QED
    BY <1>6, <2>1
<1>9. ASSUME NEW r \in Runs, OrphanSend(r) PROVE SentIsDelivered' /\ Consented'
  <2>1. PICK n \in {0, 1} : Deliver(r, n)
    BY <1>9 DEF OrphanSend
  <2>2. /\ \A q \in Runs \ {r} : run'[q] = run[q]
        /\ run'[r] = Retried(run[r]) /\ run[r].pc = "orphan"
    BY <1>0, <1>9 DEF OrphanSend
  <2>3. Retried(run[r]).pc \in {"queued", "done"}
    BY <1>0, RetriedType
  <2>4. QED
    BY <1>6, <2>1, <2>2, <2>3
<1>10. CASE (\E p \in Recipients : Unsubscribe(p)) \/ UNCHANGED vars
  BY <1>10 DEF Unsubscribe, vars
<1>11. QED
  BY <1>2, <1>3, <1>4, <1>5, <1>7, <1>8, <1>9, <1>10 DEF Next, Step

-----------------------------------------------------------------------------
\* An upsert is a commit of the ledger when what it writes is true.
LEMMA UpsertRefines ==
  ASSUME TypeOK, NEW p \in Recipients,
         NEW status \in Terminal \cup {"Sending", "Failed", "Skipped"},
         UpsertDispatch(p, status),
         row[p] \notin Terminal => Ledger!May(p, status),
         UNCHANGED <<suppressed, delivered>>
  PROVE  Ledger!Commit
<1>1. row \in [Recipients -> Terminal \cup {"absent", "Sending", "Failed", "Skipped"}]
  BY DEF TypeOK
<1>2. row' = [row EXCEPT ![p] = IF row[p] \in Terminal THEN row[p] ELSE status]
  BY DEF UpsertDispatch
<1>3. row' \in [Recipients -> Ledger!Decided \cup Ledger!Open \cup {"Sending"}]
  BY <1>1, <1>2 DEF Ledger!Decided, Ledger!Open, Terminal
<1>4. ASSUME NEW q \in Recipients, row'[q] # row[q]
      PROVE  row[q] \notin Ledger!Decided /\ Ledger!May(q, row'[q])
  <2>1. q = p /\ row[p] \notin Terminal /\ row'[q] = status
    BY <1>1, <1>2, <1>4
  <2>2. QED
    BY <2>1 DEF Ledger!Decided, Terminal
<1>5. QED
  BY <1>3, <1>4 DEF Ledger!Commit

\* An announced message, sent or not.
LEMMA DeliverRefines ==
  ASSUME TruthInv, NEW r \in Runs, NEW n \in {0, 1}, Deliver(r, n),
         run[r].pc \in {"send", "orphan"}, UNCHANGED <<suppressed, row>>
  PROVE  [Ledger!Next]_(Ledger!vars)
<1>1. /\ run[r].next \in Recipients /\ run[r].next \notin NoConsent
      /\ row[run[r].next] = "Sending" /\ delivered[run[r].next] = 0
      /\ delivered \in [Recipients -> Nat]
  BY DEF TruthInv, OnceInv, LoopInv, TypeOK, InRange, Inside, Consented, Sending,
         Intended, NotYet
<1>2. CASE n = 0
  <2>1. delivered' = delivered
    BY <1>1, <1>2 DEF Deliver
  <2>2. QED
    BY <2>1 DEF Ledger!vars
<1>3. CASE n = 1
  <2>1. delivered' = [delivered EXCEPT ![run[r].next] = @ + 1]
    BY <1>3 DEF Deliver
  <2>2. Ledger!Deliver(run[r].next)
    BY <1>1, <2>1 DEF Ledger!Deliver, Ledger!Announced
  <2>3. QED
    BY <1>1, <2>2 DEF Ledger!Next
<1>4. QED
  BY <1>2, <1>3

LEMMA LedgerStep ==
  ~Ambiguous /\ TruthInv /\ [Next]_vars => [Ledger!Next]_(Ledger!vars)
<1> SUFFICES ASSUME ~Ambiguous, TruthInv, [Next]_vars
             PROVE  [Ledger!Next]_(Ledger!vars)
  OBVIOUS
<1>0. TypeOK /\ InRange
  BY DEF TruthInv, OnceInv, LoopInv
<1>1. ASSUME NEW p \in Recipients, Unsubscribe(p) PROVE Ledger!Next
  BY <1>1 DEF Unsubscribe, Ledger!Next, Ledger!Unsubscribe
<1>2. ASSUME NEW r \in Runs, Withhold(r) PROVE Ledger!Commit
  <2> DEFINE p == run[r].next
             status == IF p \in suppressed THEN "Suppressed" ELSE "Skipped"
  <2>1. /\ p \in Recipients /\ row[p] \notin Terminal \cup {"Sending"}
        /\ p \in suppressed \cup NoConsent
        /\ UpsertDispatch(p, status) /\ UNCHANGED <<suppressed, delivered>>
    BY <1>0, <1>2 DEF Withhold, InRange, Inside, TruthInv, OnceInv, Undecided, Settled
  <2>2. row[p] \in Ledger!Open
    BY <1>0, <2>1 DEF TypeOK, Ledger!Open
  <2>3. Ledger!May(p, status)
    BY <2>1, <2>2 DEF Ledger!May
  <2>4. status \in Terminal \cup {"Sending", "Failed", "Skipped"}
    BY DEF Terminal
  <2> HIDE DEF p, status
  <2>5. QED
    BY <1>0, <2>1, <2>3, <2>4, UpsertRefines
<1>3. ASSUME NEW r \in Runs, RecordIntent(r) PROVE Ledger!Commit
  <2> DEFINE p == run[r].next
  <2>1. /\ p \in Recipients /\ p \notin NoConsent
        /\ row[p] \notin Terminal \cup {"Sending"}
        /\ UpsertDispatch(p, "Sending") /\ UNCHANGED <<suppressed, delivered>>
    BY <1>0, <1>3 DEF RecordIntent, InRange, Inside, TruthInv, OnceInv, Undecided,
                      Settled, Consented
  <2>2. row[p] \in Ledger!Open /\ delivered[p] = 0
    <3>1. delivered[p] \in Nat /\ row[p] \in Ledger!Open
      BY <1>0, <2>1 DEF TypeOK, Ledger!Open
    <3>2. ~(delivered[p] > 0)
      BY <2>1 DEF TruthInv, OnceInv, DeliveredIsRecorded, Terminal
    <3>3. QED
      BY <3>1, <3>2
  <2>3. Ledger!May(p, "Sending")
    BY <2>1, <2>2 DEF Ledger!May
  <2> HIDE DEF p
  <2>4. QED
    BY <1>0, <2>1, <2>3, UpsertRefines
<1>4. ASSUME NEW r \in Runs, RecordResult(r) PROVE Ledger!Commit
  <2> DEFINE p == run[r].next
             status == run[r].pc
  <2>1. /\ p \in Recipients /\ p \notin NoConsent /\ row[p] = "Sending"
        /\ status \in {"Sent", "Failed"}
        /\ status = "Sent" => delivered[p] > 0
        /\ status = "Failed" => delivered[p] = 0
        /\ UpsertDispatch(p, status) /\ UNCHANGED <<suppressed, delivered>>
    BY <1>0, <1>4 DEF RecordResult, InRange, Inside, TruthInv, OnceInv, Intended,
                      NotYet, Sending, Consented, SentIsDelivered
  <2>2. Ledger!May(p, status)
    BY <2>1 DEF Ledger!May, Ledger!Announced
  <2> HIDE DEF p, status
  <2>3. QED
    BY <1>0, <2>1, <2>2, UpsertRefines DEF Terminal
<1>5. ASSUME NEW r \in Runs, SendOk(r) \/ SendFails(r) \/ OrphanSend(r)
      PROVE  [Ledger!Next]_(Ledger!vars)
  <2>1. PICK n \in {0, 1} : Deliver(r, n)
    BY <1>5 DEF SendOk, SendFails, OrphanSend
  <2>2. run[r].pc \in {"send", "orphan"} /\ UNCHANGED <<suppressed, row>>
    BY <1>5 DEF SendOk, SendFails, OrphanSend
  <2>3. QED
    BY <2>1, <2>2, DeliverRefines
<1>6. ASSUME NEW r \in Runs,
             \/ SkippedLocked(r) \/ Start(r) \/ Raise(r) \/ Finish(r) \/ ReadRow(r)
             \/ MaySend(r) \/ RecipientRaises(r) \/ LoseSession(r) \/ Crash(r)
      PROVE  UNCHANGED Ledger!vars
  BY <1>6 DEF SkippedLocked, Start, Raise, Finish, ReadRow, MaySend,
              RecipientRaises, LoseSession, Crash, Ledger!vars
<1>7. CASE UNCHANGED vars
  BY <1>7 DEF vars, Ledger!vars
<1>8. QED
  BY <1>1, <1>2, <1>3, <1>4, <1>5, <1>6, <1>7 DEF Next, Step, Ledger!Next

\* Whatever runs overlap, are retried, die or lose their session, the rows and
\* messages are those of a ledger that announces each message before it goes and
\* writes the truth about it.
THEOREM ZaloImplementsLedger == ~Ambiguous => (Spec => ImplementsDispatchLedger)
<1> SUFFICES ASSUME ~Ambiguous PROVE Spec => ImplementsDispatchLedger
  OBVIOUS
<1>1. Init => Ledger!Init
  BY DEF Init, Ledger!Init
<1>2. TruthInv /\ [Next]_vars => TruthInv'
  BY TruthStep
<1>3. TruthInv /\ [Next]_vars => [Ledger!Next]_(Ledger!vars)
  BY LedgerStep
<1>4. QED
  BY TruthInit, <1>1, <1>2, <1>3, PTL
  DEF Spec, ImplementsDispatchLedger, Ledger!Spec

\* What such a ledger gives: no message without consent, none unrecorded, never
\* a second one, and no row says more than what happened.
THEOREM LedgerTruthful == Ledger!Spec => []Ledger!Truthful
<1> DEFINE Types == /\ delivered \in [Recipients -> Nat]
                    /\ row \in [Recipients -> Ledger!Decided \cup Ledger!Open
                                                \cup {"Sending"}]
           Inv == Types /\ Ledger!Truthful
<1>1. Ledger!Init => Inv
  BY DEF Ledger!Init, Ledger!Truthful, Ledger!Open
<1>2. Inv /\ [Ledger!Next]_(Ledger!vars) => Inv'
  <2> SUFFICES ASSUME Inv, [Ledger!Next]_(Ledger!vars) PROVE Inv'
    OBVIOUS
  <2>1. ASSUME NEW p, Ledger!Unsubscribe(p) PROVE Inv'
    BY <2>1 DEF Ledger!Unsubscribe, Ledger!Truthful
  <2>2. ASSUME NEW p \in Recipients, Ledger!Deliver(p) PROVE Inv'
    <3>1. /\ delivered' \in [Recipients -> Nat]
          /\ delivered'[p] = delivered[p] + 1 /\ delivered[p] \in Nat
          /\ \A q \in Recipients \ {p} : delivered'[q] = delivered[q]
          /\ p \notin NoConsent /\ UNCHANGED <<row, suppressed>>
          /\ row[p] = "Sending" /\ delivered[p] = 0
      BY <2>2 DEF Ledger!Deliver, Ledger!Announced
    <3>2. QED
      BY <3>1 DEF Ledger!Truthful
  <2>3. CASE Ledger!Commit
    <3>1. Types' /\ UNCHANGED <<suppressed, delivered>>
      BY <2>3 DEF Ledger!Commit
    <3>2. ASSUME NEW p \in Recipients
          PROVE  /\ row'[p] = "Sent" => delivered[p] > 0
                 /\ row'[p] = "Suppressed" => p \in suppressed
                 /\ delivered[p] = 1 => row'[p] \in {"Sending", "Sent"}
      BY <2>3 DEF Ledger!Commit, Ledger!May, Ledger!Truthful, Ledger!Announced,
                  Ledger!Open
    <3>3. QED
      BY <3>1, <3>2 DEF Ledger!Truthful
  <2>4. CASE UNCHANGED Ledger!vars
    BY <2>4 DEF Ledger!vars, Ledger!Truthful
  <2>5. QED
    BY <2>1, <2>2, <2>3, <2>4 DEF Ledger!Next
<1>3. Inv => Ledger!Truthful
  OBVIOUS
<1>4. QED
  BY <1>1, <1>2, <1>3, PTL DEF Ledger!Spec

-----------------------------------------------------------------------------
(***************************************************************************)
(* The other dispatcher: EmailDispatch for any number of runs, recipients, *)
(* batches and retries, whether or not a reported failure may be a         *)
(* delivery.  It excludes its runs by a lock of its own; runs and messages *)
(* are mailRun and mailDelivered here.                                     *)
(***************************************************************************)
CONSTANT BatchSize
VARIABLES mailLock, committed, mailRun, mailDelivered, late

Mail == INSTANCE EmailDispatch
          WITH lock <- mailLock, run <- mailRun, delivered <- mailDelivered

(***************************************************************************)
(* The inductive invariant.  Only the lock holder is in a batch, so the    *)
(* row it has read and the snapshot it has taken are about a ledger and    *)
(* messages nobody else changes meanwhile.                                 *)
(***************************************************************************)
MailSending == {"send", "Sent", "Failed"}
InBatch == {"recipient"} \cup MailSending
MailInside == {"lookup", "commit"} \cup InBatch

MailExclusion == \A r \in Runs : mailRun[r].pc \in MailInside => mailLock = r

MailInRange ==
  \A r \in Runs : mailRun[r].pc \in {"lookup"} \cup InBatch =>
                    mailRun[r].next \in Mail!Recipients

\* The row that allowed a message still allows it.
MailUndecided ==
  \A r \in Runs : mailRun[r].pc \in MailSending => Mail!Row(r) \notin Mail!Terminal

\* So does the snapshot.
NotSuppressed ==
  \A r \in Runs : mailRun[r].pc = "send" => mailRun[r].next \notin mailRun[r].snapshot

\* The first recipient of the batch whose message is still to come.
ToCome(r) ==
  IF mailRun[r].pc \in {"Sent", "Failed"} THEN mailRun[r].next + 1 ELSE mailRun[r].next

\* A late message goes to a suppressed recipient ...
LateIsSuppressed == \A p \in Mail!Recipients : late[p] > 0 => p \in suppressed

\* ... and whoever may still send to that recipient has it in the snapshot.
SnapshotKnowsLate ==
  \A r \in Runs : mailRun[r].pc \in InBatch =>
    \A p \in Mail!Recipients :
      late[p] > 0 /\ p >= ToCome(r) => p \in mailRun[r].snapshot

BatchInv == Mail!TypeOK /\ MailExclusion /\ MailInRange
SendInv ==
  /\ BatchInv /\ MailUndecided /\ NotSuppressed
  /\ LateIsSuppressed /\ SnapshotKnowsLate /\ Mail!OneLateMessage

-----------------------------------------------------------------------------
RunType == [pc : Mail!RunPCs, tries : 0..MaxRetries, next : 1..NRecipients + 1,
            snapshot : SUBSET Mail!Recipients, wrote : [Mail!Recipients -> Mail!Rows]]

LEMMA FreshType ==
  ASSUME Mail!EmailAssumption, NEW tries \in 0..MaxRetries,
         NEW pc \in Mail!RunPCs
  PROVE  Mail!Fresh(tries, pc) \in RunType /\ Mail!Fresh(tries, pc).pc = pc
         /\ Mail!Fresh(tries, pc).next = 1 /\ Mail!Fresh(tries, pc).snapshot = {}
<1>1. Mail!NoWrites \in [Mail!Recipients -> Mail!Rows]
  BY DEF Mail!NoWrites, Mail!Rows
<1>2. 1 \in 1..NRecipients + 1
  BY DEF Mail!EmailAssumption
<1>3. QED
  BY <1>1, <1>2 DEF Mail!Fresh, RunType

LEMMA RaisedType ==
  ASSUME Mail!EmailAssumption, Mail!TypeOK, NEW r \in Runs
  PROVE  Mail!RaisedRun(r) \in RunType /\ Mail!RaisedRun(r).pc \in {"queued", "done"}
<1>1. mailRun[r].tries \in 0..MaxRetries
  BY DEF Mail!TypeOK
<1>2. mailRun[r].tries < MaxRetries => mailRun[r].tries + 1 \in 0..MaxRetries
  BY <1>1 DEF Mail!EmailAssumption
<1>3. QED
  BY <1>1, <1>2, FreshType DEF Mail!RaisedRun, Mail!RunPCs

\* What Advance leaves of a run: the batch goes on with the next recipient, or
\* is to be committed.
LEMMA Advanced ==
  ASSUME Mail!EmailAssumption, Mail!TypeOK, NEW r \in Runs,
         mailRun[r].next \in Mail!Recipients,
         NEW entry \in Mail!Rows, Mail!Advance(r, entry)
  PROVE  /\ mailRun' \in [Runs -> RunType]
         /\ \A q \in Runs \ {r} : mailRun'[q] = mailRun[q]
         /\ mailRun'[r].pc \in {"recipient", "commit"}
         /\ mailRun'[r].next = mailRun[r].next + 1
         /\ mailRun'[r].pc = "recipient" => mailRun'[r].next \in Mail!Recipients
         /\ mailRun'[r].snapshot = mailRun[r].snapshot
         /\ mailRun'[r].wrote = [mailRun[r].wrote EXCEPT ![mailRun[r].next] = entry]
<1> USE DEF Mail!EmailAssumption
<1> DEFINE pc == IF Mail!EndOfBatch(mailRun[r].next) THEN "commit" ELSE "recipient"
           wrote == [mailRun[r].wrote EXCEPT ![mailRun[r].next] = entry]
           w == [mailRun[r] EXCEPT !.pc = pc, !.next = mailRun[r].next + 1,
                               !.wrote = wrote]
<1>1. mailRun \in [Runs -> RunType] /\ mailRun[r] \in RunType
  BY DEF Mail!TypeOK, RunType
<1>2. /\ wrote \in [Mail!Recipients -> Mail!Rows]
      /\ mailRun[r].next + 1 \in 1..NRecipients + 1
      /\ pc \in Mail!RunPCs
  BY <1>1 DEF RunType, Mail!Recipients, Mail!RunPCs
<1>3. pc = "recipient" => mailRun[r].next + 1 \in Mail!Recipients
  BY DEF Mail!EndOfBatch, Mail!Recipients
<1>4. pc \in {"recipient", "commit"}
  OBVIOUS
<1>5. mailRun' = [mailRun EXCEPT ![r] = w]
  BY <1>1 DEF Mail!Advance, RunType
<1> HIDE DEF pc, wrote
<1>6. /\ w \in RunType /\ w.pc = pc /\ w.next = mailRun[r].next + 1
      /\ w.snapshot = mailRun[r].snapshot /\ w.wrote = wrote
  BY <1>1, <1>2 DEF RunType
<1> HIDE DEF w
<1>7. QED
  BY <1>1, <1>3, <1>4, <1>5, <1>6 DEF wrote

LEMMA BatchInit == Mail!EmailAssumption /\ Mail!Init => BatchInv
<1> SUFFICES ASSUME Mail!EmailAssumption, Mail!Init PROVE BatchInv
  OBVIOUS
<1>1. Mail!Fresh(0, "queued") \in RunType /\ Mail!Fresh(0, "queued").pc = "queued"
  BY FreshType DEF Mail!EmailAssumption, Mail!RunPCs
<1>2. Mail!TypeOK
  BY <1>1 DEF Mail!Init, Mail!TypeOK, RunType, Mail!Rows
<1>3. MailExclusion /\ MailInRange
  BY <1>1
  DEF Mail!Init, MailExclusion, MailInRange, MailInside, InBatch, MailSending
<1>4. QED
  BY <1>2, <1>3 DEF BatchInv

\* A run that leaves its batch, to be retried or for good, takes nothing with
\* it.
LEMMA LeaveBatch ==
  ASSUME Mail!EmailAssumption, BatchInv, NEW r \in Runs, NEW w \in RunType,
         w.pc \in {"queued", "done"},
         mailRun' = [mailRun EXCEPT ![r] = w],
         mailLock' \in Runs \cup {None}, UNCHANGED mailLock \/ mailLock \in {None, r},
         mailLock' = r => mailLock = r,
         suppressed' \subseteq Mail!Recipients, committed' \in [Mail!Recipients -> Mail!Rows],
         UNCHANGED Mail!messages
  PROVE  BatchInv'
<1> USE DEF BatchInv, Mail!TypeOK
<1>1. /\ mailRun' \in [Runs -> RunType]
      /\ \A q \in Runs \ {r} : mailRun'[q] = mailRun[q]
      /\ mailRun'[r] = w
      /\ UNCHANGED <<mailDelivered, late>>
  BY DEF RunType, Mail!messages
<1>2. Mail!TypeOK'
  BY <1>1 DEF RunType
<1>3. MailExclusion' /\ MailInRange'
  BY <1>1
  DEF Mail!EmailAssumption, MailExclusion, MailInRange, MailInside, InBatch,
      MailSending
<1>4. QED
  BY <1>2, <1>3

\* Every step preserves the batch invariant.
LEMMA BatchStep ==
  ASSUME Mail!EmailAssumption, BatchInv, [Mail!Next]_Mail!vars
  PROVE  BatchInv'
<1> USE DEF Mail!EmailAssumption, BatchInv, MailExclusion, MailInRange, MailInside, InBatch, MailSending
<1>0. mailRun \in [Runs -> RunType]
  BY DEF Mail!TypeOK, RunType
<1>1. ASSUME NEW p \in Mail!Recipients, Mail!Unsubscribe(p) PROVE BatchInv'
  BY <1>1 DEF Mail!Unsubscribe, Mail!TypeOK, Mail!messages
<1>2. ASSUME NEW r \in Runs, Mail!SkippedLocked(r) PROVE BatchInv'
  <2> DEFINE w == [mailRun[r] EXCEPT !.pc = "done"]
  <2>1. w \in RunType /\ w.pc = "done" /\ mailRun' = [mailRun EXCEPT ![r] = w]
    BY <1>0, <1>2 DEF Mail!SkippedLocked, RunType, Mail!RunPCs
  <2> HIDE DEF w
  <2>2. QED
    BY <1>2, <2>1, LeaveBatch DEF Mail!SkippedLocked, Mail!TypeOK
<1>3. ASSUME NEW r \in Runs, Mail!Start(r) PROVE BatchInv'
  <2>1. /\ Mail!Fresh(mailRun[r].tries, "lookup") \in RunType
        /\ Mail!Fresh(mailRun[r].tries, "lookup").pc = "lookup"
        /\ Mail!Fresh(mailRun[r].tries, "lookup").next = 1
    BY <1>0, FreshType DEF RunType, Mail!RunPCs
  <2>2. /\ mailRun' = [mailRun EXCEPT ![r] = Mail!Fresh(mailRun[r].tries, "lookup")]
        /\ mailLock = None /\ mailLock' = r
        /\ UNCHANGED <<suppressed, committed, mailDelivered, late>>
    BY <1>3 DEF Mail!Start, Mail!messages
  <2>3. /\ mailRun' \in [Runs -> RunType]
        /\ mailRun'[r].pc = "lookup" /\ mailRun'[r].next = 1
        /\ \A q \in Runs \ {r} : mailRun'[q] = mailRun[q] /\ mailRun[q].pc \notin MailInside
    BY <1>0, <2>1, <2>2
  <2>4. Mail!TypeOK'
    BY <2>2, <2>3 DEF Mail!TypeOK, RunType
  <2>5. QED
    BY <2>2, <2>3, <2>4 DEF Mail!Recipients
<1>4. ASSUME NEW r \in Runs, Mail!Raise(r) PROVE BatchInv'
  BY <1>4, RaisedType, LeaveBatch DEF Mail!Raise, Mail!TypeOK
<1>5. ASSUME NEW r \in Runs, Mail!Crash(r) PROVE BatchInv'
  <2>1. /\ Mail!Fresh(mailRun[r].tries, "done") \in RunType
        /\ Mail!Fresh(mailRun[r].tries, "done").pc = "done"
    BY <1>0, FreshType DEF RunType, Mail!RunPCs
  <2>2. QED
    BY <1>5, <2>1, LeaveBatch DEF Mail!Crash, Mail!TypeOK
\* The recipient is done with.
<1>6. ASSUME NEW r \in Runs, NEW entry \in Mail!Rows, mailRun[r].pc \in InBatch,
             Mail!Advance(r, entry), Mail!Local, UNCHANGED Mail!messages
      PROVE  BatchInv'
  <2>1. /\ mailRun' \in [Runs -> RunType]
        /\ \A q \in Runs \ {r} : mailRun'[q] = mailRun[q]
        /\ mailRun'[r].pc \in {"recipient", "commit"}
        /\ mailRun'[r].pc = "recipient" => mailRun'[r].next \in Mail!Recipients
    BY <1>6, Advanced
  <2>2. Mail!TypeOK'
    BY <1>6, <2>1 DEF Mail!TypeOK, RunType, Mail!Local, Mail!messages
  <2>3. MailExclusion' /\ MailInRange'
    BY <1>6, <2>1 DEF Mail!Local
  <2>4. QED
    BY <2>2, <2>3
<1>7. ASSUME NEW r \in Runs,
             \/ Mail!AlreadyTerminal(r) \/ Mail!Suppress(r) \/ Mail!Skip(r) \/ Mail!Upsert(r)
             \/ Mail!RollbackToSavepoint(r)
      PROVE  BatchInv'
  <2>1. {"absent", "Suppressed", "Skipped", "Sent", "Failed"} \subseteq Mail!Rows
    BY DEF Mail!Rows, Mail!Terminal
  <2>2. QED
    BY <1>6, <1>7, <2>1
    DEF Mail!AlreadyTerminal, Mail!Suppress, Mail!Skip, Mail!Upsert,
        Mail!RollbackToSavepoint
\* Within a recipient.
<1>8. ASSUME NEW r \in Runs, NEW pc \in InBatch, NEW s \in SUBSET Mail!Recipients,
             mailRun[r].pc \in {"lookup"} \cup InBatch,
             mailRun' = [mailRun EXCEPT ![r].pc = pc, ![r].snapshot = s],
             Mail!Local, mailDelivered' \in [Mail!Recipients -> Nat],
             late' \in [Mail!Recipients -> Nat]
      PROVE  BatchInv'
  <2> DEFINE w == [mailRun[r] EXCEPT !.pc = pc, !.snapshot = s]
  <2>1. w \in RunType /\ w.pc = pc /\ w.next = mailRun[r].next
        /\ mailRun' = [mailRun EXCEPT ![r] = w]
    BY <1>0, <1>8 DEF RunType, Mail!RunPCs
  <2> HIDE DEF w
  <2>2. /\ mailRun' \in [Runs -> RunType] /\ mailRun'[r] = w
        /\ \A q \in Runs \ {r} : mailRun'[q] = mailRun[q]
    BY <1>0, <2>1
  <2>3. Mail!TypeOK'
    BY <1>8, <2>2 DEF Mail!TypeOK, RunType, Mail!Local
  <2>4. MailExclusion' /\ MailInRange'
    BY <1>8, <2>1, <2>2 DEF Mail!Local
  <2>5. QED
    BY <2>3, <2>4
<1>9. ASSUME NEW r \in Runs, Mail!SuppressionLookup(r) PROVE BatchInv'
  BY <1>8, <1>9 DEF Mail!SuppressionLookup, Mail!TypeOK, Mail!messages
<1>10. ASSUME NEW r \in Runs, NEW pc \in InBatch, mailRun[r].pc \in InBatch,
              mailRun' = [mailRun EXCEPT ![r].pc = pc],
              Mail!Local, mailDelivered' \in [Mail!Recipients -> Nat],
              late' \in [Mail!Recipients -> Nat]
       PROVE  BatchInv'
  <2>1. mailRun' = [mailRun EXCEPT ![r].pc = pc, ![r].snapshot = mailRun[r].snapshot]
    BY <1>0, <1>10 DEF RunType
  <2>2. mailRun[r].snapshot \in SUBSET Mail!Recipients
    BY <1>0 DEF RunType
  <2>3. QED
    BY <1>8, <1>10, <2>1, <2>2
<1>11. ASSUME NEW r \in Runs, Mail!ToSend(r) PROVE BatchInv'
  BY <1>10, <1>11 DEF Mail!ToSend, Mail!TypeOK, Mail!messages
<1>12. ASSUME NEW r \in Runs, Mail!SendOk(r) \/ Mail!SendFails(r) PROVE BatchInv'
  <2>1. PICK n \in {0, 1} : Mail!Deliver(r, n)
    BY <1>12 DEF Mail!SendOk, Mail!SendFails
  <2>2. mailRun[r].next \in Mail!Recipients
    BY <1>12 DEF Mail!SendOk, Mail!SendFails
  <2>3. mailDelivered' \in [Mail!Recipients -> Nat] /\ late' \in [Mail!Recipients -> Nat]
    BY <2>1, <2>2 DEF Mail!Deliver, Mail!TypeOK
  <2>4. QED
    BY <1>10, <1>12, <2>3 DEF Mail!SendOk, Mail!SendFails
<1>13. ASSUME NEW r \in Runs, Mail!CommitBatch(r) PROVE BatchInv'
  <2>1. committed' \in [Mail!Recipients -> Mail!Rows]
    BY <1>0, <1>13 DEF Mail!CommitBatch, Mail!Upserted, Mail!TypeOK, RunType
  <2>2. CASE mailRun[r].next <= NRecipients
    <3> DEFINE w == [mailRun[r] EXCEPT !.pc = "lookup", !.wrote = Mail!NoWrites]
    <3>1. Mail!NoWrites \in [Mail!Recipients -> Mail!Rows]
      BY DEF Mail!NoWrites, Mail!Rows
    <3>2. /\ w \in RunType /\ w.pc = "lookup" /\ w.next = mailRun[r].next
          /\ mailRun' = [mailRun EXCEPT ![r] = w]
      BY <1>0, <1>13, <2>2, <3>1 DEF Mail!CommitBatch, RunType, Mail!RunPCs
    <3> HIDE DEF w
    <3>3. /\ mailRun' \in [Runs -> RunType] /\ mailRun'[r] = w
          /\ \A q \in Runs \ {r} : mailRun'[q] = mailRun[q]
          /\ UNCHANGED <<mailLock, suppressed, mailDelivered, late>>
      BY <1>0, <1>13, <2>2, <3>2 DEF Mail!CommitBatch, Mail!messages
    <3>4. Mail!TypeOK'
      BY <2>1, <3>3 DEF Mail!TypeOK, RunType
    <3>5. mailRun[r].next \in Mail!Recipients
      BY <1>0, <2>2 DEF RunType, Mail!Recipients
    <3>6. QED
      BY <1>13, <3>2, <3>3, <3>4, <3>5 DEF Mail!CommitBatch
  <2>3. CASE ~(mailRun[r].next <= NRecipients)
    <3>1. /\ Mail!Fresh(mailRun[r].tries, "done") \in RunType
          /\ Mail!Fresh(mailRun[r].tries, "done").pc = "done"
      BY <1>0, FreshType DEF RunType, Mail!RunPCs
    <3>2. QED
      BY <1>13, <2>1, <2>3, <3>1, LeaveBatch DEF Mail!CommitBatch, Mail!TypeOK
  <2>4. QED
    BY <2>2, <2>3
<1>14. CASE UNCHANGED Mail!vars
  BY <1>14 DEF Mail!vars, Mail!messages, Mail!TypeOK
<1>15. QED
  BY <1>1, <1>2, <1>3, <1>4, <1>5, <1>7, <1>9, <1>11, <1>12, <1>13, <1>14
  DEF Mail!Next, Mail!Step

\* Type correctness of the runs, their transactions and the ledger.
THEOREM EmailTypeCorrect == Mail!EmailAssumption => (Mail!Spec => []Mail!TypeOK)
<1> SUFFICES ASSUME Mail!EmailAssumption PROVE Mail!Spec => []Mail!TypeOK
  OBVIOUS
<1>1. BatchInv => Mail!TypeOK
  BY DEF BatchInv
<1>2. QED
  BY BatchInit, BatchStep, <1>1, PTL DEF Mail!Spec

-----------------------------------------------------------------------------
(***************************************************************************)
(* Rows, snapshots and late messages.                                      *)
(***************************************************************************)
LEMMA SendInit == Mail!EmailAssumption /\ Mail!Init => SendInv
<1> SUFFICES ASSUME Mail!EmailAssumption, Mail!Init PROVE SendInv
  OBVIOUS
<1>1. \A r \in Runs : mailRun[r].pc = "queued"
  BY DEF Mail!Init, Mail!Fresh
<1>2. QED
  BY <1>1, BatchInit
  DEF Mail!Init, SendInv, MailUndecided, NotSuppressed, LateIsSuppressed,
      SnapshotKnowsLate, Mail!OneLateMessage, InBatch, MailSending

MailClaims ==
  MailUndecided /\ NotSuppressed /\ LateIsSuppressed /\ SnapshotKnowsLate
  /\ Mail!OneLateMessage

\* No run but the holder of the lock is in its batch.
LEMMA MailAlone ==
  ASSUME Mail!EmailAssumption, BatchInv, NEW r \in Runs,
         mailRun[r].pc \in MailInside
  PROVE  \A q \in Runs \ {r} : mailRun[q].pc \notin MailInside
  BY DEF BatchInv, MailExclusion

\* A run moves without a message: it may enter a batch only with the current
\* suppression list, and go on only to a recipient it had ahead.
LEMMA QuietStep ==
  ASSUME Mail!EmailAssumption, SendInv, NEW r \in Runs,
         mailRun' \in [Runs -> RunType],
         \A q \in Runs \ {r} : mailRun'[q] = mailRun[q],
         UNCHANGED <<suppressed, Mail!messages>>,
         \/ UNCHANGED committed
         \/ mailRun[r].pc \in MailInside,
         mailRun'[r].pc \in MailSending => Mail!Row(r)' \notin Mail!Terminal,
         mailRun'[r].pc = "send" => mailRun'[r].next \notin mailRun'[r].snapshot,
         mailRun'[r].pc \in InBatch =>
           \/ mailRun'[r].snapshot = suppressed
           \/ /\ mailRun[r].pc \in InBatch
              /\ mailRun'[r].snapshot = mailRun[r].snapshot
              /\ ToCome(r)' >= ToCome(r)
  PROVE  MailClaims'
<1> USE DEF Mail!EmailAssumption, SendInv, InBatch, MailSending, MailInside
<1>1. mailRun \in [Runs -> RunType] /\ late \in [Mail!Recipients -> Nat]
      /\ UNCHANGED <<late, suppressed>>
  BY DEF BatchInv, Mail!TypeOK, RunType, Mail!messages
<1>2. MailUndecided'
  BY <1>1, MailAlone DEF MailUndecided, Mail!Row
<1>3. NotSuppressed'
  BY DEF NotSuppressed
<1>4. LateIsSuppressed' /\ Mail!OneLateMessage'
  BY <1>1 DEF LateIsSuppressed, Mail!OneLateMessage
<1>5. SnapshotKnowsLate'
  <2> SUFFICES ASSUME NEW q \in Runs, mailRun'[q].pc \in InBatch,
                      NEW p \in Mail!Recipients, late[p] > 0, p >= ToCome(q)'
               PROVE  p \in mailRun'[q].snapshot
    BY <1>1 DEF SnapshotKnowsLate
  <2>1. CASE q # r
    BY <2>1 DEF SnapshotKnowsLate, ToCome
  <2>2. CASE q = r /\ mailRun'[r].snapshot = suppressed
    BY <2>2 DEF LateIsSuppressed
  <2>3. CASE q = r /\ mailRun'[r].snapshot # suppressed
    <3>1. /\ mailRun[r].pc \in InBatch /\ mailRun'[r].snapshot = mailRun[r].snapshot
          /\ ToCome(r)' >= ToCome(r)
      BY <2>3
    <3>2. ToCome(r) \in Nat /\ ToCome(r)' \in Nat /\ p \in Nat
      <4>1. mailRun[r] \in RunType /\ mailRun'[r] \in RunType
        BY <1>1
      <4>2. mailRun[r].next \in Nat /\ mailRun'[r].next \in Nat
        BY <4>1 DEF RunType
      <4>3. QED
        BY <4>2 DEF ToCome, Mail!Recipients
    <3>3. p >= ToCome(r)
      BY <2>3, <3>1, <3>2
    <3>4. QED
      BY <2>3, <3>1, <3>3 DEF SnapshotKnowsLate
  <2>4. QED
    BY <2>1, <2>2, <2>3
<1>6. QED
  BY <1>2, <1>3, <1>4, <1>5 DEF MailClaims

LEMMA SendStep ==
  ASSUME Mail!EmailAssumption, SendInv, [Mail!Next]_Mail!vars
  PROVE  MailClaims'
<1> USE DEF SendInv
<1>0. /\ mailRun \in [Runs -> RunType] /\ mailRun' \in [Runs -> RunType]
      /\ BatchInv
  BY BatchStep DEF BatchInv, Mail!TypeOK, RunType
<1>1. ASSUME NEW p \in Mail!Recipients, Mail!Unsubscribe(p) PROVE MailClaims'
  BY <1>1
  DEF Mail!Unsubscribe, Mail!messages, MailClaims, MailUndecided, Mail!Row,
      NotSuppressed,
      LateIsSuppressed, SnapshotKnowsLate, ToCome, Mail!OneLateMessage
\* A run that is out of its batch afterwards.
<1>2. ASSUME NEW r \in Runs, \A q \in Runs \ {r} : mailRun'[q] = mailRun[q],
             mailRun'[r].pc \notin InBatch, UNCHANGED <<suppressed, Mail!messages>>,
             UNCHANGED committed \/ mailRun[r].pc \in MailInside
      PROVE  MailClaims'
  BY <1>0, <1>2, QuietStep DEF InBatch, MailSending
<1>3. ASSUME NEW r \in Runs, Mail!SkippedLocked(r) PROVE MailClaims'
  <2>1. mailRun'[r].pc = "done" /\ \A q \in Runs \ {r} : mailRun'[q] = mailRun[q]
    BY <1>0, <1>3 DEF Mail!SkippedLocked, RunType
  <2>2. QED
    BY <1>2, <1>3, <2>1 DEF Mail!SkippedLocked, InBatch, MailSending
<1>4. ASSUME NEW r \in Runs, Mail!Start(r) PROVE MailClaims'
  <2>1. mailRun'[r].pc = "lookup" /\ \A q \in Runs \ {r} : mailRun'[q] = mailRun[q]
    BY <1>0, <1>4 DEF Mail!Start, Mail!Fresh
  <2>2. QED
    BY <1>2, <1>4, <2>1 DEF Mail!Start, InBatch, MailSending
<1>5. ASSUME NEW r \in Runs, Mail!Raise(r) PROVE MailClaims'
  <2>1. mailRun'[r].pc \in {"queued", "done"}
        /\ \A q \in Runs \ {r} : mailRun'[q] = mailRun[q]
    BY <1>0, <1>5, RaisedType DEF Mail!Raise, BatchInv
  <2>2. QED
    BY <1>2, <1>5, <2>1 DEF Mail!Raise, InBatch, MailSending
<1>6. ASSUME NEW r \in Runs, Mail!Crash(r) PROVE MailClaims'
  <2>1. mailRun'[r].pc = "done" /\ \A q \in Runs \ {r} : mailRun'[q] = mailRun[q]
    BY <1>0, <1>6 DEF Mail!Crash, Mail!Fresh
  <2>2. QED
    BY <1>2, <1>6, <2>1 DEF Mail!Crash, InBatch, MailSending
<1>7. ASSUME NEW r \in Runs, Mail!SuppressionLookup(r) PROVE MailClaims'
  <2>1. /\ mailRun'[r].pc = "recipient" /\ mailRun'[r].snapshot = suppressed
        /\ \A q \in Runs \ {r} : mailRun'[q] = mailRun[q]
    BY <1>0, <1>7 DEF Mail!SuppressionLookup, RunType
  <2>2. mailRun'[r].pc \notin MailSending
    BY <2>1 DEF MailSending
  <2>3. QED
    BY <1>0, <1>7, <2>1, <2>2, QuietStep DEF Mail!SuppressionLookup, Mail!Local
\* The recipient is done with.
<1>8. ASSUME NEW r \in Runs, NEW entry \in Mail!Rows, mailRun[r].pc \in InBatch,
             Mail!Advance(r, entry), Mail!Local, UNCHANGED Mail!messages
      PROVE  MailClaims'
  <2>1. mailRun[r].next \in Mail!Recipients
    BY <1>8 DEF BatchInv, MailInRange
  <2>2. /\ \A q \in Runs \ {r} : mailRun'[q] = mailRun[q]
        /\ mailRun'[r].pc \in {"recipient", "commit"}
        /\ mailRun'[r].next = mailRun[r].next + 1
        /\ mailRun'[r].snapshot = mailRun[r].snapshot
    BY <1>8, <2>1, Advanced DEF BatchInv
  <2>3. ToCome(r)' >= ToCome(r)
    BY <2>1, <2>2 DEF ToCome, Mail!Recipients
  <2>4. mailRun'[r].pc \notin MailSending
    BY <2>2 DEF MailSending
  <2>5. QED
    BY <1>0, <1>8, <2>2, <2>3, <2>4, QuietStep DEF Mail!Local
<1>9. ASSUME NEW r \in Runs,
             \/ Mail!AlreadyTerminal(r) \/ Mail!Suppress(r) \/ Mail!Skip(r) \/ Mail!Upsert(r)
             \/ Mail!RollbackToSavepoint(r)
      PROVE  MailClaims'
  <2>1. {"absent", "Suppressed", "Skipped", "Sent", "Failed"} \subseteq Mail!Rows
    BY DEF Mail!Rows, Mail!Terminal
  <2>2. QED
    BY <1>8, <1>9, <2>1
    DEF Mail!AlreadyTerminal, Mail!Suppress, Mail!Skip, Mail!Upsert,
        Mail!RollbackToSavepoint, InBatch,
        MailSending
<1>10. ASSUME NEW r \in Runs, Mail!ToSend(r) PROVE MailClaims'
  <2>1. /\ mailRun'[r].pc = "send" /\ mailRun'[r].next = mailRun[r].next
        /\ mailRun'[r].snapshot = mailRun[r].snapshot
        /\ \A q \in Runs \ {r} : mailRun'[q] = mailRun[q]
    BY <1>0, <1>10 DEF Mail!ToSend, RunType
  <2>2. /\ mailRun[r].pc = "recipient" /\ mailRun[r].next \in Mail!Recipients
        /\ mailRun[r].next \notin mailRun[r].snapshot
        /\ Mail!Row(r)' \notin Mail!Terminal
    BY <1>10, <2>1
    DEF Mail!ToSend, BatchInv, MailInRange, InBatch, Mail!Row, Mail!Local
  <2>3. ToCome(r)' >= ToCome(r) /\ mailRun[r].pc \in InBatch
    BY <2>1, <2>2 DEF ToCome, Mail!Recipients, InBatch
  <2>4. QED
    BY <1>0, <1>10, <2>1, <2>2, <2>3, QuietStep DEF Mail!ToSend, Mail!Local
\* The message: if it is late, it is the first late one for its recipient.
<1>11. ASSUME NEW r \in Runs, Mail!SendOk(r) \/ Mail!SendFails(r) PROVE MailClaims'
  <2>1. PICK n \in {0, 1} : Mail!Deliver(r, n)
    BY <1>11 DEF Mail!SendOk, Mail!SendFails
  <2>2. /\ mailRun[r].pc = "send" /\ Mail!Local
        /\ mailRun[r].next \in Mail!Recipients
        /\ mailRun[r].next \notin mailRun[r].snapshot
        /\ Mail!Row(r) \notin Mail!Terminal
    BY <1>11
    DEF Mail!SendOk, Mail!SendFails, BatchInv, MailInRange, InBatch,
        MailSending, NotSuppressed,
        MailUndecided
  <2>3. /\ mailRun'[r].pc \in {"Sent", "Failed"} /\ mailRun'[r].next = mailRun[r].next
        /\ mailRun'[r].snapshot = mailRun[r].snapshot
        /\ \A q \in Runs \ {r} : mailRun'[q] = mailRun[q]
    BY <1>0, <1>11 DEF Mail!SendOk, Mail!SendFails, RunType
  <2>4. \A q \in Runs \ {r} : mailRun[q].pc \notin MailInside
    BY <2>2, MailAlone DEF MailInside, InBatch, MailSending
  <2>5. late \in [Mail!Recipients -> Nat]
    BY DEF BatchInv, Mail!TypeOK
  <2>6. late[mailRun[r].next] = 0
    <3>1. ToCome(r) = mailRun[r].next /\ mailRun[r].next >= ToCome(r)
      BY <2>2 DEF ToCome, Mail!Recipients
    <3>2. ~(late[mailRun[r].next] > 0)
      BY <2>2, <3>1 DEF SnapshotKnowsLate, InBatch, MailSending
    <3>3. QED
      BY <2>2, <2>5, <3>2
  <2>7. /\ \A p \in Mail!Recipients \ {mailRun[r].next} : late'[p] = late[p]
        /\ late'[mailRun[r].next] \in {0, 1}
        /\ late'[mailRun[r].next] = 1 => mailRun[r].next \in suppressed
    BY <2>1, <2>2, <2>5, <2>6 DEF Mail!Deliver
  <2>8. MailUndecided' /\ NotSuppressed'
    BY <2>2, <2>3, <2>4
    DEF MailUndecided, NotSuppressed, Mail!Row, Mail!Local, MailInside,
        InBatch, MailSending
  <2>9. LateIsSuppressed' /\ Mail!OneLateMessage'
    BY <2>2, <2>7 DEF LateIsSuppressed, Mail!OneLateMessage, Mail!Local
  <2>10. SnapshotKnowsLate'
    <3> SUFFICES ASSUME NEW q \in Runs, mailRun'[q].pc \in InBatch,
                        NEW p \in Mail!Recipients, late'[p] > 0, p >= ToCome(q)'
                 PROVE  p \in mailRun'[q].snapshot
      BY DEF SnapshotKnowsLate
    <3>1. q = r
      BY <2>3, <2>4 DEF MailInside
    <3>2. p >= mailRun[r].next + 1
      BY <2>3, <3>1 DEF ToCome
    <3>3. p # mailRun[r].next /\ p >= ToCome(r)
      BY <2>2, <3>2 DEF ToCome, Mail!Recipients
    <3>4. late[p] > 0
      BY <2>7, <3>3
    <3>5. QED
      BY <2>2, <2>3, <3>1, <3>3, <3>4
      DEF SnapshotKnowsLate, InBatch, MailSending
  <2>11. QED
    BY <2>8, <2>9, <2>10 DEF MailClaims
<1>12. ASSUME NEW r \in Runs, Mail!CommitBatch(r) PROVE MailClaims'
  <2>1. /\ mailRun'[r].pc \in {"lookup", "done"}
        /\ \A q \in Runs \ {r} : mailRun'[q] = mailRun[q]
    BY <1>0, <1>12 DEF Mail!CommitBatch, Mail!Fresh, RunType
  <2>2. QED
    BY <1>2, <1>12, <2>1 DEF Mail!CommitBatch, MailInside, InBatch, MailSending
<1>13. CASE UNCHANGED Mail!vars
  BY <1>13
  DEF Mail!vars, Mail!messages, MailClaims, MailUndecided, Mail!Row,
      NotSuppressed, LateIsSuppressed,
      SnapshotKnowsLate, ToCome, Mail!OneLateMessage
<1>14. QED
  BY <1>1, <1>3, <1>4, <1>5, <1>6, <1>7, <1>9, <1>10, <1>11, <1>12, <1>13
  DEF Mail!Next, Mail!Step

LEMMA SendInvStep ==
  Mail!EmailAssumption /\ SendInv /\ [Mail!Next]_Mail!vars => SendInv'
  BY BatchStep, SendStep DEF SendInv, MailClaims

\* No recipient gets a second message after unsubscribing, whatever number of
\* runs, retries, crashes and lost answers.
THEOREM EmailOneLate ==
  Mail!EmailAssumption => (Mail!Spec => []Mail!OneLateMessage)
<1> SUFFICES ASSUME Mail!EmailAssumption PROVE Mail!Spec => []Mail!OneLateMessage
  OBVIOUS
<1>1. SendInv => Mail!OneLateMessage
  BY DEF SendInv
<1>2. QED
  BY SendInit, SendInvStep, <1>1, PTL DEF Mail!Spec

\* A committed row that forbids a message is overwritten by no batch, and no
\* message is sent over it.
LEMMA TerminalStep ==
  ASSUME Mail!EmailAssumption, SendInv, [Mail!Next]_Mail!vars,
         NEW p \in Mail!Recipients, committed[p] \in Mail!Terminal
  PROVE  committed'[p] = committed[p] /\ mailDelivered'[p] = mailDelivered[p]
<1> USE DEF SendInv
<1>1. ASSUME NEW r \in Runs, Mail!CommitBatch(r)
      PROVE  committed'[p] = committed[p] /\ mailDelivered'[p] = mailDelivered[p]
  BY <1>1 DEF Mail!CommitBatch, Mail!Upserted, Mail!messages
<1>2. ASSUME NEW r \in Runs, Mail!SendOk(r) \/ Mail!SendFails(r)
      PROVE  committed'[p] = committed[p] /\ mailDelivered'[p] = mailDelivered[p]
  <2>1. PICK n \in {0, 1} : Mail!Deliver(r, n)
    BY <1>2 DEF Mail!SendOk, Mail!SendFails
  <2>2. mailRun[r].pc \in MailSending
    BY <1>2 DEF Mail!SendOk, Mail!SendFails, MailSending
  <2>3. mailRun[r].next # p
    BY <2>2 DEF MailUndecided, Mail!Row
  <2>4. mailDelivered'[p] = mailDelivered[p]
    BY <2>1, <2>3 DEF Mail!Deliver, BatchInv, Mail!TypeOK
  <2>5. QED
    BY <1>2, <2>4 DEF Mail!SendOk, Mail!SendFails, Mail!Local
<1>3. QED
  BY <1>1, <1>2
  DEF Mail!Next, Mail!Step, Mail!vars, Mail!messages, Mail!Unsubscribe,
      Mail!SkippedLocked, Mail!Start, Mail!Raise,
      Mail!SuppressionLookup, Mail!AlreadyTerminal, Mail!Suppress, Mail!Skip, Mail!ToSend, Mail!Upsert,
      Mail!RollbackToSavepoint, Mail!Crash, Mail!Local

\* "Dagster retries never double-send": a recipient whose row is committed as
\* Sent or Suppressed gets no further message, and keeps the row.
THEOREM EmailNeverResent ==
  Mail!EmailAssumption => (Mail!Spec => Mail!TerminalNeverResent)
<1> SUFFICES ASSUME Mail!EmailAssumption PROVE Mail!Spec => Mail!TerminalNeverResent
  OBVIOUS
<1>1. SendInv /\ [Mail!Next]_Mail!vars =>
        [\A p \in Mail!Recipients :
           committed[p] \in Mail!Terminal =>
             committed'[p] = committed[p] /\ mailDelivered'[p] = mailDelivered[p]]_Mail!vars
  BY TerminalStep
<1>2. QED
  BY SendInit, SendInvStep, <1>1, PTL DEF Mail!Spec, Mail!TerminalNeverResent

-----------------------------------------------------------------------------
(***************************************************************************)
(* EmailDispatch implements DispatchLedger.  What is needed beyond         *)
(* SendInv: what a run has written in its open transaction, and is about   *)
(* to write, will be true when it commits.  d and s are the messages and   *)
(* the suppression list.                                                   *)
(***************************************************************************)
WrittenTruly(status, p, d, s) ==
  /\ status = "Sent" => d[p] > 0
  /\ status = "Suppressed" => p \in s
  /\ status = "Skipped" => p \in NoConsent
  /\ status = "Failed" => p \notin NoConsent

Honest(w, d, s) ==
  /\ w.pc \in MailSending => w.next \notin NoConsent
  /\ w.pc = "Sent" => d[w.next] > 0
  /\ w.snapshot \subseteq s
  /\ \A p \in Mail!Recipients : WrittenTruly(w.wrote[p], p, d, s)

AllHonest == \A r \in Runs : Honest(mailRun[r], mailDelivered, suppressed)

HonestInv == SendInv /\ AllHonest

\* Messages are not taken back, nor are unsubscribes.
LEMMA HonestLater ==
  ASSUME NEW w \in RunType, w.pc = "Sent" => w.next \in Mail!Recipients,
         NEW d \in [Mail!Recipients -> Nat], NEW e \in [Mail!Recipients -> Nat],
         \A p \in Mail!Recipients : e[p] >= d[p],
         NEW s, NEW t, s \subseteq t, Honest(w, d, s)
  PROVE  Honest(w, e, t)
<1>1. ASSUME NEW p \in Mail!Recipients, d[p] > 0 PROVE e[p] > 0
  BY <1>1
<1>2. ASSUME NEW p \in Mail!Recipients PROVE WrittenTruly(w.wrote[p], p, e, t)
  BY <1>1 DEF Honest, WrittenTruly
<1>3. QED
  BY <1>1, <1>2 DEF Honest

LEMMA FreshHonest ==
  ASSUME NEW tries, NEW pc \in {"queued", "lookup", "done"}, NEW d, NEW s
  PROVE  Honest(Mail!Fresh(tries, pc), d, s)
<1>1. /\ Mail!Fresh(tries, pc).pc = pc /\ Mail!Fresh(tries, pc).snapshot = {}
      /\ \A p \in Mail!Recipients : Mail!Fresh(tries, pc).wrote[p] = "absent"
  BY DEF Mail!Fresh, Mail!NoWrites
<1>2. QED
  BY <1>1 DEF Honest, WrittenTruly, MailSending

LEMMA HonestInit == Mail!EmailAssumption /\ Mail!Init => HonestInv
<1> SUFFICES ASSUME Mail!EmailAssumption, Mail!Init PROVE HonestInv
  OBVIOUS
<1>1. \A r \in Runs : mailRun[r] = Mail!Fresh(0, "queued")
  BY DEF Mail!Init
<1>2. QED
  BY <1>1, SendInit, FreshHonest DEF HonestInv, AllHonest

\* One run moves; the others have what they had.
LEMMA OneHonest ==
  ASSUME BatchInv, AllHonest, NEW r \in Runs,
         \A q \in Runs \ {r} : mailRun'[q] = mailRun[q],
         mailDelivered' \in [Mail!Recipients -> Nat],
         \A p \in Mail!Recipients : mailDelivered'[p] >= mailDelivered[p],
         suppressed \subseteq suppressed',
         Honest(mailRun'[r], mailDelivered', suppressed')
  PROVE  AllHonest'
<1>1. ASSUME NEW q \in Runs \ {r}
      PROVE  Honest(mailRun'[q], mailDelivered', suppressed')
  <2>1. /\ mailRun[q] \in RunType
        /\ mailRun[q].pc = "Sent" => mailRun[q].next \in Mail!Recipients
        /\ mailDelivered \in [Mail!Recipients -> Nat]
    BY DEF BatchInv, Mail!TypeOK, RunType, MailInRange, InBatch, MailSending
  <2>2. Honest(mailRun[q], mailDelivered, suppressed)
    BY DEF AllHonest
  <2>3. Honest(mailRun[q], mailDelivered', suppressed')
    BY <2>1, <2>2, HonestLater
  <2>4. QED
    BY <2>3
<1>2. QED
  BY <1>1 DEF AllHonest

\* The recipient is done with, and the row that is written about it is true.
LEMMA AdvanceHonest ==
  ASSUME Mail!EmailAssumption, HonestInv, NEW r \in Runs,
         mailRun[r].next \in Mail!Recipients,
         NEW entry \in Mail!Rows, Mail!Advance(r, entry),
         WrittenTruly(entry, mailRun[r].next, mailDelivered, suppressed),
         UNCHANGED <<mailDelivered, suppressed>>
  PROVE  AllHonest'
<1>1. BatchInv /\ AllHonest /\ Mail!TypeOK
  BY DEF HonestInv, SendInv, BatchInv
<1>2. /\ \A q \in Runs \ {r} : mailRun'[q] = mailRun[q]
      /\ mailRun'[r].pc \in {"recipient", "commit"}
      /\ mailRun'[r].snapshot = mailRun[r].snapshot
      /\ mailRun'[r].wrote = [mailRun[r].wrote EXCEPT ![mailRun[r].next] = entry]
  BY <1>1, Advanced
<1>3. /\ mailRun[r].wrote \in [Mail!Recipients -> Mail!Rows]
      /\ mailDelivered \in [Mail!Recipients -> Nat]
  BY <1>1 DEF Mail!TypeOK
<1>4. Honest(mailRun[r], mailDelivered, suppressed)
  BY <1>1 DEF AllHonest
<1>5. \A p \in Mail!Recipients :
        mailRun'[r].wrote[p] = IF p = mailRun[r].next THEN entry ELSE mailRun[r].wrote[p]
  BY <1>2, <1>3
<1>6. Honest(mailRun'[r], mailDelivered, suppressed)
  BY <1>2, <1>4, <1>5 DEF Honest, MailSending
<1>7. QED
  BY <1>1, <1>2, <1>3, <1>6, OneHonest

LEMMA HonestStep ==
  ASSUME Mail!EmailAssumption, HonestInv, [Mail!Next]_Mail!vars
  PROVE  AllHonest'
<1>0. /\ mailRun \in [Runs -> RunType] /\ BatchInv /\ AllHonest /\ Mail!TypeOK
      /\ mailDelivered \in [Mail!Recipients -> Nat]
  BY DEF HonestInv, SendInv, BatchInv, Mail!TypeOK, RunType
<1>1. \A p \in Mail!Recipients : mailDelivered[p] >= mailDelivered[p]
  BY <1>0
\* The run and no message.
<1>2. ASSUME NEW r \in Runs, \A q \in Runs \ {r} : mailRun'[q] = mailRun[q],
             UNCHANGED <<mailDelivered, suppressed>>,
             Honest(mailRun'[r], mailDelivered, suppressed)
      PROVE  AllHonest'
  BY <1>0, <1>1, <1>2, OneHonest
<1>3. ASSUME NEW r \in Runs, Mail!Start(r) \/ Mail!Raise(r) \/ Mail!Crash(r)
      PROVE  AllHonest'
  <2>1. /\ \A q \in Runs \ {r} : mailRun'[q] = mailRun[q]
        /\ UNCHANGED <<mailDelivered, suppressed>>
        /\ \E tries, pc : /\ pc \in {"queued", "lookup", "done"}
                          /\ mailRun'[r] = Mail!Fresh(tries, pc)
    BY <1>0, <1>3 DEF Mail!Start, Mail!Raise, Mail!RaisedRun, Mail!Crash, Mail!messages
  <2>2. QED
    BY <1>2, <2>1, FreshHonest
<1>4. ASSUME NEW r \in Runs, Mail!SkippedLocked(r) \/ Mail!SuppressionLookup(r)
      PROVE  AllHonest'
  <2>1. /\ \A q \in Runs \ {r} : mailRun'[q] = mailRun[q]
        /\ UNCHANGED <<mailDelivered, suppressed>>
        /\ mailRun'[r].pc \in {"done", "recipient"}
        /\ mailRun'[r].snapshot \in {mailRun[r].snapshot, suppressed}
        /\ mailRun'[r].wrote = mailRun[r].wrote
    BY <1>0, <1>4
    DEF Mail!SkippedLocked, Mail!SuppressionLookup, Mail!messages, Mail!Local, RunType
  <2>2. Honest(mailRun[r], mailDelivered, suppressed)
    BY <1>0 DEF AllHonest
  <2>3. Honest(mailRun'[r], mailDelivered, suppressed)
    BY <2>1, <2>2 DEF Honest, MailSending
  <2>4. QED
    BY <1>2, <2>1, <2>3
<1>5. ASSUME NEW r \in Runs, Mail!ToSend(r) PROVE AllHonest'
  <2>1. /\ \A q \in Runs \ {r} : mailRun'[q] = mailRun[q]
        /\ UNCHANGED <<mailDelivered, suppressed>>
        /\ mailRun'[r].pc = "send" /\ mailRun'[r].next = mailRun[r].next
        /\ mailRun'[r].snapshot = mailRun[r].snapshot
        /\ mailRun'[r].wrote = mailRun[r].wrote
        /\ mailRun[r].next \notin NoConsent
    BY <1>0, <1>5 DEF Mail!ToSend, Mail!messages, Mail!Local, RunType
  <2>2. Honest(mailRun[r], mailDelivered, suppressed)
    BY <1>0 DEF AllHonest
  <2>3. Honest(mailRun'[r], mailDelivered, suppressed)
    BY <2>1, <2>2 DEF Honest, MailSending
  <2>4. QED
    BY <1>2, <2>1, <2>3
<1>6. ASSUME NEW r \in Runs,
             \/ Mail!AlreadyTerminal(r) \/ Mail!Suppress(r) \/ Mail!Skip(r)
             \/ Mail!Upsert(r) \/ Mail!RollbackToSavepoint(r)
      PROVE  AllHonest'
  <2>1. Honest(mailRun[r], mailDelivered, suppressed)
    BY <1>0 DEF AllHonest
  <2>2. /\ mailRun[r].pc \in InBatch /\ UNCHANGED <<mailDelivered, suppressed>>
    BY <1>6 DEF Mail!AlreadyTerminal, Mail!Suppress, Mail!Skip, Mail!Upsert,
                Mail!RollbackToSavepoint, Mail!Local, Mail!messages, InBatch, MailSending
  <2>3. mailRun[r].next \in Mail!Recipients
    BY <1>0, <2>2 DEF BatchInv, MailInRange
  <2>4. PICK entry \in {"absent", "Suppressed", "Skipped", "Sent", "Failed"} :
          /\ Mail!Advance(r, entry)
          /\ entry = "Suppressed" => mailRun[r].next \in mailRun[r].snapshot
          /\ entry = "Skipped" => mailRun[r].next \in NoConsent
          /\ entry \in {"Sent", "Failed"} => mailRun[r].pc = entry
    BY <1>6 DEF Mail!AlreadyTerminal, Mail!Suppress, Mail!Skip, Mail!Upsert,
                Mail!RollbackToSavepoint
  <2>5. WrittenTruly(entry, mailRun[r].next, mailDelivered, suppressed)
    BY <2>1, <2>4 DEF WrittenTruly, Honest, MailSending
  <2>6. entry \in Mail!Rows
    BY DEF Mail!Rows, Mail!Terminal
  <2>7. QED
    BY <2>2, <2>3, <2>4, <2>5, <2>6, AdvanceHonest
<1>7. ASSUME NEW r \in Runs, Mail!SendOk(r) \/ Mail!SendFails(r) PROVE AllHonest'
  <2>1. PICK n \in {0, 1} : Mail!Deliver(r, n) /\ (Mail!SendOk(r) => n = 1)
    BY <1>7 DEF Mail!SendOk, Mail!SendFails
  <2>2. /\ mailRun[r].pc = "send" /\ UNCHANGED suppressed
        /\ \A q \in Runs \ {r} : mailRun'[q] = mailRun[q]
        /\ mailRun'[r].pc \in {"Sent", "Failed"}
        /\ mailRun'[r].pc = "Sent" => n = 1
        /\ mailRun'[r].next = mailRun[r].next
        /\ mailRun'[r].snapshot = mailRun[r].snapshot
        /\ mailRun'[r].wrote = mailRun[r].wrote
    BY <1>0, <1>7, <2>1 DEF Mail!SendOk, Mail!SendFails, Mail!Local, RunType
  <2>3. mailRun[r].next \in Mail!Recipients
    BY <1>0, <2>2 DEF BatchInv, MailInRange, InBatch, MailSending
  <2>4. /\ mailDelivered' \in [Mail!Recipients -> Nat]
        /\ mailDelivered'[mailRun[r].next] = mailDelivered[mailRun[r].next] + n
        /\ \A p \in Mail!Recipients : mailDelivered'[p] >= mailDelivered[p]
    BY <1>0, <2>1, <2>3 DEF Mail!Deliver
  <2>5. Honest(mailRun[r], mailDelivered, suppressed)
    BY <1>0 DEF AllHonest
  <2>6. Honest(mailRun[r], mailDelivered', suppressed)
    <3>1. mailRun[r] \in RunType /\ mailRun[r].pc # "Sent"
      BY <1>0, <2>2
    <3>2. QED
      BY <1>0, <2>4, <2>5, <3>1, HonestLater
  <2>7. mailRun'[r].pc = "Sent" => mailDelivered'[mailRun[r].next] > 0
    BY <1>0, <2>2, <2>3, <2>4
  <2>8. Honest(mailRun'[r], mailDelivered', suppressed')
    BY <2>2, <2>6, <2>7 DEF Honest, MailSending
  <2>9. suppressed \subseteq suppressed'
    BY <2>2
  <2>10. QED
    BY <1>0, <2>2, <2>4, <2>8, <2>9, OneHonest
<1>8. ASSUME NEW r \in Runs, Mail!CommitBatch(r) PROVE AllHonest'
  <2>1. /\ \A q \in Runs \ {r} : mailRun'[q] = mailRun[q]
        /\ UNCHANGED <<mailDelivered, suppressed>>
    BY <1>0, <1>8 DEF Mail!CommitBatch, Mail!messages
  <2>2. Honest(mailRun[r], mailDelivered, suppressed)
    BY <1>0 DEF AllHonest
  <2>3. CASE mailRun[r].next <= NRecipients
    <3>1. /\ mailRun'[r].pc = "lookup" /\ mailRun'[r].snapshot = mailRun[r].snapshot
          /\ mailRun'[r].wrote = Mail!NoWrites
      BY <1>0, <1>8, <2>3 DEF Mail!CommitBatch, RunType
    <3>2. Honest(mailRun'[r], mailDelivered, suppressed)
      BY <2>2, <3>1 DEF Honest, WrittenTruly, Mail!NoWrites, MailSending
    <3>3. QED
      BY <1>2, <2>1, <3>2
  <2>4. CASE ~ (mailRun[r].next <= NRecipients)
    <3>1. mailRun'[r] = Mail!Fresh(mailRun[r].tries, "done")
      BY <1>0, <1>8, <2>4 DEF Mail!CommitBatch
    <3>2. QED
      BY <1>2, <2>1, <3>1, FreshHonest
  <2>5. QED
    BY <2>3, <2>4
<1>9. ASSUME NEW p \in Mail!Recipients, Mail!Unsubscribe(p) PROVE AllHonest'
  <2>1. /\ UNCHANGED <<mailRun, mailDelivered>> /\ suppressed \subseteq suppressed'
    BY <1>9 DEF Mail!Unsubscribe, Mail!messages
  <2>2. ASSUME NEW q \in Runs PROVE Honest(mailRun[q], mailDelivered, suppressed')
    <3>1. /\ mailRun[q] \in RunType
          /\ mailRun[q].pc = "Sent" => mailRun[q].next \in Mail!Recipients
          /\ Honest(mailRun[q], mailDelivered, suppressed)
      BY <1>0 DEF BatchInv, MailInRange, InBatch, MailSending, AllHonest
    <3>2. QED
      BY <1>0, <1>1, <2>1, <3>1, HonestLater
  <2>3. QED
    BY <2>1, <2>2 DEF AllHonest
<1>10. CASE UNCHANGED Mail!vars
  BY <1>0, <1>10 DEF Mail!vars, Mail!messages, AllHonest
<1>11. QED
  BY <1>3, <1>4, <1>5, <1>6, <1>7, <1>8, <1>9, <1>10 DEF Mail!Next, Mail!Step

LEMMA HonestInvStep ==
  Mail!EmailAssumption /\ HonestInv /\ [Mail!Next]_Mail!vars => HonestInv'
  BY HonestStep, SendInvStep DEF HonestInv

-----------------------------------------------------------------------------
\* The commit of a batch is one of the ledger, a send is a message or nothing.
LEMMA MailLedgerStep ==
  ASSUME Mail!EmailAssumption, HonestInv, [Mail!Next]_Mail!vars
  PROVE  [Mail!Ledger!Next]_(Mail!Ledger!vars)
<1>0. /\ Mail!TypeOK /\ BatchInv /\ AllHonest /\ MailUndecided /\ Mail!TypeOK'
  BY BatchStep DEF HonestInv, SendInv, BatchInv
<1>1. ASSUME NEW r \in Runs, Mail!CommitBatch(r) PROVE Mail!Ledger!Commit
  <2>1. /\ committed' = Mail!Upserted(mailRun[r].wrote)
        /\ UNCHANGED <<suppressed, mailDelivered>>
    BY <1>1 DEF Mail!CommitBatch, Mail!messages
  <2>2. /\ mailRun[r].wrote \in [Mail!Recipients -> Mail!Rows]
        /\ committed \in [Mail!Recipients -> Mail!Rows]
        /\ committed' \in [Mail!Recipients -> Mail!Rows]
    BY <1>0 DEF Mail!TypeOK
  <2>3. ASSUME NEW p \in Mail!Recipients, committed'[p] # committed[p]
        PROVE  /\ committed[p] \notin Mail!Ledger!Decided
               /\ Mail!Ledger!May(p, committed'[p])
    <3>1. /\ mailRun[r].wrote[p] # "absent" /\ committed[p] \notin Mail!Terminal
          /\ committed'[p] = mailRun[r].wrote[p]
      BY <2>1, <2>3 DEF Mail!Upserted
    <3>2. committed'[p] \in {"Sent", "Suppressed", "Failed", "Skipped"}
      BY <2>2, <3>1 DEF Mail!Rows, Mail!Terminal
    <3>3. committed[p] \in Mail!Ledger!Open
      BY <2>2, <3>1 DEF Mail!Rows, Mail!Ledger!Open
    <3>4. WrittenTruly(committed'[p], p, mailDelivered, suppressed)
      BY <1>0, <3>1 DEF AllHonest, Honest
    <3>5. QED
      BY <3>1, <3>2, <3>3, <3>4
      DEF WrittenTruly, Mail!Ledger!May, Mail!Ledger!Decided, Mail!Terminal
  <2>4. committed' \in [Mail!Recipients ->
                          Mail!Ledger!Decided \cup Mail!Ledger!Open \cup {"Sending"}]
    BY <2>2 DEF Mail!Rows, Mail!Terminal, Mail!Ledger!Decided, Mail!Ledger!Open
  <2>5. QED
    BY <2>1, <2>3, <2>4 DEF Mail!Ledger!Commit
<1>2. ASSUME NEW r \in Runs, Mail!SendOk(r) \/ Mail!SendFails(r)
      PROVE  [Mail!Ledger!Next]_(Mail!Ledger!vars)
  <2>1. PICK n \in {0, 1} : Mail!Deliver(r, n)
    BY <1>2 DEF Mail!SendOk, Mail!SendFails
  <2>2. mailRun[r].pc = "send" /\ UNCHANGED <<suppressed, committed>>
    BY <1>2 DEF Mail!SendOk, Mail!SendFails, Mail!Local
  <2>3. /\ mailRun[r].next \in Mail!Recipients
        /\ mailRun[r].next \notin NoConsent
        /\ committed[mailRun[r].next] \in Mail!Ledger!Open
        /\ mailDelivered \in [Mail!Recipients -> Nat]
    BY <1>0, <2>2
    DEF BatchInv, MailInRange, InBatch, MailSending, AllHonest, Honest,
        MailUndecided, Mail!Row, Mail!TypeOK, Mail!Rows, Mail!Ledger!Open
  <2>4. CASE n = 0
    <3>1. mailDelivered' = mailDelivered
      BY <2>1, <2>3, <2>4 DEF Mail!Deliver
    <3>2. QED
      BY <2>2, <3>1 DEF Mail!Ledger!vars
  <2>5. CASE n = 1
    <3>1. mailDelivered' = [mailDelivered EXCEPT ![mailRun[r].next] = @ + 1]
      BY <2>1, <2>5 DEF Mail!Deliver
    <3>2. Mail!Ledger!Deliver(mailRun[r].next)
      BY <2>2, <2>3, <3>1 DEF Mail!Ledger!Deliver
    <3>3. QED
      BY <2>3, <3>2 DEF Mail!Ledger!Next
  <2>6. QED
    BY <2>4, <2>5
<1>3. ASSUME NEW p \in Mail!Recipients, Mail!Unsubscribe(p)
      PROVE  Mail!Ledger!Next
  BY <1>3 DEF Mail!Unsubscribe, Mail!messages, Mail!Ledger!Unsubscribe, Mail!Ledger!Next
<1>4. ASSUME NEW r \in Runs,
             \/ Mail!SkippedLocked(r) \/ Mail!Start(r) \/ Mail!Raise(r)
             \/ Mail!SuppressionLookup(r) \/ Mail!AlreadyTerminal(r)
             \/ Mail!Suppress(r) \/ Mail!Skip(r) \/ Mail!ToSend(r) \/ Mail!Upsert(r)
             \/ Mail!RollbackToSavepoint(r) \/ Mail!Crash(r)
      PROVE  UNCHANGED Mail!Ledger!vars
  BY <1>4
  DEF Mail!SkippedLocked, Mail!Start, Mail!Raise, Mail!SuppressionLookup,
      Mail!AlreadyTerminal, Mail!Suppress, Mail!Skip, Mail!ToSend, Mail!Upsert,
      Mail!RollbackToSavepoint, Mail!Crash, Mail!Local, Mail!messages,
      Mail!Ledger!vars
<1>5. CASE UNCHANGED Mail!vars
  BY <1>5 DEF Mail!vars, Mail!messages, Mail!Ledger!vars
<1>6. QED
  BY <1>1, <1>2, <1>3, <1>4, <1>5 DEF Mail!Next, Mail!Step, Mail!Ledger!Next

\* The batches, savepoints, locks and retries of the e-mail engine together are a
\* ledger whose every commit tells the truth and after which a decided recipient
\* gets no message, also when a reported failure may have been a delivery.
THEOREM EmailImplementsLedger ==
  Mail!EmailAssumption => (Mail!Spec => Mail!ImplementsDispatchLedger)
<1> SUFFICES ASSUME Mail!EmailAssumption
             PROVE  Mail!Spec => Mail!ImplementsDispatchLedger
  OBVIOUS
<1>1. Mail!Init => Mail!Ledger!Init
  BY DEF Mail!Init, Mail!Ledger!Init
<1>2. HonestInv /\ [Mail!Next]_Mail!vars => [Mail!Ledger!Next]_(Mail!Ledger!vars)
  BY MailLedgerStep
<1>3. QED
  BY HonestInit, HonestInvStep, <1>1, <1>2, PTL
  DEF Mail!Spec, Mail!ImplementsDispatchLedger, Mail!Ledger!Spec
=============================================================================
