--------------------------- MODULE BufferedTracking ---------------------------
(***************************************************************************)
(* The in-process alternative to the Redis stream in customer360-event-api *)
(* (core/buffered_storage.py, TRACKING_QUEUE_BACKEND=memory): request      *)
(* threads put batches into a bounded Queue, one worker thread moves them  *)
(* to a pending list and flushes that list to S3 when it is long enough or *)
(* old enough, and close() drains both.                                    *)
(***************************************************************************)
EXTENDS Naturals, Sequences

CONSTANTS
  Batches,      \* the batches posted, each once
  Handlers,     \* request threads
  QueueSize,    \* max_queue_size
  FlushBatch,   \* flush_batch_size
  S3MayFail,    \* may store_prebuilt_tracking_object raise?
  None

ASSUME BufferAssumption ==
  /\ QueueSize \in Nat \ {0}
  /\ FlushBatch \in Nat \ {0}
  /\ S3MayFail \in BOOLEAN
  /\ None \notin Batches

VARIABLES
  queue,      \* self._queue
  pending,    \* self._pending, the worker's deque
  closed,     \* self._closed
  stop,       \* self._stop_event
  holds,      \* [Handlers -> batch that passed the closed check, or None]
  closer,     \* the thread in close(): "before", "stopping", "joining", "left"
  pc,         \* the worker thread
  puts,       \* history: batches put into the queue and answered, in order
  flushed     \* history: batches store_prebuilt_tracking_object returned for

vars == <<queue, pending, closed, stop, holds, closer, pc, puts, flushed>>
handlerVars == <<holds, puts>>
closeVars == <<closed, stop, closer>>

Init ==
  /\ queue = <<>>
  /\ pending = <<>>
  /\ closed = FALSE
  /\ stop = FALSE
  /\ holds = [h \in Handlers |-> None]
  /\ closer = "before"
  /\ pc = "loop"
  /\ puts = <<>>
  /\ flushed = <<>>

Elements(s) == {s[i] : i \in DOMAIN s}
Posted == Elements(puts) \cup Elements(holds)

(***************************************************************************)
(* store_tracking_logs: the closed flag is read under the lock, the queue  *)
(* is filled after the lock is released.                                   *)
(***************************************************************************)
CheckOpen(h, b) ==
  /\ closer # "left"
  /\ holds[h] = None
  /\ b \notin Posted
  /\ ~closed
  /\ holds' = [holds EXCEPT ![h] = b]
  /\ UNCHANGED <<queue, pending, closeVars, pc, puts, flushed>>

PutNowait(h) ==
  /\ closer # "left"
  /\ holds[h] # None
  /\ Len(queue) < QueueSize
  /\ queue' = Append(queue, holds[h])
  /\ puts' = Append(puts, holds[h])
  /\ holds' = [holds EXCEPT ![h] = None]
  /\ UNCHANGED <<pending, closeVars, pc, flushed>>

\* TrackingQueueFullError: the batch is rejected.
PutFull(h) ==
  /\ closer # "left"
  /\ holds[h] # None
  /\ Len(queue) >= QueueSize
  /\ holds' = [holds EXCEPT ![h] = None]
  /\ UNCHANGED <<queue, pending, closeVars, pc, puts, flushed>>

(***************************************************************************)
(* close(), then the end of the process.                                   *)
(***************************************************************************)
CloseSetFlag ==
  /\ closer = "before"
  /\ closed' = TRUE
  /\ closer' = "stopping"
  /\ UNCHANGED <<queue, pending, stop, handlerVars, pc, flushed>>

CloseSetStop ==
  /\ closer = "stopping"
  /\ stop' = TRUE
  /\ closer' = "joining"
  /\ UNCHANGED <<queue, pending, closed, handlerVars, pc, flushed>>

\* join() returns: the worker ended, or the timeout passed and the daemon
\* thread dies with the process.
CloseJoin ==
  /\ closer = "joining"
  /\ closer' = "left"
  /\ pc' = "ended"
  /\ UNCHANGED <<queue, pending, closed, stop, handlerVars, flushed>>

(***************************************************************************)
(* The worker: _run.                                                       *)
(***************************************************************************)
WorkerOnly == UNCHANGED <<closeVars, handlerVars>>

\* Mutant: the loop is not left while something is pending.
LoopUntilFlushed ==
  /\ pc = "loop"
  /\ pc' = IF stop /\ pending = <<>> THEN "drain" ELSE "get"
  /\ WorkerOnly /\ UNCHANGED <<queue, pending, flushed>>

LoopTest ==
  /\ pc = "loop"
  /\ pc' = IF stop THEN "drain" ELSE "get"
  /\ WorkerOnly /\ UNCHANGED <<queue, pending, flushed>>

\* get() returns an item; the list may now be long enough to be flushed.
GetItem ==
  /\ pc = "get"
  /\ queue # <<>>
  /\ pending' = Append(pending, Head(queue))
  /\ queue' = Tail(queue)
  /\ pc' = IF Len(pending') >= FlushBatch THEN "flushFull" ELSE "timer"
  /\ WorkerOnly /\ UNCHANGED flushed

GetTimeout ==
  /\ pc = "get"
  /\ queue = <<>>
  /\ pc' = "timer"
  /\ WorkerOnly /\ UNCHANGED <<queue, pending, flushed>>

\* Mutant: only a full list is flushed.
TimerNeverDue == FALSE /\ UNCHANGED vars

\* flush_interval_seconds have, or have not, passed since the last flush.
TimerDue ==
  /\ pc = "timer"
  /\ pending # <<>>
  /\ pc' = "flushTimer"
  /\ WorkerOnly /\ UNCHANGED <<queue, pending, flushed>>

TimerNotDue ==
  /\ pc = "timer"
  /\ pc' = "loop"
  /\ WorkerOnly /\ UNCHANGED <<queue, pending, flushed>>

Drain ==
  /\ pc = "drain"
  /\ IF queue = <<>>
     THEN pc' = "flushLast" /\ UNCHANGED <<queue, pending>>
     ELSE /\ pending' = Append(pending, Head(queue))
          /\ queue' = Tail(queue)
          /\ UNCHANGED pc
  /\ WorkerOnly /\ UNCHANGED flushed

(***************************************************************************)
(* _flush_pending_once, called from three places; AfterFlush says where   *)
(* _run goes on when it returns, all flushed or at the first failure.      *)
(***************************************************************************)
AfterFlush ==
  [flushFull |-> "timer", flushTimer |-> "loop", flushLast |-> "ended"]

FlushOne ==
  /\ pc \in DOMAIN AfterFlush
  /\ pending # <<>>
  /\ flushed' = Append(flushed, Head(pending))
  /\ pending' = Tail(pending)
  /\ WorkerOnly /\ UNCHANGED <<queue, pc>>

FlushDone ==
  /\ pc \in DOMAIN AfterFlush
  /\ pending = <<>>
  /\ pc' = AfterFlush[pc]
  /\ WorkerOnly /\ UNCHANGED <<queue, pending, flushed>>

\* Mutant: the batch leaves the list before it is stored.
FlushFailsDropping ==
  /\ S3MayFail
  /\ pc \in DOMAIN AfterFlush
  /\ pending # <<>>
  /\ pending' = Tail(pending)
  /\ pc' = AfterFlush[pc]
  /\ WorkerOnly /\ UNCHANGED <<queue, flushed>>

FlushFails ==
  /\ S3MayFail
  /\ pc \in DOMAIN AfterFlush
  /\ pending # <<>>
  /\ pc' = AfterFlush[pc]
  /\ WorkerOnly /\ UNCHANGED <<queue, pending, flushed>>

-----------------------------------------------------------------------------
WorkerStep ==
  \/ LoopTest \/ GetItem \/ GetTimeout \/ TimerDue \/ TimerNotDue \/ Drain
  \/ FlushOne \/ FlushDone \/ FlushFails

Closing == CloseSetFlag \/ CloseSetStop \/ CloseJoin

\* The process has ended; nothing more happens.
Ended == closer = "left" /\ UNCHANGED vars

Next ==
  \/ \E h \in Handlers :
       (\E b \in Batches : CheckOpen(h, b)) \/ PutNowait(h) \/ PutFull(h)
  \/ Closing
  \/ WorkerStep
  \/ Ended

Spec == Init /\ [][Next]_vars

(***************************************************************************)
(* Fairness: the worker thread is scheduled, and a flush interval that     *)
(* passes again and again is noticed.  S3 promises nothing, and the join   *)
(* timeout is not forced.                                                  *)
(***************************************************************************)
Fairness == WF_vars(WorkerStep) /\ SF_vars(TimerDue)

FairSpec == Spec /\ Fairness

-----------------------------------------------------------------------------
(* Properties                                                              *)

WorkerPCs == {"loop", "get", "timer", "drain", "ended"} \cup DOMAIN AfterFlush

\* The types, the queue within its bound.
TypeOK ==
  /\ queue \in Seq(Batches) /\ Len(queue) <= QueueSize
  /\ pending \in Seq(Batches)
  /\ closed \in BOOLEAN /\ stop \in BOOLEAN
  /\ holds \in [Handlers -> Batches \cup {None}]
  /\ closer \in {"before", "stopping", "joining", "left"}
  /\ pc \in WorkerPCs
  /\ puts \in Seq(Batches)
  /\ flushed \in Seq(Batches)

\* "Flush all currently pending objects in FIFO order": whatever fails, and
\* also after close(), the batches answered are exactly those flushed, then
\* those pending, then those queued, in the order of their arrival.
FifoConserved == puts = flushed \o pending \o queue

\* close(): "Stop the worker and flush all remaining queued tracking logs":
\* when the worker ended by itself and S3 never failed, every answered batch
\* was flushed.
CloseFlushesAll ==
  pc = "ended" /\ closer # "left" => Elements(puts) \subseteq Elements(flushed)

\* While the service is not closed and a write that is tried again and again
\* succeeds, an answered batch is flushed in the end.
EventuallyFlushed ==
  SF_vars(FlushOne) =>
    \A b \in Batches : b \in Elements(puts) ~> (b \in Elements(flushed) \/ closed)

\* Shutdown never hangs on a dead S3: once stopped, the worker thread ends,
\* whatever is still being put and however often a write fails.
StopEndsWorker == stop ~> pc = "ended"
=============================================================================
