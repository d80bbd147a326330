---------------------------- MODULE TrackingStream ----------------------------
(***************************************************************************)
(* The durable hand-off of tracking batches in customer360-event-api:      *)
(* HTTP handlers publish a batch to a Redis Stream (core/redis_queue.py)   *)
(* and answer 202; worker threads, one per API process, read the stream    *)
(* through a consumer group, write each batch to S3 as an object followed  *)
(* by a "processed" marker (core/storage.py), then acknowledge and delete  *)
(* the stream entry.                                                       *)
(*                                                                         *)
(* One step is one round trip to Redis or S3.  Time is a coarse clock,     *)
(* because the object key contains the hour of receipt and the             *)
(* idempotency key has a time to live.                                     *)
(***************************************************************************)
EXTENDS Naturals, FiniteSets

CONSTANTS
  Batches,        \* batches of events a client may post (and post again)
  Handlers,       \* concurrent HTTP request handlers
  Workers,        \* flusher threads
  ConsumerOf,     \* [Workers -> consumer name]; hostname + pid
  Unstorable,     \* batches S3ObjectStorage refuses: object over the size
                  \* limit, or bucket neither present nor auto-created
  MaxLen,         \* max_stream_length
  BatchSize,      \* flush_batch_size
  TicksPerHour,   \* clock ticks in one object folder
  IdemTTL,        \* idempotency_ttl_seconds, in ticks
  MaxDelay,       \* longest time, in ticks, from receipt to publication: the
                  \* Redis client has a socket timeout
  Restarted,      \* workers the deployment restarts after a crash
  MaxMessages,    \* bound on XADDs
  MaxClock,       \* bound on the clock
  None

ASSUME ConstantsAssumption ==
  /\ MaxLen \in Nat \ {0}
  /\ BatchSize \in Nat \ {0}
  /\ TicksPerHour \in Nat \ {0}
  /\ IdemTTL \in Nat \ {0}
  /\ MaxDelay \in Nat
  /\ MaxMessages \in Nat
  /\ MaxClock \in Nat
  /\ Unstorable \subseteq Batches
  /\ Restarted \subseteq Workers

Times == 0..MaxClock
Hour(t) == t \div TicksPerHour

\* What build_tracking_object packs: the object's bytes are determined by the
\* batch and received_at, its key by the batch and the hour of received_at.
Payload == [batch: Batches, at: Times]
KeyOf(p) == <<p.batch, Hour(p.at)>>
Keys == Batches \X {Hour(t) : t \in Times}

Ids == 1..MaxMessages          \* stream entry ids, in XADD order
Consumers == {ConsumerOf[w] : w \in Workers}

ASSUME NoneAssumption ==
  /\ None \notin Payload
  /\ None \notin Consumers
  /\ \A i \in Ids, t \in 0..(MaxClock + IdemTTL) : None # [id |-> i, expires |-> t]

VARIABLES
  clock,
  request,        \* [Handlers -> Payload or None]: built, not yet published
  payload,        \* [Ids -> Payload or None]: the payload of each XADD
  nextId,         \* next stream id
  stream,         \* entries present in the stream (XLEN counts them)
  lastDelivered,  \* the group's last-delivered id
  owner,          \* the group's pending entries list: [Ids -> consumer or None]
  idem,           \* idempotency keys: [Keys -> [id, expires] or None]
  accepted,       \* history: ids returned to a client in a 202
  pc,             \* where each worker thread is
  todo,           \* what is left of the list of messages a worker has read
  objects,        \* S3: [Keys -> body or None]
  markers         \* S3: [Keys -> body whose sha256 the marker has, or None]

redisVars == <<payload, nextId, stream, lastDelivered, owner, idem>>
s3Vars == <<objects, markers>>
workerVars == <<pc, todo>>
clientVars == <<request, accepted>>
vars == <<clock, redisVars, s3Vars, workerVars, clientVars>>

-----------------------------------------------------------------------------
(* Helper state formulae                                                   *)

Pending == {i \in Ids : owner[i] # None}
Undelivered == {i \in stream : i > lastDelivered}
Key(i) == KeyOf(payload[i])

\* Mutants of Live: the time to live is one tick short; the GET is left out.
LiveShort(k) == idem[k] # None /\ clock + 1 < idem[k].expires
LiveNever(k) == FALSE

\* GET of an idempotency key: a key past its expiry is gone.
Live(k) == idem[k] # None /\ clock < idem[k].expires

\* The first BatchSize entries of S, in stream order (COUNT).
FirstOf(S) == {i \in S : Cardinality({j \in S : j < i}) < BatchSize}

\* S3ObjectStorage raises before it writes anything: the body is too large or
\* _ensure_bucket finds no bucket and may not create it.
Refused(i) == payload[i].batch \in Unstorable

MarkerExists(k) == markers[k] # None

\* i is the message of the list that w is working on.
Current(w, i) == i \in todo[w] /\ \A j \in todo[w] : i <= j

-----------------------------------------------------------------------------
Init ==
  /\ clock = 0
  /\ request = [h \in Handlers |-> None]
  /\ payload = [i \in Ids |-> None]
  /\ nextId = 1
  /\ stream = {}
  /\ lastDelivered = 0
  /\ owner = [i \in Ids |-> None]
  /\ idem = [k \in Keys |-> None]
  /\ accepted = {}
  /\ pc = [w \in Workers |-> "readOwn"]
  /\ todo = [w \in Workers |-> {}]
  /\ objects = [k \in Keys |-> None]
  /\ markers = [k \in Keys |-> None]

(***************************************************************************)
(* The HTTP side.                                                          *)
(***************************************************************************)

\* TrackingLogService.ingest takes received_at and build_tracking_object fixes
\* the key and the body.  A retry by the client is another Receive of b.
Receive(h, b) ==
  /\ request[h] = None
  /\ request' = [request EXCEPT ![h] = [batch |-> b, at |-> clock]]
  /\ UNCHANGED <<clock, redisVars, s3Vars, workerVars, accepted>>

\* The publish script finds the idempotency key and returns the earlier id.
\* If the reply is lost the handler answers 503.
PublishExisting(h, reply) ==
  LET k == KeyOf(request[h]) IN
  /\ request[h] # None
  /\ Live(k)
  /\ accepted' = IF reply THEN accepted \cup {idem[k].id} ELSE accepted
  /\ request' = [request EXCEPT ![h] = None]
  /\ UNCHANGED <<clock, redisVars, s3Vars, workerVars>>

\* TRACKING_STREAM_FULL: the handler answers 503.
PublishFull(h) ==
  /\ request[h] # None
  /\ ~Live(KeyOf(request[h]))
  /\ Cardinality(stream) >= MaxLen
  /\ request' = [request EXCEPT ![h] = None]
  /\ UNCHANGED <<clock, redisVars, s3Vars, workerVars, accepted>>

\* XADD and SET ... EX, in one script.
PublishNew(h, reply) ==
  LET k == KeyOf(request[h]) IN
  /\ request[h] # None
  /\ ~Live(k)
  /\ Cardinality(stream) < MaxLen
  /\ nextId \in Ids                                  \* bound: MaxMessages
  /\ payload' = [payload EXCEPT ![nextId] = request[h]]
  /\ stream' = stream \cup {nextId}
  /\ idem' = [idem EXCEPT ![k] = [id |-> nextId, expires |-> clock + IdemTTL]]
  /\ nextId' = nextId + 1
  /\ accepted' = IF reply THEN accepted \cup {nextId} ELSE accepted
  /\ request' = [request EXCEPT ![h] = None]
  /\ UNCHANGED <<clock, lastDelivered, owner, s3Vars, workerVars>>

\* The script did not run (RedisError): the handler answers 503.
PublishUnavailable(h) ==
  /\ request[h] # None
  /\ request' = [request EXCEPT ![h] = None]
  /\ UNCHANGED <<clock, redisVars, s3Vars, workerVars, accepted>>

(***************************************************************************)
(* The worker: RedisStreamTrackingStorage._run.                            *)
(***************************************************************************)

Goto(w, l) == pc' = [pc EXCEPT ![w] = l]

\* A non-empty reply S starts _process_messages; an empty one goes on to l.
Take(w, S, l) ==
  /\ todo' = [todo EXCEPT ![w] = S]
  /\ Goto(w, IF S = {} THEN l ELSE "head")

\* Redis delivers the entries S to w: they enter its consumer's pending list.
Deliver(w, S) ==
  owner' = [i \in Ids |-> IF i \in S THEN ConsumerOf[w] ELSE owner[i]]

\* Mutant: a worker does not read what its consumer name has left pending.
ReadOwnSkips(w) ==
  /\ pc[w] = "readOwn"
  /\ Take(w, {}, "readNew")
  /\ UNCHANGED <<clock, redisVars, s3Vars, clientVars>>

\* _read_pending, XREADGROUP with id 0: the consumer's own pending entries.
\* Redis answers with the stream and its entries, [[stream, []]] when there are
\* none, which is true in "if pending": the method always returns here, and the
\* XAUTOCLAIM of other consumers' idle entries below it is never reached.
ReadOwn(w) ==
  LET S == FirstOf({i \in Ids : owner[i] = ConsumerOf[w]}) IN
  /\ pc[w] = "readOwn"
  /\ Take(w, S, "readNew")
  /\ Deliver(w, S)
  /\ UNCHANGED <<clock, payload, nextId, stream, lastDelivered, idem,
                 s3Vars, clientVars>>

\* _read_new_messages, XREADGROUP with id ">".
ReadNew(w) ==
  LET S == FirstOf(Undelivered) IN
  /\ pc[w] = "readNew"
  /\ Take(w, S, "readOwn")
  /\ Deliver(w, S)
  /\ \E m \in {lastDelivered} \cup S :
       (\A i \in S : i <= m) /\ lastDelivered' = m
  /\ UNCHANGED <<clock, payload, nextId, stream, idem, s3Vars, clientVars>>

\* Mutant: the HEAD asks for the object instead of the marker.
HeadObject(w, i) ==
  /\ pc[w] = "head"
  /\ Current(w, i)
  /\ ~Refused(i)
  /\ Goto(w, IF objects[Key(i)] # None THEN "ack" ELSE "put")
  /\ UNCHANGED <<clock, redisVars, s3Vars, todo, clientVars>>

\* store_prebuilt_tracking_object up to the HEAD of the processed marker.
HeadMarker(w, i) ==
  /\ pc[w] = "head"
  /\ Current(w, i)
  /\ ~Refused(i)
  /\ Goto(w, IF MarkerExists(Key(i)) THEN "ack" ELSE "put")
  /\ UNCHANGED <<clock, redisVars, s3Vars, todo, clientVars>>

PutObject(w, i) ==
  /\ pc[w] = "put"
  /\ Current(w, i)
  /\ objects' = [objects EXCEPT ![Key(i)] = payload[i]]
  /\ Goto(w, "mark")
  /\ UNCHANGED <<clock, redisVars, markers, todo, clientVars>>

WriteMarker(w, i) ==
  /\ pc[w] = "mark"
  /\ Current(w, i)
  /\ markers' = [markers EXCEPT ![Key(i)] = payload[i]]
  /\ Goto(w, "ack")
  /\ UNCHANGED <<clock, redisVars, objects, todo, clientVars>>

\* Mutant: XDEL before XACK.
XDelFirst(w, i) ==
  /\ pc[w] = "ack"
  /\ Current(w, i)
  /\ stream' = stream \ {i}
  /\ Goto(w, "del")
  /\ UNCHANGED <<clock, payload, nextId, lastDelivered, owner, idem,
                 s3Vars, todo, clientVars>>

\* XACK takes the entry out of the pending list, whoever owns it.
XAck(w, i) ==
  /\ pc[w] = "ack"
  /\ Current(w, i)
  /\ owner' = [owner EXCEPT ![i] = None]
  /\ Goto(w, "del")
  /\ UNCHANGED <<clock, payload, nextId, stream, lastDelivered, idem,
                 s3Vars, todo, clientVars>>

XDel(w, i) ==
  /\ pc[w] = "del"
  /\ Current(w, i)
  /\ stream' = stream \ {i}
  /\ Take(w, todo[w] \ {i}, "readOwn")
  /\ UNCHANGED <<clock, payload, nextId, lastDelivered, owner, idem,
                 s3Vars, clientVars>>

\* A refused batch raises before anything is written: _process_messages gives
\* up the rest of the list and the worker starts over after retry_seconds.
Refuse(w, i) ==
  /\ pc[w] = "head"
  /\ Current(w, i)
  /\ Refused(i)
  /\ Take(w, {}, "readOwn")
  /\ UNCHANGED <<clock, redisVars, s3Vars, clientVars>>

\* Mutant: the error path acknowledges what it could not store.
AbandonAcks(w) ==
  /\ pc[w] \notin {"readOwn", "down"}
  /\ owner' = [i \in Ids |-> IF Current(w, i) THEN None ELSE owner[i]]
  /\ Take(w, {}, "readOwn")
  /\ UNCHANGED <<clock, payload, nextId, stream, lastDelivered, idem,
                 s3Vars, clientVars>>

\* A Redis or S3 call raises.  Whether the call took effect does not matter
\* here: an effect whose reply is lost is that call's own step, then this one.
Abandon(w) ==
  /\ pc[w] \notin {"readOwn", "down"}
  /\ Take(w, {}, "readOwn")
  /\ UNCHANGED <<clock, redisVars, s3Vars, clientVars>>

\* The process dies, or close() stops waiting for the daemon thread.
Crash(w) ==
  /\ pc[w] # "down"
  /\ Take(w, {}, "down")
  /\ UNCHANGED <<clock, redisVars, s3Vars, clientVars>>

Restart(w) ==
  /\ pc[w] = "down"
  /\ Goto(w, "readOwn")
  /\ UNCHANGED <<clock, redisVars, s3Vars, todo, clientVars>>

(***************************************************************************)
(* Time.                                                                   *)
(***************************************************************************)

\* No handler holds a built batch for longer than MaxDelay.
Tick ==
  /\ clock < MaxClock
  /\ \A h \in Handlers : request[h] # None => clock < request[h].at + MaxDelay
  /\ clock' = clock + 1
  /\ UNCHANGED <<redisVars, s3Vars, workerVars, clientVars>>

-----------------------------------------------------------------------------
HandlerStep(h) ==
  \/ \E b \in Batches : Receive(h, b)
  \/ \E reply \in BOOLEAN : PublishExisting(h, reply)
  \/ \E reply \in BOOLEAN : PublishNew(h, reply)
  \/ PublishFull(h)
  \/ PublishUnavailable(h)

ReadStep(w) == ReadOwn(w) \/ ReadNew(w)

WorkerStep(w) ==
  \/ ReadStep(w)
  \/ \E i \in Ids :
       \/ HeadMarker(w, i) \/ PutObject(w, i) \/ WriteMarker(w, i)
       \/ XAck(w, i) \/ XDel(w, i) \/ Refuse(w, i)
  \/ Abandon(w)
  \/ Crash(w)
  \/ Restart(w)

Next ==
  \/ \E h \in Handlers : HandlerStep(h)
  \/ \E w \in Workers : WorkerStep(w)
  \/ Tick

Spec == Init /\ [][Next]_vars

(***************************************************************************)
(* Fairness.  Threads are scheduled; time passes; some workers come back   *)
(* after a crash; and from some time on neither Redis nor S3 fails a call  *)
(* and no process dies.  Clients promise nothing.                          *)
(***************************************************************************)
Progress(w) ==
  \/ ReadStep(w)
  \/ \E i \in Ids :
       \/ HeadMarker(w, i) \/ PutObject(w, i) \/ WriteMarker(w, i)
       \/ XAck(w, i) \/ XDel(w, i) \/ Refuse(w, i)

\* (Giving up a list can look like the normal end of one, hence Progress.)
FaultsCease ==
  <>[][\A w \in Workers : Abandon(w) \/ Crash(w) => Progress(w)]_vars

Fairness ==
  /\ \A w \in Workers : WF_vars(Progress(w))
  /\ \A w \in Restarted : WF_vars(Restart(w))

FairSpec == Spec /\ Fairness /\ FaultsCease

-----------------------------------------------------------------------------
(* Properties                                                              *)

PCs == {"readOwn", "readNew", "head", "put", "mark", "ack", "del", "down"}

UsedIds == {i \in Ids : i < nextId}

\* The type of every variable; Redis and the clients only know published ids.
TypeOK ==
  /\ clock \in Times
  /\ request \in [Handlers -> Payload \cup {None}]
  /\ payload \in [Ids -> Payload \cup {None}]
  /\ nextId \in 1..(MaxMessages + 1)
  /\ stream \subseteq UsedIds
  /\ lastDelivered \in 0..MaxMessages
  /\ owner \in [Ids -> Consumers \cup {None}]
  /\ idem \in [Keys -> [id: UsedIds, expires: 0..(MaxClock + IdemTTL)] \cup {None}]
  /\ accepted \subseteq UsedIds
  /\ pc \in [Workers -> PCs]
  /\ todo \in [Workers -> SUBSET Ids]
  /\ objects \in [Keys -> Payload \cup {None}]
  /\ markers \in [Keys -> Payload \cup {None}]

Stored(k) == objects[k] # None /\ markers[k] # None

\* A batch answered with 202 is never lost, whatever fails and whoever dies:
\* until its object and its marker are in S3 its entry can still be read by a
\* worker, as a new entry or from the pending list.  (The acknowledgement in
\* _process_messages comes after store_prebuilt_tracking_object returns.)
NoAcceptedBatchLost ==
  \A i \in accepted : i \in Undelivered \cup Pending \/ Stored(Key(i))

\* The pending list never refers to an entry that XDEL removed, although
\* several workers may process, acknowledge and delete the same entry: such an
\* entry would come back without a payload and could never be stored.
PendingInStream == Pending \subseteq stream

\* A processed marker is only ever beside the object whose sha256 it records.
MarkerDescribesObject ==
  \A k \in Keys : markers[k] # None => objects[k] = markers[k]

\* "Batches are immutable objects": an object in S3 is never replaced by
\* different bytes, even when stalled workers that share entries write it twice.
ObjectsImmutable ==
  [][\A k \in Keys : objects[k] # None => objects'[k] = objects[k]]_vars

\* Entry i is pending for a consumer name none of whose processes is up.
Stranded(i) ==
  /\ owner[i] # None
  /\ \A w \in Workers : ConsumerOf[w] = owner[i] => pc[w] = "down"

\* "Each accepted batch is acknowledged after it is durably enqueued [...],
\* then written by a background worker": a batch S3 can take is in S3 at last,
\* whichever workers died with it in their hands, unless its consumer name
\* never comes back.
StorableEventuallyStored ==
  \A i \in Ids :
    (i \in accepted /\ ~Refused(i))
      ~> ((i \in accepted /\ Stored(Key(i))) \/ []Stranded(i))

\* "An unacknowledged message can be claimed by another tracking-api replica
\* after a worker failure" (README of the event API): the same without the
\* exception.  The code claims nothing, so this does not hold.
StoredWhoeverDies ==
  \A i \in Ids :
    (i \in accepted /\ ~Refused(i)) ~> (i \in accepted /\ Stored(Key(i)))

\* "Successfully processed entries are deleted after acknowledgement": an
\* entry that was delivered and acknowledged is gone, or about to be deleted.
ProcessedEntriesDeleted ==
  \A i \in stream :
    \/ i \in Undelivered \cup Pending
    \/ \E w \in Workers : pc[w] = "del" /\ Current(w, i)

\* The idempotency key outlives every request that can still carry its hour.
TTLCoversHour == IdemTTL >= TicksPerHour + MaxDelay

\* The hand-off implements the abstract promise: keys of answered batches are
\* promised, S3 is the store, and a key whose entry is stranded is orphaned.
Handoff == INSTANCE DurableHandoff WITH
  Bodies <- Payload,
  promised <- {Key(i) : i \in accepted},
  orphaned <- {Key(i) : i \in {j \in UsedIds : Stranded(j)}},
  store <- objects

\* Redis, the workers and S3 together implement DurableHandoff with its
\* liveness: every object is written at most once per key with one content,
\* only 202 answers promise, and what is promised is written, orphans excepted.
ImplementsDurableHandoff == Handoff!Spec
=============================================================================
