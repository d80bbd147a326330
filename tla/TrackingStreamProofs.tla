------------------------- MODULE TrackingStreamProofs -------------------------
(***************************************************************************)
(* TLAPS proofs about the two backends of the event API: TrackingStream,   *)
(* for every set of batches, handlers and workers, every capacity, list    *)
(* length, time to live and bound, and BufferedTracking, at the end.       *)
(***************************************************************************)
EXTENDS TrackingStream, FiniteSetTheorems, SequenceTheorems, TLAPS

-----------------------------------------------------------------------------
(* The inductive invariant behind NoAcceptedBatchLost and PendingInStream. *)

\* The ids in use: a payload for every XADD, delivery never runs ahead of
\* publication, and only delivered entries are pending or in a list.
IdsInUse ==
  /\ \A i \in Ids : i < nextId <=> payload[i] # None
  /\ lastDelivered < nextId
  /\ Pending \subseteq {i \in Ids : i <= lastDelivered}
  /\ \A w \in Workers : todo[w] \subseteq {i \in Ids : i <= lastDelivered}

\* Every XADDed entry, answered or not, is readable or durably stored.
NothingLost ==
  \A i \in Ids :
    i < nextId => i \in Undelivered \cup Pending \/ Stored(Key(i))

\* The marker is written after the object.
MarkerAfterObject == \A k \in Keys : markers[k] # None => objects[k] # None

\* What a worker knows about the entry it works on.
WorkerKnows ==
  \A w \in Workers : \A i \in Ids : Current(w, i) =>
    /\ pc[w] = "mark" => objects[Key(i)] # None
    /\ pc[w] \in {"ack", "del"} => Stored(Key(i))
    /\ pc[w] = "del" => i \notin Pending

IInv ==
  /\ TypeOK
  /\ IdsInUse
  /\ NothingLost
  /\ PendingInStream
  /\ MarkerAfterObject
  /\ WorkerKnows

-----------------------------------------------------------------------------
(* Lemmas about the operators.                                             *)

\* COUNT only ever cuts a reply short.
LEMMA FirstOfSubset == ASSUME NEW S PROVE FirstOf(S) \subseteq S
  BY DEF FirstOf

\* COUNT takes the oldest entries: what comes before a taken one is taken.
LEMMA FirstOfInitial ==
  ASSUME NEW S \in SUBSET Ids, NEW i \in FirstOf(S), NEW j \in S, j < i
  PROVE  j \in FirstOf(S)
<1> DEFINE Before(n) == {x \in S : x < n}
<1>1. IsFiniteSet(Ids)
  BY FS_Interval, ConstantsAssumption DEF Ids
<1>2. IsFiniteSet(Before(i))
  <2>1. Before(i) \subseteq Ids
    OBVIOUS
  <2>2. QED
    BY <1>1, <2>1, FS_Subset
<1>3. Before(j) \subseteq Before(i)
  <2>1. i \in S
    BY FirstOfSubset
  <2>2. \A x \in S : x \in Nat
    BY ConstantsAssumption DEF Ids
  <2>3. \A x \in S : x < j => x < i
    BY <2>1, <2>2
  <2>4. QED
    BY <2>3
<1>4. /\ Cardinality(Before(j)) <= Cardinality(Before(i))
      /\ Cardinality(Before(j)) \in Nat /\ Cardinality(Before(i)) \in Nat
  <2>1. IsFiniteSet(Before(j))
    BY <1>2, <1>3, FS_Subset
  <2>2. QED
    BY <1>2, <1>3, <2>1, FS_Subset, FS_CardinalityType
<1>5. Cardinality(Before(i)) < BatchSize
  BY DEF FirstOf
<1>6. Cardinality(Before(j)) < BatchSize
  BY <1>4, <1>5, ConstantsAssumption
<1>7. QED
  BY <1>6 DEF FirstOf

\* The key of a payload is one of the keys.
LEMMA KeyInKeys == ASSUME NEW p \in Payload PROVE KeyOf(p) \in Keys
  BY DEF Payload, KeyOf, Keys

\* At most one message of a list is the current one.
LEMMA CurrentUnique ==
  ASSUME TypeOK, NEW w \in Workers, NEW i \in Ids, NEW j \in Ids,
         Current(w, i), Current(w, j)
  PROVE  i = j
  BY DEF Current, Ids

\* Two instants of one hour are less than an hour apart.
LEMMA SameHour ==
  ASSUME NEW s \in Nat, NEW t \in Nat, Hour(s) = Hour(t)
  PROVE  t < s + TicksPerHour
  BY ConstantsAssumption, SMTT(30) DEF Hour

-----------------------------------------------------------------------------
(* Type correctness.                                                       *)

LEMMA TypeInit == Init => TypeOK
  BY ConstantsAssumption
  DEF Init, TypeOK, Times, Ids, UsedIds, PCs

LEMMA TypeNext == TypeOK /\ [Next]_vars => TypeOK'
<1> SUFFICES ASSUME TypeOK, [Next]_vars PROVE TypeOK'
  OBVIOUS
<1> USE ConstantsAssumption, NoneAssumption
<1>1. ASSUME NEW h \in Handlers, NEW b \in Batches, Receive(h, b)
      PROVE  TypeOK'
  BY <1>1
  DEF Receive, TypeOK, UsedIds, Payload, redisVars, s3Vars, workerVars
<1>2. ASSUME NEW h \in Handlers, NEW reply \in BOOLEAN,
             PublishExisting(h, reply)
      PROVE  TypeOK'
  <2> DEFINE k == KeyOf(request[h])
  <2>1. request[h] \in Payload /\ k \in Keys
    BY <1>2, KeyInKeys DEF PublishExisting, TypeOK
  <2>2. idem[k].id \in UsedIds
    BY <1>2, <2>1 DEF PublishExisting, TypeOK, Live
  <2>3. QED
    BY <1>2, <2>1, <2>2
    DEF PublishExisting, TypeOK, UsedIds, redisVars, s3Vars, workerVars
<1>3. ASSUME NEW h \in Handlers, NEW reply \in BOOLEAN, PublishNew(h, reply)
      PROVE  TypeOK'
  <2> DEFINE k == KeyOf(request[h])
             e == [id |-> nextId, expires |-> clock + IdemTTL]
  <2>1. request[h] \in Payload
    BY <1>3 DEF PublishNew, TypeOK
  <2>2. /\ nextId' = nextId + 1 /\ nextId' \in 1..(MaxMessages + 1)
        /\ UsedIds \subseteq UsedIds' /\ nextId \in UsedIds'
    BY <1>3 DEF PublishNew, TypeOK, UsedIds, Ids
  <2>3. idem' \in [Keys -> [id: UsedIds', expires: 0..(MaxClock + IdemTTL)]
                             \cup {None}]
    <3>1. e \in [id: UsedIds', expires: 0..(MaxClock + IdemTTL)]
      BY <2>2 DEF TypeOK, Times
    <3>2. idem \in [Keys -> [id: UsedIds', expires: 0..(MaxClock + IdemTTL)]
                             \cup {None}]
      BY <2>2 DEF TypeOK
    <3>3. idem' = [idem EXCEPT ![k] = e]
      BY <1>3 DEF PublishNew
    <3>4. QED
      BY <3>1, <3>2, <3>3
  <2>4. payload' \in [Ids -> Payload \cup {None}]
    BY <1>3, <2>1 DEF PublishNew, TypeOK
  <2>5. request' \in [Handlers -> Payload \cup {None}]
    BY <1>3 DEF PublishNew, TypeOK
  <2>6. accepted' \subseteq UsedIds' /\ stream' \subseteq UsedIds'
    BY <1>3, <2>2 DEF PublishNew, TypeOK
  <2>7. QED
    BY <1>3, <2>2, <2>3, <2>4, <2>5, <2>6
    DEF PublishNew, TypeOK, s3Vars, workerVars
<1>4. ASSUME NEW h \in Handlers, PublishFull(h) \/ PublishUnavailable(h)
      PROVE  TypeOK'
  BY <1>4 DEF PublishFull, PublishUnavailable, TypeOK, UsedIds, redisVars,
              s3Vars, workerVars
<1>5. ASSUME NEW w \in Workers, WorkerStep(w) PROVE TypeOK'
  <2>1. ASSUME NEW S \in SUBSET Ids, NEW l \in PCs, Take(w, S, l)
        PROVE  todo' \in [Workers -> SUBSET Ids] /\ pc' \in [Workers -> PCs]
    BY <2>1 DEF Take, Goto, TypeOK, PCs
  <2>2. ASSUME NEW S \in SUBSET Ids, Deliver(w, S)
        PROVE  owner' \in [Ids -> Consumers \cup {None}]
    BY <2>2 DEF Deliver, TypeOK, Consumers
  <2>3. CASE ReadOwn(w)
    <3> DEFINE S == FirstOf({i \in Ids : owner[i] = ConsumerOf[w]})
    <3>1. S \in SUBSET Ids
      BY FirstOfSubset
    <3>2. QED
      BY <2>1, <2>2, <2>3, <3>1
      DEF ReadOwn, TypeOK, UsedIds, PCs, s3Vars, clientVars
  <2>5. CASE ReadNew(w)
    <3>1. FirstOf(Undelivered) \in SUBSET Ids
      BY FirstOfSubset DEF TypeOK, Undelivered, UsedIds
    <3>2. lastDelivered' \in 0..MaxMessages
      BY <2>5, <3>1 DEF ReadNew, TypeOK, Ids
    <3>3. QED
      BY <2>1, <2>2, <2>5, <3>1, <3>2
      DEF ReadNew, TypeOK, UsedIds, PCs, s3Vars, clientVars
  <2>6. ASSUME NEW i \in Ids,
               HeadMarker(w, i) \/ XAck(w, i)
        PROVE  TypeOK'
    BY <2>6 DEF HeadMarker, XAck, Goto, TypeOK, UsedIds, PCs, redisVars,
                s3Vars, clientVars
  <2>7. ASSUME NEW i \in Ids, PutObject(w, i) \/ WriteMarker(w, i)
        PROVE  TypeOK'
    BY <2>7 DEF PutObject, WriteMarker, Goto, TypeOK, UsedIds, PCs, redisVars,
                clientVars
  <2>8. ASSUME NEW i \in Ids, XDel(w, i)
        PROVE  TypeOK'
    <3>1. todo[w] \ {i} \in SUBSET Ids
      BY DEF TypeOK
    <3>2. QED
      BY <2>1, <2>8, <3>1 DEF XDel, TypeOK, UsedIds, PCs, s3Vars, clientVars
  <2>9. ASSUME (\E i \in Ids : Refuse(w, i)) \/ Abandon(w) \/ Crash(w)
        PROVE  TypeOK'
    BY <2>1, <2>9 DEF Refuse, Abandon, Crash, TypeOK, UsedIds, PCs, redisVars,
                      s3Vars, clientVars
  <2>10. CASE Restart(w)
    BY <2>10 DEF Restart, Goto, TypeOK, UsedIds, PCs, redisVars, s3Vars,
                 clientVars
  <2>11. QED
    BY <1>5, <2>3, <2>5, <2>6, <2>7, <2>8, <2>9, <2>10
    DEF WorkerStep, ReadStep
<1>7. CASE Tick
  BY <1>7
  DEF Tick, TypeOK, UsedIds, redisVars, s3Vars, workerVars, clientVars, Times
<1>8. CASE UNCHANGED vars
  BY <1>8 DEF vars, TypeOK, UsedIds, redisVars, s3Vars, workerVars, clientVars
<1>9. QED
  BY <1>1, <1>2, <1>3, <1>4, <1>5, <1>7, <1>8 DEF Next, HandlerStep

\* Every variable keeps its type, and Redis, the idempotency keys and the
\* clients only ever hold ids that were published.
THEOREM TypeCorrect == Spec => []TypeOK
  BY TypeInit, TypeNext, PTL DEF Spec

-----------------------------------------------------------------------------
(* No accepted batch is lost.                                              *)

LEMMA IInvInit == Init => IInv
<1> SUFFICES ASSUME Init PROVE IInv
  OBVIOUS
<1>1. TypeOK
  BY TypeInit
<1>2. IdsInUse /\ NothingLost /\ PendingInStream /\ MarkerAfterObject
  BY ConstantsAssumption
  DEF Init, IdsInUse, NothingLost, PendingInStream, MarkerAfterObject, Pending,
      Ids
<1>3. WorkerKnows
  BY DEF Init, WorkerKnows, Current
<1>4. QED
  BY <1>1, <1>2, <1>3 DEF IInv

\* A step that leaves Redis' entries and S3 alone, and moves a worker at most
\* to the start or to the end of its loop, keeps everything.
LEMMA QuietStep ==
  ASSUME IInv, TypeOK',
         UNCHANGED <<payload, nextId, stream, lastDelivered, owner, objects,
                     markers>>,
         \A w \in Workers :
           \/ pc'[w] = pc[w] /\ todo'[w] = todo[w]
           \/ pc'[w] \in {"readOwn", "readNew", "head", "down"}
              /\ todo'[w] \subseteq {i \in Ids : i <= lastDelivered}
  PROVE  IInv'
<1>1. IdsInUse' /\ NothingLost' /\ PendingInStream' /\ MarkerAfterObject'
  BY DEF IInv, IdsInUse, NothingLost, PendingInStream, MarkerAfterObject,
         Pending, Undelivered, Stored, Key
<1>2. WorkerKnows'
  BY DEF IInv, WorkerKnows, Current, Pending, Stored, Key
<1>3. QED
  BY <1>1, <1>2 DEF IInv

\* Publishing adds one undelivered entry.
LEMMA PublishNewKeeps ==
  ASSUME IInv, TypeOK', NEW h \in Handlers, NEW reply \in BOOLEAN,
         PublishNew(h, reply)
  PROVE  IInv'
<1> USE ConstantsAssumption, NoneAssumption
<1>1. /\ request[h] \in Payload
      /\ nextId \in Ids /\ nextId' = nextId + 1
      /\ stream' = stream \cup {nextId}
      /\ payload' = [payload EXCEPT ![nextId] = request[h]]
      /\ UNCHANGED <<lastDelivered, owner, pc, todo, objects, markers>>
  BY DEF PublishNew, IInv, TypeOK, s3Vars, workerVars
<1>2. \A i \in Ids : i < nextId => payload'[i] = payload[i]
  BY <1>1 DEF IInv, TypeOK, Ids
<1>3. lastDelivered < nextId /\ nextId \in Nat /\ lastDelivered \in Nat
  BY DEF IInv, IdsInUse, TypeOK
<1>4. IdsInUse'
  <2>1. \A i \in Ids : i < nextId' <=> payload'[i] # None
    BY <1>1, <1>2, <1>3 DEF IInv, IdsInUse, TypeOK, Ids
  <2>2. QED
    BY <1>1, <1>3, <2>1 DEF IInv, IdsInUse, Pending
<1>5. NothingLost'
  BY <1>1, <1>2, <1>3
  DEF IInv, NothingLost, Undelivered, Pending, Stored, Key, Ids
<1>6. PendingInStream' /\ MarkerAfterObject'
  BY <1>1 DEF IInv, PendingInStream, MarkerAfterObject, Pending
<1>7. WorkerKnows'
  <2>1. ASSUME NEW w \in Workers, NEW i \in Ids, Current(w, i)
        PROVE  Key(i)' = Key(i)
    BY <1>1, <1>2, <1>3, <2>1 DEF IInv, IdsInUse, Current, Key, Ids
  <2>2. QED
    BY <1>1, <2>1 DEF IInv, WorkerKnows, Current, Pending, Stored, Key
<1>8. QED
  BY <1>4, <1>5, <1>6, <1>7 DEF IInv

\* Delivering pending entries again changes neither which are pending nor
\* what any worker knows.
LEMMA RedeliverKeeps ==
  ASSUME IInv, TypeOK', NEW w \in Workers, NEW S \in SUBSET Pending,
         Take(w, S, "readNew"), Deliver(w, S),
         UNCHANGED <<payload, nextId, stream, lastDelivered, objects, markers>>
  PROVE  IInv'
<1> USE ConstantsAssumption, NoneAssumption
<1>1. Pending' = Pending
  BY DEF IInv, TypeOK, Deliver, Pending, Consumers
<1>2. \A i \in S : i \in Ids /\ i <= lastDelivered
  BY DEF IInv, IdsInUse, Pending
<1>3. /\ \A v \in Workers : v # w => pc'[v] = pc[v] /\ todo'[v] = todo[v]
      /\ todo'[w] = S /\ pc'[w] \in {"readNew", "head"}
  BY DEF IInv, TypeOK, Take, Goto
<1>4. IdsInUse' /\ NothingLost' /\ PendingInStream' /\ MarkerAfterObject'
  BY <1>1, <1>2, <1>3
  DEF IInv, IdsInUse, NothingLost, PendingInStream, MarkerAfterObject,
      Undelivered, Stored, Key, Deliver
<1>5. WorkerKnows'
  BY <1>1, <1>3 DEF IInv, WorkerKnows, Current, Stored, Key
<1>6. QED
  BY <1>4, <1>5 DEF IInv

\* Reading new entries moves them from undelivered to pending.
LEMMA ReadNewKeeps ==
  ASSUME IInv, TypeOK', NEW w \in Workers, ReadNew(w)
  PROVE  IInv'
<1> USE ConstantsAssumption, NoneAssumption
<1> DEFINE S == FirstOf(Undelivered)
<1>1. \A i \in S : i \in stream /\ i \in Ids /\ i < nextId /\ i > lastDelivered
  BY FirstOfSubset DEF IInv, TypeOK, UsedIds, Undelivered
<1>2. Pending' = Pending \cup S
  BY <1>1 DEF IInv, TypeOK, ReadNew, Deliver, Pending, Consumers
<1>3. /\ lastDelivered' \in {lastDelivered} \cup S
      /\ \A i \in S : i <= lastDelivered'
  BY DEF ReadNew
<1>4. lastDelivered \in Nat /\ lastDelivered' \in Nat /\ nextId \in Nat
  BY DEF IInv, TypeOK
<1>5. lastDelivered <= lastDelivered' /\ lastDelivered' < nextId
  BY <1>1, <1>3, <1>4 DEF IInv, IdsInUse, Ids
<1>6. /\ \A v \in Workers : v # w => pc'[v] = pc[v] /\ todo'[v] = todo[v]
      /\ todo'[w] = S /\ pc'[w] \in {"readOwn", "head"}
      /\ UNCHANGED <<payload, nextId, stream, objects, markers>>
  BY DEF IInv, TypeOK, ReadNew, Take, Goto, Deliver, s3Vars
<1>7. IdsInUse'
  <2>1. \A i \in Ids : i <= lastDelivered => i <= lastDelivered'
    BY <1>4, <1>5 DEF Ids
  <2>2. Pending' \subseteq {i \in Ids : i <= lastDelivered'}
    BY <1>1, <1>2, <1>3, <2>1 DEF IInv, IdsInUse
  <2>4. \A v \in Workers : todo'[v] \subseteq {i \in Ids : i <= lastDelivered'}
    BY <1>1, <1>3, <1>6, <2>1 DEF IInv, IdsInUse
  <2>5. QED
    BY <1>5, <1>6, <2>2, <2>4 DEF IInv, IdsInUse
<1>8. NothingLost'
  <2>1. ASSUME NEW i \in Undelivered, i \notin S PROVE i \in Undelivered'
    <3>1. i \in stream /\ i \in Ids /\ i > lastDelivered
      BY DEF Undelivered, IInv, TypeOK, UsedIds
    <3>2. \A j \in S : j < i
      <4>1. SUFFICES ASSUME NEW j \in S, ~(j < i) PROVE FALSE
        OBVIOUS
      <4>2. i < j
        BY <1>1, <2>1, <3>1, <4>1 DEF Ids
      <4>3. Undelivered \in SUBSET Ids
        BY DEF Undelivered, IInv, TypeOK, UsedIds
      <4>4. QED
        BY <2>1, <4>2, <4>3, FirstOfInitial
    <3>3. i > lastDelivered'
      BY <1>3, <1>4, <3>1, <3>2 DEF Ids
    <3>4. QED
      BY <1>6, <3>1, <3>3 DEF Undelivered
  <2>2. ASSUME NEW i \in Ids, i < nextId
        PROVE  i \in Undelivered' \cup Pending' \/ Stored(Key(i))'
    BY <1>2, <1>6, <2>1, <2>2 DEF IInv, NothingLost, Stored, Key
  <2>3. QED
    BY <1>6, <2>2 DEF NothingLost
<1>9. PendingInStream' /\ MarkerAfterObject'
  BY <1>1, <1>2, <1>6 DEF IInv, PendingInStream, MarkerAfterObject
<1>10. WorkerKnows'
  <2>1. ASSUME NEW v \in Workers, NEW i \in Ids, v # w, Current(v, i)
        PROVE  i \notin S
    BY <1>1, <1>4, <2>1 DEF IInv, IdsInUse, Current, Ids
  <2>2. QED
    BY <1>2, <1>6, <2>1 DEF IInv, WorkerKnows, Current, Stored, Key
<1>11. QED
  BY <1>7, <1>8, <1>9, <1>10 DEF IInv

\* The entry a worker works on was published, so its payload and key exist.
LEMMA CurrentPublished ==
  ASSUME IInv, NEW w \in Workers, NEW i \in Ids, Current(w, i)
  PROVE  i < nextId /\ payload[i] \in Payload /\ Key(i) \in Keys
<1>1. i <= lastDelivered /\ lastDelivered < nextId
  BY DEF Current, IInv, IdsInUse
<1>2. i < nextId
  BY <1>1, ConstantsAssumption DEF IInv, TypeOK, Ids
<1>3. QED
  BY <1>2, KeyInKeys DEF IInv, IdsInUse, TypeOK, Key

\* Writing an object or a marker never takes one away, so it keeps whatever
\* was stored, and it leaves Redis alone.
LEMMA PutObjectKeeps ==
  ASSUME IInv, TypeOK', NEW w \in Workers, NEW i \in Ids, PutObject(w, i)
  PROVE  IInv'
<1> USE NoneAssumption
<1>1. payload[i] \in Payload /\ Key(i) \in Keys
  BY CurrentPublished DEF PutObject
<1>2. /\ objects'[Key(i)] # None
      /\ \A k \in Keys : objects[k] # None => objects'[k] # None
  BY <1>1 DEF PutObject, IInv, TypeOK
<1>3. /\ \A v \in Workers : v # w => pc'[v] = pc[v]
      /\ pc'[w] = "mark"
      /\ UNCHANGED <<payload, nextId, stream, lastDelivered, owner,
                     markers, todo>>
  BY DEF PutObject, Goto, IInv, TypeOK, redisVars
<1>4. IdsInUse' /\ PendingInStream' /\ MarkerAfterObject'
  BY <1>2, <1>3
  DEF IInv, IdsInUse, PendingInStream, MarkerAfterObject, Pending
<1>5. \A j \in Ids : j < nextId => Key(j) \in Keys
  BY KeyInKeys DEF IInv, IdsInUse, TypeOK, Key
<1>6. NothingLost'
  BY <1>2, <1>3, <1>5
  DEF IInv, NothingLost, Undelivered, Pending, Stored, Key
<1>7. WorkerKnows'
  <2>1. \A v \in Workers : \A j \in Ids : Current(v, j) => Key(j) \in Keys
    BY CurrentPublished
  <2>2. \A j \in Ids : Current(w, j) => i = j
    BY CurrentUnique DEF IInv, PutObject
  <2>3. QED
    BY <1>2, <1>3, <2>1, <2>2
    DEF IInv, WorkerKnows, Current, Pending, Stored, Key
<1>8. QED
  BY <1>4, <1>6, <1>7 DEF IInv

LEMMA WriteMarkerKeeps ==
  ASSUME IInv, TypeOK', NEW w \in Workers, NEW i \in Ids, WriteMarker(w, i)
  PROVE  IInv'
<1> USE NoneAssumption
<1>1. payload[i] \in Payload /\ Key(i) \in Keys /\ objects[Key(i)] # None
  BY CurrentPublished DEF WriteMarker, IInv, WorkerKnows
<1>2. /\ markers'[Key(i)] # None
      /\ \A k \in Keys : markers[k] # None => markers'[k] # None
      /\ \A k \in Keys : k # Key(i) => markers'[k] = markers[k]
  BY <1>1 DEF WriteMarker, IInv, TypeOK
<1>3. /\ \A v \in Workers : v # w => pc'[v] = pc[v]
      /\ pc'[w] = "ack"
      /\ UNCHANGED <<payload, nextId, stream, lastDelivered, owner,
                     objects, todo>>
  BY DEF WriteMarker, Goto, IInv, TypeOK, redisVars
<1>4. IdsInUse' /\ PendingInStream' /\ MarkerAfterObject'
  BY <1>1, <1>2, <1>3
  DEF IInv, IdsInUse, PendingInStream, MarkerAfterObject, Pending
<1>5. \A j \in Ids : j < nextId => Key(j) \in Keys
  BY KeyInKeys DEF IInv, IdsInUse, TypeOK, Key
<1>6. NothingLost'
  BY <1>2, <1>3, <1>5
  DEF IInv, NothingLost, Undelivered, Pending, Stored, Key
<1>7. WorkerKnows'
  <2>1. \A v \in Workers : \A j \in Ids : Current(v, j) => Key(j) \in Keys
    BY CurrentPublished
  <2>2. \A j \in Ids : Current(w, j) => i = j
    BY CurrentUnique DEF IInv, WriteMarker
  <2>3. QED
    BY <1>1, <1>2, <1>3, <2>1, <2>2
    DEF IInv, WorkerKnows, Current, Pending, Stored, Key
<1>8. QED
  BY <1>4, <1>6, <1>7 DEF IInv

\* A marker found by HEAD stands for a stored object.
LEMMA HeadMarkerKeeps ==
  ASSUME IInv, TypeOK', NEW w \in Workers, NEW i \in Ids, HeadMarker(w, i)
  PROVE  IInv'
<1>1. Key(i) \in Keys
  BY CurrentPublished DEF HeadMarker
<1>2. /\ \A v \in Workers : v # w => pc'[v] = pc[v]
      /\ pc'[w] \in {"put", "ack"}
      /\ pc'[w] = "ack" => Stored(Key(i))
      /\ UNCHANGED <<payload, nextId, stream, lastDelivered, owner,
                     objects, markers, todo>>
  BY <1>1
  DEF HeadMarker, MarkerExists, Goto, IInv, TypeOK, MarkerAfterObject, Stored,
      redisVars, s3Vars
<1>3. IdsInUse' /\ NothingLost' /\ PendingInStream' /\ MarkerAfterObject'
  BY <1>2
  DEF IInv, IdsInUse, NothingLost, PendingInStream, MarkerAfterObject,
      Pending, Undelivered, Stored, Key
<1>4. WorkerKnows'
  <2>1. \A j \in Ids : Current(w, j) => i = j
    BY CurrentUnique DEF IInv, HeadMarker
  <2>2. QED
    BY <1>2, <2>1 DEF IInv, WorkerKnows, Current, Pending, Stored, Key
<1>5. QED
  BY <1>3, <1>4 DEF IInv

\* Only a stored entry is acknowledged.
LEMMA XAckKeeps ==
  ASSUME IInv, TypeOK', NEW w \in Workers, NEW i \in Ids, XAck(w, i)
  PROVE  IInv'
<1>1. Stored(Key(i))
  BY DEF XAck, IInv, WorkerKnows
<1>2. Pending' = Pending \ {i}
  BY NoneAssumption DEF XAck, IInv, TypeOK, Pending
<1>3. /\ \A v \in Workers : v # w => pc'[v] = pc[v]
      /\ pc'[w] = "del"
      /\ UNCHANGED <<payload, nextId, stream, lastDelivered, objects, markers,
                     todo>>
  BY DEF XAck, Goto, IInv, TypeOK, s3Vars
<1>4. IdsInUse' /\ PendingInStream' /\ MarkerAfterObject'
  BY <1>2, <1>3
  DEF IInv, IdsInUse, PendingInStream, MarkerAfterObject
<1>5. NothingLost'
  BY <1>1, <1>2, <1>3 DEF IInv, NothingLost, Undelivered, Stored, Key
<1>6. WorkerKnows'
  <2>1. \A j \in Ids : Current(w, j) => i = j
    BY CurrentUnique DEF IInv, XAck
  <2>2. QED
    BY <1>1, <1>2, <1>3, <2>1 DEF IInv, WorkerKnows, Current, Stored, Key
<1>7. QED
  BY <1>4, <1>5, <1>6 DEF IInv

\* Only an entry that is stored and no longer pending is deleted.
LEMMA XDelKeeps ==
  ASSUME IInv, TypeOK', NEW w \in Workers, NEW i \in Ids, XDel(w, i)
  PROVE  IInv'
<1>1. Stored(Key(i)) /\ i \notin Pending
  BY DEF XDel, IInv, WorkerKnows
<1>2. /\ \A v \in Workers : v # w => pc'[v] = pc[v] /\ todo'[v] = todo[v]
      /\ pc'[w] \in {"head", "readOwn"}
      /\ todo'[w] = todo[w] \ {i}
      /\ stream' = stream \ {i}
      /\ UNCHANGED <<payload, nextId, lastDelivered, owner, objects,
                     markers>>
  BY DEF XDel, Take, Goto, IInv, TypeOK, s3Vars
<1>3. IdsInUse' /\ PendingInStream' /\ MarkerAfterObject'
  BY <1>1, <1>2
  DEF IInv, IdsInUse, PendingInStream, MarkerAfterObject, Pending
<1>4. NothingLost'
  BY <1>1, <1>2 DEF IInv, NothingLost, Undelivered, Pending, Stored, Key
<1>5. WorkerKnows'
  BY <1>2 DEF IInv, WorkerKnows, Current, Pending, Stored, Key
<1>6. QED
  BY <1>3, <1>4, <1>5 DEF IInv

LEMMA IInvNext == IInv /\ [Next]_vars => IInv'
<1> SUFFICES ASSUME IInv, [Next]_vars PROVE IInv'
  OBVIOUS
<1>1. TypeOK'
  BY TypeNext DEF IInv
<1>2. ASSUME NEW h \in Handlers, HandlerStep(h) PROVE IInv'
  <2>1. ASSUME NEW reply \in BOOLEAN, PublishNew(h, reply) PROVE IInv'
    BY <1>1, <2>1, PublishNewKeeps
  <2>2. ASSUME \/ \E b \in Batches : Receive(h, b)
               \/ \E reply \in BOOLEAN : PublishExisting(h, reply)
               \/ PublishFull(h)
               \/ PublishUnavailable(h)
        PROVE  IInv'
    <3>1. /\ UNCHANGED <<payload, nextId, stream, lastDelivered, owner,
                         objects, markers, pc, todo>>
      BY <2>2 DEF Receive, PublishExisting, PublishFull, PublishUnavailable,
                  redisVars, s3Vars, workerVars
    <3>3. QED
      BY <1>1, <3>1, QuietStep
  <2>3. QED
    BY <1>2, <2>1, <2>2 DEF HandlerStep
<1>3. ASSUME NEW w \in Workers, WorkerStep(w) PROVE IInv'
  <2>1. CASE ReadOwn(w)
    <3> DEFINE S == FirstOf({i \in Ids : owner[i] = ConsumerOf[w]})
    <3>1. S \in SUBSET Pending
      BY FirstOfSubset, NoneAssumption DEF Pending, Consumers
    <3>2. QED
      BY <1>1, <2>1, <3>1, RedeliverKeeps DEF ReadOwn, s3Vars
  <2>3. CASE ReadNew(w)
    BY <1>1, <2>3, ReadNewKeeps
  <2>4. ASSUME NEW i \in Ids,
               HeadMarker(w, i) \/ PutObject(w, i) \/ WriteMarker(w, i)
               \/ XAck(w, i) \/ XDel(w, i)
        PROVE  IInv'
    BY <1>1, <2>4, HeadMarkerKeeps, PutObjectKeeps, WriteMarkerKeeps,
       XAckKeeps, XDelKeeps
  <2>5. ASSUME \/ \E i \in Ids : Refuse(w, i)
               \/ Abandon(w) \/ Crash(w) \/ Restart(w)
        PROVE  IInv'
    <3>1. /\ UNCHANGED <<payload, nextId, stream, lastDelivered, owner,
                         objects, markers>>
      BY <2>5 DEF Refuse, Abandon, Crash, Restart, redisVars, s3Vars
    <3>3. /\ \A v \in Workers : v # w => pc'[v] = pc[v] /\ todo'[v] = todo[v]
          /\ pc'[w] \in {"readOwn", "down"}
          /\ todo'[w] \subseteq todo[w]
      BY <2>5 DEF Refuse, Abandon, Crash, Restart, Take, Goto, IInv, TypeOK
    <3>4. \A v \in Workers :
            \/ pc'[v] = pc[v] /\ todo'[v] = todo[v]
            \/ pc'[v] \in {"readOwn", "readNew", "head", "down"}
               /\ todo'[v] \subseteq {i \in Ids : i <= lastDelivered}
      BY <3>3 DEF IInv, IdsInUse
    <3>5. QED
      BY <1>1, <3>1, <3>4, QuietStep
  <2>6. QED
    BY <1>3, <2>1, <2>3, <2>4, <2>5 DEF WorkerStep, ReadStep
<1>4. ASSUME Tick \/ UNCHANGED vars
      PROVE  IInv'
  <2>1. /\ UNCHANGED <<payload, nextId, stream, lastDelivered, owner,
                       objects, markers, pc, todo>>
    BY <1>4 DEF Tick, vars, redisVars, s3Vars, workerVars
  <2>2. QED
    BY <1>1, <2>1, QuietStep
<1>5. QED
  BY <1>2, <1>3, <1>4 DEF Next

\* A batch answered with 202 is never lost: for any number of workers that
\* crash, stall or share a consumer name, and any
\* pattern of failed calls, it stays readable until object and marker exist.
THEOREM AcceptedNeverLost == Spec => []NoAcceptedBatchLost
<1>1. IInv => NoAcceptedBatchLost
  BY DEF IInv, NothingLost, NoAcceptedBatchLost, TypeOK, UsedIds
<1>2. QED
  BY <1>1, IInvInit, IInvNext, PTL DEF Spec

\* The pending list only refers to entries still in the stream: every reader
\* of it gets a payload.
THEOREM PendingAlwaysInStream == Spec => []PendingInStream
<1>1. IInv => PendingInStream
  BY DEF IInv
<1>2. QED
  BY <1>1, IInvInit, IInvNext, PTL DEF Spec

-----------------------------------------------------------------------------
(* Objects are immutable, when the idempotency key outlives its hour.      *)

\* A built batch is published within MaxDelay of its receipt.
RequestsRecent ==
  \A h \in Handlers : request[h] # None =>
    request[h].at <= clock /\ clock <= request[h].at + MaxDelay

\* Every published key has an idempotency key, at least IdemTTL long.
KeysRemembered ==
  \A i \in Ids : i < nextId =>
    /\ payload[i].at <= clock
    /\ idem[Key(i)] # None
    /\ idem[Key(i)].expires >= payload[i].at + IdemTTL

\* No object key is published twice.
PublishedOnce ==
  \A i, j \in Ids : i < nextId /\ j < nextId /\ Key(i) = Key(j) => i = j

\* What S3 holds under a key comes from an entry published for that key.
StoreFromStream ==
  \A k \in Keys :
    /\ objects[k] # None =>
         \E i \in Ids : i < nextId /\ Key(i) = k /\ objects[k] = payload[i]
    /\ markers[k] # None =>
         \E i \in Ids : i < nextId /\ Key(i) = k /\ markers[k] = payload[i]

OnceInv ==
  /\ RequestsRecent
  /\ KeysRemembered
  /\ PublishedOnce
  /\ StoreFromStream

LEMMA OnceInit == Init => OnceInv
  BY ConstantsAssumption
  DEF Init, OnceInv, RequestsRecent, KeysRemembered, PublishedOnce,
      StoreFromStream, Ids

\* A step that publishes nothing and stores nothing.
LEMMA OnceQuiet ==
  ASSUME IInv, OnceInv,
         UNCHANGED <<clock, payload, nextId, idem, objects, markers>>,
         \A h \in Handlers : \/ request'[h] = request[h]
                             \/ request'[h] = None
                             \/ request'[h].at = clock
  PROVE  OnceInv'
  BY ConstantsAssumption
  DEF IInv, TypeOK, Times, OnceInv, RequestsRecent, KeysRemembered,
      PublishedOnce, StoreFromStream, Key

\* The script adds an entry only for a key that was never published.
LEMMA FreshKey ==
  ASSUME TTLCoversHour, IInv, OnceInv, NEW h \in Handlers, request[h] # None,
         ~Live(KeyOf(request[h])), NEW i \in Ids, i < nextId
  PROVE  Key(i) # KeyOf(request[h])
<1>1. SUFFICES ASSUME Key(i) = KeyOf(request[h]) PROVE FALSE
  OBVIOUS
<1>2. /\ payload[i] \in Payload /\ payload[i].at \in Nat
      /\ request[h] \in Payload /\ request[h].at \in Nat
      /\ clock \in Nat
  BY ConstantsAssumption, NoneAssumption
  DEF IInv, IdsInUse, TypeOK, Payload, Times
<1>3. Hour(payload[i].at) = Hour(request[h].at)
  BY <1>1 DEF Key, KeyOf
<1>4. request[h].at < payload[i].at + TicksPerHour
  BY <1>2, <1>3, SameHour
<1>5. clock <= request[h].at + MaxDelay
  BY DEF OnceInv, RequestsRecent
<1>6. /\ idem[Key(i)] # None
      /\ idem[Key(i)].expires >= payload[i].at + IdemTTL
      /\ idem[Key(i)].expires \in Nat
  <2>1. Key(i) \in Keys
    BY <1>2, KeyInKeys DEF Key
  <2>2. QED
    BY <2>1, ConstantsAssumption DEF OnceInv, KeysRemembered, IInv, TypeOK
<1>7. idem[Key(i)].expires <= clock
  BY <1>1, <1>2, <1>6 DEF Live
<1>8. QED
  BY <1>2, <1>4, <1>5, <1>6, <1>7, ConstantsAssumption DEF TTLCoversHour

LEMMA OncePublish ==
  ASSUME TTLCoversHour, IInv, OnceInv, NEW h \in Handlers,
         NEW reply \in BOOLEAN, PublishNew(h, reply)
  PROVE  OnceInv'
<1> USE ConstantsAssumption, NoneAssumption
<1> DEFINE p == request[h]
           k == KeyOf(request[h])
<1>1. p \in Payload /\ k \in Keys /\ nextId \in Ids /\ clock \in Nat
  BY KeyInKeys DEF PublishNew, IInv, TypeOK, Times
<1>2. /\ payload'[nextId] = p /\ nextId' = nextId + 1
      /\ \A i \in Ids : i # nextId => payload'[i] = payload[i]
      /\ idem'[k] # None /\ idem'[k].expires = clock + IdemTTL
      /\ \A l \in Keys : l # k => idem'[l] = idem[l]
      /\ UNCHANGED <<clock, objects, markers>>
      /\ request' = [request EXCEPT ![h] = None]
  <2>1. [id |-> nextId, expires |-> clock + IdemTTL] # None
    BY <1>1 DEF IInv, TypeOK, Times
  <2>2. QED
    BY <1>1, <2>1 DEF PublishNew, IInv, TypeOK, s3Vars
<1>3. \A i \in Ids : i < nextId' <=> i < nextId \/ i = nextId
  BY <1>2 DEF IInv, TypeOK, Ids
<1>4. \A i \in Ids : i < nextId =>
        i # nextId /\ Key(i)' = Key(i) /\ Key(i) \in Keys /\ Key(i) # k
  <2>1. \A i \in Ids : i < nextId => i # nextId /\ payload[i] \in Payload
    BY DEF IInv, IdsInUse, TypeOK, Ids
  <2>2. \A i \in Ids : i < nextId => Key(i) # k
    BY FreshKey DEF PublishNew
  <2>3. QED
    BY <1>2, <2>1, <2>2, KeyInKeys DEF Key
<1>5. KeyOf(payload'[nextId]) = k
  BY <1>2
<1>6. RequestsRecent'
  BY <1>2 DEF OnceInv, RequestsRecent, IInv, TypeOK
<1>7. KeysRemembered'
  <2>1. p.at <= clock /\ p.at \in Nat
    BY <1>1 DEF PublishNew, OnceInv, RequestsRecent, Payload, Times
  <2>2. ASSUME NEW i \in Ids, i < nextId
        PROVE  /\ payload'[i].at <= clock'
               /\ idem'[Key(i)'] # None
               /\ idem'[Key(i)'].expires >= payload'[i].at + IdemTTL
    BY <1>2, <1>4, <2>2 DEF OnceInv, KeysRemembered
  <2>3. /\ payload'[nextId].at <= clock'
        /\ idem'[k] # None
        /\ idem'[k].expires >= payload'[nextId].at + IdemTTL
    BY <1>1, <1>2, <1>5, <2>1
  <2>4. QED
    BY <1>3, <1>5, <2>2, <2>3 DEF KeysRemembered, Key
<1>8. PublishedOnce'
  <2>1. ASSUME NEW i \in Ids, NEW j \in Ids, i < nextId', j < nextId',
               Key(i)' = Key(j)'
        PROVE  i = j
    BY <1>3, <1>4, <1>5, <2>1 DEF OnceInv, PublishedOnce, Key
  <2>2. QED
    BY <2>1 DEF PublishedOnce, Key
<1>9. StoreFromStream'
  <2>1. \A i \in Ids : i < nextId =>
          i < nextId' /\ payload'[i] = payload[i] /\ Key(i)' = Key(i)
    BY <1>2, <1>3, <1>4
  <2>2. QED
    BY <1>2, <2>1 DEF OnceInv, StoreFromStream, Key
<1>10. QED
  BY <1>6, <1>7, <1>8, <1>9 DEF OnceInv

LEMMA OnceStore ==
  ASSUME IInv, OnceInv, NEW w \in Workers, NEW i \in Ids,
         PutObject(w, i) \/ WriteMarker(w, i)
  PROVE  OnceInv'
<1>1. i < nextId /\ Key(i) \in Keys
  BY CurrentPublished DEF PutObject, WriteMarker
<1>2. UNCHANGED <<clock, payload, nextId, idem, request>>
  BY DEF PutObject, WriteMarker, redisVars, clientVars
<1>3. /\ \A k \in Keys : \/ objects'[k] = objects[k]
                         \/ k = Key(i) /\ objects'[k] = payload[i]
      /\ \A k \in Keys : \/ markers'[k] = markers[k]
                         \/ k = Key(i) /\ markers'[k] = payload[i]
  BY <1>1 DEF PutObject, WriteMarker, IInv, TypeOK
<1>4. StoreFromStream'
  BY <1>1, <1>2, <1>3 DEF OnceInv, StoreFromStream, Key
<1>5. QED
  BY <1>2, <1>4
  DEF OnceInv, RequestsRecent, KeysRemembered, PublishedOnce, Key

LEMMA OnceTick ==
  ASSUME IInv, OnceInv, Tick
  PROVE  OnceInv'
<1>1. /\ clock \in Nat /\ clock' = clock + 1
      /\ UNCHANGED <<payload, nextId, idem, objects, markers, request>>
      /\ \A h \in Handlers : request[h] # None =>
           clock < request[h].at + MaxDelay /\ request[h].at \in Nat
      /\ \A i \in Ids : i < nextId => payload[i].at \in Nat
  BY ConstantsAssumption
  DEF Tick, IInv, IdsInUse, TypeOK, Times, Payload, redisVars, s3Vars,
      clientVars
<1>2. RequestsRecent' /\ KeysRemembered'
  BY <1>1, ConstantsAssumption
  DEF OnceInv, RequestsRecent, KeysRemembered, Key
<1>3. PublishedOnce' /\ StoreFromStream'
  BY <1>1 DEF OnceInv, PublishedOnce, StoreFromStream, Key
<1>4. QED
  BY <1>2, <1>3 DEF OnceInv

LEMMA OnceNext ==
  TTLCoversHour /\ IInv /\ OnceInv /\ [Next]_vars => OnceInv'
<1> SUFFICES ASSUME TTLCoversHour, IInv, OnceInv, [Next]_vars PROVE OnceInv'
  OBVIOUS
<1>1. ASSUME NEW h \in Handlers, HandlerStep(h) PROVE OnceInv'
  <2>1. ASSUME NEW reply \in BOOLEAN, PublishNew(h, reply) PROVE OnceInv'
    BY <2>1, OncePublish
  <2>2. ASSUME \/ \E b \in Batches : Receive(h, b)
               \/ \E reply \in BOOLEAN : PublishExisting(h, reply)
               \/ PublishFull(h)
               \/ PublishUnavailable(h)
        PROVE  OnceInv'
    <3>1. /\ UNCHANGED <<clock, payload, nextId, idem, objects, markers>>
          /\ \A g \in Handlers : \/ request'[g] = request[g]
                                 \/ request'[g] = None
                                 \/ request'[g].at = clock
      BY <2>2 DEF Receive, PublishExisting, PublishFull, PublishUnavailable,
                  redisVars, s3Vars, IInv, TypeOK
    <3>2. QED
      BY <3>1, OnceQuiet
  <2>3. QED
    BY <1>1, <2>1, <2>2 DEF HandlerStep
<1>2. ASSUME NEW w \in Workers, WorkerStep(w) PROVE OnceInv'
  <2>1. ASSUME NEW i \in Ids, PutObject(w, i) \/ WriteMarker(w, i)
        PROVE  OnceInv'
    BY <2>1, OnceStore
  <2>2. ASSUME \/ ReadStep(w) \/ Abandon(w) \/ Crash(w) \/ Restart(w)
               \/ \E i \in Ids : \/ HeadMarker(w, i) \/ XAck(w, i)
                                 \/ XDel(w, i) \/ Refuse(w, i)
        PROVE  OnceInv'
    <3>1. UNCHANGED <<clock, payload, nextId, idem, objects, markers, request>>
      BY <2>2
      DEF ReadStep, ReadOwn, ReadNew, Abandon, Crash, Restart,
          HeadMarker, XAck, XDel, Refuse, redisVars, s3Vars, clientVars
    <3>2. QED
      BY <3>1, OnceQuiet
  <2>3. QED
    BY <1>2, <2>1, <2>2 DEF WorkerStep
<1>3. ASSUME UNCHANGED vars PROVE OnceInv'
  <2>1. UNCHANGED <<clock, payload, nextId, idem, objects, markers, request>>
    BY <1>3 DEF vars, redisVars, s3Vars, clientVars
  <2>2. QED
    BY <2>1, OnceQuiet
<1>4. QED
  BY <1>1, <1>2, <1>3, OnceTick DEF Next

\* A marker always lies beside the very object whose digest it records,
\* provided the idempotency key outlives the hour in the object key.
THEOREM MarkersCorrect == TTLCoversHour => (Spec => []MarkerDescribesObject)
<1> SUFFICES ASSUME TTLCoversHour PROVE Spec => []MarkerDescribesObject
  OBVIOUS
<1>1. IInv /\ OnceInv => MarkerDescribesObject
  BY DEF IInv, OnceInv, MarkerDescribesObject, MarkerAfterObject,
         StoreFromStream, PublishedOnce
<1>2. Init => IInv /\ OnceInv
  BY IInvInit, OnceInit
<1>3. IInv /\ OnceInv /\ [Next]_vars => (IInv /\ OnceInv)'
  BY IInvNext, OnceNext
<1>4. QED
  BY <1>1, <1>2, <1>3, PTL DEF Spec

\* The one step that writes S3 objects writes one, and rewrites it only with
\* the bytes it has.
LEMMA ObjectsStep ==
  ASSUME IInv, OnceInv, [Next]_vars
  PROVE  \/ UNCHANGED objects
         \/ /\ UNCHANGED <<payload, accepted>>
            /\ \E k \in Keys, b \in Payload :
                 objects[k] = None /\ objects' = [objects EXCEPT ![k] = b]
<1>1. CASE \E w \in Workers, i \in Ids : PutObject(w, i)
  <2>1. PICK w \in Workers, i \in Ids : PutObject(w, i)
    BY <1>1
  <2>2. i < nextId /\ payload[i] \in Payload /\ Key(i) \in Keys
    BY <2>1, CurrentPublished DEF PutObject
  <2>3. objects' = [objects EXCEPT ![Key(i)] = payload[i]]
    BY <2>1 DEF PutObject
  <2>4. UNCHANGED <<payload, accepted>>
    BY <2>1 DEF PutObject, redisVars, clientVars
  <2>5. CASE objects[Key(i)] = None
    BY <2>2, <2>3, <2>4, <2>5
  <2>6. CASE objects[Key(i)] # None
    <3>1. objects[Key(i)] = payload[i]
      BY <2>2, <2>6 DEF OnceInv, StoreFromStream, PublishedOnce
    <3>2. objects \in [Keys -> Payload \cup {None}]
      BY DEF IInv, TypeOK
    <3>3. QED
      BY <2>2, <2>3, <3>1, <3>2
  <2>7. QED
    BY <2>5, <2>6
<1>2. CASE ~(\E w \in Workers, i \in Ids : PutObject(w, i))
  BY <1>2
  DEF Next, HandlerStep, Receive, PublishExisting, PublishNew, PublishFull,
      PublishUnavailable, WorkerStep, ReadStep, ReadOwn, ReadNew,
      HeadMarker, WriteMarker, XAck, XDel, Refuse, Abandon, Crash, Restart,
      Tick, vars, s3Vars
<1>3. QED
  BY <1>1, <1>2

\* An object in S3 is never replaced by different bytes, under the same
\* condition on the time to live.
THEOREM ObjectsNeverChange == TTLCoversHour => (Spec => ObjectsImmutable)
<1> SUFFICES ASSUME TTLCoversHour PROVE Spec => ObjectsImmutable
  OBVIOUS
<1>1. Init => IInv /\ OnceInv
  BY IInvInit, OnceInit
<1>2. IInv /\ OnceInv /\ [Next]_vars => (IInv /\ OnceInv)'
  BY IInvNext, OnceNext
<1>3. IInv /\ OnceInv /\ [Next]_vars =>
        [\A k \in Keys : objects[k] # None => objects'[k] = objects[k]]_vars
  <2> SUFFICES ASSUME IInv, OnceInv, [Next]_vars, NEW k \in Keys,
                      objects[k] # None
               PROVE  objects'[k] = objects[k]
    OBVIOUS
  <2>1. objects \in [Keys -> Payload \cup {None}]
    BY DEF IInv, TypeOK
  <2>2. QED
    BY <2>1, ObjectsStep
<1>4. QED
  BY <1>1, <1>2, <1>3, PTL DEF Spec, ObjectsImmutable

\* Only a publication changes what is promised, and it promises one key more.
LEMMA PromisedStep ==
  ASSUME IInv, [Next]_vars, UNCHANGED objects
  PROVE  \/ {Key(i) : i \in accepted}' = {Key(i) : i \in accepted}
         \/ \E k \in Keys :
              {Key(i) : i \in accepted}' = {Key(i) : i \in accepted} \cup {k}
<1> DEFINE P == {Key(i) : i \in accepted}
<1> USE ConstantsAssumption, NoneAssumption
<1>1. ASSUME NEW h \in Handlers, NEW reply \in BOOLEAN,
             PublishExisting(h, reply)
      PROVE  P' = P \/ \E k \in Keys : P' = P \cup {k}
  <2>1. request[h] \in Payload /\ KeyOf(request[h]) \in Keys
    BY <1>1, KeyInKeys DEF PublishExisting, IInv, TypeOK
  <2>2. PICK i \in UsedIds :
          accepted' = IF reply THEN accepted \cup {i} ELSE accepted
    BY <1>1, <2>1 DEF PublishExisting, Live, IInv, TypeOK
  <2>3. Key(i) \in Keys /\ UNCHANGED payload
    BY <1>1, KeyInKeys
    DEF PublishExisting, redisVars, IInv, IdsInUse, TypeOK, UsedIds, Key
  <2>4. P' = P \/ P' = P \cup {Key(i)}
    BY <2>2, <2>3 DEF Key
  <2>5. QED
    BY <2>3, <2>4
<1>2. ASSUME NEW h \in Handlers, NEW reply \in BOOLEAN, PublishNew(h, reply)
      PROVE  P' = P \/ \E k \in Keys : P' = P \cup {k}
  <2>1. request[h] \in Payload /\ KeyOf(request[h]) \in Keys
    BY <1>2, KeyInKeys DEF PublishNew, IInv, TypeOK
  <2>2. /\ nextId \in Ids /\ payload'[nextId] = request[h]
        /\ \A i \in accepted : payload'[i] = payload[i]
        /\ accepted' = IF reply THEN accepted \cup {nextId} ELSE accepted
    BY <1>2 DEF PublishNew, IInv, TypeOK, UsedIds, Ids
  <2>3. P' = P \/ P' = P \cup {KeyOf(request[h])}
    BY <2>2 DEF Key
  <2>4. QED
    BY <2>1, <2>3
<1>3. ASSUME UNCHANGED <<payload, accepted>> PROVE P' = P
  BY <1>3 DEF Key
<1>4. \/ \E h \in Handlers, reply \in BOOLEAN : PublishExisting(h, reply)
      \/ \E h \in Handlers, reply \in BOOLEAN : PublishNew(h, reply)
      \/ UNCHANGED <<payload, accepted>>
  BY ZenonT(40) DEF Next, HandlerStep, Receive, PublishFull,
      PublishUnavailable, WorkerStep, ReadStep, ReadOwn, ReadNew,
      HeadMarker, PutObject, WriteMarker, XAck, XDel, Refuse, Abandon, Crash,
      Restart, Tick, vars, redisVars, clientVars
<1>5. QED
  BY <1>1, <1>2, <1>3, <1>4

\* Publications and object writes strand nothing and bring nobody back.
LEMMA OrphanedStep ==
  ASSUME IInv, [Next]_vars
  PROVE  \/ UNCHANGED <<payload, accepted, objects>>
         \/ {Key(i) : i \in {j \in UsedIds : Stranded(j)}}'
              = {Key(i) : i \in {j \in UsedIds : Stranded(j)}}
<1> DEFINE O == {Key(i) : i \in {j \in UsedIds : Stranded(j)}}
<1> USE ConstantsAssumption, NoneAssumption
<1>1. ASSUME NEW h \in Handlers, NEW reply \in BOOLEAN,
             PublishExisting(h, reply)
      PROVE  O' = O
  BY <1>1 DEF PublishExisting, redisVars, workerVars, UsedIds, Stranded, Key
<1>2. ASSUME NEW h \in Handlers, NEW reply \in BOOLEAN, PublishNew(h, reply)
      PROVE  O' = O
  <2>1. /\ nextId \in Ids /\ nextId' = nextId + 1
        /\ payload' = [payload EXCEPT ![nextId] = request[h]]
        /\ UNCHANGED <<owner, pc>>
    BY <1>2 DEF PublishNew, workerVars
  <2>2. owner[nextId] = None
    <3>1. nextId \in Nat /\ lastDelivered \in Nat /\ lastDelivered < nextId
      BY DEF IInv, TypeOK, IdsInUse
    <3>2. nextId \notin Pending
      BY <3>1 DEF IInv, IdsInUse
    <3>3. QED
      BY <2>1, <3>2 DEF Pending
  <2>3. {j \in UsedIds : Stranded(j)}' = {j \in UsedIds : Stranded(j)}
    <3>1. \A j \in Ids : j < nextId + 1 <=> j < nextId \/ j = nextId
      BY DEF IInv, TypeOK, Ids
    <3>2. \A j \in Ids : Stranded(j)' <=> Stranded(j)
      BY <2>1 DEF Stranded
    <3>3. ~Stranded(nextId)
      BY <2>2 DEF Stranded
    <3>4. QED
      BY <2>1, <3>1, <3>2, <3>3 DEF UsedIds
  <2>4. \A j \in UsedIds : payload'[j] = payload[j]
    BY <2>1 DEF IInv, TypeOK, UsedIds, Ids
  <2>5. QED
    BY <2>3, <2>4 DEF Key
<1>3. ASSUME NEW w \in Workers, NEW i \in Ids, PutObject(w, i) PROVE O' = O
  <2>1. /\ pc[w] = "put" /\ pc' = [pc EXCEPT ![w] = "mark"]
        /\ UNCHANGED <<payload, nextId, owner>>
    BY <1>3 DEF PutObject, Goto, redisVars
  <2>2. \A v \in Workers : pc'[v] = "down" <=> pc[v] = "down"
    BY <2>1 DEF IInv, TypeOK
  <2>3. QED
    BY <2>1, <2>2 DEF UsedIds, Stranded, Key
<1>4. \/ \E h \in Handlers, reply \in BOOLEAN : PublishExisting(h, reply)
      \/ \E h \in Handlers, reply \in BOOLEAN : PublishNew(h, reply)
      \/ \E w \in Workers, i \in Ids : PutObject(w, i)
      \/ UNCHANGED <<payload, accepted, objects>>
  BY ZenonT(40) DEF Next, HandlerStep, Receive, PublishFull,
      PublishUnavailable, WorkerStep, ReadStep, ReadOwn, ReadNew,
      HeadMarker, WriteMarker, XAck, XDel, Refuse, Abandon, Crash,
      Restart, Tick, vars, redisVars, s3Vars, clientVars
<1>5. QED
  BY <1>1, <1>2, <1>3, <1>4

\* The stream, the workers and S3 implement the abstract hand-off: the safety
\* part of DurableHandoff, under the refinement mapping of TrackingStream.
THEOREM ImplementsHandoffSafety == TTLCoversHour => (Spec => Handoff!Safety)
<1> SUFFICES ASSUME TTLCoversHour PROVE Spec => Handoff!Safety
  OBVIOUS
<1>1. Init => Handoff!Init
  BY DEF Init, Handoff!Init, Stranded, UsedIds
<1>2. IInv /\ OnceInv /\ [Next]_vars => [Handoff!Next]_(Handoff!vars)
  <2> SUFFICES ASSUME IInv, OnceInv, [Next]_vars
               PROVE  [Handoff!Next]_(Handoff!vars)
    OBVIOUS
  <2> DEFINE O == {Key(i) : i \in {j \in UsedIds : Stranded(j)}}
             P == {Key(i) : i \in accepted}
  <2>1. CASE UNCHANGED <<payload, accepted, objects>>
    <3>1. O' \in SUBSET Keys
      <4>1. IInv'
        BY IInvNext
      <4>2. ASSUME NEW i \in UsedIds' PROVE Key(i)' \in Keys
        <5>1. i \in Ids /\ i < nextId'
          BY DEF UsedIds
        <5>2. payload'[i] \in Payload
          BY <4>1, <5>1 DEF IInv, IdsInUse, TypeOK
        <5>3. QED
          BY <5>2, KeyInKeys DEF Key
      <4>3. QED
        BY <4>2
    <3>2. P' = P
      BY <2>1 DEF Key
    <3>3. QED
      BY <2>1, <3>1, <3>2 DEF Handoff!Next, Handoff!Orphan
  <2>2. CASE O' = O /\ UNCHANGED objects
    BY <2>2, PromisedStep DEF Handoff!Next, Handoff!Promise, Handoff!vars
  <2>3. CASE O' = O /\ ~UNCHANGED objects
    <3>1. UNCHANGED <<payload, accepted>>
      BY <2>3, ObjectsStep
    <3>2. P' = P
      BY <3>1 DEF Key
    <3>3. QED
      BY <2>3, <3>2, ObjectsStep DEF Handoff!Next, Handoff!Write
  <2>4. QED
    BY <2>1, <2>2, <2>3, OrphanedStep
<1>3. Init => IInv /\ OnceInv
  BY IInvInit, OnceInit
<1>4. IInv /\ OnceInv /\ [Next]_vars => (IInv /\ OnceInv)'
  BY IInvNext, OnceNext
<1>5. QED
  BY <1>1, <1>2, <1>3, <1>4, PTL DEF Spec, Handoff!Safety

-----------------------------------------------------------------------------
(***************************************************************************)
(* The in-process backend: BufferedTracking for any number of handlers and *)
(* batches, any queue size and flush threshold.  Its worker thread is      *)
(* worker here, since the stream's threads have taken the name pc.         *)
(***************************************************************************)
CONSTANTS QueueSize, FlushBatch, S3MayFail
VARIABLES queue, pending, closed, stop, holds, closer, worker, puts, flushed

Buffer == INSTANCE BufferedTracking WITH pc <- worker

FifoInv == Buffer!TypeOK /\ Buffer!FifoConserved

(***************************************************************************)
(* Moving one batch from the head of a buffer to the end of the one before *)
(* it leaves their concatenation as it is.                                 *)
(***************************************************************************)
LEMMA MoveHead ==
  ASSUME NEW S, NEW s \in Seq(S), NEW t \in Seq(S), t # <<>>
  PROVE  /\ Append(s, Head(t)) \in Seq(S) /\ Tail(t) \in Seq(S)
         /\ Append(s, Head(t)) \o Tail(t) = s \o t
<1>1. Head(t) \in S /\ Tail(t) \in Seq(S) /\ Append(s, Head(t)) \in Seq(S)
  OBVIOUS
<1>2. Append(s, Head(t)) = s \o <<Head(t)>>
  BY <1>1, AppendIsConcat
<1>3. <<Head(t)>> \in Seq(S)
  BY <1>1
<1>4. (s \o <<Head(t)>>) \o Tail(t) = s \o (<<Head(t)>> \o Tail(t))
  BY <1>1, <1>3, ConcatAssociative
<1>5. <<Head(t)>> \o Tail(t) = t
  BY <1>1
<1>6. QED
  BY <1>1, <1>2, <1>4, <1>5

LEMMA FifoInit ==
  ASSUME Buffer!BufferAssumption PROVE Buffer!Init => FifoInv
<1> SUFFICES ASSUME Buffer!Init PROVE FifoInv
  OBVIOUS
<1>1. Buffer!TypeOK
  <2>1. <<>> \in Seq(Batches) /\ Len(<<>>) <= QueueSize
    BY DEF Buffer!BufferAssumption
  <2>2. QED
    BY <2>1 DEF Buffer!Init, Buffer!TypeOK, Buffer!WorkerPCs
<1>2. <<>> = <<>> \o <<>> \o <<>>
  OBVIOUS
<1>3. Buffer!FifoConserved
  BY <1>2 DEF Buffer!Init, Buffer!FifoConserved
<1>4. QED
  BY <1>1, <1>3 DEF FifoInv

\* The worker takes the first batch of the queue.
LEMMA TakeHead ==
  ASSUME Buffer!BufferAssumption, FifoInv, queue # <<>>, pending' = Append(pending, Head(queue)),
         queue' = Tail(queue), worker' \in Buffer!WorkerPCs, Buffer!WorkerOnly, UNCHANGED flushed
  PROVE  FifoInv'
<1> USE DEF FifoInv
<1>1. queue \in Seq(Batches) /\ pending \in Seq(Batches)
      /\ flushed \in Seq(Batches) /\ Len(queue) \in Nat
  BY DEF Buffer!TypeOK
<1>2. /\ pending' \in Seq(Batches) /\ queue' \in Seq(Batches)
      /\ pending' \o queue' = pending \o queue
  BY <1>1, MoveHead
<1>3. Len(queue') <= QueueSize
  BY <1>1 DEF Buffer!BufferAssumption, Buffer!TypeOK
<1>4. UNCHANGED <<closed, stop, closer, holds, puts>>
  BY DEF Buffer!WorkerOnly, Buffer!closeVars, Buffer!handlerVars
<1>5. Buffer!TypeOK'
  BY <1>2, <1>3, <1>4 DEF Buffer!TypeOK
<1>6. flushed \o pending' \o queue' = flushed \o pending \o queue
  <2> DEFINE p == pending'
             q == queue'
             S == Seq(Batches)
  <2>1. \A f, s, t \in S : f \o s \o t = f \o (s \o t)
    BY ConcatAssociative, SMTT(20)
  <2>2. flushed \in S /\ pending \in S /\ queue \in S
    BY <1>1
  <2>3. p \in S /\ q \in S /\ p \o q = pending \o queue
    BY <1>2
  <2> HIDE DEF p, q, S
  <2>4. flushed \o pending \o queue = flushed \o (pending \o queue)
    BY ONLY <2>1, <2>2
  <2>5. flushed \o p \o q = flushed \o (p \o q)
    BY ONLY <2>1, <2>2, <2>3
  <2>6. QED
    BY <2>3, <2>4, <2>5 DEF p, q
<1>7. Buffer!FifoConserved'
  BY <1>4, <1>6 DEF Buffer!FifoConserved
<1>8. QED
  BY <1>5, <1>7

LEMMA FifoStep ==
  ASSUME Buffer!BufferAssumption PROVE FifoInv /\ [Buffer!Next]_Buffer!vars => FifoInv'
<1> SUFFICES ASSUME FifoInv, [Buffer!Next]_Buffer!vars PROVE FifoInv'
  OBVIOUS
<1> USE DEF Buffer!BufferAssumption, FifoInv, Buffer!TypeOK, Buffer!handlerVars, Buffer!closeVars, Buffer!WorkerOnly
<1>1. ASSUME NEW h \in Handlers, NEW b \in Batches, Buffer!CheckOpen(h, b)
      PROVE  FifoInv'
  BY <1>1 DEF Buffer!CheckOpen, Buffer!FifoConserved
<1>2. ASSUME NEW h \in Handlers, Buffer!PutNowait(h) PROVE FifoInv'
  <2> DEFINE b == holds[h]
  <2>1. b \in Batches
    BY <1>2 DEF Buffer!PutNowait
  <2>2. queue' = Append(queue, b) /\ puts' = Append(puts, b)
        /\ holds' = [holds EXCEPT ![h] = None]
        /\ UNCHANGED <<pending, closed, stop, closer, worker, flushed>>
    BY <1>2 DEF Buffer!PutNowait
  <2> HIDE DEF b
  <2>3. queue' \in Seq(Batches) /\ puts' \in Seq(Batches)
        /\ Len(queue') <= QueueSize
    BY <1>2, <2>1, <2>2 DEF Buffer!PutNowait
  <2>4. Buffer!TypeOK'
    BY <2>2, <2>3
  <2>5. Buffer!FifoConserved'
    <3>1. /\ flushed \in Seq(Batches) /\ pending \in Seq(Batches)
          /\ queue \in Seq(Batches)
      OBVIOUS
    <3>2. puts \in Seq(Batches) /\ puts = (flushed \o pending) \o queue
      BY DEF Buffer!FifoConserved
    <3>3. /\ Append(puts, b) = puts \o <<b>>
          /\ Append(queue, b) = queue \o <<b>>
      BY ONLY <2>1, <3>1, <3>2, AppendIsConcat
    <3>4. flushed \o pending \in Seq(Batches) /\ <<b>> \in Seq(Batches)
      BY ONLY <2>1, <3>1
    <3>5. (flushed \o pending) \o (queue \o <<b>>)
            = ((flushed \o pending) \o queue) \o <<b>>
      BY ONLY <3>1, <3>4, ConcatAssociative, SMT
    <3>6. QED
      BY <2>2, <3>3, <3>5 DEF Buffer!FifoConserved
  <2>6. QED
    BY <2>4, <2>5
<1>3. ASSUME NEW h \in Handlers, Buffer!PutFull(h) PROVE FifoInv'
  BY <1>3 DEF Buffer!PutFull, Buffer!FifoConserved
<1>4. CASE Buffer!Closing
  BY <1>4
  DEF Buffer!Closing, Buffer!CloseSetFlag, Buffer!CloseSetStop, Buffer!CloseJoin, Buffer!FifoConserved, Buffer!WorkerPCs
\* The worker only goes on to another place.
<1>5. ASSUME Buffer!WorkerOnly, UNCHANGED <<queue, pending, flushed>>, worker' \in Buffer!WorkerPCs
      PROVE  FifoInv'
  BY <1>5 DEF Buffer!FifoConserved
<1>6. Buffer!AfterFlush \in [{"flushFull", "flushTimer", "flushLast"} -> Buffer!WorkerPCs]
      /\ DOMAIN Buffer!AfterFlush = {"flushFull", "flushTimer", "flushLast"}
  BY DEF Buffer!AfterFlush, Buffer!WorkerPCs
<1>7. CASE Buffer!LoopTest \/ Buffer!GetTimeout \/ Buffer!TimerDue \/ Buffer!TimerNotDue
  BY <1>5, <1>6, <1>7
  DEF Buffer!LoopTest, Buffer!GetTimeout, Buffer!TimerDue, Buffer!TimerNotDue, Buffer!WorkerPCs
<1>8. CASE Buffer!FlushDone \/ Buffer!FlushFails
  BY <1>5, <1>6, <1>8 DEF Buffer!FlushDone, Buffer!FlushFails
<1>9. CASE Buffer!GetItem
  BY <1>6, <1>9, TakeHead DEF Buffer!GetItem, Buffer!WorkerPCs
<1>10. CASE Buffer!Drain
  <2>1. CASE queue = <<>>
    BY <1>5, <1>6, <1>10, <2>1 DEF Buffer!Drain, Buffer!WorkerPCs
  <2>2. CASE queue # <<>>
    BY <1>10, <2>2, TakeHead DEF Buffer!Drain
  <2>3. QED
    BY <2>1, <2>2
<1>11. CASE Buffer!FlushOne
  <2>1. /\ pending # <<>>
        /\ flushed' = Append(flushed, Head(pending)) /\ pending' = Tail(pending)
        /\ UNCHANGED <<queue, worker, closed, stop, closer, holds, puts>>
    BY <1>11 DEF Buffer!FlushOne
  <2>2. /\ flushed' \in Seq(Batches) /\ pending' \in Seq(Batches)
        /\ flushed' \o pending' = flushed \o pending
    BY <2>1, MoveHead, SMTT(20)
  <2>3. QED
    BY <2>1, <2>2 DEF Buffer!FifoConserved
<1>12. CASE UNCHANGED Buffer!vars
  BY <1>12 DEF Buffer!vars, Buffer!FifoConserved
<1>13. QED
  BY <1>1, <1>2, <1>3, <1>4, <1>7, <1>8, <1>9, <1>10, <1>11, <1>12
  DEF Buffer!Next, Buffer!WorkerStep, Buffer!Ended

\* Type correctness of the buffers and the threads; the queue stays within its
\* size, also when handlers that passed the closed check put late.
THEOREM BufferTypeCorrect ==
  Buffer!BufferAssumption => (Buffer!Spec => []Buffer!TypeOK)
<1> SUFFICES ASSUME Buffer!BufferAssumption PROVE Buffer!Spec => []Buffer!TypeOK
  OBVIOUS
<1>1. FifoInv => Buffer!TypeOK
  BY DEF FifoInv
<1>2. Buffer!Init => FifoInv
  BY FifoInit
<1>3. FifoInv /\ [Buffer!Next]_Buffer!vars => FifoInv'
  BY FifoStep
<1>4. QED
  BY <1>1, <1>2, <1>3, PTL DEF Buffer!Spec

\* Whatever write fails and whenever close() comes: the batches answered are
\* those flushed, those pending and those queued, in the order of arrival.
THEOREM BufferFifo ==
  Buffer!BufferAssumption => (Buffer!Spec => []Buffer!FifoConserved)
<1> SUFFICES ASSUME Buffer!BufferAssumption PROVE Buffer!Spec => []Buffer!FifoConserved
  OBVIOUS
<1>1. FifoInv => Buffer!FifoConserved
  BY DEF FifoInv
<1>2. Buffer!Init => FifoInv
  BY FifoInit
<1>3. FifoInv /\ [Buffer!Next]_Buffer!vars => FifoInv'
  BY FifoStep
<1>4. QED
  BY <1>1, <1>2, <1>3, PTL DEF Buffer!Spec
=============================================================================
