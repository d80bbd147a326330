---------------------------- MODULE DurableHandoff ----------------------------
(***************************************************************************)
(* What the tracking API promises its clients, without saying how: a batch *)
(* acknowledged with 202 has an object key, each key gets one immutable    *)
(* object, and a promised object is there in the end, unless its key stays *)
(* orphaned: in the hands of a consumer that does not come back.           *)
(***************************************************************************)
CONSTANTS Keys, Bodies, None

VARIABLES
  promised,   \* keys returned to clients in a 202
  orphaned,   \* keys nobody is there to write
  store       \* [Keys -> Bodies or None]

vars == <<promised, orphaned, store>>

Init ==
  /\ promised = {}
  /\ orphaned = {}
  /\ store = [k \in Keys |-> None]

Promise(k) ==
  /\ promised' = promised \cup {k}
  /\ UNCHANGED <<orphaned, store>>

\* Consumers die and come back.
Orphan ==
  /\ orphaned' \in SUBSET Keys
  /\ UNCHANGED <<promised, store>>

\* An object may be written before, or without, the 202 reaching the client.
Write(k) ==
  /\ store[k] = None
  /\ \E b \in Bodies : store' = [store EXCEPT ![k] = b]
  /\ UNCHANGED <<promised, orphaned>>

WritePromised(k) == k \in promised \ orphaned /\ Write(k)

Next == Orphan \/ \E k \in Keys : Promise(k) \/ Write(k)

Safety == Init /\ [][Next]_vars
Spec == Safety /\ \A k \in Keys : SF_vars(WritePromised(k))
=============================================================================
