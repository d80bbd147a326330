--------------------------- MODULE Recommendations ---------------------------
(***************************************************************************)
(* Recommendations of one segment of one tenant: ai_agents_runners ranks   *)
(* content for the segment's profiles batch by batch under a run row, and  *)
(* ContentRepository (customer360-dao) serves a profile the rows of the    *)
(* latest SUCCEEDED run from a Redis cache.  A cache key contains the      *)
(* tenant's generation; a change of content or a finished run invalidates  *)
(* all keys by writing a new generation, which itself expires.             *)
(*                                                                         *)
(* What a list contains is abstracted to the state it was loaded from: how *)
(* many changes were committed, which run, and how many of its batches.    *)
(* Time is relative: a Tick takes a unit from every time to live.          *)
(***************************************************************************)
EXTENDS Naturals, Sequences, FiniteSets

CONSTANTS
  Runs,       \* Dagster runs of ai_agents_master_job
  Requests,   \* concurrent requests for the recommendations of a profile
  NBatches,   \* batches of all ranking steps of the segment
  TTL,        \* cache_ttl_seconds
  MaxDelay,   \* longest time from reading the generation to the answer
  MaxEdits,   \* bound on changes of content items
  None

ASSUME RecommendationsAssumption ==
  /\ NBatches \in Nat /\ TTL \in Nat \ {0} /\ MaxDelay \in Nat /\ MaxEdits \in Nat
  /\ IsFiniteSet(Runs) /\ None \notin Runs
  /\ None \notin Nat /\ None \notin [list : [changes : Nat, run : Runs \cup {None},
                                     batches : Nat, age : Nat], left : Nat]

VARIABLES
  run,         \* [Runs -> run row, and the process that writes it]
  succeeded,   \* SUCCEEDED runs in the order of completed_at
  rows,        \* [Runs -> batches with rows in cdp_profile_recommendations]
  changes,     \* history: committed changes of content or of the served run
  edits,       \* changes of content so far
  editing,     \* is a content change committed but not yet invalidated?
  generation,  \* the generation key: id (0: "0", no key) and time left
  nextGen,     \* next fresh generation (uuid4)
  cache,       \* [generation -> cached list and its time left, or None]
  request,     \* [Requests -> request]
  floor        \* history: changes covered by a successful invalidation

runVars == <<run, succeeded, rows>>
contentVars == <<edits, editing>>
cacheVars == <<generation, nextGen, cache, floor>>
vars == <<runVars, changes, contentVars, cacheVars, request>>

Generations == 0..(MaxEdits + Cardinality(Runs))

\* A list: the state it was loaded from and its age, up to the first age that
\* is too old.
TooOld == TTL + MaxDelay
Lists == [changes : Nat, run : Runs \cup {None}, batches : Nat, age : 0..TooOld]

Idle == [pc |-> "idle"]

Init ==
  /\ run = [r \in Runs |-> [pc |-> "queued", status |-> "absent"]]
  /\ succeeded = <<>>
  /\ rows = [r \in Runs |-> 0]
  /\ changes = 0
  /\ edits = 0
  /\ editing = FALSE
  /\ generation = [id |-> 0, left |-> 0]
  /\ nextGen = 1
  /\ cache = [g \in Generations |-> None]
  /\ request = [q \in Requests |-> Idle]
  /\ floor = 0

(***************************************************************************)
(* ContentRepository.invalidate_recommendation_cache.                      *)
(***************************************************************************)
\* Mutant: the generation lives no longer than a cached list.
GenerationTTLShort == TTL

GenerationTTL == 2 * TTL

\* SET of a fresh generation.
NewGeneration ==
  /\ generation' = [id |-> nextGen, left |-> GenerationTTL]
  /\ nextGen' = nextGen + 1
  /\ floor' = changes
  /\ UNCHANGED cache

\* Redis is down: logged, and nothing else happens.
InvalidationFails == UNCHANGED cacheVars

Invalidate == NewGeneration \/ InvalidationFails

(***************************************************************************)
(* create_item, update_item, delete_item: commit, then invalidate.         *)
(***************************************************************************)
CommitEdit ==
  /\ ~editing
  /\ edits < MaxEdits
  /\ edits' = edits + 1
  /\ editing' = TRUE
  /\ changes' = changes + 1
  /\ UNCHANGED <<runVars, cacheVars, request>>

InvalidateEdit ==
  /\ editing
  /\ Invalidate
  /\ editing' = FALSE
  /\ UNCHANGED <<runVars, changes, edits, request>>

(***************************************************************************)
(* AgentWorkflowMasterTask.                                                *)
(***************************************************************************)
Proceed(r, pc) == run' = [run EXCEPT ![r].pc = pc]
Settle(r, pc, status) ==
  run' = [run EXCEPT ![r].pc = pc, ![r].status = status]

OnlyRuns == UNCHANGED <<changes, contentVars, cacheVars, request>>

\* No step is due, a step has no or too many candidates, or the profiles cannot
\* be read: no run row.
PlanFails(r) ==
  /\ run[r].pc = "queued"
  /\ Proceed(r, "done")
  /\ UNCHANGED <<succeeded, rows>> /\ OnlyRuns

\* _start_recommendation_run, in one transaction.
StartRun(r) ==
  /\ run[r].pc = "queued"
  /\ Settle(r, "ranking", "RUNNING")
  /\ rows' = [rows EXCEPT ![r] = 0]
  /\ UNCHANGED succeeded /\ OnlyRuns

\* One batch is embedded, ranked and upserted.
RankBatch(r) ==
  /\ run[r].pc = "ranking"
  /\ rows[r] < NBatches
  /\ rows' = [rows EXCEPT ![r] = @ + 1]
  /\ UNCHANGED <<run, succeeded>> /\ OnlyRuns

\* Mutant: a batch that fails is logged and left out.
BatchIsSkipped(r) ==
  /\ run[r].pc = "ranking"
  /\ rows[r] < NBatches
  /\ Proceed(r, "finishing")
  /\ UNCHANGED <<succeeded, rows>> /\ OnlyRuns

\* The embedding provider, the ranking or the database raises.
BatchFails(r) ==
  /\ run[r].pc = "ranking"
  /\ rows[r] < NBatches
  /\ Proceed(r, "failing")
  /\ UNCHANGED <<succeeded, rows>> /\ OnlyRuns

\* The run row and its rows in one transaction.
FinishFailed(r) ==
  /\ run[r].pc = "failing"
  /\ Settle(r, "done", "FAILED")
  /\ rows' = [rows EXCEPT ![r] = 0]
  /\ UNCHANGED succeeded /\ OnlyRuns

RankingDone(r) ==
  /\ run[r].pc = "ranking"
  /\ rows[r] = NBatches
  /\ Proceed(r, "finishing")
  /\ UNCHANGED <<succeeded, rows>> /\ OnlyRuns

FinishSucceeded(r) ==
  /\ run[r].pc = "finishing"
  /\ Settle(r, "invalidating", "SUCCEEDED")
  /\ succeeded' = Append(succeeded, r)
  /\ changes' = changes + 1
  /\ UNCHANGED <<rows, contentVars, cacheVars, request>>

InvalidateRun(r) ==
  /\ run[r].pc = "invalidating"
  /\ Invalidate
  /\ Proceed(r, "done")
  /\ UNCHANGED <<succeeded, rows, changes, contentVars, request>>

\* The process dies, or its last transaction fails: the run row stays as it is.
RunLost(r) ==
  /\ run[r].pc \notin {"queued", "done", "lost"}
  /\ Proceed(r, "lost")
  /\ UNCHANGED <<succeeded, rows>> /\ OnlyRuns

(***************************************************************************)
(* get_recommended_items.                                                  *)
(***************************************************************************)
OnlyRequest == UNCHANGED <<runVars, changes, contentVars, generation, nextGen, floor>>

\* _recommendation_cache_key; without Redis there is no key.
ReadGeneration(q, key) ==
  /\ request[q].pc \in {"idle", "answered"}
  /\ key \in {generation.id, None}
  /\ request' = [request EXCEPT ![q] =
       [pc |-> IF key = None THEN "load" ELSE "lookup", key |-> key,
        floor |-> floor, left |-> MaxDelay]]
  /\ UNCHANGED cache /\ OnlyRequest

Answered(q, list) ==
  [pc |-> "answered", floor |-> request[q].floor, list |-> list]

Hit(q) ==
  /\ request[q].pc = "lookup"
  /\ cache[request[q].key] # None
  /\ request' = [request EXCEPT ![q] = Answered(q, cache[@.key].list)]
  /\ UNCHANGED cache /\ OnlyRequest

\* No entry, an entry that does not validate, or a Redis error.
Miss(q) ==
  /\ request[q].pc = "lookup"
  /\ request' = [request EXCEPT ![q].pc = "load"]
  /\ \/ UNCHANGED cache
     \/ cache' = [cache EXCEPT ![request[q].key] = None]
  /\ OnlyRequest

\* latest_successful_segment_runs.
Latest == IF succeeded = <<>> THEN None ELSE succeeded[Len(succeeded)]

\* _load_recommended_items: one statement, one snapshot.
Loaded ==
  [changes |-> changes, run |-> Latest,
   batches |-> IF Latest = None THEN 0 ELSE rows[Latest], age |-> 0]

Load(q) ==
  /\ request[q].pc = "load"
  /\ request' = [request EXCEPT ![q] =
       IF @.key = None THEN Answered(q, Loaded)
       ELSE [pc |-> "store", key |-> @.key, floor |-> @.floor,
             left |-> @.left, list |-> Loaded]]
  /\ UNCHANGED cache /\ OnlyRequest

\* Mutant: a list is kept as long as its generation.
EntryTTLOfGeneration == GenerationTTL

EntryTTL == TTL

\* _cache_recommendations; an error of SET is logged.
Store(q) ==
  /\ request[q].pc = "store"
  /\ \/ cache' = [cache EXCEPT ![request[q].key] =
                    [list |-> request[q].list, left |-> EntryTTL]]
     \/ UNCHANGED cache
  /\ request' = [request EXCEPT ![q] = Answered(q, @.list)]
  /\ OnlyRequest

(***************************************************************************)
(* Time.                                                                   *)
(***************************************************************************)
Older(list) == [list EXCEPT !.age = IF @ < TooOld THEN @ + 1 ELSE @]
Active(q) == request[q].pc \in {"lookup", "load", "store"}

\* Keys expire in Redis; no request is active for longer than MaxDelay.
Tick ==
  /\ \A q \in Requests : Active(q) => request[q].left > 0
  /\ generation' = IF generation.left <= 1 THEN [id |-> 0, left |-> 0]
                   ELSE [generation EXCEPT !.left = @ - 1]
  /\ cache' = [g \in Generations |->
       IF cache[g] = None \/ cache[g].left = 1 THEN None
       ELSE [list |-> Older(cache[g].list), left |-> cache[g].left - 1]]
  /\ request' = [q \in Requests |->
       CASE request[q].pc = "store" ->
              [request[q] EXCEPT !.left = @ - 1, !.list = Older(@)]
         [] request[q].pc \in {"lookup", "load"} ->
              [request[q] EXCEPT !.left = @ - 1]
         [] OTHER -> request[q]]
  /\ UNCHANGED <<runVars, changes, contentVars, nextGen, floor>>

-----------------------------------------------------------------------------
RunStep(r) ==
  \/ PlanFails(r) \/ StartRun(r) \/ RankBatch(r) \/ BatchFails(r)
  \/ FinishFailed(r) \/ RankingDone(r) \/ FinishSucceeded(r) \/ InvalidateRun(r)

RequestStep(q) ==
  \/ \E key \in Generations \cup {None} : ReadGeneration(q, key)
  \/ Hit(q) \/ Miss(q) \/ Load(q) \/ Store(q)

Next ==
  \/ CommitEdit \/ InvalidateEdit
  \/ \E r \in Runs : RunStep(r) \/ RunLost(r)
  \/ \E q \in Requests : RequestStep(q)
  \/ Tick

Spec == Init /\ [][Next]_vars

-----------------------------------------------------------------------------
(* Properties                                                              *)

RunState == [pc : {"queued", "ranking", "failing", "finishing", "invalidating",
                   "done", "lost"},
             status : {"absent", "RUNNING", "SUCCEEDED", "FAILED"}]

\* The states of a request, and a cached list.
Reading == [pc : {"lookup", "load"}, key : Generations \cup {None}, floor : Nat,
            left : 0..MaxDelay]
Storing == [pc : {"store"}, key : Generations, floor : Nat, left : 0..MaxDelay,
            list : Lists]
Answering == [pc : {"answered"}, floor : Nat, list : Lists]
Entry == [list : Lists, left : 1..TTL]

RequestType ==
  /\ DOMAIN request = Requests
  /\ \A q \in Requests :
       /\ request[q] \in {Idle} \cup Reading \cup Storing \cup Answering
       /\ request[q].pc = "lookup" => request[q].key # None

TypeOK ==
  /\ run \in [Runs -> RunState]
  /\ succeeded \in Seq(Runs)
  /\ rows \in [Runs -> 0..NBatches]
  /\ changes \in Nat /\ edits \in 0..MaxEdits /\ editing \in BOOLEAN
  /\ floor \in 0..changes
  /\ generation \in [id : Generations, left : 0..GenerationTTL]
  /\ nextGen \in Nat /\ generation.id < nextGen
  /\ DOMAIN cache = Generations
  /\ \A g \in Generations : cache[g] \in Entry \cup {None}
  /\ RequestType

Answers == {request[q] : q \in {p \in Requests : request[p].pc = "answered"}}

\* A profile is only ever shown the rows of a run that ranked every batch of
\* every step: never those of a run that is still ranking, failed, or died.
ServedRunComplete ==
  \A a \in Answers : a.list.run # None => a.list.batches = NBatches

\* "Build a tenant-scoped key that changes when the tenant cache is
\* invalidated": a request that begins after an invalidation never gets a list
\* loaded before the change, although slow requests store old lists late and
\* the generation key expires and falls back to "0" (provided no request takes
\* longer than cache_ttl_seconds).
InvalidatedNotServed == \A a \in Answers : a.list.changes >= a.floor

\* When invalidations are lost (Redis down, process dead after the commit) a
\* list is still never shown for longer than its time to live after it was
\* stored.
AnswersNotTooOld == \A a \in Answers : a.list.age < TooOld
=============================================================================
