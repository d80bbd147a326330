------------------------ MODULE RecommendationsProofs ------------------------
(***************************************************************************)
(* Proofs about Recommendations for any number of runs, requests, batches  *)
(* and edits, and any times to live.                                       *)
(***************************************************************************)
EXTENDS Recommendations, FiniteSetTheorems, SequenceTheorems, TLAPS

(***************************************************************************)
(* The inductive invariant.  A list that names a run has all its batches,  *)
(* and its age plus what its request or its cache entry has left is        *)
(* bounded.                                                                *)
(***************************************************************************)
\* Each edit and each run makes at most one generation.
Invalidated == {r \in Runs : run[r].pc = "done"}
GenerationsLeft ==
  nextGen <= 1 + edits + Cardinality(Invalidated) - (IF editing THEN 1 ELSE 0)

RunsComplete ==
  /\ \A r \in Runs : run[r].pc = "finishing" => rows[r] = NBatches
  /\ \A i \in DOMAIN succeeded :
       /\ run[succeeded[i]].pc \in {"invalidating", "done", "lost"}
       /\ rows[succeeded[i]] = NBatches

Complete(list) == list.run # None => list.batches = NBatches

RequestGood(x) ==
  /\ x.pc = "store" => Complete(x.list) /\ x.list.age + x.left <= MaxDelay
  /\ x.pc = "answered" => Complete(x.list) /\ x.list.age < TooOld

EntryGood(e) == e # None => Complete(e.list) /\ e.list.age + e.left <= TooOld

ServeInv ==
  /\ TypeOK /\ GenerationsLeft /\ RunsComplete
  /\ \A q \in Requests : RequestGood(request[q])
  /\ \A g \in Generations : EntryGood(cache[g])

(***************************************************************************)
(* Invalidation.  All requests with one key began under the same           *)
(* invalidation, and what is stored under it is not older.  A request with *)
(* the key "0" that outlives an invalidation, and the list it may store,   *)
(* are gone before the generation expires and "0" is the key again.        *)
(***************************************************************************)
HasKey(q, g) == Active(q) /\ request[q].key = g

KeysAllocated ==
  /\ \A q \in Requests, g \in Generations : HasKey(q, g) => g < nextGen
  /\ \A g \in Generations : g >= nextGen => cache[g] = None

FloorsPassed == \A q \in Requests : Active(q) => request[q].floor <= changes

SameFloor ==
  \A g \in Generations : \A p, q \in Requests :
    HasKey(p, g) /\ HasKey(q, g) => request[p].floor = request[q].floor

CurrentFloor ==
  \A q \in Requests : HasKey(q, generation.id) => request[q].floor = floor

EntriesFresh ==
  \A g \in Generations : cache[g] # None =>
    /\ \A q \in Requests : HasKey(q, g) => cache[g].list.changes >= request[q].floor
    /\ g = generation.id => cache[g].list.changes >= floor

ListsFresh ==
  \A q \in Requests :
    request[q].pc \in {"store", "answered"} =>
      request[q].list.changes >= request[q].floor

ZeroOutlived ==
  generation.id # 0 =>
    /\ generation.left > 0
    /\ \A q \in Requests : HasKey(q, 0) => request[q].left + TTL <= generation.left
    /\ cache[0] # None => cache[0].left <= generation.left

FreshInv ==
  /\ KeysAllocated /\ FloorsPassed /\ SameFloor /\ CurrentFloor
  /\ EntriesFresh /\ ListsFresh /\ ZeroOutlived

-----------------------------------------------------------------------------
(* Runs and generations.                                                   *)
LEMMA Counting ==
  /\ IsFiniteSet(Invalidated) /\ Cardinality(Invalidated) \in Nat
  /\ Cardinality(Runs) \in Nat
  /\ Cardinality(Invalidated) <= Cardinality(Runs)
  /\ \A r \in Runs \ Invalidated : Cardinality(Invalidated) < Cardinality(Runs)
<1>1. IsFiniteSet(Runs) /\ Invalidated \subseteq Runs
  BY RecommendationsAssumption DEF Invalidated
<1>2. IsFiniteSet(Invalidated) /\ Cardinality(Invalidated) <= Cardinality(Runs)
      /\ (Cardinality(Invalidated) = Cardinality(Runs) => Invalidated = Runs)
  BY <1>1, FS_Subset
<1>3. Cardinality(Invalidated) \in Nat /\ Cardinality(Runs) \in Nat
  BY <1>1, <1>2, FS_CardinalityType
<1>4. QED
  BY <1>1, <1>2, <1>3

LEMMA RunMoves ==
  ASSUME TypeOK, NEW r \in Runs, NEW w \in RunState, run' = [run EXCEPT ![r] = w]
  PROVE  /\ run' \in [Runs -> RunState] /\ run'[r] = w
         /\ \A s \in Runs \ {r} : run'[s] = run[s]
  BY DEF TypeOK

\* A run that ends is counted once.
LEMMA CountKept ==
  ASSUME TypeOK, NEW r \in Runs, NEW w \in RunState, run' = [run EXCEPT ![r] = w],
         run[r].pc = "done" => w.pc = "done"
  PROVE  /\ Cardinality(Invalidated)' \in Nat
         /\ Cardinality(Invalidated)' >= Cardinality(Invalidated)
         /\ run[r].pc # "done" /\ w.pc = "done" =>
              Cardinality(Invalidated)' = Cardinality(Invalidated) + 1
<1>1. run'[r] = w /\ \A s \in Runs \ {r} : run'[s] = run[s]
  BY RunMoves
<1>2. CASE w.pc = "done"
  <2>1. Invalidated' = Invalidated \cup {r}
    BY <1>1, <1>2 DEF Invalidated
  <2>2. Cardinality(Invalidated \cup {r})
          = IF r \in Invalidated THEN Cardinality(Invalidated)
            ELSE Cardinality(Invalidated) + 1
    BY Counting, FS_AddElement
  <2>3. Cardinality(Invalidated)' = Cardinality(Invalidated \cup {r})
    BY <2>1
  <2>4. r \in Invalidated <=> run[r].pc = "done"
    BY DEF Invalidated
  <2>5. Cardinality(Invalidated) \in Nat
    BY Counting
  <2>6. QED
    BY <1>2, <2>2, <2>3, <2>4, <2>5
<1>3. CASE w.pc # "done"
  <2>1. Invalidated' = Invalidated
    BY <1>1, <1>3 DEF Invalidated
  <2>2. QED
    BY <1>3, <2>1, Counting
<1>4. QED
  BY <1>2, <1>3

LEMMA GenerationWritten ==
  ASSUME TypeOK, nextGen <= MaxEdits + Cardinality(Runs), Invalidate
  PROVE  /\ generation' \in [id : Generations, left : 0..GenerationTTL]
         /\ nextGen' \in Nat /\ generation'.id < nextGen' /\ nextGen' <= nextGen + 1
         /\ floor' \in 0..changes /\ cache' = cache
<1> USE RecommendationsAssumption
<1>1. CASE NewGeneration
  <2>1. nextGen \in Generations
    BY Counting DEF TypeOK, Generations
  <2>2. GenerationTTL \in 0..GenerationTTL
    BY DEF GenerationTTL
  <2>3. QED
    BY <1>1, <2>1, <2>2 DEF NewGeneration, TypeOK
<1>2. CASE InvalidationFails
  BY <1>2 DEF InvalidationFails, cacheVars, TypeOK
<1>3. QED
  BY <1>1, <1>2 DEF Invalidate

\* What a step of a run or an edit leaves as it is.
LEMMA RequestsKept ==
  ASSUME ServeInv, UNCHANGED <<cache, request>>
  PROVE  /\ DOMAIN cache' = Generations
         /\ \A g \in Generations : cache'[g] \in Entry \cup {None}
         /\ RequestType'
         /\ \A q \in Requests : RequestGood(request[q])'
         /\ \A g \in Generations : EntryGood(cache[g])'
  BY DEF ServeInv, TypeOK, RequestType, RequestGood, EntryGood

LEMMA CommitEditServe == ASSUME ServeInv, CommitEdit PROVE ServeInv'
<1>1. TypeOK /\ GenerationsLeft /\ RunsComplete
  BY DEF ServeInv
<1>2. /\ ~editing /\ editing' = TRUE /\ edits' = edits + 1 /\ edits' \in 0..MaxEdits
      /\ changes' = changes + 1
      /\ UNCHANGED <<run, succeeded, rows, generation, nextGen, cache, floor, request>>
  BY <1>1, RecommendationsAssumption DEF CommitEdit, runVars, cacheVars, TypeOK
<1>3. TypeOK'
  BY <1>1, <1>2, RequestsKept DEF TypeOK
<1>4. GenerationsLeft'
  <2>1. Cardinality(Invalidated)' = Cardinality(Invalidated)
    BY <1>2 DEF Invalidated
  <2>2. edits \in Nat /\ nextGen \in Nat
    BY <1>1 DEF TypeOK
  <2>3. QED
    BY <1>1, <1>2, <2>1, <2>2, Counting DEF GenerationsLeft
<1>5. RunsComplete'
  BY <1>1, <1>2 DEF RunsComplete
<1>6. QED
  BY <1>2, <1>3, <1>4, <1>5, RequestsKept DEF ServeInv

LEMMA InvalidateEditServe == ASSUME ServeInv, InvalidateEdit PROVE ServeInv'
<1>1. TypeOK /\ GenerationsLeft /\ RunsComplete
  BY DEF ServeInv
<1>2. /\ editing /\ editing' = FALSE /\ Invalidate
      /\ UNCHANGED <<run, succeeded, rows, changes, edits, request>>
  BY DEF InvalidateEdit, runVars
<1>3. nextGen <= edits + Cardinality(Invalidated)
      /\ nextGen \in Nat /\ edits \in 0..MaxEdits
  BY <1>1, <1>2, Counting DEF GenerationsLeft, TypeOK
<1>4. nextGen <= MaxEdits + Cardinality(Runs)
  BY <1>3, Counting, RecommendationsAssumption
<1>5. /\ generation' \in [id : Generations, left : 0..GenerationTTL]
      /\ nextGen' \in Nat /\ generation'.id < nextGen' /\ nextGen' <= nextGen + 1
      /\ floor' \in 0..changes /\ cache' = cache
  BY <1>1, <1>2, <1>4, GenerationWritten
<1>6. TypeOK'
  BY <1>1, <1>2, <1>5, RequestsKept DEF TypeOK
<1>7. GenerationsLeft'
  <2>1. Cardinality(Invalidated)' = Cardinality(Invalidated)
    BY <1>2 DEF Invalidated
  <2>2. QED
    BY <1>2, <1>3, <1>5, <2>1, Counting DEF GenerationsLeft
<1>8. RunsComplete'
  BY <1>1, <1>2 DEF RunsComplete
<1>9. QED
  BY <1>2, <1>5, <1>6, <1>7, <1>8, RequestsKept DEF ServeInv

-----------------------------------------------------------------------------
(* Each step of a run keeps ServeInv.                                      *)
LEMMA RunsCompleteKept ==
  ASSUME TypeOK, RunsComplete, NEW r \in Runs, NEW w \in RunState,
         run' = [run EXCEPT ![r] = w], succeeded' = succeeded,
         \A s \in Runs \ {r} : rows'[s] = rows[s],
         w.pc = "finishing" => rows'[r] = NBatches,
         run[r].pc \in {"invalidating", "done", "lost"} =>
           w.pc \in {"invalidating", "done", "lost"} /\ rows'[r] = rows[r]
  PROVE  RunsComplete'
<1>1. run'[r] = w /\ \A s \in Runs \ {r} : run'[s] = run[s]
  BY RunMoves
<1>2. \A s \in Runs : run'[s].pc = "finishing" => rows'[s] = NBatches
  BY <1>1 DEF RunsComplete
<1>3. \A i \in DOMAIN succeeded : succeeded[i] \in Runs
  BY ElementOfSeq DEF TypeOK
<1>4. ASSUME NEW i \in DOMAIN succeeded
      PROVE  /\ run'[succeeded[i]].pc \in {"invalidating", "done", "lost"}
             /\ rows'[succeeded[i]] = NBatches
  BY <1>1, <1>3, <1>4 DEF RunsComplete
<1>5. QED
  BY <1>2, <1>4 DEF RunsComplete

LEMMA RunServe ==
  ASSUME ServeInv, NEW r \in Runs, NEW w \in RunState,
         run' = [run EXCEPT ![r] = w], run[r].pc # "done",
         UNCHANGED <<edits, editing, cache, request>>,
         succeeded' \in Seq(Runs), rows' \in [Runs -> 0..NBatches],
         changes' \in Nat, floor' \in 0..changes',
         generation' \in [id : Generations, left : 0..GenerationTTL],
         nextGen' \in Nat, generation'.id < nextGen',
         nextGen' <= nextGen + (IF w.pc = "done" THEN 1 ELSE 0),
         RunsComplete'
  PROVE  ServeInv'
<1>1. TypeOK /\ GenerationsLeft
  BY DEF ServeInv
<1>2. run' \in [Runs -> RunState]
  BY <1>1, RunMoves
<1>3. TypeOK'
  BY <1>1, <1>2, RequestsKept DEF TypeOK
<1>4. GenerationsLeft'
  <2>1. /\ Cardinality(Invalidated)' \in Nat
        /\ Cardinality(Invalidated)' >= Cardinality(Invalidated)
        /\ w.pc = "done" => Cardinality(Invalidated)' = Cardinality(Invalidated) + 1
    BY <1>1, CountKept
  <2>2. edits \in Nat /\ nextGen \in Nat /\ Cardinality(Invalidated) \in Nat
    BY <1>1, Counting DEF TypeOK
  <2>3. QED
    BY <1>1, <2>1, <2>2, SMTT(20) DEF GenerationsLeft
<1>5. QED
  BY <1>3, <1>4, RequestsKept DEF ServeInv

\* A step of a run that touches neither the content nor the cache.
LEMMA OnlyRunsServe ==
  ASSUME ServeInv, NEW r \in Runs, NEW w \in RunState,
         run' = [run EXCEPT ![r] = w], run[r].pc # "done", OnlyRuns,
         succeeded' = succeeded, rows' \in [Runs -> 0..NBatches], RunsComplete'
  PROVE  ServeInv'
<1>1. TypeOK
  BY DEF ServeInv
<1>2. UNCHANGED <<changes, edits, editing, generation, nextGen, cache, floor, request>>
  BY DEF OnlyRuns, contentVars, cacheVars
<1>3. /\ succeeded' \in Seq(Runs) /\ changes' \in Nat /\ floor' \in 0..changes'
      /\ generation' \in [id : Generations, left : 0..GenerationTTL]
      /\ nextGen' \in Nat /\ generation'.id < nextGen'
      /\ nextGen' <= nextGen + (IF w.pc = "done" THEN 1 ELSE 0)
  BY <1>1, <1>2 DEF TypeOK
<1>4. QED
  BY <1>2, <1>3, RunServe

LEMMA OnlyRunsStepServe ==
  ASSUME ServeInv, NEW r \in Runs,
         PlanFails(r) \/ StartRun(r) \/ RankBatch(r) \/ BatchFails(r)
           \/ FinishFailed(r) \/ RankingDone(r) \/ RunLost(r)
  PROVE  ServeInv'
<1>1. TypeOK /\ RunsComplete /\ run[r] \in RunState /\ rows[r] \in 0..NBatches
      /\ NBatches \in Nat
  BY RecommendationsAssumption DEF ServeInv, TypeOK
<1>2. \A p, u : /\ p \in {"ranking", "failing", "finishing", "invalidating", "done", "lost"}
                /\ u \in {"absent", "RUNNING", "SUCCEEDED", "FAILED"}
                => /\ [run[r] EXCEPT !.pc = p] \in RunState
                   /\ [run[r] EXCEPT !.pc = p].pc = p
                   /\ [run[r] EXCEPT !.pc = p, !.status = u] \in RunState
                   /\ [run[r] EXCEPT !.pc = p, !.status = u].pc = p
  BY <1>1 DEF RunState
<1>3. CASE PlanFails(r)
  <2> DEFINE w == [run[r] EXCEPT !.pc = "done"]
  <2>1. w \in RunState /\ w.pc = "done"
    BY <1>2
  <2>2. run' = [run EXCEPT ![r] = w] /\ run[r].pc = "queued"
        /\ succeeded' = succeeded /\ rows' = rows /\ OnlyRuns
    BY <1>1, <1>3 DEF PlanFails, Proceed, TypeOK
  <2> HIDE DEF w
  <2>3. RunsComplete'
    BY <1>1, <2>1, <2>2, RunsCompleteKept
  <2>4. rows' \in [Runs -> 0..NBatches] /\ run[r].pc # "done"
    BY <1>1, <2>2 DEF TypeOK
  <2>5. QED
    BY <2>1, <2>2, <2>3, <2>4, OnlyRunsServe
<1>4. CASE StartRun(r)
  <2> DEFINE w == [run[r] EXCEPT !.pc = "ranking", !.status = "RUNNING"]
  <2>1. w \in RunState /\ w.pc = "ranking"
    BY <1>2
  <2>2. run' = [run EXCEPT ![r] = w] /\ run[r].pc = "queued"
        /\ succeeded' = succeeded /\ rows' = [rows EXCEPT ![r] = 0] /\ OnlyRuns
    BY <1>1, <1>4 DEF StartRun, Settle, TypeOK
  <2> HIDE DEF w
  <2>3. /\ rows' \in [Runs -> 0..NBatches] /\ \A s \in Runs \ {r} : rows'[s] = rows[s]
        /\ run[r].pc # "done"
    BY <1>1, <2>2 DEF TypeOK
  <2>4. RunsComplete'
    BY <1>1, <2>1, <2>2, <2>3, RunsCompleteKept
  <2>5. QED
    BY <2>1, <2>2, <2>3, <2>4, OnlyRunsServe
<1>5. CASE RankBatch(r)
  <2>1. run' = [run EXCEPT ![r] = run[r]] /\ run[r].pc = "ranking" /\ rows[r] < NBatches
        /\ succeeded' = succeeded /\ rows' = [rows EXCEPT ![r] = @ + 1] /\ OnlyRuns
    BY <1>1, <1>5 DEF RankBatch, TypeOK
  <2>2. /\ rows' \in [Runs -> 0..NBatches] /\ \A s \in Runs \ {r} : rows'[s] = rows[s]
        /\ run[r].pc # "done"
    BY <1>1, <2>1 DEF TypeOK
  <2>3. RunsComplete'
    BY <1>1, <2>1, <2>2, RunsCompleteKept
  <2>4. QED
    BY <1>1, <2>1, <2>2, <2>3, OnlyRunsServe
<1>6. CASE BatchFails(r)
  <2> DEFINE w == [run[r] EXCEPT !.pc = "failing"]
  <2>1. w \in RunState /\ w.pc = "failing"
    BY <1>2
  <2>2. run' = [run EXCEPT ![r] = w] /\ run[r].pc = "ranking"
        /\ succeeded' = succeeded /\ rows' = rows /\ OnlyRuns
    BY <1>1, <1>6 DEF BatchFails, Proceed, TypeOK
  <2> HIDE DEF w
  <2>3. RunsComplete'
    BY <1>1, <2>1, <2>2, RunsCompleteKept
  <2>4. rows' \in [Runs -> 0..NBatches] /\ run[r].pc # "done"
    BY <1>1, <2>2 DEF TypeOK
  <2>5. QED
    BY <2>1, <2>2, <2>3, <2>4, OnlyRunsServe
<1>7. CASE FinishFailed(r)
  <2> DEFINE w == [run[r] EXCEPT !.pc = "done", !.status = "FAILED"]
  <2>1. w \in RunState /\ w.pc = "done"
    BY <1>2
  <2>2. run' = [run EXCEPT ![r] = w] /\ run[r].pc = "failing"
        /\ succeeded' = succeeded /\ rows' = [rows EXCEPT ![r] = 0] /\ OnlyRuns
    BY <1>1, <1>7 DEF FinishFailed, Settle, TypeOK
  <2> HIDE DEF w
  <2>3. /\ rows' \in [Runs -> 0..NBatches] /\ \A s \in Runs \ {r} : rows'[s] = rows[s]
        /\ run[r].pc # "done"
    BY <1>1, <2>2 DEF TypeOK
  <2>4. RunsComplete'
    BY <1>1, <2>1, <2>2, <2>3, RunsCompleteKept
  <2>5. QED
    BY <2>1, <2>2, <2>3, <2>4, OnlyRunsServe
<1>8. CASE RankingDone(r)
  <2> DEFINE w == [run[r] EXCEPT !.pc = "finishing"]
  <2>1. w \in RunState /\ w.pc = "finishing"
    BY <1>2
  <2>2. run' = [run EXCEPT ![r] = w] /\ run[r].pc = "ranking" /\ rows[r] = NBatches
        /\ succeeded' = succeeded /\ rows' = rows /\ OnlyRuns
    BY <1>1, <1>8 DEF RankingDone, Proceed, TypeOK
  <2> HIDE DEF w
  <2>3. RunsComplete'
    BY <1>1, <2>1, <2>2, RunsCompleteKept
  <2>4. rows' \in [Runs -> 0..NBatches] /\ run[r].pc # "done"
    BY <1>1, <2>2 DEF TypeOK
  <2>5. QED
    BY <2>1, <2>2, <2>3, <2>4, OnlyRunsServe
<1>9. CASE RunLost(r)
  <2> DEFINE w == [run[r] EXCEPT !.pc = "lost"]
  <2>1. w \in RunState /\ w.pc = "lost"
    BY <1>2
  <2>2. run' = [run EXCEPT ![r] = w] /\ run[r].pc \notin {"queued", "done", "lost"}
        /\ succeeded' = succeeded /\ rows' = rows /\ OnlyRuns
    BY <1>1, <1>9 DEF RunLost, Proceed, TypeOK
  <2> HIDE DEF w
  <2>3. RunsComplete'
    BY <1>1, <2>1, <2>2, RunsCompleteKept
  <2>4. rows' \in [Runs -> 0..NBatches] /\ run[r].pc # "done"
    BY <1>1, <2>2 DEF TypeOK
  <2>5. QED
    BY <2>1, <2>2, <2>3, <2>4, OnlyRunsServe
<1>10. QED
  BY <1>3, <1>4, <1>5, <1>6, <1>7, <1>8, <1>9

LEMMA FinishSucceededServe ==
  ASSUME ServeInv, NEW r \in Runs, FinishSucceeded(r) PROVE ServeInv'
<1> DEFINE w == [run[r] EXCEPT !.pc = "invalidating", !.status = "SUCCEEDED"]
<1>1. TypeOK /\ RunsComplete /\ run[r] \in RunState
  BY DEF ServeInv, TypeOK
<1>2. w \in RunState /\ w.pc = "invalidating"
  BY <1>1 DEF RunState
<1>3. /\ run' = [run EXCEPT ![r] = w] /\ run[r].pc = "finishing"
      /\ succeeded' = Append(succeeded, r) /\ changes' = changes + 1
      /\ UNCHANGED <<rows, edits, editing, generation, nextGen, cache, floor, request>>
  BY <1>1 DEF FinishSucceeded, Settle, contentVars, cacheVars, TypeOK
<1> HIDE DEF w
<1>4. RunsComplete'
  <2>1. run'[r] = w /\ \A s \in Runs \ {r} : run'[s] = run[s]
    BY <1>1, <1>2, <1>3, RunMoves
  <2>2. succeeded \in Seq(Runs) /\ rows[r] = NBatches
    BY <1>1, <1>3 DEF TypeOK, RunsComplete
  <2>3. \A i \in DOMAIN succeeded' :
          \/ succeeded'[i] = r
          \/ i \in DOMAIN succeeded /\ succeeded'[i] = succeeded[i]
    BY <1>3, <2>2
  <2>4. \A i \in DOMAIN succeeded : succeeded[i] \in Runs
    BY <2>2, ElementOfSeq
  <2>5. ASSUME NEW i \in DOMAIN succeeded'
        PROVE  /\ run'[succeeded'[i]].pc \in {"invalidating", "done", "lost"}
               /\ rows'[succeeded'[i]] = NBatches
    BY <1>1, <1>2, <1>3, <2>1, <2>2, <2>3, <2>4, <2>5 DEF RunsComplete
  <2>6. \A s \in Runs : run'[s].pc = "finishing" => rows'[s] = NBatches
    BY <1>1, <1>2, <1>3, <2>1 DEF RunsComplete
  <2>7. QED
    BY <2>5, <2>6 DEF RunsComplete
<1>5. /\ succeeded' \in Seq(Runs) /\ rows' \in [Runs -> 0..NBatches]
      /\ changes' \in Nat /\ floor' \in 0..changes'
      /\ generation' \in [id : Generations, left : 0..GenerationTTL]
      /\ nextGen' \in Nat /\ generation'.id < nextGen'
      /\ nextGen' <= nextGen + (IF w.pc = "done" THEN 1 ELSE 0)
      /\ run[r].pc # "done"
  BY <1>1, <1>3 DEF TypeOK
<1>6. QED
  BY <1>2, <1>3, <1>4, <1>5, RunServe

LEMMA InvalidateRunServe ==
  ASSUME ServeInv, NEW r \in Runs, InvalidateRun(r) PROVE ServeInv'
<1> DEFINE w == [run[r] EXCEPT !.pc = "done"]
<1>1. TypeOK /\ RunsComplete /\ GenerationsLeft /\ run[r] \in RunState
  BY DEF ServeInv, TypeOK
<1>2. w \in RunState /\ w.pc = "done"
  BY <1>1 DEF RunState
<1>3. /\ run' = [run EXCEPT ![r] = w] /\ run[r].pc = "invalidating" /\ Invalidate
      /\ UNCHANGED <<succeeded, rows, changes, edits, editing, request>>
  BY <1>1 DEF InvalidateRun, Proceed, contentVars, TypeOK
<1> HIDE DEF w
<1>4. nextGen <= MaxEdits + Cardinality(Runs)
  <2>1. r \in Runs \ Invalidated
    BY <1>3 DEF Invalidated
  <2>2. /\ Cardinality(Invalidated) < Cardinality(Runs)
        /\ Cardinality(Invalidated) \in Nat /\ Cardinality(Runs) \in Nat
    BY <2>1, Counting
  <2>3. edits \in 0..MaxEdits /\ nextGen \in Nat /\ editing \in BOOLEAN
    BY <1>1 DEF TypeOK
  <2>4. QED
    BY <1>1, <2>2, <2>3, RecommendationsAssumption DEF GenerationsLeft
<1>5. /\ generation' \in [id : Generations, left : 0..GenerationTTL]
      /\ nextGen' \in Nat /\ generation'.id < nextGen' /\ nextGen' <= nextGen + 1
      /\ floor' \in 0..changes /\ cache' = cache
  BY <1>1, <1>3, <1>4, GenerationWritten
<1>6. RunsComplete'
  BY <1>1, <1>2, <1>3, RunsCompleteKept
<1>7. /\ succeeded' \in Seq(Runs) /\ rows' \in [Runs -> 0..NBatches]
      /\ changes' \in Nat /\ floor' \in 0..changes' /\ run[r].pc # "done"
      /\ nextGen' <= nextGen + (IF w.pc = "done" THEN 1 ELSE 0)
  BY <1>1, <1>2, <1>3, <1>5 DEF TypeOK
<1>8. QED
  BY <1>2, <1>3, <1>5, <1>6, <1>7, RunServe

-----------------------------------------------------------------------------
(* Each step of a request keeps ServeInv.                                  *)
RequestState == {Idle} \cup Reading \cup Storing \cup Answering

LEMMA RequestForm ==
  ASSUME TypeOK, NEW q \in Requests
  PROVE  /\ request[q] \in RequestState
         /\ request[q].pc \in {"lookup", "load"} => request[q] \in Reading
         /\ request[q].pc = "lookup" => request[q].key \in Generations
         /\ request[q].pc = "store" => request[q] \in Storing
         /\ request[q].pc = "answered" => request[q] \in Answering
<1>1. request[q] \in RequestState
  BY DEF TypeOK, RequestType, RequestState
<1>2. Idle.pc = "idle"
  BY DEF Idle
<1>3. request[q].pc = "lookup" => request[q].key # None
  BY DEF TypeOK, RequestType
<1>4. QED
  BY <1>1, <1>2, <1>3 DEF RequestState, Reading, Storing, Answering

LEMMA CacheForm ==
  ASSUME TypeOK, NEW g \in Generations, cache[g] # None PROVE cache[g] \in Entry
  BY DEF TypeOK

LEMMA RequestMoves ==
  ASSUME ServeInv, OnlyRequest, NEW q \in Requests, NEW x \in RequestState,
         request' = [request EXCEPT ![q] = x],
         x.pc = "lookup" => x.key # None, RequestGood(x),
         DOMAIN cache' = Generations,
         \A g \in Generations : cache'[g] \in Entry \cup {None} /\ EntryGood(cache'[g])
  PROVE  ServeInv'
<1>1. TypeOK /\ GenerationsLeft /\ RunsComplete
  BY DEF ServeInv
<1>2. UNCHANGED <<run, succeeded, rows, changes, edits, editing, generation, nextGen, floor>>
  BY DEF OnlyRequest, runVars, contentVars
<1>3. /\ DOMAIN request' = Requests
      /\ request'[q] = x /\ \A p \in Requests \ {q} : request'[p] = request[p]
  BY <1>1 DEF TypeOK, RequestType
<1>4. RequestType'
  BY <1>1, <1>3 DEF TypeOK, RequestType, RequestState
<1>5. TypeOK'
  BY <1>1, <1>2, <1>4 DEF TypeOK
<1>6. GenerationsLeft' /\ RunsComplete'
  BY <1>1, <1>2 DEF GenerationsLeft, Invalidated, RunsComplete
<1>7. ASSUME NEW p \in Requests PROVE RequestGood(request[p])'
  <2>1. RequestGood(request[p]) /\ request'[p] \in {x, request[p]}
    BY <1>3 DEF ServeInv
  <2>2. QED
    BY <2>1 DEF RequestGood
<1>8. ASSUME NEW g \in Generations PROVE EntryGood(cache[g])'
  <2>1. EntryGood(cache'[g])
    OBVIOUS
  <2>2. QED
    BY <2>1 DEF EntryGood
<1>9. QED
  BY <1>5, <1>6, <1>7, <1>8 DEF ServeInv

LEMMA CacheSame ==
  ASSUME ServeInv, cache' = cache
  PROVE  /\ DOMAIN cache' = Generations
         /\ \A g \in Generations : cache'[g] \in Entry \cup {None} /\ EntryGood(cache'[g])
  BY DEF ServeInv, TypeOK

LEMMA LoadedGood ==
  ASSUME ServeInv
  PROVE  Loaded \in Lists /\ Complete(Loaded) /\ Loaded.age = 0 /\ Loaded.changes = changes
<1> USE RecommendationsAssumption
<1>1. TypeOK /\ RunsComplete
  BY DEF ServeInv
<1>2. 0 \in 0..TooOld
  BY DEF TooOld
<1>3. Latest \in Runs \cup {None} /\ (Latest # None => rows[Latest] = NBatches)
  <2>1. CASE succeeded = <<>>
    BY <2>1 DEF Latest
  <2>2. CASE succeeded # <<>>
    <3>1. Len(succeeded) \in DOMAIN succeeded /\ succeeded[Len(succeeded)] \in Runs
      BY <1>1, <2>2 DEF TypeOK
    <3>2. QED
      BY <1>1, <2>2, <3>1 DEF Latest, RunsComplete
  <2>3. QED
    BY <2>1, <2>2
<1>4. QED
  BY <1>1, <1>2, <1>3 DEF Loaded, Lists, Complete, TypeOK

LEMMA ReadGenerationServe ==
  ASSUME ServeInv, NEW q \in Requests, NEW key, ReadGeneration(q, key) PROVE ServeInv'
<1> DEFINE x == [pc |-> IF key = None THEN "load" ELSE "lookup", key |-> key,
                 floor |-> floor, left |-> MaxDelay]
<1>1. TypeOK
  BY DEF ServeInv
<1>2. key \in Generations \cup {None} /\ floor \in Nat /\ MaxDelay \in 0..MaxDelay
  BY <1>1, RecommendationsAssumption DEF ReadGeneration, TypeOK
<1>3. x \in Reading /\ (x.pc = "lookup" => x.key # None)
  BY <1>2 DEF Reading
<1>4. request' = [request EXCEPT ![q] = x] /\ cache' = cache /\ OnlyRequest
  BY DEF ReadGeneration
<1>5. x \in RequestState /\ RequestGood(x)
  BY <1>3 DEF RequestState, RequestGood, Reading
<1> HIDE DEF x
<1>6. QED
  BY <1>3, <1>4, <1>5, CacheSame, RequestMoves

LEMMA HitServe ==
  ASSUME ServeInv, NEW q \in Requests, Hit(q) PROVE ServeInv'
<1> DEFINE x == Answered(q, cache[request[q].key].list)
<1>1. TypeOK
  BY DEF ServeInv
<1>2. /\ request[q].pc = "lookup" /\ request[q] \in Reading
      /\ request[q].key \in Generations /\ cache[request[q].key] # None
  BY <1>1, RequestForm DEF Hit
<1>3. PICK e \in Entry : e = cache[request[q].key]
  BY <1>1, <1>2, CacheForm
<1>4. /\ Complete(e.list) /\ e.list.age + e.left <= TooOld
      /\ e.list \in Lists /\ e.left \in 1..TTL
  <2>1. EntryGood(e) /\ e # None
    BY <1>2, <1>3 DEF ServeInv
  <2>2. QED
    BY <2>1 DEF EntryGood, Entry
<1>5. e.list.age < TooOld
  BY <1>4, RecommendationsAssumption DEF Lists, TooOld
<1>6. x \in Answering /\ x.pc = "answered" /\ x.list = e.list
  BY <1>2, <1>3, <1>4 DEF Answered, Answering, Reading
<1>7. request' = [request EXCEPT ![q] = x] /\ cache' = cache /\ OnlyRequest
  BY <1>1 DEF Hit, TypeOK, RequestType
<1> HIDE DEF x
<1>8. x \in RequestState /\ RequestGood(x)
  BY <1>4, <1>5, <1>6 DEF RequestState, RequestGood
<1>9. QED
  BY <1>6, <1>7, <1>8, CacheSame, RequestMoves

LEMMA MissServe ==
  ASSUME ServeInv, NEW q \in Requests, Miss(q) PROVE ServeInv'
<1> DEFINE x == [request[q] EXCEPT !.pc = "load"]
<1>1. TypeOK
  BY DEF ServeInv
<1>2. request[q] \in Reading /\ request[q].key \in Generations
  BY <1>1, RequestForm DEF Miss
<1>3. x \in Reading /\ x.pc = "load"
  BY <1>2 DEF Reading
<1>4. request' = [request EXCEPT ![q] = x] /\ OnlyRequest
  BY <1>1 DEF Miss, TypeOK, RequestType
<1> HIDE DEF x
<1>5. x \in RequestState /\ RequestGood(x)
  BY <1>3 DEF RequestState, RequestGood
<1>6. /\ DOMAIN cache' = Generations
      /\ \A g \in Generations : cache'[g] \in Entry \cup {None} /\ EntryGood(cache'[g])
  <2>1. CASE cache' = cache
    BY <2>1, CacheSame
  <2>2. CASE cache' = [cache EXCEPT ![request[q].key] = None]
    <3>1. DOMAIN cache' = Generations /\ \A g \in Generations : cache'[g] \in {cache[g], None}
      BY <1>1, <2>2 DEF TypeOK
    <3>2. EntryGood(None)
      BY DEF EntryGood
    <3>3. QED
      BY <3>1, <3>2 DEF ServeInv, TypeOK
  <2>3. QED
    BY <2>1, <2>2 DEF Miss
<1>7. QED
  BY <1>3, <1>4, <1>5, <1>6, RequestMoves

LEMMA LoadServe ==
  ASSUME ServeInv, NEW q \in Requests, Load(q) PROVE ServeInv'
<1> USE RecommendationsAssumption
<1> DEFINE x == IF request[q].key = None THEN Answered(q, Loaded)
                ELSE [pc |-> "store", key |-> request[q].key, floor |-> request[q].floor,
                      left |-> request[q].left, list |-> Loaded]
<1>1. TypeOK
  BY DEF ServeInv
<1>2. request[q] \in Reading
  BY <1>1, RequestForm DEF Load
<1>3. request' = [request EXCEPT ![q] = x] /\ cache' = cache /\ OnlyRequest
  BY <1>1 DEF Load, TypeOK, RequestType
<1>4. PICK l \in Lists : l = Loaded /\ Complete(l) /\ l.age = 0
  BY LoadedGood
<1>5. x \in RequestState /\ RequestGood(x) /\ x.pc # "lookup"
  <2>1. CASE request[q].key = None
    <3>1. x \in Answering /\ x.pc = "answered" /\ x.list = l
      BY <1>2, <1>4, <2>1 DEF Answered, Answering, Reading
    <3>2. l.age < TooOld
      BY <1>4 DEF TooOld
    <3> HIDE DEF x
    <3>3. QED
      BY <1>4, <3>1, <3>2 DEF RequestState, RequestGood
  <2>2. CASE request[q].key # None
    <3>1. x \in Storing /\ x.pc = "store" /\ x.list = l /\ x.left \in 0..MaxDelay
      BY <1>2, <1>4, <2>2 DEF Storing, Reading
    <3> HIDE DEF x
    <3>2. QED
      BY <1>4, <3>1 DEF RequestState, RequestGood
  <2>3. QED
    BY <2>1, <2>2
<1> HIDE DEF x
<1>6. QED
  BY <1>3, <1>5, CacheSame, RequestMoves

LEMMA StoreServe ==
  ASSUME ServeInv, NEW q \in Requests, Store(q) PROVE ServeInv'
<1> USE RecommendationsAssumption
<1> DEFINE x == Answered(q, request[q].list)
<1>1. TypeOK
  BY DEF ServeInv
<1>2. request[q] \in Storing /\ RequestGood(request[q]) /\ request[q].pc = "store"
  BY <1>1, RequestForm DEF Store, ServeInv
<1>3. PICK l \in Lists : l = request[q].list
  BY <1>2 DEF Storing
<1>4. Complete(l) /\ l.age \in Nat /\ l.age <= MaxDelay
  BY <1>2, <1>3 DEF RequestGood, Storing, Lists
<1>5. x \in Answering /\ x.pc = "answered" /\ x.list = l
  BY <1>2, <1>3 DEF Answered, Answering, Storing
<1>6. request' = [request EXCEPT ![q] = x] /\ OnlyRequest
  BY <1>1 DEF Store, TypeOK, RequestType
<1> HIDE DEF x
<1>7. x \in RequestState /\ RequestGood(x)
  BY <1>4, <1>5 DEF RequestState, RequestGood, TooOld
<1>8. /\ DOMAIN cache' = Generations
      /\ \A g \in Generations : cache'[g] \in Entry \cup {None} /\ EntryGood(cache'[g])
  <2>1. CASE cache' = cache
    BY <2>1, CacheSame
  <2>2. CASE cache' = [cache EXCEPT ![request[q].key] =
                        [list |-> request[q].list, left |-> EntryTTL]]
    <3>1. PICK e : e = [list |-> l, left |-> TTL]
      OBVIOUS
    <3>2. e \in Entry /\ EntryGood(e)
      BY <1>4, <3>1 DEF Entry, EntryGood, TooOld
    <3>3. cache' = [cache EXCEPT ![request[q].key] = e]
      BY <1>3, <2>2, <3>1 DEF EntryTTL
    <3>4. DOMAIN cache' = Generations /\ \A g \in Generations : cache'[g] \in {cache[g], e}
      BY <1>1, <3>3 DEF TypeOK
    <3>5. QED
      BY <3>2, <3>4 DEF ServeInv, TypeOK
  <2>3. QED
    BY <2>1, <2>2 DEF Store
<1>9. QED
  BY <1>5, <1>6, <1>7, <1>8, RequestMoves

-----------------------------------------------------------------------------
(* Time.                                                                   *)
LEMMA OlderList ==
  ASSUME NEW list \in Lists
  PROVE  /\ Older(list) \in Lists
         /\ Older(list).age <= list.age + 1
         /\ Older(list).changes = list.changes
         /\ Complete(list) => Complete(Older(list))
<1>1. list.age \in Nat /\ TooOld \in Nat
  BY RecommendationsAssumption DEF Lists, TooOld
<1>2. PICK n \in 0..TooOld :
        n = (IF list.age < TooOld THEN list.age + 1 ELSE list.age) /\ n <= list.age + 1
  BY <1>1 DEF Lists
<1>3. Older(list) = [list EXCEPT !.age = n]
  BY <1>2 DEF Older, Lists
<1>4. QED
  BY <1>2, <1>3 DEF Lists, Complete

\* What a Tick makes of a request.
LEMMA TickRequest ==
  ASSUME TypeOK, Tick, NEW q \in Requests
  PROVE  /\ Active(q) => /\ request[q].left > 0 /\ request'[q].pc = request[q].pc
                         /\ request'[q].key = request[q].key
                         /\ request'[q].floor = request[q].floor
                         /\ request'[q].left = request[q].left - 1
         /\ ~Active(q) => request'[q] = request[q]
         /\ request[q].pc \in {"lookup", "load"} => request'[q] \in Reading
         /\ request[q].pc = "store" =>
              request'[q] \in Storing /\ request'[q].list = Older(request[q].list)
<1> USE RecommendationsAssumption
<1>1. CASE request[q].pc \in {"lookup", "load"}
  <2>1. request[q] \in Reading /\ request[q].left > 0
    BY <1>1, RequestForm DEF Tick, Active
  <2>2. request'[q] = [request[q] EXCEPT !.left = @ - 1]
    BY <1>1 DEF Tick
  <2>3. QED
    BY <1>1, <2>1, <2>2 DEF Active, Reading
<1>2. CASE request[q].pc = "store"
  <2>1. request[q] \in Storing /\ request[q].left > 0
    BY <1>2, RequestForm DEF Tick, Active
  <2>2. PICK l \in Lists : l = Older(request[q].list)
    BY <2>1, OlderList DEF Storing
  <2>3. PICK n \in 0..MaxDelay : n = request[q].left - 1
    BY <2>1 DEF Storing
  <2>4. request'[q] = [request[q] EXCEPT !.left = n, !.list = l]
    BY <1>2, <2>1, <2>2, <2>3 DEF Tick, Storing
  <2>5. request'[q] \in Storing /\ request'[q].list = l /\ request'[q].left = n
        /\ request'[q].pc = request[q].pc /\ request'[q].key = request[q].key
        /\ request'[q].floor = request[q].floor
    BY <2>1, <2>4 DEF Storing
  <2>6. QED
    BY <1>2, <2>1, <2>2, <2>3, <2>5 DEF Active
<1>3. CASE request[q].pc \notin {"lookup", "load", "store"}
  BY <1>3 DEF Tick, Active
<1>4. QED
  BY <1>1, <1>2, <1>3

\* What a Tick makes of an entry.
LEMMA TickEntry ==
  ASSUME TypeOK, Tick, NEW g \in Generations
  PROVE  /\ DOMAIN cache' = Generations
         /\ cache'[g] \in Entry \cup {None}
         /\ cache'[g] # None =>
              /\ cache[g] \in Entry /\ cache[g] # None
              /\ cache'[g].left = cache[g].left - 1
              /\ cache'[g].list = Older(cache[g].list)
<1> USE RecommendationsAssumption
<1>1. DOMAIN cache' = Generations
  BY DEF Tick
<1>2. CASE cache[g] = None \/ cache[g].left = 1
  BY <1>1, <1>2 DEF Tick
<1>3. CASE ~(cache[g] = None \/ cache[g].left = 1)
  <2>1. cache[g] \in Entry /\ cache[g] # None
    BY <1>3, CacheForm
  <2>2. cache'[g] = [list |-> Older(cache[g].list), left |-> cache[g].left - 1]
    BY <1>3 DEF Tick
  <2>3. Older(cache[g].list) \in Lists /\ cache[g].left - 1 \in 1..TTL
    BY <1>3, <2>1, OlderList DEF Entry
  <2>4. QED
    BY <1>1, <2>1, <2>2, <2>3 DEF Entry
<1>4. QED
  BY <1>2, <1>3

LEMMA TickServe == ASSUME ServeInv, Tick PROVE ServeInv'
<1> USE RecommendationsAssumption
<1>1. TypeOK /\ GenerationsLeft /\ RunsComplete
  BY DEF ServeInv
<1>2. UNCHANGED <<run, succeeded, rows, changes, edits, editing, nextGen, floor>>
  BY DEF Tick, runVars, contentVars
<1>3. generation' \in [id : Generations, left : 0..GenerationTTL] /\ generation'.id < nextGen
  <2>1. 0 \in Generations /\ 0 \in 0..GenerationTTL /\ GenerationTTL \in Nat
    BY Counting DEF Generations, GenerationTTL
  <2>2. generation \in [id : Generations, left : 0..GenerationTTL] /\ generation.id < nextGen
        /\ generation.id \in Nat /\ nextGen \in Nat
    BY <1>1, Counting DEF TypeOK, Generations
  <2>3. CASE generation.left <= 1
    <3>1. generation' = [id |-> 0, left |-> 0]
      BY <2>3 DEF Tick
    <3>2. QED
      BY <2>1, <2>2, <3>1
  <2>4. CASE ~(generation.left <= 1)
    <3>1. generation' = [generation EXCEPT !.left = @ - 1]
      BY <2>4 DEF Tick
    <3>2. QED
      BY <2>1, <2>2, <2>4, <3>1
  <2>5. QED
    BY <2>3, <2>4
<1>4. RequestType'
  <2>1. DOMAIN request' = Requests
    BY DEF Tick
  <2>2. ASSUME NEW q \in Requests
        PROVE  /\ request'[q] \in {Idle} \cup Reading \cup Storing \cup Answering
               /\ request'[q].pc = "lookup" => request'[q].key # None
    BY <1>1, TickRequest, RequestForm DEF Active, RequestState, TypeOK, RequestType
  <2>3. QED
    BY <2>1, <2>2 DEF RequestType
<1>5. TypeOK'
  BY <1>1, <1>2, <1>3, <1>4, TickEntry DEF TypeOK
<1>6. GenerationsLeft' /\ RunsComplete'
  BY <1>1, <1>2 DEF GenerationsLeft, Invalidated, RunsComplete
<1>7. ASSUME NEW q \in Requests PROVE RequestGood(request[q])'
  <2>1. RequestGood(request[q])
    BY DEF ServeInv
  <2>2. CASE request[q].pc = "store"
    <3>1. request[q] \in Storing /\ request[q].pc = "store"
      BY <1>1, <2>2, RequestForm
    <3>2. /\ request'[q].pc = "store" /\ request'[q].list = Older(request[q].list)
          /\ request'[q].left = request[q].left - 1
      BY <1>1, <2>2, TickRequest DEF Active
    <3>3. /\ Complete(Older(request[q].list))
          /\ Older(request[q].list).age <= request[q].list.age + 1
          /\ Older(request[q].list).age \in Nat /\ request[q].list.age \in Nat
          /\ request[q].left \in Nat
      BY <2>1, <2>2, <3>1, OlderList DEF RequestGood, Storing, Lists
    <3>4. request[q].list.age + request[q].left <= MaxDelay
      BY <2>1, <2>2 DEF RequestGood
    <3>5. Older(request[q].list).age + (request[q].left - 1) <= MaxDelay
      BY <3>3, <3>4
    <3>6. QED
      BY <3>2, <3>3, <3>5 DEF RequestGood
  <2>3. CASE request[q].pc \in {"lookup", "load"}
    <3>1. request'[q].pc = request[q].pc
      BY <1>1, <2>3, TickRequest DEF Active
    <3>2. QED
      BY <2>3, <3>1 DEF RequestGood
  <2>4. CASE request[q].pc \notin {"lookup", "load", "store"}
    <3>1. request'[q] = request[q]
      BY <1>1, <2>4, TickRequest DEF Active
    <3>2. QED
      BY <2>1, <3>1 DEF RequestGood
  <2>5. QED
    BY <2>2, <2>3, <2>4
<1>8. ASSUME NEW g \in Generations PROVE EntryGood(cache[g])'
  <2>1. CASE cache'[g] = None
    BY <2>1 DEF EntryGood
  <2>2. CASE cache'[g] # None
    <3>1. /\ cache[g] \in Entry /\ cache[g] # None
          /\ cache'[g].left = cache[g].left - 1
          /\ cache'[g].list = Older(cache[g].list)
      BY <1>1, <2>2, TickEntry
    <3>2. Complete(cache[g].list) /\ cache[g].list.age + cache[g].left <= TooOld
      BY <3>1 DEF ServeInv, EntryGood
    <3>3. /\ Complete(Older(cache[g].list))
          /\ Older(cache[g].list).age <= cache[g].list.age + 1
          /\ Older(cache[g].list).age \in Nat /\ cache[g].list.age \in Nat
          /\ cache[g].left \in Nat /\ TooOld \in Nat
      BY <3>1, <3>2, OlderList DEF Entry, Lists, TooOld
    <3>4. Older(cache[g].list).age + (cache[g].left - 1) <= TooOld
      BY <3>2, <3>3
    <3>5. QED
      BY <3>1, <3>3, <3>4 DEF EntryGood
  <2>3. QED
    BY <2>1, <2>2
<1>9. QED
  BY <1>5, <1>6, <1>7, <1>8 DEF ServeInv

-----------------------------------------------------------------------------
LEMMA InitServe == Init => ServeInv
<1> SUFFICES ASSUME Init PROVE ServeInv
  OBVIOUS
<1> USE RecommendationsAssumption
<1>1. 0 \in Generations
  BY Counting DEF Generations
<1>2. TypeOK
  <2>1. generation \in [id : Generations, left : 0..GenerationTTL]
    BY <1>1 DEF Init, GenerationTTL
  <2>2. RequestType
    BY DEF Init, RequestType, Idle
  <2>3. succeeded \in Seq(Runs)
    BY DEF Init
  <2>4. run \in [Runs -> RunState] /\ rows \in [Runs -> 0..NBatches]
    BY DEF Init, RunState
  <2>5. QED
    BY <2>1, <2>2, <2>3, <2>4 DEF Init, TypeOK
<1>3. GenerationsLeft /\ RunsComplete
  BY Counting DEF Init, GenerationsLeft, RunsComplete
<1>4. /\ \A q \in Requests : RequestGood(request[q])
      /\ \A g \in Generations : EntryGood(cache[g])
  BY DEF Init, Idle, RequestGood, EntryGood
<1>5. QED
  BY <1>2, <1>3, <1>4 DEF ServeInv

LEMMA StepServe == ServeInv /\ [Next]_vars => ServeInv'
<1> SUFFICES ASSUME ServeInv, [Next]_vars PROVE ServeInv'
  OBVIOUS
<1>1. CASE CommitEdit
  BY <1>1, CommitEditServe
<1>2. CASE InvalidateEdit
  BY <1>2, InvalidateEditServe
<1>3. ASSUME NEW r \in Runs, RunStep(r) \/ RunLost(r) PROVE ServeInv'
  BY <1>3, OnlyRunsStepServe, FinishSucceededServe, InvalidateRunServe DEF RunStep
<1>4. ASSUME NEW q \in Requests, RequestStep(q) PROVE ServeInv'
  BY <1>4, ReadGenerationServe, HitServe, MissServe, LoadServe, StoreServe DEF RequestStep
<1>5. CASE Tick
  BY <1>5, TickServe
<1>6. CASE UNCHANGED vars
  <2>1. UNCHANGED <<run, succeeded, rows, changes, edits, editing, generation, nextGen,
                    cache, request, floor>>
    BY <1>6 DEF vars, runVars, contentVars, cacheVars
  <2>2. TypeOK' /\ GenerationsLeft' /\ RunsComplete'
    BY <2>1 DEF ServeInv, TypeOK, RequestType, GenerationsLeft, Invalidated, RunsComplete
  <2>3. QED
    BY <2>1, <2>2, RequestsKept DEF ServeInv
<1>7. QED
  BY <1>1, <1>2, <1>3, <1>4, <1>5, <1>6 DEF Next

\* Runs, requests, cached lists and generations keep their types; a fresh
\* generation never runs out of the ids that edits and runs account for.
THEOREM RecommendationsTypeCorrect == Spec => []TypeOK
<1>1. ServeInv => TypeOK
  BY DEF ServeInv
<1>2. QED
  BY InitServe, StepServe, <1>1, PTL DEF Spec

\* However runs fail, die or finish around a request and its cache entry, a
\* list that is shown and names a run has the rows of every batch of it.
THEOREM RecommendationsComplete == Spec => []ServedRunComplete
<1>1. ServeInv => ServedRunComplete
  BY DEF ServeInv, RequestGood, Complete, ServedRunComplete, Answers
<1>2. QED
  BY InitServe, StepServe, <1>1, PTL DEF Spec

\* Whatever invalidations are lost, a list that is shown is younger than the
\* time a request and a cache entry live together.
THEOREM RecommendationsNotTooOld == Spec => []AnswersNotTooOld
<1>1. ServeInv => AnswersNotTooOld
  BY DEF ServeInv, RequestGood, AnswersNotTooOld, Answers
<1>2. QED
  BY InitServe, StepServe, <1>1, PTL DEF Spec

-----------------------------------------------------------------------------
(* Each step keeps FreshInv, when no request takes longer than a cached    *)
(* list lives.                                                             *)

\* Runs and edits that do not invalidate.
LEMMA FreshKept ==
  ASSUME ServeInv, FreshInv, UNCHANGED <<generation, nextGen, cache, request, floor>>,
         changes' \in Nat, changes' >= changes
  PROVE  FreshInv'
<1>1. TypeOK
  BY DEF ServeInv
<1>2. \A q \in Requests : Active(q) => request[q].floor \in Nat
  BY <1>1, RequestForm DEF Active, Reading, Storing
<1>3. FloorsPassed'
  BY <1>1, <1>2 DEF FreshInv, FloorsPassed, Active, TypeOK
<1>4. KeysAllocated' /\ SameFloor' /\ CurrentFloor'
  BY DEF FreshInv, KeysAllocated, SameFloor, CurrentFloor, HasKey, Active
<1>5. EntriesFresh' /\ ListsFresh' /\ ZeroOutlived'
  BY DEF FreshInv, EntriesFresh, ListsFresh, ZeroOutlived, HasKey, Active
<1>6. QED
  BY <1>3, <1>4, <1>5 DEF FreshInv

LEMMA NewGenerationFresh ==
  ASSUME ServeInv, FreshInv, MaxDelay <= TTL, NewGeneration,
         nextGen <= MaxEdits + Cardinality(Runs), UNCHANGED <<request, changes>>
  PROVE  FreshInv'
<1> USE RecommendationsAssumption
<1>1. TypeOK
  BY DEF ServeInv
<1>2. /\ generation'.id = nextGen /\ generation'.left = 2 * TTL
      /\ nextGen' = nextGen + 1 /\ floor' = changes /\ cache' = cache
  BY DEF NewGeneration, GenerationTTL
<1>3. nextGen \in Generations /\ Generations \subseteq Nat /\ 0 \in Generations
  BY <1>1, Counting DEF TypeOK, Generations
<1>4. /\ \A q \in Requests : ~HasKey(q, nextGen)
      /\ cache[nextGen] = None
  BY <1>3 DEF FreshInv, KeysAllocated
<1>5. KeysAllocated'
  BY <1>2, <1>3 DEF FreshInv, KeysAllocated, HasKey, Active
<1>6. FloorsPassed' /\ SameFloor' /\ ListsFresh'
  BY DEF FreshInv, FloorsPassed, SameFloor, ListsFresh, HasKey, Active
<1>7. CurrentFloor'
  BY <1>2, <1>4 DEF CurrentFloor, HasKey, Active
<1>8. EntriesFresh'
  BY <1>2, <1>4 DEF FreshInv, EntriesFresh, HasKey, Active
<1>9. ZeroOutlived'
  <2>1. \A q \in Requests : Active(q) => request[q].left \in 0..MaxDelay
    BY <1>1, RequestForm DEF Active, Reading, Storing
  <2>2. cache[0] # None => cache[0].left \in 1..TTL
    BY <1>1, <1>3, CacheForm DEF Entry
  <2>3. \A q \in Requests : HasKey(q, 0)' => request'[q].left + TTL <= generation'.left
    BY <1>2, <2>1 DEF HasKey, Active
  <2>4. QED
    BY <1>2, <2>2, <2>3 DEF ZeroOutlived
<1>10. QED
  BY <1>5, <1>6, <1>7, <1>8, <1>9 DEF FreshInv

LEMMA InvalidateFresh ==
  ASSUME ServeInv, FreshInv, MaxDelay <= TTL, Invalidate,
         nextGen <= MaxEdits + Cardinality(Runs), UNCHANGED <<request, changes>>
  PROVE  FreshInv'
<1>1. CASE NewGeneration
  BY <1>1, NewGenerationFresh
<1>2. CASE InvalidationFails
  <2>1. UNCHANGED <<generation, nextGen, cache, floor>> /\ changes \in Nat
    BY <1>2 DEF InvalidationFails, cacheVars, ServeInv, TypeOK
  <2>2. QED
    BY <2>1, FreshKept
<1>3. QED
  BY <1>1, <1>2 DEF Invalidate

\* An invalidation still has a generation to take.
LEMMA GenerationLeft ==
  ASSUME ServeInv, InvalidateEdit \/ \E r \in Runs : InvalidateRun(r)
  PROVE  nextGen <= MaxEdits + Cardinality(Runs)
<1>1. TypeOK /\ GenerationsLeft
  BY DEF ServeInv
<1>2. edits \in 0..MaxEdits /\ nextGen \in Nat /\ editing \in BOOLEAN
  BY <1>1 DEF TypeOK
<1>3. CASE InvalidateEdit
  BY <1>1, <1>2, <1>3, Counting, RecommendationsAssumption
     DEF GenerationsLeft, InvalidateEdit
<1>4. CASE \E r \in Runs : InvalidateRun(r)
  <2>1. PICK r \in Runs : run[r].pc = "invalidating"
    BY <1>4 DEF InvalidateRun
  <2>2. r \in Runs \ Invalidated
    BY <2>1 DEF Invalidated
  <2>3. /\ Cardinality(Invalidated) < Cardinality(Runs)
        /\ Cardinality(Invalidated) \in Nat /\ Cardinality(Runs) \in Nat
    BY <2>2, Counting
  <2>4. QED
    BY <1>1, <1>2, <2>3, RecommendationsAssumption DEF GenerationsLeft
<1>5. QED
  BY <1>3, <1>4

LEMMA RunFresh ==
  ASSUME ServeInv, FreshInv, MaxDelay <= TTL, NEW r \in Runs, RunStep(r) \/ RunLost(r)
  PROVE  FreshInv'
<1>1. changes \in Nat
  BY DEF ServeInv, TypeOK
<1>2. CASE InvalidateRun(r)
  <2>1. Invalidate /\ UNCHANGED <<request, changes>>
    BY <1>2 DEF InvalidateRun
  <2>2. QED
    BY <1>2, <2>1, GenerationLeft, InvalidateFresh
<1>3. CASE FinishSucceeded(r)
  <2>1. changes' = changes + 1 /\ UNCHANGED <<generation, nextGen, cache, request, floor>>
    BY <1>3 DEF FinishSucceeded, cacheVars
  <2>2. QED
    BY <1>1, <2>1, FreshKept
<1>4. CASE \/ PlanFails(r) \/ StartRun(r) \/ RankBatch(r) \/ BatchFails(r)
           \/ FinishFailed(r) \/ RankingDone(r) \/ RunLost(r)
  <2>1. OnlyRuns
    BY <1>4 DEF PlanFails, StartRun, RankBatch, BatchFails, FinishFailed, RankingDone, RunLost
  <2>2. UNCHANGED <<changes, generation, nextGen, cache, request, floor>>
    BY <2>1 DEF OnlyRuns, cacheVars
  <2>3. QED
    BY <1>1, <2>2, FreshKept
<1>5. QED
  BY <1>2, <1>3, <1>4 DEF RunStep

LEMMA EditFresh ==
  ASSUME ServeInv, FreshInv, MaxDelay <= TTL, CommitEdit \/ InvalidateEdit
  PROVE  FreshInv'
<1>1. changes \in Nat
  BY DEF ServeInv, TypeOK
<1>2. CASE CommitEdit
  <2>1. changes' = changes + 1 /\ UNCHANGED <<generation, nextGen, cache, request, floor>>
    BY <1>2 DEF CommitEdit, cacheVars
  <2>2. QED
    BY <1>1, <2>1, FreshKept
<1>3. CASE InvalidateEdit
  <2>1. Invalidate /\ UNCHANGED <<request, changes>>
    BY <1>3 DEF InvalidateEdit
  <2>2. QED
    BY <1>3, <2>1, GenerationLeft, InvalidateFresh
<1>4. QED
  BY <1>2, <1>3

\* A request goes on with its key, or ends; it may empty an entry or store a
\* list under its key.
LEMMA FreshMoves ==
  ASSUME ServeInv, FreshInv, OnlyRequest, NEW q \in Requests, NEW x \in RequestState,
         request' = [request EXCEPT ![q] = x],
         x.pc \in {"lookup", "load", "store"} =>
           /\ Active(q) /\ x.key = request[q].key
           /\ x.floor = request[q].floor /\ x.left = request[q].left,
         x.pc \in {"store", "answered"} => x.list.changes >= x.floor,
         \A g \in Generations :
           \/ cache'[g] = None \/ cache'[g] = cache[g]
           \/ /\ HasKey(q, g)
              /\ cache'[g].list.changes >= request[q].floor /\ cache'[g].left = TTL
  PROVE  FreshInv'
<1> USE RecommendationsAssumption
<1>1. TypeOK
  BY DEF ServeInv
<1>2. UNCHANGED <<changes, generation, nextGen, floor>>
  BY DEF OnlyRequest
<1>3. request'[q] = x /\ \A p \in Requests \ {q} : request'[p] = request[p]
  BY <1>1 DEF TypeOK, RequestType
<1>4. \A p \in Requests : Active(p)' =>
        /\ Active(p) /\ request'[p].key = request[p].key
        /\ request'[p].floor = request[p].floor /\ request'[p].left = request[p].left
  BY <1>3 DEF Active
<1>5. \A p \in Requests, g \in Generations : HasKey(p, g)' => HasKey(p, g)
  BY <1>4 DEF HasKey
<1>6. \A p \in Requests, g \in Generations : HasKey(p, g)' =>
        request'[p].floor = request[p].floor /\ request'[p].left = request[p].left
  BY <1>4 DEF HasKey
<1>7. 0 \in Generations /\ Generations \subseteq Nat /\ nextGen \in Nat
  BY <1>1, Counting DEF TypeOK, Generations
<1>8. KeysAllocated'
  <2>1. \A p \in Requests, g \in Generations : HasKey(p, g)' => g < nextGen'
    BY <1>2, <1>5 DEF FreshInv, KeysAllocated
  <2>2. ASSUME NEW g \in Generations, g >= nextGen PROVE cache'[g] = None
    <3>1. cache[g] = None /\ ~HasKey(q, g)
      BY <1>7, <2>2 DEF FreshInv, KeysAllocated
    <3>2. QED
      BY <3>1
  <2>3. QED
    BY <1>2, <2>1, <2>2 DEF KeysAllocated
<1>9. FloorsPassed'
  BY <1>2, <1>4 DEF FreshInv, FloorsPassed
<1>10. SameFloor'
  BY <1>5, <1>6 DEF FreshInv, SameFloor
<1>11. CurrentFloor'
  <2>1. generation.id \in Generations
    BY <1>1 DEF TypeOK
  <2>2. QED
    BY <1>2, <1>5, <1>6, <2>1 DEF FreshInv, CurrentFloor
<1>12. ASSUME NEW g \in Generations, cache'[g] # None
       PROVE  /\ \A p \in Requests : HasKey(p, g)' =>
                   cache'[g].list.changes >= request'[p].floor
              /\ g = generation'.id => cache'[g].list.changes >= floor'
  <2>1. CASE cache'[g] = cache[g]
    BY <1>2, <1>5, <1>6, <1>12, <2>1 DEF FreshInv, EntriesFresh
  <2>2. CASE HasKey(q, g) /\ cache'[g].list.changes >= request[q].floor
    <3>1. \A p \in Requests : HasKey(p, g) => request[p].floor = request[q].floor
      BY <2>2 DEF FreshInv, SameFloor
    <3>2. g = generation.id => request[q].floor = floor
      BY <2>2 DEF FreshInv, CurrentFloor
    <3>3. QED
      BY <1>2, <1>5, <1>6, <2>2, <3>1, <3>2
  <2>3. QED
    BY <1>12, <2>1, <2>2
<1>13. EntriesFresh'
  BY <1>12 DEF EntriesFresh
<1>14. ListsFresh'
  BY <1>3 DEF FreshInv, ListsFresh
<1>15. ASSUME generation.id # 0
       PROVE  /\ generation.left > 0
              /\ \A p \in Requests : HasKey(p, 0)' =>
                   request'[p].left + TTL <= generation.left
              /\ cache'[0] # None => cache'[0].left <= generation.left
  <2>1. /\ generation.left > 0
        /\ \A p \in Requests : HasKey(p, 0) => request[p].left + TTL <= generation.left
        /\ cache[0] # None => cache[0].left <= generation.left
    BY <1>15 DEF FreshInv, ZeroOutlived
  <2>2. \A p \in Requests : Active(p) => request[p].left \in Nat
    BY <1>1, RequestForm DEF Active, Reading, Storing
  <2>3. generation.left \in Nat
    BY <1>1 DEF TypeOK, GenerationTTL
  <2>4. HasKey(q, 0) => TTL <= generation.left
    BY <2>1, <2>2, <2>3 DEF HasKey
  <2>5. cache'[0] # None => cache'[0].left <= generation.left
    BY <1>7, <2>1, <2>4
  <2>6. QED
    BY <1>5, <1>6, <1>7, <2>1, <2>5
<1>16. ZeroOutlived'
  BY <1>2, <1>15 DEF ZeroOutlived
<1>17. QED
  BY <1>8, <1>9, <1>10, <1>11, <1>13, <1>14, <1>16 DEF FreshInv

LEMMA ReadGenerationFresh ==
  ASSUME ServeInv, FreshInv, NEW q \in Requests, NEW key, ReadGeneration(q, key)
  PROVE  FreshInv'
<1> USE RecommendationsAssumption
<1> DEFINE x == [pc |-> IF key = None THEN "load" ELSE "lookup", key |-> key,
                 floor |-> floor, left |-> MaxDelay]
<1>1. TypeOK
  BY DEF ServeInv
<1>2. /\ x.pc \in {"lookup", "load"} /\ x.key = key /\ x.floor = floor
      /\ request' = [request EXCEPT ![q] = x] /\ key \in {generation.id, None}
      /\ UNCHANGED <<cache, changes, generation, nextGen, floor>>
  BY DEF ReadGeneration, OnlyRequest
<1> HIDE DEF x
<1>3. request'[q] = x /\ \A p \in Requests \ {q} : request'[p] = request[p]
  BY <1>1, <1>2 DEF TypeOK, RequestType
<1>4. \A p \in Requests \ {q}, g \in Generations : HasKey(p, g)' <=> HasKey(p, g)
  BY <1>3 DEF HasKey, Active
<1>5. \A g \in Generations : HasKey(q, g)' => g = generation.id
  <2>1. None \notin Generations
    BY Counting DEF Generations
  <2>2. QED
    BY <1>2, <1>3, <2>1 DEF HasKey
<1>6. /\ 0 \in Generations /\ generation.id \in Generations /\ generation.id < nextGen
      /\ floor \in Nat /\ floor <= changes
  BY <1>1, Counting DEF TypeOK, Generations
<1>7. KeysAllocated'
  BY <1>2, <1>4, <1>5, <1>6 DEF FreshInv, KeysAllocated
<1>8. FloorsPassed'
  BY <1>2, <1>3, <1>6 DEF FreshInv, FloorsPassed, Active
<1>9. CurrentFloor'
  BY <1>2, <1>3, <1>4, <1>5, <1>6 DEF FreshInv, CurrentFloor
<1>10. SameFloor'
  <2>1. ASSUME NEW g \in Generations, NEW p \in Requests, HasKey(p, g)', HasKey(q, g)'
        PROVE  request'[p].floor = request'[q].floor
    BY <1>2, <1>5, <1>9, <2>1 DEF CurrentFloor
  <2>2. ASSUME NEW g \in Generations, NEW o \in Requests \ {q}, NEW p \in Requests \ {q},
               HasKey(o, g)', HasKey(p, g)'
        PROVE  request'[o].floor = request'[p].floor
    BY <1>3, <1>4, <2>2 DEF FreshInv, SameFloor
  <2>3. QED
    BY <2>1, <2>2 DEF SameFloor
<1>11. EntriesFresh'
  <2>1. ASSUME NEW g \in Generations, cache[g] # None
        PROVE  /\ \A p \in Requests : HasKey(p, g)' =>
                    cache[g].list.changes >= request'[p].floor
               /\ g = generation.id => cache[g].list.changes >= floor
    <3>1. g = generation.id => cache[g].list.changes >= floor
      BY <2>1 DEF FreshInv, EntriesFresh
    <3>2. HasKey(q, g)' => cache[g].list.changes >= request'[q].floor
      BY <1>2, <1>3, <1>5, <3>1
    <3>3. \A p \in Requests \ {q} : HasKey(p, g)' =>
            cache[g].list.changes >= request'[p].floor
      BY <1>3, <1>4, <2>1 DEF FreshInv, EntriesFresh
    <3>4. QED
      BY <3>1, <3>2, <3>3
  <2>2. QED
    BY <1>2, <2>1 DEF EntriesFresh
<1>12. ListsFresh'
  BY <1>2, <1>3 DEF FreshInv, ListsFresh
<1>13. ZeroOutlived'
  BY <1>2, <1>3, <1>4, <1>5, <1>6 DEF FreshInv, ZeroOutlived
<1>14. QED
  BY <1>7, <1>8, <1>9, <1>10, <1>11, <1>12, <1>13 DEF FreshInv

LEMMA HitFresh ==
  ASSUME ServeInv, FreshInv, NEW q \in Requests, Hit(q) PROVE FreshInv'
<1> DEFINE x == Answered(q, cache[request[q].key].list)
<1>1. TypeOK
  BY DEF ServeInv
<1>2. /\ request[q].pc = "lookup" /\ request[q] \in Reading
      /\ request[q].key \in Generations /\ cache[request[q].key] # None
  BY <1>1, RequestForm DEF Hit
<1>3. HasKey(q, request[q].key)
  BY <1>2 DEF HasKey, Active
<1>4. cache[request[q].key].list.changes >= request[q].floor
  BY <1>2, <1>3 DEF FreshInv, EntriesFresh
<1>5. cache[request[q].key].list \in Lists
  BY <1>1, <1>2, CacheForm DEF Entry
<1>6. x \in Answering /\ x.pc = "answered" /\ x.list.changes >= x.floor
  BY <1>2, <1>4, <1>5 DEF Answered, Answering, Reading
<1>7. request' = [request EXCEPT ![q] = x] /\ cache' = cache /\ OnlyRequest
  BY <1>1 DEF Hit, TypeOK, RequestType
<1> HIDE DEF x
<1>8. x \in RequestState
  BY <1>6 DEF RequestState
<1>9. QED
  BY <1>6, <1>7, <1>8, FreshMoves

LEMMA MissFresh ==
  ASSUME ServeInv, FreshInv, NEW q \in Requests, Miss(q) PROVE FreshInv'
<1> DEFINE x == [request[q] EXCEPT !.pc = "load"]
<1>1. TypeOK
  BY DEF ServeInv
<1>2. /\ request[q] \in Reading /\ request[q].key \in Generations
      /\ request[q].pc = "lookup" /\ Active(q)
  BY <1>1, RequestForm DEF Miss, Active
<1>3. /\ x \in Reading /\ x.pc = "load" /\ x.key = request[q].key
      /\ x.floor = request[q].floor /\ x.left = request[q].left
  BY <1>2 DEF Reading
<1>4. request' = [request EXCEPT ![q] = x] /\ OnlyRequest
  BY <1>1 DEF Miss, TypeOK, RequestType
<1> HIDE DEF x
<1>5. x \in RequestState
  BY <1>3 DEF RequestState
<1>6. \A g \in Generations : cache'[g] = None \/ cache'[g] = cache[g]
  BY <1>1 DEF Miss, TypeOK
<1>7. QED
  BY <1>2, <1>3, <1>4, <1>5, <1>6, FreshMoves

LEMMA LoadFresh ==
  ASSUME ServeInv, FreshInv, NEW q \in Requests, Load(q) PROVE FreshInv'
<1> DEFINE x == IF request[q].key = None THEN Answered(q, Loaded)
                ELSE [pc |-> "store", key |-> request[q].key, floor |-> request[q].floor,
                      left |-> request[q].left, list |-> Loaded]
<1>1. TypeOK
  BY DEF ServeInv
<1>2. request[q] \in Reading /\ request[q].pc = "load" /\ Active(q)
  BY <1>1, RequestForm DEF Load, Active
<1>3. request' = [request EXCEPT ![q] = x] /\ cache' = cache /\ OnlyRequest
  BY <1>1 DEF Load, TypeOK, RequestType
<1>4. PICK l \in Lists : l = Loaded /\ l.changes = changes
  BY LoadedGood
<1>5. request[q].floor <= changes
  BY <1>2 DEF FreshInv, FloorsPassed
<1>6. request[q].floor \in Nat /\ changes \in Nat
  BY <1>1, <1>2 DEF Reading, TypeOK
<1>7. CASE request[q].key = None
  <2>1. x \in Answering /\ x.pc = "answered" /\ x.list = l /\ x.floor = request[q].floor
    BY <1>2, <1>4, <1>7 DEF Answered, Answering, Reading
  <2> HIDE DEF x
  <2>2. x \in RequestState
    BY <2>1 DEF RequestState
  <2>3. x.list.changes >= x.floor
    BY <1>4, <1>5, <1>6, <2>1
  <2>4. QED
    BY <1>3, <2>1, <2>2, <2>3, FreshMoves
<1>8. CASE request[q].key # None
  <2>1. /\ x \in Storing /\ x.pc = "store" /\ x.list = l /\ x.floor = request[q].floor
        /\ x.key = request[q].key /\ x.left = request[q].left
    BY <1>2, <1>4, <1>8 DEF Storing, Reading
  <2> HIDE DEF x
  <2>2. x \in RequestState
    BY <2>1 DEF RequestState
  <2>3. x.list.changes >= x.floor
    BY <1>4, <1>5, <1>6, <2>1
  <2>4. QED
    BY <1>2, <1>3, <2>1, <2>2, <2>3, FreshMoves
<1>9. QED
  BY <1>7, <1>8

LEMMA StoreFresh ==
  ASSUME ServeInv, FreshInv, NEW q \in Requests, Store(q) PROVE FreshInv'
<1> DEFINE x == Answered(q, request[q].list)
<1>1. TypeOK
  BY DEF ServeInv
<1>2. /\ request[q] \in Storing /\ request[q].pc = "store"
      /\ request[q].key \in Generations /\ HasKey(q, request[q].key)
  BY <1>1, RequestForm DEF Store, Storing, HasKey, Active
<1>3. request[q].list.changes >= request[q].floor
  BY <1>2 DEF FreshInv, ListsFresh
<1>4. /\ x \in Answering /\ x.pc = "answered"
      /\ x.list = request[q].list /\ x.floor = request[q].floor
  BY <1>2 DEF Answered, Answering, Storing
<1>5. request' = [request EXCEPT ![q] = x] /\ OnlyRequest
  BY <1>1 DEF Store, TypeOK, RequestType
<1> HIDE DEF x
<1>6. x \in RequestState
  BY <1>4 DEF RequestState
<1>7. ASSUME NEW g \in Generations
      PROVE  \/ cache'[g] = cache[g]
             \/ /\ HasKey(q, g)
                /\ cache'[g].list.changes >= request[q].floor /\ cache'[g].left = TTL
  <2>1. CASE cache' = cache
    BY <2>1
  <2>2. CASE cache' = [cache EXCEPT ![request[q].key] =
                        [list |-> request[q].list, left |-> EntryTTL]]
    <3>1. CASE g = request[q].key
      <4>1. cache'[g] = [list |-> request[q].list, left |-> TTL]
        BY <1>1, <1>2, <2>2, <3>1 DEF TypeOK, EntryTTL
      <4>2. QED
        BY <1>2, <1>3, <3>1, <4>1
    <3>2. CASE g # request[q].key
      BY <1>1, <2>2, <3>2 DEF TypeOK
    <3>3. QED
      BY <3>1, <3>2
  <2>3. QED
    BY <2>1, <2>2 DEF Store
<1>8. QED
  BY <1>3, <1>4, <1>5, <1>6, <1>7, FreshMoves

LEMMA TickFresh == ASSUME ServeInv, FreshInv, Tick PROVE FreshInv'
<1> USE RecommendationsAssumption
<1>1. TypeOK
  BY DEF ServeInv
<1>2. UNCHANGED <<changes, nextGen, floor>>
  BY DEF Tick
<1>3. \A q \in Requests :
        /\ Active(q) => /\ request[q].left > 0 /\ request'[q].left = request[q].left - 1
                        /\ request'[q].key = request[q].key
                        /\ request'[q].floor = request[q].floor
                        /\ request[q].left \in Nat
        /\ Active(q)' <=> Active(q)
  <2>1. TAKE q \in Requests
  <2>2. CASE Active(q)
    BY <1>1, <2>2, TickRequest, RequestForm DEF Active, Reading, Storing
  <2>3. CASE ~Active(q)
    BY <1>1, <2>3, TickRequest DEF Active
  <2>4. QED
    BY <2>2, <2>3
<1>4. \A q \in Requests, g \in Generations : HasKey(q, g)' <=> HasKey(q, g)
  BY <1>3 DEF HasKey
<1>5. \A g \in Generations : cache'[g] # None =>
        /\ cache[g] # None /\ cache'[g].list.changes = cache[g].list.changes
        /\ cache'[g].left = cache[g].left - 1 /\ cache'[g].left \in 1..TTL
        /\ cache[g].left \in Nat
  BY <1>1, TickEntry, OlderList DEF Entry
<1>6. generation' = (IF generation.left <= 1 THEN [id |-> 0, left |-> 0]
                     ELSE [generation EXCEPT !.left = @ - 1])
  BY DEF Tick
<1>7. /\ 0 \in Generations /\ generation.left \in Nat /\ generation.id \in Generations
      /\ generation \in [id : Generations, left : 0..GenerationTTL]
  BY <1>1, Counting DEF TypeOK, Generations, GenerationTTL
<1>8. KeysAllocated' /\ FloorsPassed' /\ SameFloor'
  <2>1. KeysAllocated'
    BY <1>2, <1>4, <1>5 DEF FreshInv, KeysAllocated
  <2>2. FloorsPassed'
    BY <1>2, <1>3 DEF FreshInv, FloorsPassed
  <2>3. SameFloor'
    BY <1>3, <1>4 DEF FreshInv, SameFloor, HasKey
  <2>4. QED
    BY <2>1, <2>2, <2>3
<1>9. ListsFresh'
  <2>1. ASSUME NEW q \in Requests, request'[q].pc \in {"store", "answered"}
        PROVE  request'[q].list.changes >= request'[q].floor
    <3>1. CASE request[q].pc = "store"
      <4>1. /\ request'[q].list = Older(request[q].list)
            /\ request'[q].floor = request[q].floor /\ request[q].list \in Lists
        BY <1>1, <3>1, TickRequest, RequestForm DEF Active, Storing
      <4>2. Older(request[q].list).changes = request[q].list.changes
        BY <4>1, OlderList
      <4>3. QED
        BY <3>1, <4>1, <4>2 DEF FreshInv, ListsFresh
    <3>2. CASE request[q].pc \in {"lookup", "load"}
      BY <1>1, <2>1, <3>2, TickRequest DEF Active
    <3>3. CASE request[q].pc \notin {"lookup", "load", "store"}
      <4>1. request'[q] = request[q]
        BY <1>1, <3>3, TickRequest DEF Active
      <4>2. QED
        BY <2>1, <4>1 DEF FreshInv, ListsFresh
    <3>4. QED
      BY <3>1, <3>2, <3>3
  <2>2. QED
    BY <2>1 DEF ListsFresh
\* The generation expires only after what began under "0" before it.
<1>10. ASSUME generation'.id = 0, generation.id # 0
       PROVE  /\ \A q \in Requests : ~HasKey(q, 0)'
              /\ cache'[0] = None
  <2>1. generation.left = 1
    BY <1>6, <1>7, <1>10 DEF FreshInv, ZeroOutlived
  <2>2. \A q \in Requests : ~HasKey(q, 0)
    BY <1>3, <1>10, <2>1 DEF FreshInv, ZeroOutlived, HasKey
  <2>3. cache'[0] = None
    BY <1>5, <1>7, <1>10, <2>1 DEF FreshInv, ZeroOutlived
  <2>4. QED
    BY <1>4, <1>7, <2>2, <2>3
<1>11. generation'.id = generation.id \/ generation'.id = 0
  BY <1>6, <1>7
<1>12. CurrentFloor'
  <2>1. ASSUME NEW q \in Requests, Active(q)', request'[q].key = generation'.id
        PROVE  request'[q].floor = floor
    <3>1. generation'.id = 0 => HasKey(q, 0)'
      BY <2>1 DEF HasKey
    <3>2. generation'.id = generation.id
      BY <1>10, <1>11, <3>1
    <3>3. HasKey(q, generation.id)
      BY <1>3, <2>1, <3>2 DEF HasKey
    <3>4. QED
      BY <1>3, <3>3 DEF FreshInv, CurrentFloor, HasKey
  <2>2. QED
    BY <1>2, <2>1 DEF CurrentFloor, HasKey
<1>13. EntriesFresh'
  <2>1. ASSUME NEW g \in Generations, cache'[g] # None
        PROVE  /\ \A q \in Requests : HasKey(q, g)' =>
                    cache'[g].list.changes >= request'[q].floor
               /\ g = generation'.id => cache'[g].list.changes >= floor
    <3>1. cache[g] # None /\ cache'[g].list.changes = cache[g].list.changes
      BY <1>5, <2>1
    <3>2. \A q \in Requests : HasKey(q, g)' => cache'[g].list.changes >= request'[q].floor
      BY <1>3, <1>4, <3>1 DEF FreshInv, EntriesFresh, HasKey
    <3>3. g = generation'.id => g = generation.id
      BY <1>10, <1>11, <2>1
    <3>4. QED
      BY <3>1, <3>2, <3>3 DEF FreshInv, EntriesFresh
  <2>2. QED
    BY <1>2, <2>1 DEF EntriesFresh
<1>14. ZeroOutlived'
  <2>1. ASSUME generation'.id # 0
        PROVE  /\ generation'.left > 0
               /\ \A q \in Requests : HasKey(q, 0)' =>
                    request'[q].left + TTL <= generation'.left
               /\ cache'[0] # None => cache'[0].left <= generation'.left
    <3>1. generation.id # 0 /\ generation'.left = generation.left - 1 /\ generation.left > 1
      BY <1>6, <1>7, <2>1
    <3>2. \A q \in Requests : HasKey(q, 0)' => request'[q].left + TTL <= generation'.left
      BY <1>3, <1>4, <1>7, <3>1 DEF FreshInv, ZeroOutlived, HasKey
    <3>3. cache'[0] # None => cache'[0].left <= generation'.left
      BY <1>5, <1>7, <3>1 DEF FreshInv, ZeroOutlived
    <3>4. QED
      BY <1>7, <3>1, <3>2, <3>3
  <2>2. QED
    BY <2>1 DEF ZeroOutlived
<1>15. QED
  BY <1>8, <1>9, <1>12, <1>13, <1>14 DEF FreshInv

LEMMA InitFresh == Init => FreshInv
  BY DEF Init, Idle, FreshInv, KeysAllocated, FloorsPassed, SameFloor, CurrentFloor,
         EntriesFresh, ListsFresh, ZeroOutlived, HasKey, Active

LEMMA StepFresh ==
  ASSUME MaxDelay <= TTL PROVE ServeInv /\ FreshInv /\ [Next]_vars => FreshInv'
<1> SUFFICES ASSUME ServeInv, FreshInv, [Next]_vars PROVE FreshInv'
  OBVIOUS
<1>1. CASE CommitEdit \/ InvalidateEdit
  BY <1>1, EditFresh
<1>2. ASSUME NEW r \in Runs, RunStep(r) \/ RunLost(r) PROVE FreshInv'
  BY <1>2, RunFresh
<1>3. ASSUME NEW q \in Requests, RequestStep(q) PROVE FreshInv'
  BY <1>3, ReadGenerationFresh, HitFresh, MissFresh, LoadFresh, StoreFresh DEF RequestStep
<1>4. CASE Tick
  BY <1>4, TickFresh
<1>5. CASE UNCHANGED vars
  <2>1. UNCHANGED <<changes, generation, nextGen, cache, request, floor>> /\ changes \in Nat
    BY <1>5 DEF vars, cacheVars, ServeInv, TypeOK
  <2>2. QED
    BY <2>1, FreshKept
<1>6. QED
  BY <1>1, <1>2, <1>3, <1>4, <1>5 DEF Next

\* As long as no request takes longer than a cached list lives, a request that
\* begins after a successful invalidation is not answered with a list loaded
\* before the change, whatever slow requests store late and although the
\* generation key expires.
THEOREM RecommendationsFresh ==
  MaxDelay <= TTL => (Spec => []InvalidatedNotServed)
<1> SUFFICES ASSUME MaxDelay <= TTL PROVE Spec => []InvalidatedNotServed
  OBVIOUS
<1>1. ServeInv /\ FreshInv /\ [Next]_vars => ServeInv' /\ FreshInv'
  BY StepServe, StepFresh
<1>2. FreshInv => InvalidatedNotServed
  BY DEF FreshInv, ListsFresh, InvalidatedNotServed, Answers
<1>3. QED
  BY InitServe, InitFresh, <1>1, <1>2, PTL DEF Spec
=============================================================================
