----------------------- MODULE TrackingAnalyticsProofs -----------------------
(***************************************************************************)
(* Proofs about TrackingAnalytics for any number of runs, objects, hours   *)
(* and faults, any time to live of the markers and any batch size.         *)
(* At the end, proofs about SegmentRecompute, the other job under a lease, *)
(* taken through an instance of it.                                        *)
(***************************************************************************)
EXTENDS TrackingAnalytics, Integers, FiniteSetTheorems, WellFoundedInduction, TLAPS

(***************************************************************************)
(* The inductive invariant.                                                *)
(***************************************************************************)
\* What the code of a run relies on at each place; a run counts its first
\* object after the refresh only, when it has not yet counted a stale one.
Sane(x) ==
  /\ x.pc \in AtObject => x.todo # {}
  /\ x.pc \in ToCount => x.done < ObjectBatch
  /\ x.pc \in ToCount \cup {"idle", "source", "list"} => x.stale = 0
  /\ x.stale <= 1

\* A run does not get a lost lease back.
StaleHasLost ==
  \A r \in Runs : run[r].stale > 0 => lease # r \/ lock # r

RunsSane ==
  /\ \A r \in Runs : Sane(run[r]) /\ run[r].todo \subseteq stored
  /\ StaleHasLost

CommittedFirst ==
  /\ CheckpointedIsStaged
  /\ \A r \in Runs : run[r].pc = "checkpoint" => EventOf[Current(r)] \in staged

\* Each count has pushed the marker a time to live further; a run between an
\* event's marker and its count is as good as a count.
Counting(e) == {r \in Runs : run[r].pc = "profile" /\ EventOf[Current(r)] = e}
Counts(e) == profile[e] + Cardinality(Counting(e))

MarksAhead ==
  /\ \A k \in Keys : mark[k] <= hour + MarkTTL
  /\ \A o \in stored : HourOf[o] <= hour
  /\ \A o \in Objects : counted[o] > 0 =>
       HourOf[o] + counted[o] * MarkTTL <= mark[<<o, "object">>]
  /\ \A e \in Events : Counts(e) > 0 =>
       FirstHour(e) + Counts(e) * MarkTTL <= mark[<<e, "event">>]

CountInv == TypeOK /\ RunsSane /\ CommittedFirst /\ MarksAhead

-----------------------------------------------------------------------------
(* Arithmetic and least elements.                                          *)
LEMMA Pushed ==
  ASSUME NEW first \in Nat, NEW n \in Nat, NEW T \in Nat, NEW h \in Nat,
         first + n * T <= h
  PROVE  first + (n + 1) * T <= h + T
<1>1. (n + 1) * T = n * T + T /\ n * T \in Nat
  OBVIOUS
<1>2. QED
  BY <1>1

LEMMA Fewer ==
  ASSUME NEW first \in Nat, NEW n \in Nat, NEW m \in Nat, NEW T \in Nat, NEW h \in Nat,
         first + n * T <= h, m <= n
  PROVE  first + m * T <= h
<1>1. PICK d \in Nat : n = m + d
  OBVIOUS
<1>2. n * T = m * T + d * T /\ m * T \in Nat /\ d * T \in Nat
  BY <1>1
<1>3. QED
  BY <1>2

LEMMA Divided ==
  ASSUME NEW first \in Nat, NEW n \in Nat, NEW T \in Nat, NEW h \in Nat,
         T > 0, n > 0, first + n * T <= h + T
  PROVE  n <= 1 + (h - first) \div T
<1>1. PICK a \in Nat : n = a + 1
  OBVIOUS
<1>2. n * T = a * T + T /\ a * T \in Nat
  BY <1>1
<1>3. a * T <= h - first /\ h - first \in Nat
  BY <1>2
<1>4. PICK b \in Nat : b = h - first
  BY <1>3
<1>5. b \div T \in Nat /\ b < (b \div T + 1) * T
  BY <1>4
<1>6. a < b \div T + 1
  <2>1. SUFFICES ASSUME a >= b \div T + 1 PROVE FALSE
    BY <1>5
  <2>2. PICK c \in Nat : c = b \div T + 1
    BY <1>5
  <2>3. PICK d \in Nat : a = c + d
    BY <2>1, <2>2
  <2>4. a * T = c * T + d * T /\ c * T \in Nat /\ d * T \in Nat
    BY <2>3
  <2>5. QED
    BY <1>3, <1>4, <1>5, <2>2, <2>4
<1>7. QED
  BY <1>1, <1>4, <1>5, <1>6

LEMMA MinOf ==
  ASSUME NEW S, S \subseteq Nat, S # {}
  PROVE  Min(S) \in S /\ \A y \in S : Min(S) <= y
<1> DEFINE R == OpToRel(<, Nat)
<1>1. IsWellFoundedOn(R, Nat)
  BY NatLessThanWellFounded
<1>2. \A x, y \in Nat : y < x => <<y, x>> \in R
  BY DEF OpToRel
<1> HIDE DEF R
<1>3. PICK x \in S : \A y \in S : ~ (<<y, x>> \in R)
  BY <1>1, WFMin
<1>4. \A y \in S : x <= y
  <2>1. TAKE y \in S
  <2>2. x \in Nat /\ y \in Nat /\ ~(y < x)
    BY <1>2, <1>3
  <2>3. QED
    BY <2>2
<1>5. QED
  BY <1>4 DEF Min

-----------------------------------------------------------------------------
(* Objects, events and the place of a run.                                 *)
LEMMA Bounds ==
  /\ NObjects \in Nat /\ MaxHour \in Nat /\ MaxLate \in Nat /\ MarkTTL \in Nat
  /\ ObjectBatch \in Nat /\ MaxFigure \in Nat /\ MaxFaults \in Nat
  /\ MarkTTL > 0 /\ ObjectBatch > 0
  /\ IsFiniteSet(Runs) /\ None \notin Runs
  /\ Objects \subseteq Nat /\ 0 \notin Objects
  /\ \A o \in Objects : HourOf[o] \in 0..MaxHour /\ EventOf[o] \in Events
  /\ \A o \in Objects : <<o, "object">> \in Keys
  /\ \A e \in Events : <<e, "event">> \in Keys
<1>1. /\ NObjects \in Nat /\ MaxHour \in Nat /\ MaxLate \in Nat /\ MarkTTL \in Nat
      /\ ObjectBatch \in Nat /\ MaxFigure \in Nat /\ MaxFaults \in Nat
      /\ MarkTTL > 0 /\ ObjectBatch > 0
      /\ IsFiniteSet(Runs) /\ None \notin Runs
  BY AnalyticsAssumption
<1>2. Objects \subseteq Nat /\ 0 \notin Objects
  BY <1>1 DEF Objects
<1>3. \A o \in Objects : HourOf[o] \in 0..MaxHour /\ EventOf[o] \in Events
  BY AnalyticsAssumption DEF Objects, Events
<1>4. /\ \A o \in Objects : <<o, "object">> \in Keys
      /\ \A e \in Events : <<e, "event">> \in Keys
  BY DEF Keys
<1>5. QED
  BY <1>1, <1>2, <1>3, <1>4

LEMMA FirstHourLeast ==
  /\ \A e \in Events : FirstHour(e) \in Nat
  /\ \A o \in Objects : FirstHour(EventOf[o]) <= HourOf[o]
<1>1. ASSUME NEW o \in Objects
      PROVE  FirstHour(EventOf[o]) \in Nat /\ FirstHour(EventOf[o]) <= HourOf[o]
  <2> DEFINE S == {HourOf[p] : p \in {u \in Objects : EventOf[u] = EventOf[o]}}
  <2>1. S \subseteq Nat /\ HourOf[o] \in S
    BY Bounds
  <2>2. FirstHour(EventOf[o]) = Min(S)
    BY DEF FirstHour
  <2> HIDE DEF S
  <2>3. Min(S) \in S /\ Min(S) <= HourOf[o]
    BY <2>1, MinOf
  <2>4. QED
    BY <2>1, <2>2, <2>3
<1>2. QED
  BY <1>1 DEF Events

LEMMA CurrentObject ==
  ASSUME TypeOK, NEW r \in Runs, run[r].todo # {}
  PROVE  /\ Current(r) \in run[r].todo /\ Current(r) \in Objects
         /\ EventOf[Current(r)] \in Events
<1>1. run[r].todo \subseteq Objects
  BY DEF TypeOK, RunState
<1>2. Current(r) \in run[r].todo
  BY <1>1, Bounds, MinOf DEF Current
<1>3. QED
  BY <1>1, <1>2, Bounds

LEMMA CountingFinite ==
  ASSUME NEW e PROVE IsFiniteSet(Counting(e)) /\ Cardinality(Counting(e)) \in Nat
<1>1. IsFiniteSet(Runs) /\ Counting(e) \subseteq Runs
  BY Bounds DEF Counting
<1>2. IsFiniteSet(Counting(e))
  BY <1>1, FS_Subset
<1>3. QED
  BY <1>2, FS_CardinalityType

LEMMA RunMoves ==
  ASSUME TypeOK, NEW r \in Runs, NEW w \in RunState, run' = [run EXCEPT ![r] = w]
  PROVE  /\ run' \in [Runs -> RunState] /\ run'[r] = w
         /\ \A s \in Runs \ {r} : run'[s] = run[s]
  BY DEF TypeOK

-----------------------------------------------------------------------------
(* The steps that count nothing.                                           *)

\* Events are counted less when a run leaves the place before the count.
LEMMA MarksKept ==
  ASSUME CountInv, NEW r \in Runs, NEW w \in RunState, run' = [run EXCEPT ![r] = w],
         w.pc # "profile", UNCHANGED <<hour, stored, mark, counted, profile>>
  PROVE  MarksAhead'
<1>1. TypeOK /\ MarksAhead
  BY DEF CountInv
<1>2. run'[r] = w /\ \A s \in Runs \ {r} : run'[s] = run[s]
  BY <1>1, RunMoves
<1>3. ASSUME NEW e \in Events, Counts(e)' > 0
      PROVE  FirstHour(e) + Counts(e)' * MarkTTL <= mark'[<<e, "event">>]
  <2> DEFINE old == Counting(e)
             new == Counting(e)'
  <2>1. new \subseteq old
    BY <1>2 DEF Counting, Current
  <2>2. Counts(e) = profile[e] + Cardinality(old)
    BY DEF Counts
  <2>3. Counts(e)' = profile[e] + Cardinality(new)
    BY DEF Counts
  <2>4. IsFiniteSet(old) /\ Cardinality(old) \in Nat
    BY CountingFinite
  <2> HIDE DEF old, new
  <2>5. Cardinality(new) \in Nat /\ Cardinality(new) <= Cardinality(old)
    BY <2>1, <2>4, FS_Subset, FS_CardinalityType
  <2>6. profile[e] \in Nat /\ <<e, "event">> \in Keys /\ mark[<<e, "event">>] \in Nat
    BY <1>1, Bounds DEF TypeOK
  <2>7. PICK n \in Nat, m \in Nat : n = Counts(e) /\ m = Counts(e)' /\ m <= n /\ n > 0
    BY <1>3, <2>2, <2>3, <2>4, <2>5, <2>6
  <2>8. FirstHour(e) + n * MarkTTL <= mark[<<e, "event">>] /\ FirstHour(e) \in Nat
    BY <1>1, <2>7, FirstHourLeast DEF MarksAhead
  <2>9. FirstHour(e) + m * MarkTTL <= mark[<<e, "event">>]
    BY <2>6, <2>8, <2>7, Fewer, Bounds
  <2>10. QED
    BY <2>7, <2>9
<1>4. QED
  BY <1>1, <1>3 DEF MarksAhead

LEMMA CommittedKept ==
  ASSUME CountInv, NEW r \in Runs, NEW w \in RunState, run' = [run EXCEPT ![r] = w],
         w.pc # "checkpoint", UNCHANGED <<counted, staged>>
  PROVE  CommittedFirst'
<1>1. TypeOK /\ CommittedFirst
  BY DEF CountInv
<1>2. run'[r] = w /\ \A s \in Runs \ {r} : run'[s] = run[s]
  BY <1>1, RunMoves
<1>3. CheckpointedIsStaged'
  BY <1>1 DEF CommittedFirst, CheckpointedIsStaged
<1>4. \A s \in Runs : run'[s].pc = "checkpoint" => EventOf[Current(s)'] \in staged
  BY <1>1, <1>2 DEF CommittedFirst, Current
<1>5. QED
  BY <1>3, <1>4 DEF CommittedFirst

LEMMA SaneKept ==
  ASSUME CountInv, NEW r \in Runs, NEW w \in RunState, run' = [run EXCEPT ![r] = w],
         Sane(w), w.todo \subseteq stored, stored' = stored,
         w.stale > 0 => lease' # r \/ lock' # r,
         \A s \in Runs \ {r} : (lease' = s => lease = s) /\ (lock' = s => lock = s)
  PROVE  RunsSane'
<1>1. TypeOK /\ RunsSane
  BY DEF CountInv
<1>2. run'[r] = w /\ \A s \in Runs \ {r} : run'[s] = run[s]
  BY <1>1, RunMoves
<1>3. \A s \in Runs : Sane(run'[s]) /\ run'[s].todo \subseteq stored
  BY <1>1, <1>2 DEF RunsSane
<1>4. StaleHasLost'
  BY <1>1, <1>2 DEF RunsSane, StaleHasLost
<1>5. \A s \in Runs : Sane(run[s])'
  BY <1>3 DEF Sane
<1>6. QED
  BY <1>3, <1>4, <1>5 DEF RunsSane

LEMMA Quiet ==
  ASSUME CountInv, NEW r \in Runs, NEW w \in RunState, run' = [run EXCEPT ![r] = w],
         UNCHANGED <<hour, stored, mark, counted, profile, staged>>,
         Sane(w), w.todo \subseteq stored, w.pc \notin {"profile", "checkpoint"},
         w.stale > 0 => lease' # r \/ lock' # r,
         \A s \in Runs \ {r} : (lease' = s => lease = s) /\ (lock' = s => lock = s),
         lease' \in Runs \cup {None}, lock' \in Runs \cup {None},
         cursor' \in Objects \cup {0}, counter' \in [Counters -> Nat \cup {None}],
         figure' \in [Objects -> 0..MaxFigure], summary' \in Nat, faults' \in 0..MaxFaults
  PROVE  CountInv'
<1>1. TypeOK
  BY DEF CountInv
<1>2. run' \in [Runs -> RunState]
  BY <1>1, RunMoves
<1>3. TypeOK'
  BY <1>1, <1>2 DEF TypeOK
<1>4. QED
  BY <1>3, MarksKept, CommittedKept, SaneKept DEF CountInv

\* Nothing but the run and its leases.
LEMMA QuietRun ==
  ASSUME CountInv, NEW r \in Runs, NEW w \in RunState, run' = [run EXCEPT ![r] = w],
         UNCHANGED <<hour, stored, mark, cursor, counter, counted, profile, staged,
                     figure, summary>>,
         faults' \in 0..MaxFaults,
         Sane(w), w.todo \subseteq stored, w.pc \notin {"profile", "checkpoint"},
         w.stale \in {0, run[r].stale},
         lease' \in {lease, None} \/ (lease = None /\ lease' = r /\ w.stale = 0),
         lock' \in {lock, None} \/ (lock = None /\ lock' = r /\ w.stale = 0)
  PROVE  CountInv'
<1>1. TypeOK /\ StaleHasLost /\ run[r].stale \in Nat
  BY DEF CountInv, RunsSane, TypeOK, RunState
<1>2. w.stale > 0 => lease' # r \/ lock' # r
  BY <1>1, Bounds DEF StaleHasLost
<1>3. \A s \in Runs \ {r} : (lease' = s => lease = s) /\ (lock' = s => lock = s)
  BY Bounds
<1>4. lease' \in Runs \cup {None} /\ lock' \in Runs \cup {None}
  BY <1>1 DEF TypeOK
<1>5. /\ cursor' \in Objects \cup {0} /\ counter' \in [Counters -> Nat \cup {None}]
      /\ figure' \in [Objects -> 0..MaxFigure] /\ summary' \in Nat
  BY <1>1 DEF TypeOK
<1>6. QED
  BY <1>2, <1>3, <1>4, <1>5, Quiet

-----------------------------------------------------------------------------
(* The start, the loop and the end of a run.                               *)
LEMMA RunFacts ==
  ASSUME CountInv, NEW r \in Runs
  PROVE  /\ run[r] \in RunState /\ Sane(run[r]) /\ run[r].todo \subseteq stored
         /\ run \in [Runs -> RunState] /\ faults \in 0..MaxFaults
  BY DEF CountInv, TypeOK, RunsSane

\* A run that is given up; its leases may be released, or stay.
LEMMA ToIdle ==
  ASSUME CountInv, NEW r \in Runs, run' = [run EXCEPT ![r] = Idle],
         UNCHANGED <<hour, stored, mark, cursor, redisCounts, database>>,
         faults' \in 0..MaxFaults, lease' \in {lease, None}, lock' \in {lock, None}
  PROVE  CountInv'
<1>1. /\ Idle \in RunState /\ Sane(Idle) /\ Idle.todo \subseteq stored
      /\ Idle.pc = "idle" /\ Idle.stale = 0
  BY Bounds DEF Idle, RunState, Sane, AtObject, ToCount
<1>2. UNCHANGED <<hour, stored, mark, cursor, counter, counted, profile, staged,
                  figure, summary>>
  BY DEF redisCounts, database
<1>3. QED
  BY <1>1, <1>2, QuietRun

LEMMA EndStep ==
  ASSUME CountInv, NEW r \in Runs,
         SkipRun(r) \/ SkipSource(r) \/ Release(r) \/ LeaseLost(r) \/ Raise(r) \/ Crash(r)
  PROVE  CountInv'
<1>1. faults \in 0..MaxFaults /\ MaxFaults \in Nat
  BY RunFacts, Bounds
<1>2. /\ run' = [run EXCEPT ![r] = Idle]
      /\ UNCHANGED <<hour, stored, mark, cursor, redisCounts, database>>
      /\ lease' \in {lease, None} /\ lock' \in {lock, None}
  BY DEF SkipRun, SkipSource, Release, LeaseLost, Raise, Crash, Abort, Released, locks
<1>3. faults' \in 0..MaxFaults
  BY <1>1 DEF SkipRun, SkipSource, Release, LeaseLost, Raise, Crash
<1>4. QED
  BY <1>2, <1>3, ToIdle

LEMMA StartStep ==
  ASSUME CountInv, NEW r \in Runs, AcquireRun(r) \/ AcquireSource(r) PROVE CountInv'
<1> DEFINE pc == IF run[r].pc = "idle" THEN "source" ELSE "list"
           w == [run[r] EXCEPT !.pc = pc]
<1>1. run[r] \in RunState /\ Sane(run[r]) /\ run[r].todo \subseteq stored
      /\ faults \in 0..MaxFaults /\ run[r].pc \in {"idle", "source"}
  BY RunFacts DEF AcquireRun, AcquireSource
<1>2. /\ run' = [run EXCEPT ![r] = w]
      /\ UNCHANGED <<hour, stored, mark, cursor, counter, counted, profile, staged,
                     figure, summary, faults>>
      /\ lease' = lease \/ (lease = None /\ lease' = r)
      /\ lock' = lock \/ (lock = None /\ lock' = r)
  BY RunFacts DEF AcquireRun, AcquireSource, Goto, Acquirable, redisCounts, database
<1>3. w \in RunState /\ w.pc \in {"source", "list"} /\ w.stale = 0 /\ w.todo = run[r].todo
  BY <1>1 DEF RunState, Sane
<1> HIDE DEF w
<1>4. w.pc \notin AtObject /\ w.pc \notin ToCount /\ w.pc \notin {"profile", "checkpoint"}
  BY <1>3 DEF AtObject, ToCount
<1>5. Sane(w)
  BY <1>3, <1>4 DEF Sane
<1>6. QED
  BY <1>1, <1>2, <1>3, <1>4, <1>5, QuietRun

LEMMA ListStep == ASSUME CountInv, NEW r \in Runs, List(r) PROVE CountInv'
<1> DEFINE listed == {o \in stored : o > StartAfter}
           w == [run[r] EXCEPT !.pc = "next", !.todo = listed, !.done = 0, !.saw = FALSE,
                               !.stale = 0]
<1>1. run[r] \in RunState /\ faults \in 0..MaxFaults /\ stored \subseteq Objects
  BY RunFacts DEF CountInv, TypeOK
<1>2. /\ run' = [run EXCEPT ![r] = w]
      /\ UNCHANGED <<hour, stored, lease, lock, mark, cursor, counter, counted, profile,
                     staged, figure, summary, faults>>
  BY RunFacts DEF List, locks, redisCounts, database
<1>3. listed \subseteq Objects /\ listed \subseteq stored
  BY <1>1
<1>4. 0 \in 0..ObjectBatch
  BY Bounds
<1> HIDE DEF listed
<1>5. w \in RunState /\ w.pc = "next" /\ w.stale = 0 /\ w.todo = listed
  BY <1>1, <1>3, <1>4 DEF RunState
<1> HIDE DEF w
<1>6. Sane(w)
  BY <1>5 DEF Sane, AtObject, ToCount
<1>7. QED
  BY <1>1, <1>2, <1>3, <1>5, <1>6, QuietRun

LEMMA NextObjectStep == ASSUME CountInv, NEW r \in Runs, NextObject(r) PROVE CountInv'
<1> DEFINE w == [run[r] EXCEPT !.pc = "mark"]
<1>1. /\ run[r] \in RunState /\ Sane(run[r]) /\ run[r].todo \subseteq stored
      /\ faults \in 0..MaxFaults
  BY RunFacts
<1>2. /\ run' = [run EXCEPT ![r] = w]
      /\ UNCHANGED <<hour, stored, lease, lock, mark, cursor, counter, counted, profile,
                     staged, figure, summary, faults>>
  BY RunFacts DEF NextObject, Goto, locks, redisCounts, database
<1>3. w \in RunState /\ w.pc = "mark" /\ w.todo = run[r].todo /\ w.done = run[r].done
      /\ w.stale = run[r].stale
  BY <1>1 DEF RunState, AtObject, ToCount
\* Both leases are held, so the run has not counted a stale object.
<1>4. run[r].stale = 0
  <2>1. lease = r /\ lock = r
    BY DEF NextObject, Refreshable
  <2>2. ~(run[r].stale > 0)
    BY <2>1 DEF CountInv, RunsSane, StaleHasLost
  <2>3. QED
    BY <1>1, <2>2 DEF RunState
<1>5. run[r].todo # {} /\ run[r].done < ObjectBatch
  BY <1>1, Bounds DEF NextObject, LoopEnds, RunState
<1> HIDE DEF w
<1>6. Sane(w)
  BY <1>3, <1>4, <1>5 DEF Sane
<1>7. QED
  BY <1>1, <1>2, <1>3, <1>6, QuietRun

\* From one place at an object to the next one, and the counters of the cache.
LEMMA OnwardStep ==
  ASSUME CountInv, NEW r \in Runs,
         \/ UpsertCampaignPerformance(r)
         \/ \E c \in Counters : ReadCounter(r, c) \/ WriteCounter(r, c)
         \/ RebuildTotal(r) \/ CacheRebuiltTotal(r) \/ ReadTotal(r) \/ UpdateSummary(r)
  PROVE  CountInv'
<1>1. /\ run[r] \in RunState /\ Sane(run[r]) /\ run[r].todo \subseteq stored
      /\ run \in [Runs -> RunState] /\ faults \in 0..MaxFaults
      /\ stored \subseteq Objects /\ counter \in [Counters -> Nat \cup {None}]
      /\ figure \in [Objects -> 0..MaxFigure] /\ summary \in Nat
      /\ cursor \in Objects \cup {0}
  BY RunFacts DEF CountInv, TypeOK
<1>2. \A c \in Counters : Value(c) \in Nat
  BY <1>1 DEF Value
<1>3. Cardinality(stored) \in Nat
  <2>1. IsFiniteSet(Objects)
    BY Bounds, FS_Interval DEF Objects
  <2>2. IsFiniteSet(stored)
    BY <1>1, <2>1, FS_Subset
  <2>3. QED
    BY <2>2, FS_CardinalityType
<1>4. PICK pc \in (AtObject \ {"profile", "checkpoint"}) \cup {"rebuilt", "summary", "release"},
          n \in Nat :
        /\ run' = [run EXCEPT ![r].pc = pc, ![r].read = n]
        /\ pc \in AtObject => run[r].pc \in AtObject
        /\ pc \in ToCount => run[r].pc \in ToCount
  <2>1. CASE UpsertCampaignPerformance(r)
    <3>1. run[r].pc = "figure" /\ run' = [run EXCEPT ![r].pc = "commit"]
      BY <2>1 DEF UpsertCampaignPerformance, Goto
    <3>2. run[r].read \in Nat
      BY <1>1 DEF RunState
    <3>3. run' = [run EXCEPT ![r].pc = "commit", ![r].read = run[r].read]
      BY <1>1, <3>1 DEF RunState
    <3>4. QED
      BY <3>1, <3>2, <3>3 DEF AtObject, ToCount
  <2>2. ASSUME NEW c \in Counters, ReadCounter(r, c) \/ WriteCounter(r, c)
        PROVE  \E p \in AtObject \ ToCount, n \in Nat :
                 /\ run' = [run EXCEPT ![r].pc = p, ![r].read = n]
                 /\ run[r].pc \in AtObject
    <3>1. /\ c \in {"total", "daily"} /\ Writing(c) \in AtObject \ ToCount
          /\ AfterCounter(c) \in AtObject \ ToCount /\ c \in AtObject
      BY DEF Counters, Writing, AfterCounter, AtObject, ToCount
    <3>2. CASE ReadCounter(r, c)
      BY <1>2, <3>1, <3>2 DEF ReadCounter
    <3>3. CASE WriteCounter(r, c)
      BY <3>1, <3>3 DEF WriteCounter
    <3>4. QED
      BY <2>2, <3>2, <3>3
  <2>3. CASE RebuildTotal(r)
    <3>1. PICK v \in Nat : run' = [run EXCEPT ![r].pc = "rebuilt", ![r].read = v]
      BY <1>3, <2>3 DEF RebuildTotal
    <3>2. "rebuilt" \notin AtObject /\ "rebuilt" \notin ToCount
      BY DEF AtObject, ToCount
    <3>3. QED
      BY <3>1, <3>2
  <2>4. CASE CacheRebuiltTotal(r) \/ UpdateSummary(r)
    <3>1. PICK pc \in {"summary", "release"} : run' = [run EXCEPT ![r].pc = pc]
      BY <2>4 DEF CacheRebuiltTotal, UpdateSummary, Goto
    <3>2. run[r].read \in Nat
      BY <1>1 DEF RunState
    <3>3. run' = [run EXCEPT ![r].pc = pc, ![r].read = run[r].read]
      BY <1>1, <3>1 DEF RunState
    <3>4. QED
      BY <3>1, <3>2, <3>3 DEF AtObject, ToCount
  <2>5. CASE ReadTotal(r)
    <3>1. Value("total") \in Nat
      BY <1>2 DEF Counters
    <3>2. PICK v \in Nat : run' = [run EXCEPT ![r].pc = "summary", ![r].read = v]
      BY <2>5, <3>1 DEF ReadTotal
    <3>3. "summary" \notin AtObject /\ "summary" \notin ToCount
      BY DEF AtObject, ToCount
    <3>4. QED
      BY <3>2, <3>3
  <2>6. QED
    BY <2>1, <2>2, <2>3, <2>4, <2>5 DEF AtObject, ToCount
<1> DEFINE w == [run[r] EXCEPT !.pc = pc, !.read = n]
<1>5. run' = [run EXCEPT ![r] = w]
  BY <1>1, <1>4
<1>6. /\ w \in RunState /\ w.pc = pc /\ w.todo = run[r].todo /\ w.done = run[r].done
      /\ w.stale = run[r].stale
  BY <1>1, <1>4 DEF RunState
<1> HIDE DEF w
<1>7. Sane(w)
  BY <1>1, <1>4, <1>6 DEF Sane, AtObject, ToCount
<1>8. w.stale > 0 => lease # r \/ lock # r
  BY <1>6 DEF CountInv, RunsSane, StaleHasLost
<1>9. UNCHANGED <<hour, stored, lease, lock, mark, cursor, counted, profile, staged, faults>>
  BY DEF UpsertCampaignPerformance, ReadCounter, WriteCounter, RebuildTotal,
         CacheRebuiltTotal, ReadTotal, UpdateSummary, locks, redisCounts, database
<1>10. figure' \in [Objects -> 0..MaxFigure]
  <2>1. CASE UpsertCampaignPerformance(r)
    <3>1. PICK o : figure' = [figure EXCEPT ![o] = IF @ < MaxFigure THEN @ + 1 ELSE @]
      BY <2>1 DEF UpsertCampaignPerformance
    <3>2. ASSUME NEW p \in Objects PROVE figure'[p] \in 0..MaxFigure
      BY <1>1, <3>1, Bounds
    <3>3. QED
      BY <1>1, <3>1, <3>2
  <2>2. CASE ~UpsertCampaignPerformance(r)
    <3>1. figure' = figure
      BY <2>2 DEF ReadCounter, WriteCounter, RebuildTotal, CacheRebuiltTotal, ReadTotal,
                  UpdateSummary, database
    <3>2. QED
      BY <1>1, <3>1
  <2>3. QED
    BY <2>1, <2>2
<1>11. counter' \in [Counters -> Nat \cup {None}]
  <2>1. run[r].read \in Nat
    BY <1>1 DEF RunState
  <2>2. CASE CacheRebuiltTotal(r)
    BY <1>1, <2>1, <2>2 DEF CacheRebuiltTotal
  <2>3. CASE \E c \in Counters : WriteCounter(r, c)
    <3>1. PICK c \in Counters : counter' = [counter EXCEPT ![c] = run[r].read + 1]
      BY <2>3 DEF WriteCounter
    <3>2. run[r].read + 1 \in Nat
      BY <2>1
    <3>3. QED
      BY <1>1, <3>1, <3>2
  <2>4. CASE UNCHANGED counter
    BY <1>1, <2>4
  <2>5. QED
    BY <2>2, <2>3, <2>4
    DEF UpsertCampaignPerformance, ReadCounter, RebuildTotal, ReadTotal, UpdateSummary,
        redisCounts
<1>12. summary' \in Nat
  <2>1. run[r].read \in Nat
    BY <1>1 DEF RunState
  <2>2. summary' \in {summary, run[r].read}
    BY DEF UpsertCampaignPerformance, ReadCounter, WriteCounter, RebuildTotal,
           CacheRebuiltTotal, ReadTotal, UpdateSummary, database
  <2>3. QED
    BY <1>1, <2>1, <2>2
<1>13. lease \in Runs \cup {None} /\ lock \in Runs \cup {None}
  BY DEF CountInv, TypeOK
<1>14. QED
  BY <1>1, <1>4, <1>5, <1>6, <1>7, <1>8, <1>9, <1>10, <1>11, <1>12, <1>13, Quiet

LEMMA SaveCursorStep == ASSUME CountInv, NEW r \in Runs, SaveCursor(r) PROVE CountInv'
<1> DEFINE rest == run[r].todo \ {Current(r)}
           w == [run[r] EXCEPT !.pc = "next", !.todo = rest]
<1>1. /\ run[r] \in RunState /\ Sane(run[r]) /\ run[r].todo \subseteq stored
      /\ run[r].pc = "cursor" /\ TypeOK
  BY RunFacts DEF SaveCursor, CountInv
<1>2. Current(r) \in Objects
  BY <1>1, CurrentObject DEF Sane, AtObject
<1>3. /\ run' = [run EXCEPT ![r] = w] /\ cursor' = Current(r)
      /\ UNCHANGED <<hour, stored, lease, lock, mark, counter, counted, profile, staged,
                     figure, summary, faults>>
  BY RunFacts DEF SaveCursor, locks, redisCounts, database
<1>4. rest \subseteq run[r].todo
  OBVIOUS
<1> HIDE DEF rest
<1>5. w \in RunState /\ w.pc = "next" /\ w.todo = rest /\ w.stale = run[r].stale
  BY <1>1, <1>4 DEF RunState
<1> HIDE DEF w
<1>6. Sane(w) /\ w.todo \subseteq stored
  BY <1>1, <1>4, <1>5 DEF Sane, AtObject, ToCount
<1>7. w.stale > 0 => lease # r \/ lock # r
  BY <1>5 DEF CountInv, RunsSane, StaleHasLost
<1>8. QED
  BY <1>1, <1>2, <1>3, <1>5, <1>6, <1>7, Quiet DEF TypeOK

-----------------------------------------------------------------------------
(* The steps that mark, count and commit.                                  *)
LEMMA MarkEventStep == ASSUME CountInv, NEW r \in Runs, MarkEvent(r) PROVE CountInv'
<1> DEFINE e == EventOf[Current(r)]
<1>1. /\ run[r] \in RunState /\ Sane(run[r]) /\ run[r].todo \subseteq stored
      /\ run[r].pc = "mark" /\ TypeOK /\ MarksAhead
  BY RunFacts DEF MarkEvent, CountInv
<1>2. run[r].todo # {} /\ run[r].done < ObjectBatch /\ run[r].stale = 0
  BY <1>1 DEF Sane, AtObject, ToCount
<1>3. Current(r) \in stored /\ Current(r) \in Objects /\ e \in Events
  BY <1>1, <1>2, CurrentObject
<1>4. /\ UNCHANGED <<hour, stored, lease, lock, cursor, counter, counted, profile, staged,
                     figure, summary, faults>>
      /\ \/ mark' = mark /\ run' = [run EXCEPT ![r].pc = "figure"]
         \/ /\ ~(mark[<<e, "event">>] > hour)
            /\ mark' = [mark EXCEPT ![<<e, "event">>] = hour + MarkTTL]
            /\ run' = [run EXCEPT ![r].pc = "profile"]
  BY DEF MarkEvent, Live, SetMark, Goto, locks, redisCounts, database
<1>5. CASE mark' = mark /\ run' = [run EXCEPT ![r].pc = "figure"]
  <2> DEFINE w == [run[r] EXCEPT !.pc = "figure"]
  <2>1. run' = [run EXCEPT ![r] = w]
    BY <1>5, RunFacts
  <2>2. /\ w \in RunState /\ w.pc = "figure" /\ w.todo = run[r].todo
        /\ w.done = run[r].done /\ w.stale = run[r].stale
    BY <1>1 DEF RunState, AtObject, ToCount
  <2> HIDE DEF w
  <2>3. Sane(w)
    BY <1>2, <2>2 DEF Sane
  <2>4. faults \in 0..MaxFaults
    BY RunFacts
  <2>5. QED
    BY <1>1, <1>4, <1>5, <2>1, <2>2, <2>3, <2>4, QuietRun
<1>6. CASE /\ ~(mark[<<e, "event">>] > hour)
           /\ mark' = [mark EXCEPT ![<<e, "event">>] = hour + MarkTTL]
           /\ run' = [run EXCEPT ![r].pc = "profile"]
  <2> DEFINE w == [run[r] EXCEPT !.pc = "profile"]
  <2>1. run' = [run EXCEPT ![r] = w]
    BY <1>6, RunFacts
  <2>2. /\ w \in RunState /\ w.pc = "profile" /\ w.todo = run[r].todo
        /\ w.done = run[r].done /\ w.stale = run[r].stale
    BY <1>1 DEF RunState, AtObject, ToCount
  <2> HIDE DEF w
  <2>3. Sane(w)
    BY <1>2, <2>2 DEF Sane
  <2>4. RunsSane'
    <3>1. w.todo \subseteq stored /\ ~(w.stale > 0)
      BY <1>1, <1>2, <2>2
    <3>2. QED
      BY <1>4, <2>1, <2>2, <2>3, <3>1, SaneKept
  <2>5. CommittedFirst'
    BY <1>4, <2>1, <2>2, CommittedKept
  <2>6. hour \in 0..MaxHour /\ mark \in [Keys -> 0..MaxHour + MarkTTL]
    BY <1>1 DEF TypeOK
  <2>7. hour + MarkTTL \in 0..MaxHour + MarkTTL /\ <<e, "event">> \in Keys
    BY <1>3, <2>6, Bounds
  <2>8. mark' \in [Keys -> 0..MaxHour + MarkTTL]
    BY <1>6, <2>6, <2>7
  <2>9. run' \in [Runs -> RunState] /\ run'[r] = w
        /\ \A s \in Runs \ {r} : run'[s] = run[s]
    BY <1>1, <2>1, <2>2, RunMoves
  <2>10. TypeOK'
    BY <1>1, <1>4, <2>8, <2>9 DEF TypeOK
  <2>11. \A k \in Keys : mark'[k] <= hour + MarkTTL
    <3>1. ASSUME NEW k \in Keys PROVE mark'[k] \in {mark[k], hour + MarkTTL}
      BY <1>6, <2>6
    <3>2. ASSUME NEW k \in Keys PROVE mark[k] <= hour + MarkTTL
      BY <1>1 DEF MarksAhead
    <3>3. hour + MarkTTL <= hour + MarkTTL
      BY <2>6, Bounds
    <3>4. QED
      BY <3>1, <3>2, <3>3
  <2>12. \A o \in Objects : mark'[<<o, "object">>] = mark[<<o, "object">>]
    BY <1>6, <2>6, Bounds
  <2>13. ASSUME NEW f \in Events, Counts(f)' > 0
         PROVE  FirstHour(f) + Counts(f)' * MarkTTL <= mark'[<<f, "event">>]
    <3> DEFINE old == Counting(f)
               new == Counting(f)'
    <3>1. Counts(f) = profile[f] + Cardinality(old) /\ profile[f] \in Nat
      BY <1>1 DEF Counts, TypeOK
    <3>2. Counts(f)' = profile[f] + Cardinality(new)
      BY <1>4 DEF Counts
    <3>3. IsFiniteSet(old) /\ Cardinality(old) \in Nat /\ r \notin old
      BY <1>1, CountingFinite DEF Counting
    <3>4. f = e => new = old \cup {r}
      BY <2>2, <2>9 DEF Counting, Current
    <3>5. f # e => new = old
      BY <2>2, <2>9 DEF Counting, Current
    <3> HIDE DEF old, new
    <3>6. CASE f # e
      <4>1. Counts(f)' = Counts(f) /\ mark'[<<f, "event">>] = mark[<<f, "event">>]
        BY <1>3, <1>6, <2>6, <3>1, <3>2, <3>5, <3>6, Bounds
      <4>2. Counts(f) > 0
        BY <2>13, <4>1
      <4>3. QED
        BY <1>1, <4>1, <4>2 DEF MarksAhead
    <3>7. CASE f = e
      <4>1. Cardinality(new) = Cardinality(old) + 1
        BY <3>3, <3>4, <3>7, FS_AddElement
      <4>2. PICK n \in Nat : n = Counts(f)
        BY <3>1, <3>3
      <4>3. Counts(f)' = n + 1
        BY <3>1, <3>2, <3>3, <4>1, <4>2
      <4>4. mark'[<<f, "event">>] = hour + MarkTTL
        BY <1>6, <2>6, <2>7, <3>7
      <4>5. FirstHour(f) \in Nat /\ FirstHour(f) <= hour
        <5>1. FirstHour(f) \in Nat /\ FirstHour(f) <= HourOf[Current(r)]
          BY <1>3, <3>7, FirstHourLeast
        <5>2. HourOf[Current(r)] <= hour
          BY <1>1, <1>3 DEF MarksAhead
        <5>3. HourOf[Current(r)] \in 0..MaxHour /\ MaxHour \in Nat
          BY <1>3, Bounds
        <5>4. QED
          BY <2>6, <5>1, <5>2, <5>3
      \* The marker of the earlier counts has expired.
      <4>6. FirstHour(f) + n * MarkTTL <= hour
        <5>1. CASE n = 0
          BY <4>5, <5>1, Bounds
        <5>2. CASE n > 0
          <6>1. FirstHour(f) + n * MarkTTL <= mark[<<f, "event">>]
            BY <1>1, <4>2, <5>2 DEF MarksAhead
          <6>2. mark[<<f, "event">>] <= hour /\ mark[<<f, "event">>] \in Nat
            BY <1>6, <2>6, <2>7, <3>7, Bounds
          <6>3. n * MarkTTL \in Nat
            BY Bounds
          <6>4. QED
            BY <2>6, <4>5, <6>1, <6>2, <6>3
        <5>3. QED
          BY <5>1, <5>2
      <4>7. hour \in Nat
        BY <2>6, Bounds
      <4>8. FirstHour(f) + (n + 1) * MarkTTL <= hour + MarkTTL
        BY <4>5, <4>6, <4>7, Pushed, Bounds
      <4>9. QED
        BY <4>3, <4>4, <4>8
    <3>8. QED
      BY <3>6, <3>7
  <2>14. MarksAhead'
    BY <1>1, <1>4, <2>11, <2>12, <2>13 DEF MarksAhead
  <2>15. QED
    BY <2>4, <2>5, <2>10, <2>14 DEF CountInv
<1>7. QED
  BY <1>4, <1>5, <1>6

LEMMA CountProfileEventStep ==
  ASSUME CountInv, NEW r \in Runs, CountProfileEvent(r) PROVE CountInv'
<1> DEFINE e == EventOf[Current(r)]
           w == [run[r] EXCEPT !.pc = "figure"]
<1>1. /\ run[r] \in RunState /\ Sane(run[r]) /\ run[r].todo \subseteq stored
      /\ run[r].pc = "profile" /\ TypeOK /\ MarksAhead
  BY RunFacts DEF CountProfileEvent, CountInv
<1>2. run[r].todo # {} /\ run[r].done < ObjectBatch /\ run[r].stale = 0
  BY <1>1 DEF Sane, AtObject, ToCount
<1>3. e \in Events
  BY <1>1, <1>2, CurrentObject
<1>4. /\ UNCHANGED <<hour, stored, lease, lock, mark, cursor, counter, counted, staged,
                     figure, summary, faults>>
      /\ profile' = [profile EXCEPT ![e] = @ + 1]
      /\ run' = [run EXCEPT ![r] = w]
  BY RunFacts DEF CountProfileEvent, Goto, locks, database
<1>5. /\ w \in RunState /\ w.pc = "figure" /\ w.todo = run[r].todo
      /\ w.done = run[r].done /\ w.stale = run[r].stale
  BY <1>1 DEF RunState, AtObject, ToCount
<1> HIDE DEF w
<1>6. Sane(w)
  BY <1>2, <1>5 DEF Sane
<1>7. RunsSane'
  <2>1. w.todo \subseteq stored /\ ~(w.stale > 0)
    BY <1>1, <1>2, <1>5
  <2>2. QED
    BY <1>4, <1>5, <1>6, <2>1, SaneKept
<1>8. CommittedFirst'
  BY <1>4, <1>5, CommittedKept
<1>9. run' \in [Runs -> RunState] /\ run'[r] = w
      /\ \A s \in Runs \ {r} : run'[s] = run[s]
  BY <1>1, <1>4, <1>5, RunMoves
<1>10. profile \in [Events -> Nat]
  BY <1>1 DEF TypeOK
<1>11. profile' \in [Events -> Nat]
  BY <1>3, <1>4, <1>10
<1>12. TypeOK'
  BY <1>1, <1>4, <1>9, <1>11 DEF TypeOK
<1>13. ASSUME NEW f \in Events PROVE Counts(f)' = Counts(f)
  <2> DEFINE old == Counting(f)
             new == Counting(f)'
  <2>1. Counts(f) = profile[f] + Cardinality(old) /\ profile[f] \in Nat
    BY <1>10 DEF Counts
  <2>2. Counts(f)' = profile'[f] + Cardinality(new)
    BY DEF Counts
  <2>3. IsFiniteSet(old) /\ Cardinality(old) \in Nat
    BY CountingFinite
  <2>4. f = e => r \in old /\ new = old \ {r}
    BY <1>1, <1>5, <1>9 DEF Counting, Current
  <2>5. f # e => new = old
    BY <1>1, <1>5, <1>9 DEF Counting, Current
  <2> HIDE DEF old, new
  <2>6. CASE f # e
    BY <1>4, <1>10, <2>1, <2>2, <2>5, <2>6
  <2>7. CASE f = e
    <3>1. Cardinality(new) = Cardinality(old) - 1
      BY <2>3, <2>4, <2>7, FS_RemoveElement
    <3>2. profile'[f] = profile[f] + 1
      BY <1>3, <1>4, <1>10, <2>7
    <3>3. QED
      BY <2>1, <2>2, <2>3, <3>1, <3>2
  <2>8. QED
    BY <2>6, <2>7
<1>14. MarksAhead'
  BY <1>1, <1>4, <1>13 DEF MarksAhead
<1>15. QED
  BY <1>7, <1>8, <1>12, <1>14 DEF CountInv

LEMMA CommitProfilesStep ==
  ASSUME CountInv, NEW r \in Runs, CommitProfiles(r) PROVE CountInv'
<1> DEFINE w == [run[r] EXCEPT !.pc = "checkpoint"]
<1>1. /\ run[r] \in RunState /\ Sane(run[r]) /\ run[r].todo \subseteq stored
      /\ run[r].pc = "commit" /\ TypeOK /\ CommittedFirst
  BY RunFacts DEF CommitProfiles, CountInv
<1>2. run[r].todo # {} /\ run[r].done < ObjectBatch /\ run[r].stale = 0
  BY <1>1 DEF Sane, AtObject, ToCount
<1>3. EventOf[Current(r)] \in Events
  BY <1>1, <1>2, CurrentObject
<1>4. /\ UNCHANGED <<hour, stored, lease, lock, mark, cursor, counter, counted, profile,
                     figure, summary, faults>>
      /\ staged' = staged \cup {EventOf[Current(r)]}
      /\ run' = [run EXCEPT ![r] = w]
  BY RunFacts DEF CommitProfiles, Goto, locks, redisCounts
<1>5. /\ w \in RunState /\ w.pc = "checkpoint" /\ w.todo = run[r].todo
      /\ w.done = run[r].done /\ w.stale = run[r].stale
  BY <1>1 DEF RunState, AtObject, ToCount
<1> HIDE DEF w
<1>6. Sane(w)
  BY <1>2, <1>5 DEF Sane
<1>7. RunsSane'
  <2>1. w.todo \subseteq stored /\ ~(w.stale > 0)
    BY <1>1, <1>2, <1>5
  <2>2. QED
    BY <1>4, <1>5, <1>6, <2>1, SaneKept
<1>8. MarksAhead'
  BY <1>4, <1>5, MarksKept
<1>9. run' \in [Runs -> RunState] /\ run'[r] = w
      /\ \A s \in Runs \ {r} : run'[s] = run[s]
  BY <1>1, <1>4, <1>5, RunMoves
<1>10. TypeOK'
  BY <1>1, <1>3, <1>4, <1>9 DEF TypeOK
<1>11. \A s \in Runs : run'[s].todo = run[s].todo
  BY <1>5, <1>9
<1>12. ASSUME NEW s \in Runs, run'[s].pc = "checkpoint"
       PROVE  EventOf[Current(s)'] \in staged'
  <2>1. Current(s)' = Current(s)
    BY <1>11 DEF Current
  <2>2. QED
    BY <1>1, <1>4, <1>9, <1>12, <2>1 DEF CommittedFirst
<1>13. CheckpointedIsStaged'
  BY <1>1, <1>4 DEF CommittedFirst, CheckpointedIsStaged
<1>14. QED
  BY <1>7, <1>8, <1>10, <1>12, <1>13 DEF CountInv, CommittedFirst

LEMMA IncrementHourlyCountStep ==
  ASSUME CountInv, NEW r \in Runs, IncrementHourlyCount(r) PROVE CountInv'
<1> DEFINE o == Current(r)
           k == <<o, "object">>
<1>1. /\ run[r] \in RunState /\ Sane(run[r]) /\ run[r].todo \subseteq stored
      /\ run[r].pc = "checkpoint" /\ TypeOK /\ MarksAhead /\ CommittedFirst
      /\ faults \in 0..MaxFaults
  BY RunFacts DEF IncrementHourlyCount, CountInv
<1>2. /\ run[r].todo # {} /\ run[r].done < ObjectBatch /\ run[r].stale = 0
      /\ run[r].done \in Nat
  <2>1. run[r].todo # {} /\ run[r].done < ObjectBatch /\ run[r].stale = 0
    BY <1>1 DEF Sane, AtObject, ToCount
  <2>2. run[r].done \in 0..ObjectBatch /\ ObjectBatch \in Nat
    BY <1>1, Bounds DEF RunState
  <2>3. QED
    BY <2>1, <2>2
<1>3. o \in stored /\ o \in Objects /\ EventOf[o] \in staged
  BY <1>1, <1>2, CurrentObject DEF CommittedFirst
<1>4. UNCHANGED <<hour, stored, lease, lock, cursor, counter, profile, staged, figure,
                  summary, faults>>
  BY DEF IncrementHourlyCount, locks, database
<1>5. CASE Live(k)
  <2> DEFINE w == [run[r] EXCEPT !.pc = "cursor", !.saw = TRUE]
  <2>1. /\ run' = [run EXCEPT ![r].pc = "cursor", ![r].saw = TRUE]
        /\ mark' = mark /\ counted' = counted
    BY <1>5 DEF IncrementHourlyCount
  <2>2. run' = [run EXCEPT ![r] = w]
    BY <2>1, RunFacts
  <2>3. w \in RunState /\ w.pc = "cursor" /\ w.todo = run[r].todo /\ w.stale = 0
    BY <1>1, <1>2 DEF RunState, AtObject
  <2> HIDE DEF w
  <2>4. Sane(w)
    BY <1>2, <2>3 DEF Sane, AtObject, ToCount
  <2>5. QED
    BY <1>1, <1>4, <2>1, <2>2, <2>3, <2>4, QuietRun
<1>6. CASE ~Live(k)
  <2> DEFINE n == IF lease = r /\ lock = r THEN run[r].stale ELSE run[r].stale + 1
             w == [run[r] EXCEPT !.pc = "total", !.done = run[r].done + 1, !.stale = n]
  <2>1. /\ mark' = [mark EXCEPT ![k] = hour + MarkTTL]
        /\ counted' = [counted EXCEPT ![o] = @ + 1]
        /\ run' = [run EXCEPT ![r].pc = "total", ![r].done = @ + 1,
             ![r].stale = IF lease = r /\ lock = r THEN @ ELSE @ + 1]
        /\ ~(mark[k] > hour)
    BY <1>6 DEF IncrementHourlyCount, SetMark, Live
  <2>2. run' = [run EXCEPT ![r] = w]
    BY <2>1, RunFacts
  <2>3. n \in {0, 1} /\ (n > 0 => lease # r \/ lock # r)
    BY <1>2
  <2> HIDE DEF n
  <2>4. run[r].done + 1 \in 0..ObjectBatch
    BY <1>2, Bounds
  <2>5. w \in RunState /\ w.pc = "total" /\ w.todo = run[r].todo /\ w.stale = n
    <3>1. PICK d \in 0..ObjectBatch, m \in Nat : d = run[r].done + 1 /\ m = n
      BY <2>3, <2>4
    <3>2. w = [run[r] EXCEPT !.pc = "total", !.done = d, !.stale = m]
      BY <3>1
    <3>3. "total" \in AtObject
      BY DEF AtObject
    <3>4. QED
      BY <1>1, <3>1, <3>2, <3>3 DEF RunState
  <2> HIDE DEF w
  <2>6. Sane(w)
    BY <1>2, <2>3, <2>5 DEF Sane, AtObject, ToCount
  <2>7. w.todo \subseteq stored /\ (w.stale > 0 => lease' # r \/ lock' # r)
    BY <1>1, <1>4, <2>3, <2>5
  <2>8. RunsSane'
    BY <1>4, <2>2, <2>5, <2>6, <2>7, SaneKept
  <2>9. run' \in [Runs -> RunState] /\ run'[r] = w
        /\ \A s \in Runs \ {r} : run'[s] = run[s]
    BY <1>1, <2>2, <2>5, RunMoves
  <2>10. hour \in Nat /\ mark \in [Keys -> 0..MaxHour + MarkTTL]
         /\ hour + MarkTTL \in 0..MaxHour + MarkTTL /\ k \in Keys
    <3>1. hour \in 0..MaxHour /\ MaxHour \in Nat /\ MarkTTL \in Nat
          /\ mark \in [Keys -> 0..MaxHour + MarkTTL]
      BY <1>1, Bounds DEF TypeOK
    <3>2. k \in Keys
      BY <1>3, Bounds
    <3>3. QED
      BY <3>1, <3>2
  <2>11. mark' \in [Keys -> 0..MaxHour + MarkTTL]
    BY <2>1, <2>10
  <2>12. counted \in [Objects -> Nat] /\ counted' \in [Objects -> Nat]
    BY <1>1, <1>3, <2>1 DEF TypeOK
  <2>13. TypeOK'
    BY <1>1, <1>4, <2>9, <2>11, <2>12 DEF TypeOK
  <2>14. CommittedFirst'
    <3>1. ASSUME NEW p \in Objects, counted'[p] > 0 PROVE EventOf[p] \in staged
      <4>1. CASE p = o
        BY <1>3, <4>1
      <4>2. CASE p # o
        BY <1>1, <2>1, <2>12, <3>1, <4>2 DEF CommittedFirst, CheckpointedIsStaged
      <4>3. QED
        BY <4>1, <4>2
    <3>2. ASSUME NEW s \in Runs, run'[s].pc = "checkpoint"
          PROVE  EventOf[Current(s)'] \in staged
      <4>1. s # r
        BY <2>5, <2>9, <3>2
      <4>2. QED
        BY <1>1, <2>9, <3>2, <4>1 DEF CommittedFirst, Current
    <3>3. QED
      BY <1>4, <3>1, <3>2 DEF CommittedFirst, CheckpointedIsStaged
  <2>15. \A j \in Keys : mark'[j] <= hour + MarkTTL
    <3>1. ASSUME NEW j \in Keys PROVE mark'[j] \in {mark[j], hour + MarkTTL}
      BY <2>1, <2>10
    <3>2. ASSUME NEW j \in Keys PROVE mark[j] <= hour + MarkTTL
      BY <1>1 DEF MarksAhead
    <3>3. hour + MarkTTL <= hour + MarkTTL
      BY <2>10, Bounds
    <3>4. QED
      BY <3>1, <3>2, <3>3
  <2>16. ASSUME NEW f \in Events
         PROVE  Counts(f)' = Counts(f) /\ mark'[<<f, "event">>] = mark[<<f, "event">>]
    <3>1. Counting(f)' = Counting(f)
      BY <1>1, <2>5, <2>9 DEF Counting, Current
    <3>2. Counts(f)' = Counts(f)
      BY <1>4, <3>1 DEF Counts
    <3>3. QED
      BY <2>1, <2>10, <3>2, Bounds
  <2>17. ASSUME NEW p \in Objects, counted'[p] > 0
         PROVE  HourOf[p] + counted'[p] * MarkTTL <= mark'[<<p, "object">>]
    <3>1. CASE p # o
      <4>1. counted'[p] = counted[p] /\ mark'[<<p, "object">>] = mark[<<p, "object">>]
        BY <2>1, <2>10, <2>12, <3>1, Bounds
      <4>2. QED
        BY <1>1, <2>17, <4>1 DEF MarksAhead
    <3>2. CASE p = o
      <4>1. PICK m \in Nat : m = counted[o]
        BY <1>3, <2>12
      <4>2. counted'[p] = m + 1 /\ mark'[<<p, "object">>] = hour + MarkTTL
        BY <1>3, <2>1, <2>10, <2>12, <3>2, <4>1
      <4>3. HourOf[o] <= hour
        BY <1>1, <1>3 DEF MarksAhead
      <4>4. HourOf[o] \in Nat
        <5>1. HourOf[o] \in 0..MaxHour /\ MaxHour \in Nat
          BY <1>3, Bounds
        <5>2. QED
          BY <5>1
      \* The checkpoint of the earlier counts has expired.
      <4>5. HourOf[o] + m * MarkTTL <= hour
        <5>1. CASE m = 0
          BY <4>3, <4>4, <5>1, Bounds
        <5>2. CASE m > 0
          <6>1. HourOf[o] + m * MarkTTL <= mark[k]
            BY <1>1, <1>3, <4>1, <5>2 DEF MarksAhead
          <6>2. mark[k] <= hour /\ mark[k] \in Nat
            BY <2>1, <2>10, Bounds
          <6>3. m * MarkTTL \in Nat
            BY Bounds
          <6>4. QED
            BY <2>10, <4>4, <6>1, <6>2, <6>3
        <5>3. QED
          BY <5>1, <5>2
      <4>6. HourOf[o] + (m + 1) * MarkTTL <= hour + MarkTTL
        BY <2>10, <4>4, <4>5, Pushed, Bounds
      <4>7. QED
        BY <3>2, <4>2, <4>6
    <3>3. QED
      BY <3>1, <3>2
  <2>18. MarksAhead'
    BY <1>1, <1>4, <2>15, <2>16, <2>17 DEF MarksAhead
  <2>19. QED
    BY <2>8, <2>13, <2>14, <2>18 DEF CountInv
<1>7. QED
  BY <1>5, <1>6

-----------------------------------------------------------------------------
(* The bucket, the clock and the leases.                                   *)
LEMMA OutsideStep ==
  ASSUME CountInv, (\E o \in Objects : Store(o)) \/ Tick \/ Expire \/ UNCHANGED vars
  PROVE  CountInv'
<1>1. TypeOK /\ RunsSane /\ CommittedFirst /\ MarksAhead
  BY DEF CountInv
<1>2. UNCHANGED <<mark, cursor, counter, counted, profile, staged, figure, summary, run>>
  BY DEF Store, Tick, Expire, vars, redisCounts, database
<1>3. /\ stored \subseteq stored' /\ stored' \subseteq Objects
      /\ hour' \in 0..MaxHour /\ hour <= hour'
      /\ \A o \in stored' : HourOf[o] <= hour'
  <2>1. hour \in Nat /\ hour <= MaxHour /\ MaxHour \in Nat /\ MaxLate \in Nat
    BY <1>1, Bounds DEF TypeOK
  <2>2. \A o \in stored : HourOf[o] \in Nat /\ HourOf[o] <= hour
    <3>1. \A o \in stored : HourOf[o] \in 0..MaxHour
      BY <1>1, Bounds DEF TypeOK
    <3>2. QED
      BY <1>1, <2>1, <3>1 DEF MarksAhead
  <2>3. CASE \E o \in Objects : Store(o)
    <3>1. PICK o \in Objects : Store(o)
      BY <2>3
    <3>2. HourOf[o] \in 0..MaxHour
      BY Bounds
    <3>3. stored' = stored \cup {o} /\ hour' = hour /\ HourOf[o] <= hour
      BY <2>1, <3>1, <3>2 DEF Store
    <3>4. QED
      BY <1>1, <2>1, <2>2, <3>3 DEF TypeOK
  <2>4. CASE Tick
    <3>1. hour' = hour + 1 /\ hour < MaxHour /\ stored' = stored
      BY <2>4 DEF Tick
    <3>2. QED
      BY <1>1, <2>1, <2>2, <3>1 DEF TypeOK
  <2>5. CASE Expire \/ UNCHANGED vars
    <3>1. hour' = hour /\ stored' = stored
      BY <2>5 DEF Expire, vars
    <3>2. QED
      BY <1>1, <2>1, <2>2, <3>1 DEF TypeOK
  <2>6. QED
    BY <2>3, <2>4, <2>5
<1>4. lease' \in {lease, None} /\ lock' \in {lock, None}
  BY DEF Store, Tick, Expire, vars, locks, Expired
<1>5. faults' \in 0..MaxFaults
  <2>1. faults \in 0..MaxFaults /\ MaxFaults \in Nat
    BY RunFacts, Bounds, <1>1 DEF TypeOK
  <2>2. faults' = faults \/ (faults < MaxFaults /\ faults' = faults + 1)
    BY DEF Store, Tick, Expire, vars
  <2>3. QED
    BY <2>1, <2>2
<1>6. TypeOK'
  BY <1>1, <1>2, <1>3, <1>4, <1>5 DEF TypeOK
<1>7. RunsSane'
  <2>1. \A r \in Runs : Sane(run[r])' /\ run'[r].todo \subseteq stored'
    BY <1>1, <1>2, <1>3 DEF RunsSane, Sane
  <2>2. StaleHasLost'
    BY <1>1, <1>2, <1>4, Bounds DEF RunsSane, StaleHasLost
  <2>3. QED
    BY <2>1, <2>2 DEF RunsSane
<1>8. CommittedFirst'
  BY <1>1, <1>2 DEF CommittedFirst, CheckpointedIsStaged, Current
<1>9. MarksAhead'
  <2>1. ASSUME NEW k \in Keys PROVE mark'[k] <= hour' + MarkTTL
    <3>1. mark[k] <= hour + MarkTTL
      BY <1>1 DEF MarksAhead
    <3>2. mark[k] \in 0..MaxHour + MarkTTL /\ hour \in 0..MaxHour
      BY <1>1 DEF TypeOK
    <3>3. QED
      BY <1>2, <1>3, <3>1, <3>2, Bounds
  <2>2. \A e \in Events : Counts(e)' = Counts(e)
    BY <1>2 DEF Counts, Counting, Current
  <2>3. QED
    BY <1>1, <1>2, <1>3, <2>1, <2>2 DEF MarksAhead
<1>10. QED
  BY <1>6, <1>7, <1>8, <1>9 DEF CountInv

-----------------------------------------------------------------------------
(* The invariant and the theorems.                                         *)
LEMMA InitCount == ASSUME Init PROVE CountInv
<1>1. /\ hour = 0 /\ stored = {} /\ staged = {} /\ lease = None /\ lock = None
      /\ mark = [k \in Keys |-> 0] /\ cursor = 0
      /\ counter = [c \in Counters |-> None] /\ counted = [o \in Objects |-> 0]
      /\ profile = [e \in Events |-> 0] /\ figure = [o \in Objects |-> 0]
      /\ summary = 0 /\ faults = 0 /\ run = [r \in Runs |-> Idle]
  BY DEF Init
<1>2. /\ Idle \in RunState /\ Sane(Idle) /\ Idle.todo = {}
      /\ Idle.pc = "idle" /\ Idle.stale = 0
  BY Bounds DEF Idle, RunState, Sane, AtObject, ToCount
<1>3. 0 \in 0..MaxHour /\ 0 \in 0..MaxFaults /\ 0 \in 0..MaxFigure
      /\ 0 \in 0..MaxHour + MarkTTL
  BY Bounds
<1>4. TypeOK
  BY <1>1, <1>2, <1>3 DEF TypeOK
<1>5. RunsSane
  BY <1>1, <1>2 DEF RunsSane, StaleHasLost
<1>6. CommittedFirst
  BY <1>1, <1>2 DEF CommittedFirst, CheckpointedIsStaged
<1>7. ASSUME NEW e \in Events PROVE Counts(e) = 0
  <2>1. Counting(e) = {}
    BY <1>1, <1>2 DEF Counting
  <2>2. Counts(e) = 0 + Cardinality({})
    BY <1>1, <2>1 DEF Counts
  <2>3. QED
    BY <2>2, FS_EmptySet
<1>8. MarksAhead
  BY <1>1, <1>7, Bounds DEF MarksAhead
<1>9. QED
  BY <1>4, <1>5, <1>6, <1>8 DEF CountInv

LEMMA StepCount == ASSUME CountInv, [Next]_vars PROVE CountInv'
<1>1. ASSUME NEW r \in Runs, Step(r) \/ Raise(r) \/ Crash(r) PROVE CountInv'
  <2>1. CASE SkipRun(r) \/ SkipSource(r) \/ Release(r) \/ LeaseLost(r) \/ Raise(r) \/ Crash(r)
    BY <2>1, EndStep
  <2>2. CASE AcquireRun(r) \/ AcquireSource(r)
    BY <2>2, StartStep
  <2>3. CASE List(r)
    BY <2>3, ListStep
  <2>4. CASE NextObject(r)
    BY <2>4, NextObjectStep
  <2>5. CASE MarkEvent(r)
    BY <2>5, MarkEventStep
  <2>6. CASE CountProfileEvent(r)
    BY <2>6, CountProfileEventStep
  <2>7. CASE CommitProfiles(r)
    BY <2>7, CommitProfilesStep
  <2>8. CASE IncrementHourlyCount(r)
    BY <2>8, IncrementHourlyCountStep
  <2>9. CASE SaveCursor(r)
    BY <2>9, SaveCursorStep
  <2>10. CASE \/ UpsertCampaignPerformance(r)
              \/ \E c \in Counters : ReadCounter(r, c) \/ WriteCounter(r, c)
              \/ RebuildTotal(r) \/ CacheRebuiltTotal(r) \/ ReadTotal(r)
              \/ UpdateSummary(r)
    BY <2>10, OnwardStep
  <2>11. QED
    BY <1>1, <2>1, <2>2, <2>3, <2>4, <2>5, <2>6, <2>7, <2>8, <2>9, <2>10 DEF Step
<1>2. CASE (\E o \in Objects : Store(o)) \/ Tick \/ Expire \/ UNCHANGED vars
  BY <1>2, OutsideStep
<1>3. QED
  BY <1>1, <1>2 DEF Next

LEMMA CountInvHolds == Spec => []CountInv
<1>1. Init => CountInv
  BY InitCount
<1>2. CountInv /\ [Next]_vars => CountInv'
  BY StepCount
<1>3. QED
  BY <1>1, <1>2, PTL DEF Spec

\* Whatever the number of runs, objects and faults, the state of the job has
\* its types; in particular a run never starts on more than object_batch_size
\* objects, and the counters read from the cache are numbers or absent.
THEOREM AnalyticsTypeCorrect == Spec => []TypeOK
<1>1. CountInv => TypeOK
  BY DEF CountInv
<1>2. QED
  BY <1>1, CountInvHolds, PTL

\* increment_hourly_count and record_profile_event_analytics count an object
\* and an event at most once per time to live of its marker, counted from the
\* hour it was first received, however many runs overlap, die or are retried.
THEOREM AnalyticsOncePerTTL == Spec => []OncePerTTL
<1>1. CountInv => OncePerTTL
  <2> SUFFICES ASSUME CountInv PROVE OncePerTTL
    OBVIOUS
  <2>1. TypeOK /\ MarksAhead /\ hour \in Nat
    BY Bounds DEF CountInv, TypeOK
  <2>2. ASSUME NEW o \in Objects, counted[o] > 0 PROVE counted[o] <= Allowed(HourOf[o])
    <3>1. HourOf[o] + counted[o] * MarkTTL <= mark[<<o, "object">>]
      BY <2>1, <2>2 DEF MarksAhead
    <3>2. mark[<<o, "object">>] <= hour + MarkTTL
      BY <2>1, Bounds DEF MarksAhead
    <3>3. mark[<<o, "object">>] \in 0..MaxHour + MarkTTL /\ counted[o] \in Nat
          /\ HourOf[o] \in 0..MaxHour
      BY <2>1, Bounds DEF TypeOK
    <3>4. PICK n \in Nat, f \in Nat : n = counted[o] /\ f = HourOf[o]
      BY <3>3, Bounds
    <3>5. n * MarkTTL \in Nat /\ mark[<<o, "object">>] \in Nat
      BY <3>3, Bounds
    <3>6. f + n * MarkTTL <= hour + MarkTTL
      BY <2>1, <3>1, <3>2, <3>4, <3>5, Bounds
    <3>7. n <= 1 + (hour - f) \div MarkTTL
      BY <2>1, <2>2, <3>4, <3>6, Divided, Bounds
    <3>8. QED
      BY <3>4, <3>7 DEF Allowed
  <2>3. ASSUME NEW e \in Events, profile[e] > 0 PROVE profile[e] <= Allowed(FirstHour(e))
    <3>1. profile[e] \in Nat /\ Cardinality(Counting(e)) \in Nat
      BY <2>1, CountingFinite DEF TypeOK
    <3>2. PICK n \in Nat, m \in Nat, f \in Nat :
            n = profile[e] /\ m = Counts(e) /\ n <= m /\ f = FirstHour(e) /\ n > 0
      BY <2>3, <3>1, FirstHourLeast DEF Counts
    <3>3. f + m * MarkTTL <= mark[<<e, "event">>]
      BY <2>1, <3>2 DEF MarksAhead
    <3>4. mark[<<e, "event">>] <= hour + MarkTTL
      BY <2>1, Bounds DEF MarksAhead
    <3>5. mark[<<e, "event">>] \in Nat /\ m * MarkTTL \in Nat
      BY <2>1, Bounds DEF TypeOK
    <3>6. f + m * MarkTTL <= hour + MarkTTL
      BY <2>1, <3>3, <3>4, <3>5, Bounds
    <3>7. hour + MarkTTL \in Nat
      BY <2>1, Bounds
    <3>8. f + n * MarkTTL <= hour + MarkTTL
      BY <3>2, <3>6, <3>7, Fewer, Bounds
    <3>9. n <= 1 + (hour - f) \div MarkTTL
      BY <2>1, <3>2, <3>8, Divided, Bounds
    <3>10. QED
      BY <3>2, <3>9 DEF Allowed
  <2>4. QED
    BY <2>2, <2>3 DEF OncePerTTL
<1>2. QED
  BY <1>1, CountInvHolds, PTL

\* The session is committed before increment_hourly_count: an object that any
\* run has checkpointed has its raw profile in the database for good.
THEOREM AnalyticsStagedFirst == Spec => []CheckpointedIsStaged
<1>1. CountInv => CheckpointedIsStaged
  BY DEF CountInv, CommittedFirst
<1>2. QED
  BY <1>1, CountInvHolds, PTL

\* Refreshing both leases before each object stops a run that has lost one
\* after at most the object it was working on.
THEOREM AnalyticsStaleStops == Spec => []StaleRunStops
<1>1. CountInv => StaleRunStops
  BY DEF CountInv, RunsSane, Sane, StaleRunStops
<1>2. QED
  BY <1>1, CountInvHolds, PTL

-----------------------------------------------------------------------------
(***************************************************************************)
(* The totals.  As long as nothing has failed the leases leave one run at  *)
(* a time past its start, and each total lacks just what that run is about *)
(* to add.                                                                 *)
(***************************************************************************)
BeforeTotal == {"total", "write total"}
Before(c) == IF c = "total" THEN BeforeTotal ELSE BeforeTotal \cup {"daily", "write daily"}
Settled == {"idle", "source", "list", "release"}

Values == [c \in Counters |-> Value(c)]

\* What a run in state x has still to add, when the cached totals are v, the
\* summary is m and there are n increments.
Accounts(x, v, m, n) ==
  /\ \A c \in Counters :
       /\ x.pc \notin Before(c) => v[c] = n
       /\ x.pc \in Before(c) => v[c] + 1 = n
       /\ x.pc = Writing(c) => x.read = v[c]
  /\ x.pc \in Settled => m = n
  /\ x.pc = "summary" => x.read = n
  /\ x.pc # "rebuilt"

\* A run that is past its start has what it has acquired.
Owned ==
  \A r \in Runs : /\ run[r].pc # "idle" => lease = r
                  /\ run[r].pc \notin {"idle", "source"} => lock = r

\* Every checkpoint belongs to an increment.
Marked ==
  /\ \A o \in Objects : mark[<<o, "object">>] > 0 => counted[o] > 0
  /\ \A r \in Runs : run[r].saw => Increments # {}

Accounted ==
  /\ \A r \in Runs :
       run[r].pc # "idle" => Accounts(run[r], Values, summary, Cardinality(Increments))
  /\ (\A r \in Runs : run[r].pc = "idle")
       => Accounts(Idle, Values, summary, Cardinality(Increments))

TotalInv ==
  /\ CountInv /\ IsFiniteSet(Increments) /\ Marked
  /\ faults = 0 => Owned /\ Accounted

AtTotals == {"total", "write total", "daily", "write daily"}

\* Where nothing is owed to the totals.
LEMMA Neutral ==
  ASSUME NEW x, NEW v, NEW m, NEW n, x.pc \notin AtTotals
  PROVE  Accounts(x, v, m, n) <=>
           /\ \A c \in Counters : v[c] = n
           /\ x.pc \in Settled => m = n
           /\ x.pc = "summary" => x.read = n
           /\ x.pc # "rebuilt"
<1>1. \A c \in Counters : x.pc \notin Before(c) /\ x.pc # Writing(c)
  <2>0. "daily" # "total"
    OBVIOUS
  <2>1. /\ Before("total") = BeforeTotal
        /\ Before("daily") = BeforeTotal \cup {"daily", "write daily"}
        /\ Writing("total") = "write total" /\ Writing("daily") = "write daily"
    BY <2>0, Zenon DEF Before, Writing
  <2>2. Before("total") \subseteq AtTotals /\ Before("daily") \subseteq AtTotals
    BY <2>1 DEF BeforeTotal, AtTotals
  <2>3. "write total" \in AtTotals /\ "write daily" \in AtTotals
    BY DEF AtTotals
  <2>4. Writing("total") \in AtTotals /\ Writing("daily") \in AtTotals
    BY <2>1, <2>3
  <2>5. QED
    BY <2>2, <2>4 DEF Counters
<1>2. QED
  BY <1>1 DEF Accounts

LEMMA SameIncrements ==
  ASSUME UNCHANGED counted PROVE Increments' = Increments
  BY DEF Increments

LEMMA SameValues ==
  ASSUME UNCHANGED counter PROVE Values' = Values
  BY DEF Values, Value

\* An increment is one more, and different from the earlier ones.
LEMMA OneIncrement ==
  ASSUME TypeOK, IsFiniteSet(Increments), NEW o \in Objects,
         counted' = [counted EXCEPT ![o] = @ + 1]
  PROVE  /\ IsFiniteSet(Increments') /\ Increments' # {}
         /\ Cardinality(Increments') = Cardinality(Increments) + 1
<1> DEFINE x == <<o, counted[o] + 1>>
<1>1. counted \in [Objects -> Nat] /\ counted[o] \in Nat
  BY DEF TypeOK
<1>2. /\ counted'[o] = counted[o] + 1
      /\ \A p \in Objects \ {o} : counted'[p] = counted[p]
  BY <1>1
<1>3. \A S : \A y : y \in UNION {{p} \X (1..S[p]) : p \in Objects}
                      <=> \E p \in Objects : \E n \in 1..S[p] : y = <<p, n>>
  OBVIOUS
<1>4. \A y : y \in Increments <=> \E p \in Objects : \E n \in 1..counted[p] : y = <<p, n>>
  BY <1>3 DEF Increments
<1>5. \A y : y \in Increments' <=> \E p \in Objects : \E n \in 1..counted'[p] : y = <<p, n>>
  BY <1>3 DEF Increments
<1>6. x \notin Increments
  <2> SUFFICES ASSUME NEW p \in Objects, NEW n \in 1..counted[p], x = <<p, n>> PROVE FALSE
    BY <1>4
  <2>1. p = o /\ n = counted[o] + 1
    OBVIOUS
  <2>2. QED
    BY <1>1, <2>1
<1>7. Increments' = Increments \cup {x}
  <2>1. ASSUME NEW y \in Increments' PROVE y \in Increments \cup {x}
    <3>0. PICK p \in Objects : \E n \in 1..counted'[p] : y = <<p, n>>
      BY <1>5, <2>1
    <3>1. PICK n \in 1..counted'[p] : y = <<p, n>>
      BY <3>0
    <3>2. CASE p = o /\ n = counted[o] + 1
      BY <3>1, <3>2
    <3>3. CASE ~(p = o /\ n = counted[o] + 1)
      <4>1. n \in 1..counted[p]
        BY <1>1, <1>2, <3>1, <3>3
      <4>2. QED
        BY <1>4, <3>1, <4>1
    <3>4. QED
      BY <3>2, <3>3
  <2>2. ASSUME NEW y \in Increments PROVE y \in Increments'
    <3>0. PICK p \in Objects : \E n \in 1..counted[p] : y = <<p, n>>
      BY <1>4, <2>2
    <3>1. PICK n \in 1..counted[p] : y = <<p, n>>
      BY <3>0
    <3>2. n \in 1..counted'[p]
      <4>1. counted[p] \in Nat
        BY <1>1
      <4>2. counted'[p] = counted[p] \/ counted'[p] = counted[p] + 1
        BY <1>2
      <4>3. QED
        BY <4>1, <4>2
    <3>3. QED
      BY <1>5, <3>1, <3>2
  <2>3. x \in Increments'
    <3>1. counted[o] + 1 \in 1..counted'[o]
      BY <1>1, <1>2
    <3>2. QED
      BY <1>5, <3>1
  <2>4. QED
    BY <2>1, <2>2, <2>3
<1>8. QED
  BY <1>6, <1>7, FS_AddElement

\* A run that has acquired its lease is the only one past its start.
LEMMA OnlyRun ==
  ASSUME TotalInv, faults = 0, NEW r \in Runs, run[r].pc # "idle"
  PROVE  /\ lease = r /\ \A s \in Runs \ {r} : run[s].pc = "idle"
         /\ run[r].pc # "source" => lock = r
         /\ Accounts(run[r], Values, summary, Cardinality(Increments))
  BY DEF TotalInv, Owned, Accounted

\* A run that goes on alone.
LEMMA Goes ==
  ASSUME CountInv', NEW r \in Runs, \A s \in Runs \ {r} : run'[s] = run[s],
         IsFiniteSet(Increments'), Marked',
         faults' = 0 =>
           /\ \A s \in Runs \ {r} : run[s].pc = "idle"
           /\ run'[r].pc # "idle" => lease' = r
           /\ run'[r].pc \notin {"idle", "source"} => lock' = r
           /\ run'[r].pc = "idle" => run'[r] = Idle
           /\ Accounts(run'[r], Values', summary', Cardinality(Increments'))
  PROVE  TotalInv'
<1>1. ASSUME faults' = 0 PROVE Owned' /\ Accounted'
  <2>1. \A s \in Runs \ {r} : run'[s].pc = "idle"
    BY <1>1
  <2>2. Owned'
    BY <1>1, <2>1 DEF Owned
  <2>3. \A s \in Runs : run'[s].pc # "idle" =>
          Accounts(run'[s], Values', summary', Cardinality(Increments'))
    BY <1>1, <2>1
  <2>4. run'[r].pc = "idle" => Accounts(Idle, Values', summary', Cardinality(Increments'))
    BY <1>1
  <2>5. QED
    BY <2>2, <2>3, <2>4 DEF Accounted
<1>2. QED
  BY <1>1 DEF TotalInv

\* Neither counts nor checkpoints.
LEMMA MarkedKept ==
  ASSUME TotalInv, NEW r \in Runs, \A s \in Runs \ {r} : run'[s] = run[s],
         run'[r].saw => run[r].saw \/ Increments # {}, UNCHANGED counted,
         \A o \in Objects : mark'[<<o, "object">>] = mark[<<o, "object">>]
  PROVE  Marked' /\ IsFiniteSet(Increments')
<1>1. Increments' = Increments
  BY SameIncrements
<1>2. QED
  BY <1>1 DEF TotalInv, Marked

\* The steps that leave the totals, the summary and the count alone.
LEMMA Neutrally ==
  ASSUME TotalInv, CountInv', NEW r \in Runs, run[r].pc # "idle",
         \A s \in Runs \ {r} : run'[s] = run[s],
         run'[r].saw => run[r].saw \/ Increments # {},
         UNCHANGED <<counted, counter, summary, lease, lock, faults>>,
         \A o \in Objects : mark'[<<o, "object">>] = mark[<<o, "object">>],
         run[r].pc \notin AtTotals, run'[r].pc \notin AtTotals,
         run'[r].pc \notin {"idle", "source", "summary", "rebuilt"},
         run'[r].pc \in Settled => run[r].pc \in Settled,
         run[r].pc # "source"
  PROVE  TotalInv'
<1>1. Marked' /\ IsFiniteSet(Increments')
  BY MarkedKept
<1>2. Increments' = Increments /\ Values' = Values
  BY SameIncrements, SameValues
<1>3. ASSUME faults' = 0
      PROVE  /\ \A s \in Runs \ {r} : run[s].pc = "idle"
             /\ lease' = r /\ lock' = r
             /\ Accounts(run'[r], Values', summary', Cardinality(Increments'))
  <2>1. /\ lease = r /\ \A s \in Runs \ {r} : run[s].pc = "idle"
        /\ lock = r /\ Accounts(run[r], Values, summary, Cardinality(Increments))
    BY <1>3, OnlyRun
  <2>2. /\ \A c \in Counters : Values[c] = Cardinality(Increments)
        /\ run[r].pc \in Settled => summary = Cardinality(Increments)
    BY <2>1, Neutral
  <2>3. Accounts(run'[r], Values, summary, Cardinality(Increments))
    BY <2>2, Neutral
  <2>4. QED
    BY <1>2, <2>1, <2>3
<1>4. QED
  BY <1>1, <1>3, Goes

\* The places between the increment and the totals: a total lacks the increment
\* up to the step that writes it.
Elsewhere == Settled \cup {"summary", "rebuilt"}

LEMMA Places ==
  ASSUME NEW c \in Counters
  PROVE  /\ {"total", c, Writing(c)} \subseteq Before(c)
         /\ "checkpoint" \notin Before(c) /\ AfterCounter(c) \notin Before(c)
         /\ {"total", c, Writing(c), AfterCounter(c)} \cap Elsewhere = {}
         /\ \A d \in Counters : Writing(d) \notin {"total", c, AfterCounter(c)}
         /\ \A d \in Counters \ {c} :
              /\ Writing(d) # Writing(c)
              /\ Writing(c) \in Before(d) <=> c \in Before(d)
              /\ AfterCounter(c) \in Before(d) <=> c \in Before(d)
<1>0. "daily" # "total"
  OBVIOUS
<1>1. /\ Before("total") = BeforeTotal
      /\ Before("daily") = BeforeTotal \cup {"daily", "write daily"}
      /\ Writing("total") = "write total" /\ Writing("daily") = "write daily"
      /\ AfterCounter("total") = "daily" /\ AfterCounter("daily") = "cursor"
  BY <1>0, Zenon DEF Before, Writing, AfterCounter
<1>2. CASE c = "total"
  BY <1>1, <1>2 DEF Counters, BeforeTotal, Elsewhere, Settled
<1>3. CASE c = "daily"
  BY <1>1, <1>3 DEF Counters, BeforeTotal, Elsewhere, Settled
<1>4. QED
  BY <1>2, <1>3 DEF Counters

\* What is owed at a place where neither the summary nor a read total matters.
LEMMA Owing ==
  ASSUME NEW x, NEW v, NEW m, NEW n, x.pc \notin Elsewhere
  PROVE  Accounts(x, v, m, n) <=>
           \A c \in Counters : /\ x.pc \notin Before(c) => v[c] = n
                               /\ x.pc \in Before(c) => v[c] + 1 = n
                               /\ x.pc = Writing(c) => x.read = v[c]
  BY DEF Accounts, Elsewhere

LEMMA IdleNeutral ==
  /\ Idle.pc = "idle" /\ Idle.saw = FALSE /\ Idle.pc \notin AtTotals
  /\ Idle.pc \in Settled /\ Idle.pc # "summary" /\ Idle.pc # "rebuilt"
  BY DEF Idle, AtTotals, Settled

\* The end of a run that has nothing to add.
LEMMA Ends ==
  ASSUME TotalInv, CountInv', NEW r \in Runs, run[r].pc # "idle",
         run' = [run EXCEPT ![r] = Idle], UNCHANGED <<counted, counter, summary, mark>>,
         faults' = 0 => faults = 0 /\ run[r].pc \in Settled
  PROVE  TotalInv'
<1>1. run'[r] = Idle /\ \A s \in Runs \ {r} : run'[s] = run[s]
  BY RunFacts DEF TotalInv
<1>2. Marked' /\ IsFiniteSet(Increments')
  BY <1>1, MarkedKept, IdleNeutral
<1>3. Increments' = Increments /\ Values' = Values
  BY SameIncrements, SameValues
<1>4. ASSUME faults' = 0
      PROVE  /\ \A s \in Runs \ {r} : run[s].pc = "idle"
             /\ Accounts(Idle, Values', summary', Cardinality(Increments'))
  <2>1. /\ \A s \in Runs \ {r} : run[s].pc = "idle"
        /\ Accounts(run[r], Values, summary, Cardinality(Increments))
        /\ run[r].pc \in Settled
    BY <1>4, OnlyRun
  <2>2. run[r].pc \notin AtTotals
    BY <2>1 DEF Settled, AtTotals
  <2>3. Accounts(Idle, Values, summary, Cardinality(Increments))
    BY <2>1, <2>2, Neutral, IdleNeutral
  <2>4. QED
    BY <1>3, <2>1, <2>3
<1>5. QED
  BY <1>1, <1>2, <1>4, IdleNeutral, Goes

LEMMA EndTotal ==
  ASSUME TotalInv, CountInv', NEW r \in Runs,
         SkipSource(r) \/ Release(r) \/ LeaseLost(r) \/ Raise(r) \/ Crash(r)
  PROVE  TotalInv'
<1>1. /\ run' = [run EXCEPT ![r] = Idle] /\ UNCHANGED <<counted, counter, summary, mark>>
      /\ run[r].pc # "idle"
  BY DEF SkipSource, Release, LeaseLost, Raise, Crash, Abort, Running, redisCounts, database
<1>2. faults \in Nat
  BY RunFacts, Bounds DEF TotalInv
<1>3. CASE Raise(r) \/ Crash(r)
  <2>1. faults' # 0
    BY <1>2, <1>3 DEF Raise, Crash
  <2>2. QED
    BY <1>1, <2>1, Ends
<1>4. CASE SkipSource(r) \/ Release(r)
  <2>1. faults' = faults /\ run[r].pc \in Settled
    BY <1>4 DEF SkipSource, Release, Settled
  <2>2. QED
    BY <1>1, <2>1, Ends
\* Without a failure the leases are there.
<1>5. CASE LeaseLost(r)
  <2>1. faults' = faults /\ run[r].pc = "next" /\ ~(lease = r /\ lock = r)
    BY <1>5 DEF LeaseLost, Refreshable
  <2>2. faults # 0
    BY <1>1, <2>1, OnlyRun
  <2>3. QED
    BY <1>1, <2>1, <2>2, Ends
<1>6. QED
  BY <1>3, <1>4, <1>5

\* A run that is skipped adds nothing; others may be at work.
LEMMA SkipTotal ==
  ASSUME TotalInv, CountInv', NEW r \in Runs, SkipRun(r) PROVE TotalInv'
<1>1. /\ run[r].pc = "idle" /\ run' = [run EXCEPT ![r] = Idle]
      /\ UNCHANGED <<counted, counter, summary, mark, lease, lock, faults>>
  BY DEF SkipRun, redisCounts, database, locks
<1>2. run'[r] = Idle /\ \A s \in Runs \ {r} : run'[s] = run[s]
  BY <1>1, RunFacts DEF TotalInv
<1>3. \A s \in Runs : /\ run'[s].pc = run[s].pc
                      /\ run'[s].pc # "idle" => run'[s] = run[s]
  BY <1>1, <1>2, IdleNeutral
<1>4. Increments' = Increments /\ Values' = Values
  BY <1>1, SameIncrements, SameValues
<1>5. Marked'
  <2>1. \A s \in Runs : run'[s].saw => run[s].saw
    BY <1>2, IdleNeutral
  <2>2. QED
    BY <1>1, <1>4, <2>1 DEF TotalInv, Marked
<1>6. ASSUME faults' = 0 PROVE Owned' /\ Accounted'
  <2>1. Owned /\ Accounted
    BY <1>1, <1>6 DEF TotalInv
  <2>2. Owned'
    BY <1>1, <1>3, <2>1 DEF Owned
  <2>3. \A s \in Runs : run'[s].pc # "idle" =>
          Accounts(run'[s], Values, summary, Cardinality(Increments))
    BY <1>3, <2>1 DEF Accounted
  <2>4. (\A s \in Runs : run'[s].pc = "idle") =>
          Accounts(Idle, Values, summary, Cardinality(Increments))
    BY <1>3, <2>1 DEF Accounted
  <2>5. Accounted'
    BY <1>1, <1>4, <2>3, <2>4 DEF Accounted
  <2>6. QED
    BY <2>2, <2>5
<1>7. IsFiniteSet(Increments')
  BY <1>4 DEF TotalInv
<1>8. QED
  BY <1>5, <1>6, <1>7 DEF TotalInv

\* A free lease means that no run is at work.
LEMMA AcquireRunTotal ==
  ASSUME TotalInv, CountInv', NEW r \in Runs, AcquireRun(r) PROVE TotalInv'
<1>1. /\ lease = None /\ lease' = r /\ run' = [run EXCEPT ![r].pc = "source"]
      /\ UNCHANGED <<counted, counter, summary, mark, faults>>
  BY DEF AcquireRun, Acquirable, Goto, redisCounts, database
<1>2. /\ run'[r].pc = "source" /\ run'[r].saw = run[r].saw
      /\ \A s \in Runs \ {r} : run'[s] = run[s]
  BY <1>1, RunFacts DEF TotalInv, RunState
<1>3. Marked' /\ IsFiniteSet(Increments')
  BY <1>1, <1>2, MarkedKept
<1>4. Increments' = Increments /\ Values' = Values
  BY <1>1, SameIncrements, SameValues
<1>5. ASSUME faults' = 0
      PROVE  /\ \A s \in Runs \ {r} : run[s].pc = "idle"
             /\ Accounts(run'[r], Values', summary', Cardinality(Increments'))
  <2>1. \A s \in Runs : run[s].pc = "idle"
    BY <1>1, <1>5, Bounds DEF TotalInv, Owned
  <2>2. Accounts(Idle, Values, summary, Cardinality(Increments))
    BY <1>1, <1>5, <2>1 DEF TotalInv, Accounted
  <2>3. "source" \notin AtTotals /\ "source" \in Settled
    BY DEF AtTotals, Settled
  <2>4. Accounts(run'[r], Values, summary, Cardinality(Increments))
    BY <1>2, <2>2, <2>3, Neutral, IdleNeutral
  <2>5. QED
    BY <1>1, <1>4, <2>1, <2>4
<1>6. QED
  BY <1>1, <1>2, <1>3, <1>5, Goes

LEMMA AcquireSourceTotal ==
  ASSUME TotalInv, CountInv', NEW r \in Runs, AcquireSource(r) PROVE TotalInv'
<1>1. /\ run[r].pc = "source" /\ lock' = r /\ run' = [run EXCEPT ![r].pc = "list"]
      /\ UNCHANGED <<counted, counter, summary, mark, faults, lease>>
  BY DEF AcquireSource, Goto, redisCounts, database
<1>2. /\ run'[r].pc = "list" /\ run'[r].saw = run[r].saw
      /\ \A s \in Runs \ {r} : run'[s] = run[s]
  BY <1>1, RunFacts DEF TotalInv, RunState
<1>3. Marked' /\ IsFiniteSet(Increments')
  BY <1>1, <1>2, MarkedKept
<1>4. Increments' = Increments /\ Values' = Values
  BY <1>1, SameIncrements, SameValues
<1>5. ASSUME faults' = 0
      PROVE  /\ \A s \in Runs \ {r} : run[s].pc = "idle"
             /\ lease' = r
             /\ Accounts(run'[r], Values', summary', Cardinality(Increments'))
  <2>1. /\ \A s \in Runs \ {r} : run[s].pc = "idle"
        /\ Accounts(run[r], Values, summary, Cardinality(Increments))
    BY <1>1, <1>5, OnlyRun
  <2>2. lease = r
    BY <1>1, <1>5, OnlyRun
  <2>3. /\ run[r].pc \notin AtTotals /\ run[r].pc \in Settled
        /\ run'[r].pc \notin AtTotals /\ run'[r].pc # "summary" /\ run'[r].pc # "rebuilt"
    BY <1>1, <1>2 DEF AtTotals, Settled
  <2>4. /\ \A c \in Counters : Values[c] = Cardinality(Increments)
        /\ summary = Cardinality(Increments)
    BY <2>1, <2>3, Neutral
  <2>6. Accounts(run'[r], Values, summary, Cardinality(Increments))
    BY <2>3, <2>4, Neutral
  <2>5. QED
    BY <1>1, <1>4, <2>1, <2>2, <2>6
<1>6. QED
  BY <1>1, <1>2, <1>3, <1>5, Goes

LEMMA TotalRuns == TotalInv => run \in [Runs -> RunState]
  BY DEF TotalInv, CountInv, TypeOK

\* From one place to the next, with nothing for the totals.
LEMMA NeutralTotal ==
  ASSUME TotalInv, CountInv', NEW r \in Runs,
         \/ List(r) \/ NextObject(r) \/ MarkEvent(r) \/ CountProfileEvent(r)
         \/ UpsertCampaignPerformance(r) \/ CommitProfiles(r) \/ SaveCursor(r)
  PROVE  TotalInv'
<1>1. /\ UNCHANGED <<counted, counter, summary, lease, lock, faults>>
      /\ run[r].pc \in {"list", "next", "mark", "profile", "figure", "commit", "cursor"}
  BY DEF List, NextObject, MarkEvent, CountProfileEvent, UpsertCampaignPerformance,
         CommitProfiles, SaveCursor, locks, redisCounts, database
<1>2. \A o \in Objects : mark'[<<o, "object">>] = mark[<<o, "object">>]
  <2>1. CASE mark' = mark
    BY <2>1
  <2>2. CASE mark' # mark
    <3>1. mark' = [mark EXCEPT ![<<EventOf[Current(r)], "event">>] = hour + MarkTTL]
      BY <2>2 DEF List, NextObject, MarkEvent, CountProfileEvent,
                  UpsertCampaignPerformance, CommitProfiles, SaveCursor, SetMark
    <3>2. mark \in [Keys -> 0..MaxHour + MarkTTL]
      BY DEF TotalInv, CountInv, TypeOK
    <3>3. QED
      BY <3>1, <3>2, Bounds
  <2>3. QED
    BY <2>1, <2>2
<1>3. /\ run'[r].pc \in {"next", "mark", "figure", "profile", "commit", "checkpoint"}
      /\ run'[r].saw => run[r].saw
      /\ \A s \in Runs \ {r} : run'[s] = run[s]
  <2>1. run \in [Runs -> RunState]
    BY TotalRuns
  <2>2. CASE List(r)
    BY <2>1, <2>2 DEF List, RunState
  <2>3. CASE SaveCursor(r)
    BY <2>1, <2>3 DEF SaveCursor, RunState
  <2>4. CASE \/ NextObject(r) \/ MarkEvent(r) \/ CountProfileEvent(r)
             \/ UpsertCampaignPerformance(r) \/ CommitProfiles(r)
    <3>1. PICK pc \in {"mark", "figure", "profile", "commit", "checkpoint"} :
            run' = [run EXCEPT ![r].pc = pc]
      BY <2>4 DEF NextObject, MarkEvent, CountProfileEvent, UpsertCampaignPerformance,
                  CommitProfiles, Goto
    <3>2. QED
      BY <2>1, <3>1 DEF RunState
  <2>5. QED
    BY <2>2, <2>3, <2>4
<1>4. /\ run[r].pc \notin AtTotals /\ run'[r].pc \notin AtTotals
      /\ run'[r].pc \notin {"idle", "source", "summary", "rebuilt"}
      /\ run'[r].pc \notin Settled /\ run[r].pc # "source" /\ run[r].pc # "idle"
  BY <1>1, <1>3 DEF AtTotals, Settled
<1>5. QED
  BY <1>1, <1>2, <1>3, <1>4, Neutrally

\* The checkpoint is there, so the object was counted before; or it is counted
\* now, and both totals lack one.
LEMMA IncrementTotal ==
  ASSUME TotalInv, CountInv', NEW r \in Runs, IncrementHourlyCount(r) PROVE TotalInv'
<1> DEFINE o == Current(r)
           k == <<o, "object">>
<1>1. /\ run[r].pc = "checkpoint" /\ run \in [Runs -> RunState] /\ TypeOK
      /\ UNCHANGED <<counter, summary, lease, lock, faults>>
  BY RunFacts DEF TotalInv, CountInv, IncrementHourlyCount, locks, database
<1>2. o \in Objects
  <2>1. Sane(run[r]) /\ "checkpoint" \in AtObject
    BY RunFacts DEF TotalInv, AtObject, ToCount
  <2>2. QED
    BY <1>1, <2>1, CurrentObject DEF Sane
<1>3. k \in Keys /\ mark \in [Keys -> 0..MaxHour + MarkTTL] /\ hour \in Nat
      /\ counted \in [Objects -> Nat]
  <2>1. k \in Keys
    BY <1>2, Bounds
  <2>2. hour \in 0..MaxHour /\ MaxHour \in Nat
    BY <1>1, Bounds DEF TypeOK
  <2>3. QED
    BY <1>1, <2>1, <2>2 DEF TypeOK
<1> HIDE DEF o
<1>4. CASE /\ mark[k] > hour /\ UNCHANGED <<mark, counted>>
           /\ run' = [run EXCEPT ![r].pc = "cursor", ![r].saw = TRUE]
  <2>1. mark[k] > 0
    BY <1>3, <1>4, Bounds
  <2>2. counted[o] > 0
    BY <1>2, <2>1 DEF TotalInv, Marked
  <2>3. <<o, 1>> \in Increments
    <3>1. 1 \in 1..counted[o]
      BY <1>2, <1>3, <2>2
    <3>2. QED
      BY <1>2, <3>1 DEF Increments
  <2>4. run'[r].pc = "cursor" /\ \A s \in Runs \ {r} : run'[s] = run[s]
    BY <1>1, <1>4 DEF RunState
  <2>5. /\ run[r].pc \notin AtTotals /\ run'[r].pc \notin AtTotals
        /\ run'[r].pc \notin Settled
    BY <1>1, <2>4 DEF AtTotals, Settled
  <2>6. QED
    BY <1>1, <1>4, <2>3, <2>4, <2>5, Neutrally
<1>5. CASE /\ mark' = [mark EXCEPT ![k] = hour + MarkTTL]
           /\ counted' = [counted EXCEPT ![o] = @ + 1]
           /\ run' = [run EXCEPT ![r].pc = "total", ![r].done = @ + 1,
                ![r].stale = IF lease = r /\ lock = r THEN @ ELSE @ + 1]
  <2>1. /\ run'[r].pc = "total" /\ run'[r].saw = run[r].saw
        /\ \A s \in Runs \ {r} : run'[s] = run[s]
    BY <1>1, <1>5 DEF RunState
  <2>2. /\ IsFiniteSet(Increments') /\ Increments' # {}
        /\ Cardinality(Increments') = Cardinality(Increments) + 1
    BY <1>1, <1>2, <1>5, OneIncrement DEF TotalInv
  <2>3. Marked'
    <3>1. ASSUME NEW p \in Objects, mark'[<<p, "object">>] > 0 PROVE counted'[p] > 0
      <4>1. CASE p = o
        BY <1>2, <1>3, <1>5, <4>1
      <4>2. CASE p # o
        <5>1. mark'[<<p, "object">>] = mark[<<p, "object">>] /\ counted'[p] = counted[p]
          BY <1>2, <1>3, <1>5, <4>2, Bounds
        <5>2. QED
          BY <3>1, <5>1 DEF TotalInv, Marked
      <4>3. QED
        BY <4>1, <4>2
    <3>2. QED
      BY <2>2, <3>1 DEF Marked
  <2>4. Values' = Values
    BY <1>1, SameValues
  <2>5. ASSUME faults' = 0
        PROVE  /\ \A s \in Runs \ {r} : run[s].pc = "idle"
               /\ lease' = r /\ lock' = r
               /\ Accounts(run'[r], Values', summary', Cardinality(Increments'))
    <3>1. /\ \A s \in Runs \ {r} : run[s].pc = "idle"
          /\ lease = r /\ lock = r
          /\ Accounts(run[r], Values, summary, Cardinality(Increments))
      BY <1>1, <2>5, OnlyRun
    <3>2. run[r].pc \notin Elsewhere
      BY <1>1 DEF Elsewhere, Settled
    <3>3. \A c \in Counters : Values[c] = Cardinality(Increments)
      BY <1>1, <3>1, <3>2, Owing, Places
    <3>4. Accounts(run'[r], Values, summary', Cardinality(Increments'))
      <4>1. run'[r].pc \notin Elsewhere
        BY <2>1 DEF Elsewhere, Settled
      <4>2. \A c \in Counters : /\ run'[r].pc \in Before(c) /\ run'[r].pc # Writing(c)
                                /\ Values[c] + 1 = Cardinality(Increments')
        BY <2>1, <2>2, <3>3, Places
      <4>3. QED
        BY <4>1, <4>2, Owing
    <3>5. QED
      BY <1>1, <2>4, <3>1, <3>4
  <2>6. QED
    BY <2>1, <2>2, <2>3, <2>5, Goes
<1>6. QED
  BY <1>4, <1>5 DEF IncrementHourlyCount, Live, SetMark, o

\* One of the two totals is read, and written back one higher.
LEMMA ReadCounterTotal ==
  ASSUME TotalInv, CountInv', NEW r \in Runs, NEW c \in Counters, ReadCounter(r, c)
  PROVE  TotalInv'
<1>1. /\ run[r].pc = c /\ run' = [run EXCEPT ![r].pc = Writing(c), ![r].read = Value(c)]
      /\ UNCHANGED <<counted, counter, summary, mark, lease, lock, faults>>
  BY DEF ReadCounter, locks, redisCounts, database
<1>2. /\ run'[r].pc = Writing(c) /\ run'[r].read = Value(c) /\ run'[r].saw = run[r].saw
      /\ \A s \in Runs \ {r} : run'[s] = run[s]
  BY <1>1, RunFacts DEF TotalInv, RunState
<1>3. Marked' /\ IsFiniteSet(Increments')
  BY <1>1, <1>2, MarkedKept
<1>4. Increments' = Increments /\ Values' = Values
  BY <1>1, SameIncrements, SameValues
<1>5. run[r].pc \notin Elsewhere /\ run'[r].pc \notin Elsewhere
  BY <1>1, <1>2, Places
<1>6. Value(c) = Values[c]
  BY DEF Values
<1>7. ASSUME faults' = 0
      PROVE  /\ \A s \in Runs \ {r} : run[s].pc = "idle"
             /\ lease' = r /\ lock' = r
             /\ Accounts(run'[r], Values', summary', Cardinality(Increments'))
  <2>1. /\ \A s \in Runs \ {r} : run[s].pc = "idle"
        /\ lease = r /\ lock = r
        /\ Accounts(run[r], Values, summary, Cardinality(Increments))
    BY <1>1, <1>5, <1>7, OnlyRun DEF Elsewhere, Settled
  <2>2. Accounts(run'[r], Values, summary, Cardinality(Increments))
    <3>1. \A d \in Counters : /\ c \notin Before(d) => Values[d] = Cardinality(Increments)
                              /\ c \in Before(d) => Values[d] + 1 = Cardinality(Increments)
      BY <1>1, <1>5, <2>1, Owing
    <3>2. ASSUME NEW d \in Counters
          PROVE  /\ run'[r].pc \in Before(d) <=> c \in Before(d)
                 /\ run'[r].pc = Writing(d) => run'[r].read = Values[d]
      <4>1. CASE d = c
        BY <1>2, <1>6, <4>1, Places
      <4>2. CASE d # c
        BY <1>2, <4>2, Places
      <4>3. QED
        BY <4>1, <4>2
    <3>3. QED
      BY <1>5, <3>1, <3>2, Owing
  <2>3. QED
    BY <1>1, <1>4, <2>1, <2>2
<1>8. run'[r].pc # "idle"
  BY <1>5 DEF Elsewhere, Settled
<1>9. QED
  BY <1>2, <1>3, <1>7, <1>8, Goes

LEMMA WriteCounterTotal ==
  ASSUME TotalInv, CountInv', NEW r \in Runs, NEW c \in Counters, WriteCounter(r, c)
  PROVE  TotalInv'
<1>1. /\ run[r].pc = Writing(c) /\ counter' = [counter EXCEPT ![c] = run[r].read + 1]
      /\ run' = [run EXCEPT ![r].pc = AfterCounter(c), ![r].read = 0]
      /\ UNCHANGED <<counted, summary, mark, lease, lock, faults>>
  BY DEF WriteCounter, locks, database
<1>2. /\ run'[r].pc = AfterCounter(c) /\ run'[r].saw = run[r].saw /\ run[r].read \in Nat
      /\ \A s \in Runs \ {r} : run'[s] = run[s]
  BY <1>1, RunFacts DEF TotalInv, RunState
<1>3. Marked' /\ IsFiniteSet(Increments')
  BY <1>1, <1>2, MarkedKept
<1>4. Increments' = Increments
  BY <1>1, SameIncrements
<1>5. run[r].pc \notin Elsewhere /\ run'[r].pc \notin Elsewhere
  BY <1>1, <1>2, Places
<1>6. /\ Values'[c] = run[r].read + 1
      /\ \A d \in Counters \ {c} : Values'[d] = Values[d]
  <2>1. counter \in [Counters -> Nat \cup {None}]
    BY DEF TotalInv, CountInv, TypeOK
  <2>2. /\ counter'[c] = run[r].read + 1
        /\ \A d \in Counters \ {c} : counter'[d] = counter[d]
    BY <1>1, <2>1
  <2>3. counter'[c] # None
    <3>1. run[r].read + 1 \in Nat
      BY <1>2
    <3>2. QED
      BY <2>2, <3>1, AnalyticsAssumption
  <2>4. QED
    BY <2>2, <2>3 DEF Values, Value
<1>7. ASSUME faults' = 0
      PROVE  /\ \A s \in Runs \ {r} : run[s].pc = "idle"
             /\ lease' = r /\ lock' = r
             /\ Accounts(run'[r], Values', summary', Cardinality(Increments'))
  <2>1. /\ \A s \in Runs \ {r} : run[s].pc = "idle"
        /\ lease = r /\ lock = r
        /\ Accounts(run[r], Values, summary, Cardinality(Increments))
    BY <1>1, <1>5, <1>7, OnlyRun DEF Elsewhere, Settled
  <2>2. Accounts(run'[r], Values', summary, Cardinality(Increments))
    <3>1. \A d \in Counters :
            /\ Writing(c) \notin Before(d) => Values[d] = Cardinality(Increments)
            /\ Writing(c) \in Before(d) => Values[d] + 1 = Cardinality(Increments)
            /\ Writing(c) = Writing(d) => run[r].read = Values[d]
      BY <1>1, <1>5, <2>1, Owing
    <3>2. ASSUME NEW d \in Counters
          PROVE  /\ run'[r].pc \notin Before(d) => Values'[d] = Cardinality(Increments)
                 /\ run'[r].pc \in Before(d) => Values'[d] + 1 = Cardinality(Increments)
                 /\ run'[r].pc # Writing(d)
      <4>1. CASE d = c
        <5>1. Values[c] + 1 = Cardinality(Increments) /\ run[r].read = Values[c]
          BY <3>1, Places
        <5>2. QED
          BY <1>2, <1>6, <4>1, <5>1, Places
      <4>2. CASE d # c
        <5>1. Values'[d] = Values[d] /\ (run'[r].pc \in Before(d) <=> Writing(c) \in Before(d))
          BY <1>2, <1>6, <4>2, Places
        <5>2. run'[r].pc # Writing(d)
          BY <1>2, Places
        <5>3. QED
          BY <3>1, <5>1, <5>2
      <4>3. QED
        BY <4>1, <4>2
    <3>3. QED
      BY <1>5, <3>2, Owing
  <2>3. QED
    BY <1>1, <1>4, <2>1, <2>2
<1>8. run'[r].pc # "idle"
  BY <1>5 DEF Elsewhere, Settled
<1>9. QED
  BY <1>2, <1>3, <1>7, <1>8, Goes

\* The end of a source: without a failure the total is never rebuilt, and what
\* is read is what the summary gets.
LEMMA SourceEndTotal ==
  ASSUME TotalInv, CountInv', NEW r \in Runs,
         \/ RebuildTotal(r) \/ CacheRebuiltTotal(r) \/ ReadTotal(r) \/ UpdateSummary(r)
  PROVE  TotalInv'
<1>1. /\ run[r].pc \in {"next", "rebuilt", "summary"}
      /\ UNCHANGED <<counted, mark, lease, lock, faults>>
  BY DEF RebuildTotal, CacheRebuiltTotal, ReadTotal, UpdateSummary, locks, redisCounts,
         database
<1>2. /\ run'[r].pc \in {"rebuilt", "summary", "release"} /\ run'[r].saw = run[r].saw
      /\ \A s \in Runs \ {r} : run'[s] = run[s]
      /\ ReadTotal(r) => run'[r].pc = "summary" /\ run'[r].read = Value("total")
      /\ UpdateSummary(r) => run'[r].pc = "release"
  BY RunFacts
  DEF TotalInv, RebuildTotal, CacheRebuiltTotal, ReadTotal, UpdateSummary, Goto, RunState
<1>3. Marked' /\ IsFiniteSet(Increments')
  BY <1>1, <1>2, MarkedKept
<1>4. Increments' = Increments
  BY <1>1, SameIncrements
<1>5. ASSUME faults' = 0
      PROVE  /\ \A s \in Runs \ {r} : run[s].pc = "idle"
             /\ lease' = r /\ lock' = r
             /\ Accounts(run'[r], Values', summary', Cardinality(Increments'))
  <2>1. /\ \A s \in Runs \ {r} : run[s].pc = "idle"
        /\ lease = r /\ lock = r
        /\ Accounts(run[r], Values, summary, Cardinality(Increments))
    BY <1>1, <1>5, OnlyRun
  <2>2. run[r].pc \notin AtTotals /\ run'[r].pc \notin AtTotals
    BY <1>1, <1>2 DEF AtTotals
  <2>3. /\ \A c \in Counters : Values[c] = Cardinality(Increments)
        /\ run[r].pc = "summary" => run[r].read = Cardinality(Increments)
        /\ run[r].pc # "rebuilt"
    BY <2>1, <2>2, Neutral
  <2>4. Value("total") = Cardinality(Increments)
    BY <2>3 DEF Values, Counters
  <2>5. ~RebuildTotal(r)
    <3>1. SUFFICES ASSUME counter["total"] = None, run[r].saw PROVE FALSE
      BY DEF RebuildTotal
    <3>2. Increments # {} /\ IsFiniteSet(Increments)
      BY <3>1 DEF TotalInv, Marked
    <3>3. Cardinality(Increments) # 0
      BY <3>2, FS_EmptySet
    <3>4. QED
      BY <2>4, <3>1, <3>3 DEF Value
  <2>6. ~CacheRebuiltTotal(r)
    BY <2>3 DEF CacheRebuiltTotal
  <2>7. Values' = Values
    <3>1. UNCHANGED counter
      BY <2>5, <2>6 DEF ReadTotal, UpdateSummary, redisCounts
    <3>2. QED
      BY <3>1, SameValues
  <2>8. CASE ReadTotal(r)
    <3>1. /\ run'[r].pc \notin Settled /\ run'[r].pc # "rebuilt"
          /\ run'[r].read = Cardinality(Increments)
      BY <1>2, <2>4, <2>8 DEF Settled
    <3>2. Accounts(run'[r], Values, summary', Cardinality(Increments))
      BY <2>2, <2>3, <3>1, Neutral
    <3>3. QED
      BY <1>1, <1>4, <2>1, <2>7, <3>2
  <2>9. CASE UpdateSummary(r)
    <3>1. /\ run'[r].pc # "summary" /\ run'[r].pc # "rebuilt"
          /\ summary' = Cardinality(Increments)
      BY <1>2, <2>3, <2>9 DEF UpdateSummary
    <3>2. Accounts(run'[r], Values, summary', Cardinality(Increments))
      BY <2>2, <2>3, <3>1, Neutral
    <3>3. QED
      BY <1>1, <1>4, <2>1, <2>7, <3>2
  <2>10. QED
    BY <2>5, <2>6, <2>8, <2>9
<1>6. run'[r].pc # "idle"
  BY <1>2
<1>7. QED
  BY <1>2, <1>3, <1>5, <1>6, Goes

LEMMA OutsideTotal ==
  ASSUME TotalInv, CountInv',
         (\E o \in Objects : Store(o)) \/ Tick \/ Expire \/ UNCHANGED vars
  PROVE  TotalInv'
<1>1. UNCHANGED <<counted, counter, summary, mark, run>>
  BY DEF Store, Tick, Expire, vars, redisCounts, database
<1>2. faults' = 0 => faults = 0 /\ UNCHANGED <<lease, lock>>
  <2>1. faults \in Nat
    BY Bounds DEF TotalInv, CountInv, TypeOK
  <2>2. QED
    BY <2>1 DEF Store, Tick, Expire, vars, locks
<1>3. Increments' = Increments /\ Values' = Values
  BY <1>1, SameIncrements, SameValues
<1>4. Marked' /\ IsFiniteSet(Increments')
  BY <1>1, <1>3 DEF TotalInv, Marked
<1>5. ASSUME faults' = 0 PROVE Owned' /\ Accounted'
  <2>1. Owned /\ Accounted /\ UNCHANGED <<lease, lock>>
    BY <1>2, <1>5 DEF TotalInv
  <2>2. QED
    BY <1>1, <1>3, <2>1 DEF Owned, Accounted
<1>6. QED
  BY <1>4, <1>5 DEF TotalInv

LEMMA InitTotal == ASSUME Init PROVE TotalInv
<1>1. /\ lease = None /\ lock = None /\ mark = [k \in Keys |-> 0]
      /\ counter = [c \in Counters |-> None] /\ counted = [o \in Objects |-> 0]
      /\ summary = 0 /\ run = [r \in Runs |-> Idle]
  BY DEF Init
<1>2. Increments = {}
  <2>1. \A o \in Objects : {o} \X (1..counted[o]) = {}
    BY <1>1
  <2>2. QED
    BY <2>1 DEF Increments
<1>3. IsFiniteSet(Increments) /\ Cardinality(Increments) = 0
  BY <1>2, FS_EmptySet
<1>4. Marked
  BY <1>1, Bounds, IdleNeutral DEF Marked
<1>5. \A c \in Counters : Values[c] = 0
  BY <1>1 DEF Values, Value
<1>6. Accounts(Idle, Values, summary, 0)
  BY <1>1, <1>5, IdleNeutral, Neutral
<1>7. Owned /\ Accounted
  BY <1>1, <1>3, <1>6, IdleNeutral DEF Owned, Accounted
<1>8. QED
  BY <1>3, <1>4, <1>7, InitCount DEF TotalInv

LEMMA StepTotal == ASSUME TotalInv, [Next]_vars PROVE TotalInv'
<1>1. CountInv'
  BY StepCount DEF TotalInv
<1>2. ASSUME NEW r \in Runs, Step(r) \/ Raise(r) \/ Crash(r) PROVE TotalInv'
  <2>1. CASE SkipRun(r)
    BY <1>1, <2>1, SkipTotal
  <2>2. CASE SkipSource(r) \/ Release(r) \/ LeaseLost(r) \/ Raise(r) \/ Crash(r)
    BY <1>1, <2>2, EndTotal
  <2>3. CASE AcquireRun(r)
    BY <1>1, <2>3, AcquireRunTotal
  <2>4. CASE AcquireSource(r)
    BY <1>1, <2>4, AcquireSourceTotal
  <2>5. CASE \/ List(r) \/ NextObject(r) \/ MarkEvent(r) \/ CountProfileEvent(r)
             \/ UpsertCampaignPerformance(r) \/ CommitProfiles(r) \/ SaveCursor(r)
    BY <1>1, <2>5, NeutralTotal
  <2>6. CASE IncrementHourlyCount(r)
    BY <1>1, <2>6, IncrementTotal
  <2>7. CASE \E c \in Counters : ReadCounter(r, c) \/ WriteCounter(r, c)
    BY <1>1, <2>7, ReadCounterTotal, WriteCounterTotal
  <2>8. CASE \/ RebuildTotal(r) \/ CacheRebuiltTotal(r) \/ ReadTotal(r)
             \/ UpdateSummary(r)
    BY <1>1, <2>8, SourceEndTotal
  <2>9. QED
    BY <1>2, <2>1, <2>2, <2>3, <2>4, <2>5, <2>6, <2>7, <2>8 DEF Step
<1>3. CASE (\E o \in Objects : Store(o)) \/ Tick \/ Expire \/ UNCHANGED vars
  BY <1>1, <1>3, OutsideTotal
<1>4. QED
  BY <1>2, <1>3 DEF Next

\* As long as nothing has failed, the two cached totals, read and written back
\* without a transaction, agree between runs with the increments the script
\* has made, and so does the source's total_tracked_event: the leases leave
\* one run at a time at the totals.
THEOREM AnalyticsTotals == Spec => []TotalsAgree
<1>1. Init => TotalInv
  BY InitTotal
<1>2. TotalInv /\ [Next]_vars => TotalInv'
  BY StepTotal
<1>3. TotalInv => TotalsAgree
  <2> SUFFICES ASSUME TotalInv, faults = 0, \A r \in Runs : ~Running(r)
               PROVE  /\ \A c \in Counters : Value(c) = Cardinality(Increments)
                      /\ summary = Cardinality(Increments)
    BY DEF TotalsAgree
  <2>1. Accounts(Idle, Values, summary, Cardinality(Increments))
    BY DEF TotalInv, Accounted, Running
  <2>2. /\ \A c \in Counters : Values[c] = Cardinality(Increments)
        /\ summary = Cardinality(Increments)
    BY <2>1, Neutral, IdleNeutral
  <2>3. QED
    BY <2>2 DEF Values
<1>4. QED
  BY <1>1, <1>2, <1>3, PTL DEF Spec
-----------------------------------------------------------------------------
(***************************************************************************)
(* Another user of the Redis lease: SegmentRecompute for any number of     *)
(* profiles, segments, tags, changes, requests, retries and faults.  Its   *)
(* transactions and its lease are segRun and segLease here.                *)
(***************************************************************************)
CONSTANTS Profiles, Segments, Unsafe, AudienceTags, First, Edits, Overwrites, Sensor,
          Demand, Inline, Scopes, MaxChanges, MaxRequests, MaxRetries
VARIABLES matching, tags, audience, count, segment, later, laterNow, write, poll, segRun,
          segLease, missed, changes, requests, segFaults

Tags == INSTANCE SegmentRecompute
          WITH run <- segRun, lease <- segLease, faults <- segFaults

LEMMA SameCardinality ==
  /\ \A S : Tags!Cardinality(S) = Cardinality(S)
  /\ \A S : Tags!IsFiniteSet(S) <=> IsFiniteSet(S)
<1>1. \A S : Tags!IsFiniteSet(S) <=> IsFiniteSet(S)
  BY DEF Tags!IsFiniteSet, IsFiniteSet
<1>2. \A S : Tags!Cardinality(S) = Cardinality(S)
  BY DEF Tags!Cardinality, Cardinality
<1>3. QED
  BY <1>1, <1>2

-----------------------------------------------------------------------------
(* The invariant of a transaction x beside committed tags tg and audience  *)
(* tags au and the segments sg.                                            *)
Working(x) == x.pc \in {"refresh", "apply"}

RowIn(x, tg, au, p) ==
  IF p \in DOMAIN x.rows THEN x.rows[p] ELSE [tags |-> tg[p], audience |-> au[p]]

OwnTags(x) == UNION {x.asked[s].carries : s \in x.scope}

\* Each segment of the run is matched, at hand or still to do.
OnItsWay(x) ==
  /\ x.asked \in [Segments -> Tags!Definitions]
  /\ x.todo \subseteq x.scope /\ DOMAIN x.matched \subseteq x.scope
  /\ x.pc = "apply" => x.seg \in x.scope
  /\ \A s \in x.scope \ Unsafe :
       s \in DOMAIN x.matched \/ s \in x.todo \/ (x.pc = "apply" /\ s = x.seg)

\* It has changed no tag of other segments in the rows it has written.
KeepsOthers(x, tg, au) ==
  \A p \in Profiles :
    /\ RowIn(x, tg, au, p).tags \ x.scope = tg[p] \ x.scope
    /\ RowIn(x, tg, au, p).audience \ OwnTags(x) = au[p] \ OwnTags(x)

\* A row agrees with what a segment s has matched.
Agrees(row, p, s, match, sg) ==
  /\ s \in row.tags <=> p \in match
  /\ s \in row.tags => sg[s].carries \subseteq row.audience
  /\ \A u \in sg[s].carries \cap row.audience : \E t \in row.tags : u \in sg[t].carries

AgreesSoFar(x, tg, au, sg) ==
  \A p \in Profiles \ x.disturbed :
    /\ x.asked = sg
    /\ \A s \in DOMAIN x.matched : Agrees(RowIn(x, tg, au, p), p, s, x.matched[s], sg)

Good(x, tg, au, sg) ==
  /\ ~Working(x) => DOMAIN x.rows = {} /\ DOMAIN x.matched = {}
  /\ Working(x) => OnItsWay(x) /\ KeepsOthers(x, tg, au) /\ AgreesSoFar(x, tg, au, sg)

TagInv ==
  /\ Tags!TypeOK
  /\ \A r \in Tags!Txns : Good(segRun[r], tags, audience, segment)
  /\ \A r, q \in Tags!Txns :
       r # q => DOMAIN segRun[r].rows \cap DOMAIN segRun[q].rows = {}

-----------------------------------------------------------------------------
(* Rows: one segment more.                                                 *)
LEMMA WithAgrees ==
  ASSUME NEW row \in Tags!Rows, NEW g \in Segments, NEW sg \in [Segments -> Tags!Definitions]
  PROVE  LET new == Tags!WithSegment(row, g, sg[g].carries) IN
         /\ new \in Tags!Rows
         /\ \A p, match : p \in match => Agrees(new, p, g, match, sg)
         /\ \A p, match : \A s \in Segments \ {g} :
              Agrees(row, p, s, match, sg) => Agrees(new, p, s, match, sg)
<1> DEFINE new == [tags |-> row.tags \cup {g}, audience |-> row.audience \cup sg[g].carries]
<1>1. Tags!WithSegment(row, g, sg[g].carries) = new
  BY DEF Tags!WithSegment
<1>2. row.tags \subseteq Segments /\ row.audience \subseteq AudienceTags
      /\ sg[g].carries \subseteq AudienceTags
  BY DEF Tags!Rows, Tags!Definitions
<1>3. new.tags = row.tags \cup {g} /\ new.audience = row.audience \cup sg[g].carries
  OBVIOUS
<1>4. new \in Tags!Rows
  BY <1>2 DEF Tags!Rows
<1> HIDE DEF new
<1>5. ASSUME NEW p, NEW match, p \in match PROVE Agrees(new, p, g, match, sg)
  BY <1>3, <1>5 DEF Agrees
<1>6. ASSUME NEW p, NEW match, NEW s \in Segments \ {g}, Agrees(row, p, s, match, sg)
      PROVE  Agrees(new, p, s, match, sg)
  <2>1. /\ s \in new.tags <=> p \in match
        /\ s \in new.tags => sg[s].carries \subseteq new.audience
    BY <1>3, <1>6 DEF Agrees
  <2>2. ASSUME NEW u \in sg[s].carries \cap new.audience
        PROVE  \E t \in new.tags : u \in sg[t].carries
    <3>1. CASE u \in row.audience
      BY <1>3, <1>6, <3>1 DEF Agrees
    <3>2. CASE u \in sg[g].carries
      BY <1>3, <3>2
    <3>3. QED
      BY <1>3, <3>1, <3>2
  <2>3. QED
    BY <2>1, <2>2 DEF Agrees
<1>7. QED
  BY <1>1, <1>4, <1>5, <1>6

LEMMA WithoutAgrees ==
  ASSUME NEW row \in Tags!Rows, NEW g \in Segments, segment \in [Segments -> Tags!Definitions]
  PROVE  LET new == Tags!WithoutSegment(row, g, segment[g].carries) IN
         /\ \A p, match : p \notin match => Agrees(new, p, g, match, segment)
         /\ \A p, match : \A s \in Segments \ {g} :
              Agrees(row, p, s, match, segment) => Agrees(new, p, s, match, segment)
<1> DEFINE kept == {u \in row.audience : u \in segment[g].carries =>
                      \E t \in row.tags \ {g} : u \in segment[t].carries}
           new == [tags |-> row.tags \ {g}, audience |-> kept]
<1>1. Tags!WithoutSegment(row, g, segment[g].carries) = new
  BY DEF Tags!WithoutSegment
<1>2. new.tags = row.tags \ {g} /\ new.audience = kept
  OBVIOUS
<1> HIDE DEF new
<1>3. ASSUME NEW p, NEW match, p \notin match PROVE Agrees(new, p, g, match, segment)
  BY <1>2, <1>3 DEF Agrees
<1>4. ASSUME NEW p, NEW match, NEW s \in Segments \ {g}, Agrees(row, p, s, match, segment)
      PROVE  Agrees(new, p, s, match, segment)
  <2>1. s \in new.tags <=> p \in match
    BY <1>2, <1>4 DEF Agrees
  <2>2. ASSUME s \in new.tags, NEW u \in segment[s].carries PROVE u \in new.audience
    BY <1>2, <1>4, <2>2 DEF Agrees
  <2>3. ASSUME NEW u \in segment[s].carries \cap new.audience
        PROVE  \E t \in new.tags : u \in segment[t].carries
    <3>1. PICK t \in row.tags : u \in segment[t].carries
      BY <1>2, <1>4, <2>3 DEF Agrees
    <3>2. QED
      BY <1>2, <2>3, <3>1
  <2>4. QED
    BY <2>1, <2>2, <2>3 DEF Agrees
<1>5. QED
  BY <1>1, <1>3, <1>4

\* Whatever the committed segments are by now, only the run's own tags change.
LEMMA WithoutKeeps ==
  ASSUME NEW row \in Tags!Rows, NEW g, NEW own
  PROVE  LET new == Tags!WithoutSegment(row, g, own) IN
         /\ new \in Tags!Rows /\ new.tags = row.tags \ {g}
         /\ new.audience \subseteq row.audience /\ row.audience \ new.audience \subseteq own
<1> DEFINE kept == {u \in row.audience : u \in own =>
                      \E t \in row.tags \ {g} : u \in segment[t].carries}
           new == [tags |-> row.tags \ {g}, audience |-> kept]
<1>1. Tags!WithoutSegment(row, g, own) = new
  BY DEF Tags!WithoutSegment
<1>2. new.tags = row.tags \ {g} /\ new.audience = kept
  OBVIOUS
<1>3. new \in Tags!Rows
  BY DEF Tags!Rows
<1> HIDE DEF new
<1>4. QED
  BY <1>1, <1>2, <1>3

LEMMA InPartial ==
  /\ \A D, R : \A P \in SUBSET D : \A f \in [P -> R] : f \in Tags!Partial(D, R)
  /\ \A D, R : \A f \in Tags!Partial(D, R) :
       DOMAIN f \subseteq D /\ \A x \in DOMAIN f : f[x] \in R
<1>1. ASSUME NEW D, NEW R, NEW P \in SUBSET D, NEW f \in [P -> R]
      PROVE  f \in Tags!Partial(D, R)
  <2>1. [P -> R] \in {[Q -> R] : Q \in SUBSET D}
    OBVIOUS
  <2>2. QED
    BY <2>1 DEF Tags!Partial
<1>2. ASSUME NEW D, NEW R, NEW f \in Tags!Partial(D, R)
      PROVE  DOMAIN f \subseteq D /\ \A x \in DOMAIN f : f[x] \in R
  <2>1. PICK P \in SUBSET D : f \in [P -> R]
    BY DEF Tags!Partial
  <2>2. QED
    BY <2>1
<1>3. QED
  BY <1>1, <1>2

\* What the type of a transaction says of its rows and matches.
LEMMA RowFacts ==
  ASSUME Tags!TypeOK, NEW r \in Tags!Txns
  PROVE  /\ segRun[r] \in Tags!RunState
         /\ DOMAIN segRun[r].rows \subseteq Profiles
         /\ \A p \in DOMAIN segRun[r].rows : segRun[r].rows[p] \in Tags!Rows
         /\ DOMAIN segRun[r].matched \subseteq Segments
         /\ \A s \in DOMAIN segRun[r].matched : segRun[r].matched[s] \subseteq Profiles
         /\ \A p \in Profiles : /\ Tags!Row(r, p) \in Tags!Rows
                                /\ Tags!Row(r, p) = RowIn(segRun[r], tags, audience, p)
<1>1. segRun[r] \in Tags!RunState
  BY DEF Tags!TypeOK
<1>2. /\ DOMAIN segRun[r].rows \subseteq Profiles
      /\ \A p \in DOMAIN segRun[r].rows : segRun[r].rows[p] \in Tags!Rows
  <2>1. segRun[r].rows \in Tags!Partial(Profiles, Tags!Rows)
    BY <1>1 DEF Tags!RunState
  <2>2. QED
    BY <2>1, InPartial
<1>3. /\ DOMAIN segRun[r].matched \subseteq Segments
      /\ \A s \in DOMAIN segRun[r].matched : segRun[r].matched[s] \subseteq Profiles
  <2>1. segRun[r].matched \in Tags!Partial(Segments, SUBSET Profiles)
    BY <1>1 DEF Tags!RunState
  <2>2. QED
    BY <2>1, InPartial
<1>4. \A p \in Profiles : tags[p] \in SUBSET Segments /\ audience[p] \in SUBSET AudienceTags
  BY DEF Tags!TypeOK
<1>5. \A p \in Profiles : Tags!Row(r, p) \in Tags!Rows
  BY <1>2, <1>4 DEF Tags!Row, Tags!Rows
<1>6. \A p \in Profiles : Tags!Row(r, p) = RowIn(segRun[r], tags, audience, p)
  BY DEF Tags!Row, RowIn
<1>7. QED
  BY <1>1, <1>2, <1>3, <1>5, <1>6

LEMMA SegBounds ==
  ASSUME Tags!SegmentAssumption PROVE
  /\ Tags!Txns = {Sensor, Demand, Inline} /\ Tags!Runs = {Sensor, Demand}
  /\ Inline \notin Tags!Runs /\ None \notin Tags!Txns /\ None \notin Segments
  /\ Tags!IsFiniteSet(Profiles) /\ Unsafe \subseteq Segments /\ Scopes \subseteq SUBSET Segments
  /\ First \in [Segments -> Tags!Definitions] /\ Edits \subseteq SUBSET AudienceTags
  /\ Overwrites \subseteq Tags!Rows
  /\ MaxChanges \in Nat /\ MaxRequests \in Nat /\ MaxRetries \in Nat /\ MaxFaults \in Nat
  BY DEF Tags!SegmentAssumption, Tags!Runs, Tags!Txns

LEMMA SizeOf ==
  ASSUME Tags!SegmentAssumption, NEW P \in SUBSET Profiles
  PROVE  Tags!Cardinality(P) \in Tags!Members
<1>1. Tags!IsFiniteSet(P) /\ Tags!Cardinality(P) <= Tags!Cardinality(Profiles)
  BY SegBounds, SameCardinality, FS_Subset
<1>2. Tags!Cardinality(P) \in Nat /\ Tags!Cardinality(Profiles) \in Nat
  BY <1>1, SegBounds, SameCardinality, FS_CardinalityType
<1>3. QED
  BY <1>1, <1>2 DEF Tags!Members

-----------------------------------------------------------------------------
(* Transactions that have nothing to undo.                                 *)
LEMMA IdleState ==
  ASSUME Tags!SegmentAssumption PROVE
  /\ Tags!Idle \in Tags!RunState /\ Tags!Idle.pc = "idle"
  /\ DOMAIN Tags!Idle.rows = {} /\ DOMAIN Tags!Idle.matched = {}
<1>1. MaxRetries \in Nat
  BY SegBounds
<1>2. <<>> \in [{} -> Tags!Rows] /\ <<>> \in [{} -> SUBSET Profiles] /\ DOMAIN <<>> = {}
  OBVIOUS
<1>3. {} \in SUBSET Profiles /\ {} \in SUBSET Segments
  OBVIOUS
<1>4. <<>> \in Tags!Partial(Profiles, Tags!Rows)
  BY <1>2, <1>3, InPartial
<1>5. <<>> \in Tags!Partial(Segments, SUBSET Profiles)
  BY <1>2, <1>3, InPartial
<1>6. PICK e : /\ e = <<>> /\ DOMAIN e = {}
               /\ e \in Tags!Partial(Profiles, Tags!Rows)
               /\ e \in Tags!Partial(Segments, SUBSET Profiles)
  BY <1>2, <1>4, <1>5
<1>7. Tags!Idle = [pc |-> "idle", stamp |-> None, asked |-> e, todo |-> {}, seg |-> None,
              match |-> {}, rows |-> e, matched |-> e, tries |-> 0, scope |-> {},
              due |-> FALSE, disturbed |-> {}]
  BY <1>6 DEF Tags!Idle
<1>8. 0 \in 0..MaxRetries /\ e \in [Segments -> Tags!Definitions] \cup {<<>>}
  BY <1>1, <1>6
<1>9. Tags!Idle \in Tags!RunState
  BY <1>6, <1>7, <1>8 DEF Tags!RunState
<1>10. QED
  BY <1>6, <1>7, <1>9

\* A transaction that is not at work: idle, dead, or queued, once or again.
LEMMA AtRest ==
  ASSUME Tags!SegmentAssumption, NEW S \in SUBSET Segments, NEW b \in BOOLEAN,
         NEW n \in 0..MaxRetries, NEW c \in {"idle", "dead"}
  PROVE  \A w \in {[Tags!Idle EXCEPT !.pc = c], Tags!Queued(S, b),
                   [Tags!Queued(S, b) EXCEPT !.tries = n]} :
           /\ w \in Tags!RunState /\ ~Working(w)
           /\ DOMAIN w.rows = {} /\ DOMAIN w.matched = {}
<1>1. PICK i \in Tags!RunState : /\ i = Tags!Idle
                                 /\ DOMAIN i.rows = {} /\ DOMAIN i.matched = {}
  BY IdleState
<1>2. LET w == [i EXCEPT !.pc = c] IN
      w \in Tags!RunState /\ ~Working(w) /\ DOMAIN w.rows = {} /\ DOMAIN w.matched = {}
  BY <1>1 DEF Tags!RunState, Working
<1>3. LET w == [i EXCEPT !.pc = "queued", !.scope = S, !.due = b] IN
      w \in Tags!RunState /\ ~Working(w) /\ DOMAIN w.rows = {} /\ DOMAIN w.matched = {}
  BY <1>1 DEF Tags!RunState, Working
<1>4. LET w == [[i EXCEPT !.pc = "queued", !.scope = S, !.due = b] EXCEPT !.tries = n] IN
      w \in Tags!RunState /\ ~Working(w) /\ DOMAIN w.rows = {} /\ DOMAIN w.matched = {}
  BY <1>1 DEF Tags!RunState, Working
<1>5. QED
  BY <1>1, <1>2, <1>3, <1>4 DEF Tags!Queued

-----------------------------------------------------------------------------
(* What keeps a transaction good.                                          *)

\* All but the stamp and the history.
SameWork(x, y) ==
  /\ y.pc = x.pc /\ y.asked = x.asked /\ y.todo = x.todo /\ y.seg = x.seg
  /\ y.rows = x.rows /\ y.matched = x.matched /\ y.scope = x.scope

LEMMA RestIsGood ==
  ASSUME NEW w, NEW tg, NEW au, NEW sg,
         ~Working(w), DOMAIN w.rows = {}, DOMAIN w.matched = {}
  PROVE  Good(w, tg, au, sg)
  BY DEF Good

\* Others commit the rows P, of which the transaction has written none.
Beside(x, y, tg, au, tg2, au2, P) ==
  /\ SameWork(x, y)
  /\ Working(x) => x.disturbed \cup P \subseteq y.disturbed
  /\ P \cap DOMAIN x.rows = {}
  /\ \A p \in Profiles \ P : tg2[p] = tg[p] /\ au2[p] = au[p]

LEMMA DisturbedIsGood ==
  ASSUME NEW x, NEW y, NEW tg, NEW au, NEW sg, NEW tg2, NEW au2, NEW P,
         Good(x, tg, au, sg), Beside(x, y, tg, au, tg2, au2, P)
  PROVE  Good(y, tg2, au2, sg)
<1> USE DEF Beside
<1>1. CASE ~Working(x)
  BY <1>1 DEF Good, SameWork, Working
<1>2. CASE Working(x)
  <2>1. Working(y)
    BY <1>2 DEF SameWork, Working
  <2>2. OnItsWay(y)
    BY <1>2 DEF Good, SameWork, OnItsWay
  <2>3. KeepsOthers(y, tg2, au2)
    <3>1. OwnTags(y) = OwnTags(x) /\ y.scope = x.scope /\ y.rows = x.rows
      BY DEF OwnTags, SameWork
    <3> SUFFICES ASSUME NEW p \in Profiles
                 PROVE  /\ RowIn(y, tg2, au2, p).tags \ y.scope = tg2[p] \ y.scope
                        /\ RowIn(y, tg2, au2, p).audience \ OwnTags(y) = au2[p] \ OwnTags(y)
      BY DEF KeepsOthers
    <3>2. CASE p \in DOMAIN x.rows
      <4>1. RowIn(y, tg2, au2, p) = RowIn(x, tg, au, p) /\ tg2[p] = tg[p] /\ au2[p] = au[p]
        BY <3>1, <3>2 DEF RowIn
      <4>2. QED
        BY <1>2, <3>1, <4>1 DEF Good, KeepsOthers
    <3>3. CASE p \notin DOMAIN x.rows
      BY <3>1, <3>3 DEF RowIn
    <3>4. QED
      BY <3>2, <3>3
  <2>4. AgreesSoFar(y, tg2, au2, sg)
    <3> SUFFICES ASSUME NEW p \in Profiles \ y.disturbed
                 PROVE  /\ y.asked = sg
                        /\ \A s \in DOMAIN y.matched :
                             Agrees(RowIn(y, tg2, au2, p), p, s, y.matched[s], sg)
      BY DEF AgreesSoFar
    <3>1. p \in Profiles \ x.disturbed /\ p \notin P
      BY <1>2
    <3>2. RowIn(y, tg2, au2, p) = RowIn(x, tg, au, p)
      BY <3>1 DEF RowIn, SameWork
    <3>3. QED
      BY <1>2, <3>1, <3>2 DEF Good, AgreesSoFar, SameWork
  <2>5. QED
    BY <2>1, <2>2, <2>3, <2>4 DEF Good
<1>3. QED
  BY <1>1, <1>2

\* The segments change, which disturbs every profile.
LEMMA EditedIsGood ==
  ASSUME NEW x, NEW y, NEW tg, NEW au, NEW sg, NEW sg2,
         Good(x, tg, au, sg), SameWork(x, y), Working(x) => Profiles \subseteq y.disturbed
  PROVE  Good(y, tg, au, sg2)
<1>1. CASE ~Working(x)
  BY <1>1 DEF Good, SameWork, Working
<1>2. CASE Working(x)
  <2>1. Working(y) /\ OnItsWay(y)
    BY <1>2 DEF SameWork, Working, Good, OnItsWay
  <2>2. KeepsOthers(y, tg, au)
    BY <1>2 DEF Good, KeepsOthers, OwnTags, RowIn, SameWork
  <2>3. AgreesSoFar(y, tg, au, sg2)
    BY <1>2 DEF AgreesSoFar
  <2>4. QED
    BY <2>1, <2>2, <2>3 DEF Good
<1>3. QED
  BY <1>1, <1>2

\* A transaction that starts.
LEMMA StartIsGood ==
  ASSUME NEW x \in Tags!RunState, NEW sg \in [Segments -> Tags!Definitions],
         DOMAIN x.rows = {}, DOMAIN x.matched = {}
  PROVE  /\ Tags!Started(x, sg) \in Tags!RunState
         /\ DOMAIN Tags!Started(x, sg).rows = {}
         /\ \A tg, au : Good(Tags!Started(x, sg), tg, au, sg)
<1> DEFINE w == [x EXCEPT !.pc = "refresh", !.stamp = "after now", !.asked = sg,
                          !.todo = x.scope]
<1>1. Tags!Started(x, sg) = w
  BY DEF Tags!Started
<1>2. /\ w \in Tags!RunState /\ w.pc = "refresh" /\ w.asked = sg /\ w.todo = x.scope
      /\ w.scope = x.scope /\ w.rows = x.rows /\ w.matched = x.matched
  BY DEF Tags!RunState, Tags!Stamps
<1> HIDE DEF w
<1>3. ASSUME NEW tg, NEW au PROVE Good(w, tg, au, sg)
  <2>1. Working(w) /\ OnItsWay(w)
    BY <1>2 DEF Working, OnItsWay
  <2>2. \A p \in Profiles : RowIn(w, tg, au, p) = [tags |-> tg[p], audience |-> au[p]]
    BY <1>2 DEF RowIn
  <2>3. KeepsOthers(w, tg, au)
    BY <2>2 DEF KeepsOthers
  <2>4. AgreesSoFar(w, tg, au, sg)
    BY <1>2 DEF AgreesSoFar
  <2>5. QED
    BY <2>1, <2>3, <2>4 DEF Good
<1>4. QED
  BY <1>1, <1>2, <1>3

\* The runs that others disturb.
LEMMA DisturbedRuns ==
  ASSUME Tags!TypeOK, NEW r, NEW P \in SUBSET Profiles
  PROVE  /\ Tags!Disturbed(r, P) \in [Tags!Txns -> Tags!RunState]
         /\ \A q \in Tags!Txns :
              LET y == Tags!Disturbed(r, P)[q] IN
              /\ SameWork(segRun[q], y)
              /\ Working(segRun[q]) /\ q # r => y.disturbed = segRun[q].disturbed \cup P
<1> DEFINE Y(q) == [segRun[q] EXCEPT !.disturbed = @ \cup P]
<1>1. ASSUME NEW q \in Tags!Txns
      PROVE  /\ Y(q) \in Tags!RunState /\ segRun[q] \in Tags!RunState
             /\ SameWork(segRun[q], Y(q)) /\ SameWork(segRun[q], segRun[q])
             /\ Y(q).disturbed = segRun[q].disturbed \cup P
  <2>1. segRun[q] \in Tags!RunState
    BY DEF Tags!TypeOK
  <2>2. segRun[q].disturbed \cup P \subseteq Profiles
    BY <2>1 DEF Tags!RunState
  <2>3. QED
    BY <2>1, <2>2 DEF Tags!RunState, SameWork
<1>2. Tags!Disturbed(r, P) = [q \in Tags!Txns |->
        IF q # r /\ Working(segRun[q]) THEN Y(q) ELSE segRun[q]]
  BY DEF Tags!Disturbed, Tags!Open, Working
<1> HIDE DEF Y
<1>3. QED
  BY <1>1, <1>2

-----------------------------------------------------------------------------
(* The steps of a run.                                                     *)
LEMMA OneRun ==
  ASSUME Tags!TypeOK, NEW r \in Tags!Txns, NEW w \in Tags!RunState,
         segRun' = [segRun EXCEPT ![r] = w]
  PROVE  /\ segRun' \in [Tags!Txns -> Tags!RunState] /\ segRun'[r] = w
         /\ \A q \in Tags!Txns \ {r} : segRun'[q] = segRun[q]
  BY DEF Tags!TypeOK

\* A step of one transaction that commits nothing and writes no row.
LEMMA OneStep ==
  ASSUME TagInv, NEW r \in Tags!Txns, NEW w \in Tags!RunState,
         segRun' = [segRun EXCEPT ![r] = w],
         Good(w, tags, audience, segment), DOMAIN w.rows \subseteq DOMAIN segRun[r].rows,
         UNCHANGED <<matching, tags, audience, count, segment, later, laterNow, poll, write>>,
         missed' \in BOOLEAN, segLease' \in Tags!Runs \cup {None}
  PROVE  TagInv'
<1>1. Tags!TypeOK
  BY DEF TagInv
<1>2. /\ segRun' \in [Tags!Txns -> Tags!RunState] /\ segRun'[r] = w
      /\ \A q \in Tags!Txns \ {r} : segRun'[q] = segRun[q]
  BY <1>1, OneRun
<1>3. Tags!TypeOK'
  BY <1>1, <1>2 DEF Tags!TypeOK
<1>4. \A q \in Tags!Txns : Good(segRun'[q], tags', audience', segment')
  BY <1>2 DEF TagInv
<1>5. \A q \in Tags!Txns : DOMAIN segRun'[q].rows \subseteq DOMAIN segRun[q].rows
  BY <1>2
<1>6. QED
  BY <1>3, <1>4, <1>5 DEF TagInv

LEMMA LeaseType ==
  ASSUME Tags!TypeOK
  PROVE  \A r : Tags!Released(segLease, r) \in Tags!Runs \cup {None}
  BY DEF Tags!TypeOK, Tags!Released

LEMMA MatchStep ==
  ASSUME Tags!SegmentAssumption, TagInv, NEW r \in Tags!Txns, Tags!MatchSegment(r)
  PROVE  TagInv'
<1>1. /\ Tags!TypeOK /\ segRun[r] \in Tags!RunState /\ segRun[r].pc = "refresh"
      /\ Good(segRun[r], tags, audience, segment)
  BY RowFacts DEF TagInv, Tags!MatchSegment
<1>2. PICK s \in segRun[r].todo :
        segRun' = [segRun EXCEPT ![r].todo = @ \ {s},
          ![r].seg = IF s \in Unsafe THEN None ELSE s,
          ![r].match = IF s \in Unsafe THEN {} ELSE Tags!Matches(r, s),
          ![r].pc = IF s \in Unsafe THEN "refresh" ELSE "apply"]
  BY DEF Tags!MatchSegment
<1> DEFINE x == segRun[r]
           left == x.todo \ {s}
           seg == IF s \in Unsafe THEN None ELSE s
           match == IF s \in Unsafe THEN {} ELSE Tags!Matches(r, s)
           pc == IF s \in Unsafe THEN "refresh" ELSE "apply"
           w == [x EXCEPT !.todo = left, !.seg = seg, !.match = match, !.pc = pc]
<1>3. segRun' = [segRun EXCEPT ![r] = w]
  BY <1>1, <1>2 DEF Tags!TypeOK
<1>4. s \in Segments /\ left \subseteq Segments
  BY <1>1 DEF Tags!RunState
<1>5. /\ seg \in Segments \cup {None} /\ match \subseteq Profiles
      /\ pc \in {"refresh", "apply"}
      /\ pc = "apply" => seg = s
      /\ s \notin Unsafe => pc = "apply"
  BY <1>4 DEF Tags!Matches
<1> HIDE DEF seg, match, pc
<1>6. /\ w \in Tags!RunState /\ w.pc = pc /\ w.asked = x.asked /\ w.todo = left
      /\ w.seg = seg /\ w.rows = x.rows /\ w.matched = x.matched /\ w.scope = x.scope
      /\ w.disturbed = x.disturbed
  BY <1>1, <1>4, <1>5 DEF Tags!RunState
<1> HIDE DEF w
<1>7. Good(w, tags, audience, segment)
  <2>1. Working(x) /\ Working(w)
    BY <1>1, <1>5, <1>6 DEF Working
  <2>2. /\ OnItsWay(x) /\ KeepsOthers(x, tags, audience)
        /\ AgreesSoFar(x, tags, audience, segment)
    BY <1>1, <2>1 DEF Good
  <2>3. OnItsWay(w)
    BY <1>1, <1>5, <1>6, <2>2 DEF OnItsWay
  <2>4. KeepsOthers(w, tags, audience)
    BY <1>6, <2>2 DEF KeepsOthers, OwnTags, RowIn
  <2>5. AgreesSoFar(w, tags, audience, segment)
    BY <1>6, <2>2 DEF AgreesSoFar, RowIn
  <2>6. QED
    BY <2>1, <2>3, <2>4, <2>5 DEF Good
<1>8. /\ UNCHANGED <<matching, tags, audience, count, segment, later, laterNow, poll, write>>
      /\ missed' \in BOOLEAN /\ segLease' \in Tags!Runs \cup {None}
  BY <1>1 DEF Tags!MatchSegment, Tags!profiles, Tags!sensor, Tags!TypeOK
<1>9. QED
  BY <1>3, <1>6, <1>7, <1>8, OneStep

\* Steps that give a transaction up.
LEMMA GivenUp ==
  ASSUME TagInv, NEW r \in Tags!Txns, NEW w \in Tags!RunState,
         segRun' = [segRun EXCEPT ![r] = w],
         ~Working(w), DOMAIN w.rows = {}, DOMAIN w.matched = {},
         UNCHANGED <<matching, tags, audience, count, segment, later, laterNow, poll, write>>,
         missed' \in BOOLEAN, segLease' \in {segLease, Tags!Released(segLease, r)}
  PROVE  TagInv'
<1>1. segLease' \in Tags!Runs \cup {None}
  BY LeaseType DEF TagInv, Tags!TypeOK
<1>2. QED
  BY <1>1, RestIsGood, OneStep

LEMMA FailStep ==
  ASSUME Tags!SegmentAssumption, TagInv, NEW r \in Tags!Txns, Tags!Fail(r)
  PROVE  TagInv'
<1>1. /\ segRun[r] \in Tags!RunState /\ MaxRetries \in Nat /\ missed \in BOOLEAN
  BY RowFacts, SegBounds DEF TagInv, Tags!TypeOK
<1>2. /\ UNCHANGED <<matching, tags, audience, count, segment, later, laterNow, poll, write>>
      /\ missed' \in BOOLEAN /\ segLease' = Tags!Released(segLease, r)
  BY <1>1 DEF Tags!Fail, Tags!profiles, Tags!sensor
<1>3. CASE r # Inline /\ segRun[r].tries < MaxRetries
  <2> DEFINE w == [Tags!Queued(segRun[r].scope, segRun[r].due) EXCEPT
                     !.tries = segRun[r].tries + 1]
  <2>1. segRun' = [segRun EXCEPT ![r] = w]
    BY <1>1, <1>3 DEF Tags!Fail
  <2>2. /\ segRun[r].scope \in SUBSET Segments /\ segRun[r].due \in BOOLEAN
        /\ segRun[r].tries + 1 \in 0..MaxRetries
    BY <1>1, <1>3 DEF Tags!RunState
  <2>3. w \in Tags!RunState /\ ~Working(w) /\ DOMAIN w.rows = {} /\ DOMAIN w.matched = {}
    BY <2>2, AtRest
  <2> HIDE DEF w
  <2>4. QED
    BY <1>2, <2>1, <2>3, GivenUp
<1>4. CASE ~(r # Inline /\ segRun[r].tries < MaxRetries)
  <2>1. segRun' = [segRun EXCEPT ![r] = Tags!Idle]
    BY <1>4 DEF Tags!Fail
  <2>2. QED
    BY <1>2, <2>1, IdleState, GivenUp DEF Working
<1>5. QED
  BY <1>3, <1>4

\* Skipping, dying and being reaped.
LEMMA RestStep ==
  ASSUME Tags!SegmentAssumption, TagInv, NEW r \in Tags!Txns,
         Tags!SkipRun(r) \/ Tags!Die(r) \/ Tags!Reap(r)
  PROVE  TagInv'
<1>1. segRun[r] \in Tags!RunState /\ missed \in BOOLEAN
  BY RowFacts DEF TagInv, Tags!TypeOK
<1>2. segRun[r].due \in BOOLEAN
  BY <1>1 DEF Tags!RunState
<1>3. /\ UNCHANGED <<matching, tags, audience, count, segment, later, laterNow, poll, write>>
      /\ missed' \in BOOLEAN /\ segLease' = segLease
  BY <1>1, <1>2 DEF Tags!SkipRun, Tags!Die, Tags!Reap, Tags!profiles, Tags!sensor
<1>4. PICK c \in {"idle", "dead"} :
        segRun' = [segRun EXCEPT ![r] = [Tags!Idle EXCEPT !.pc = c]]
  <2>1. Tags!Idle = [Tags!Idle EXCEPT !.pc = "idle"]
    <3>1. PICK i \in Tags!RunState : i = Tags!Idle /\ i.pc = "idle"
      BY IdleState
    <3>2. i = [i EXCEPT !.pc = "idle"]
      BY <3>1 DEF Tags!RunState
    <3>3. QED
      BY <3>1, <3>2
  <2>2. CASE Tags!Die(r)
    BY <2>2 DEF Tags!Die
  <2>3. CASE Tags!SkipRun(r) \/ Tags!Reap(r)
    BY <2>1, <2>3 DEF Tags!SkipRun, Tags!Reap
  <2>4. QED
    BY <2>2, <2>3
<1> DEFINE w == [Tags!Idle EXCEPT !.pc = c]
<1>5. w \in Tags!RunState /\ ~Working(w) /\ DOMAIN w.rows = {} /\ DOMAIN w.matched = {}
  <2>1. {} \in SUBSET Segments /\ FALSE \in BOOLEAN /\ 0 \in 0..MaxRetries
    BY SegBounds
  <2>2. QED
    BY <2>1, AtRest
<1> HIDE DEF w
<1>6. segRun' = [segRun EXCEPT ![r] = w]
  BY <1>4 DEF w
<1>7. QED
  BY <1>3, <1>5, <1>6, GivenUp

LEMMA AcquireStep ==
  ASSUME Tags!SegmentAssumption, TagInv, NEW r \in Tags!Runs, Tags!Acquire(r)
  PROVE  TagInv'
<1>1. /\ r \in Tags!Txns /\ Tags!TypeOK /\ segRun[r] \in Tags!RunState
      /\ segment \in [Segments -> Tags!Definitions] /\ missed \in BOOLEAN
      /\ segRun[r].pc = "queued"
  BY RowFacts DEF TagInv, Tags!Acquire, Tags!TypeOK, Tags!Txns
<1>2. DOMAIN segRun[r].rows = {} /\ DOMAIN segRun[r].matched = {}
  BY <1>1 DEF TagInv, Good, Working
<1> DEFINE w == Tags!Started(segRun[r], segment)
<1>3. w \in Tags!RunState /\ DOMAIN w.rows = {} /\ Good(w, tags, audience, segment)
  BY <1>1, <1>2, StartIsGood
<1> HIDE DEF w
<1>4. /\ segRun' = [segRun EXCEPT ![r] = w] /\ segLease' = r
      /\ UNCHANGED <<matching, tags, audience, count, segment, later, laterNow, poll, write,
                     missed>>
  BY DEF Tags!Acquire, Tags!profiles, Tags!sensor, w
<1>5. QED
  BY <1>1, <1>2, <1>3, <1>4, OneStep

\* What _recompute_one_segment does to a row.
LEMMA RecomputedKeeps ==
  ASSUME Tags!TypeOK, NEW r \in Tags!Txns, NEW p \in Profiles, segRun[r].seg \in Segments,
         segRun[r].asked \in [Segments -> Tags!Definitions]
  PROVE  LET g == segRun[r].seg
             own == segRun[r].asked[g].carries
             row == Tags!Row(r, p)
             new == Tags!Recomputed(r, p)
         IN  /\ new \in Tags!Rows /\ new.tags \ {g} = row.tags \ {g}
             /\ new.audience \ own = row.audience \ own
<1> DEFINE g == segRun[r].seg
           own == segRun[r].asked[g].carries
           row == Tags!Row(r, p)
           new == Tags!Recomputed(r, p)
<1>1. row \in Tags!Rows
  BY RowFacts
<1>2. CASE p \in segRun[r].match
  <2>1. new = Tags!WithSegment(row, g, own)
    BY <1>2 DEF Tags!Recomputed
  <2>2. new \in Tags!Rows
    BY <1>1, <2>1, WithAgrees
  <2>3. new.tags = row.tags \cup {g} /\ new.audience = row.audience \cup own
    BY <2>1 DEF Tags!WithSegment
  <2>4. QED
    BY <2>2, <2>3
<1>3. CASE p \notin segRun[r].match
  <2>1. new = Tags!WithoutSegment(row, g, own)
    BY <1>3 DEF Tags!Recomputed
  <2>2. /\ new \in Tags!Rows /\ new.tags = row.tags \ {g}
        /\ new.audience \subseteq row.audience /\ row.audience \ new.audience \subseteq own
    BY <1>1, <2>1, WithoutKeeps
  <2>3. QED
    BY <2>2
<1>4. QED
  BY <1>2, <1>3

\* If the segments are as the run has read them, the row agrees with what the
\* segment at hand has matched, and with the others as before.
LEMMA RecomputedAgrees ==
  ASSUME Tags!TypeOK, NEW r \in Tags!Txns, NEW p \in Profiles, segRun[r].seg \in Segments,
         segRun[r].asked = segment
  PROVE  LET g == segRun[r].seg
             row == Tags!Row(r, p)
             new == Tags!Recomputed(r, p)
         IN  /\ Agrees(new, p, g, segRun[r].match, segment)
             /\ \A match : \A s \in Segments \ {g} :
                  Agrees(row, p, s, match, segment) => Agrees(new, p, s, match, segment)
<1>1. Tags!Row(r, p) \in Tags!Rows /\ segment \in [Segments -> Tags!Definitions]
  BY RowFacts DEF Tags!TypeOK
<1>2. CASE p \in segRun[r].match
  <2>1. Tags!Recomputed(r, p)
          = Tags!WithSegment(Tags!Row(r, p), segRun[r].seg, segment[segRun[r].seg].carries)
    BY <1>2 DEF Tags!Recomputed
  <2>2. QED
    BY <1>1, <1>2, <2>1, WithAgrees
<1>3. CASE p \notin segRun[r].match
  <2>1. Tags!Recomputed(r, p)
          = Tags!WithoutSegment(Tags!Row(r, p), segRun[r].seg, segment[segRun[r].seg].carries)
    BY <1>3 DEF Tags!Recomputed
  <2>2. QED
    BY <1>1, <1>3, <2>1, WithoutAgrees
<1>4. QED
  BY <1>2, <1>3

LEMMA ApplyStep ==
  ASSUME Tags!SegmentAssumption, TagInv, NEW r \in Tags!Txns, Tags!ApplySegment(r)
  PROVE  TagInv'
<1> DEFINE x == segRun[r]
           g == x.seg
           rows == [p \in DOMAIN x.rows \cup Tags!Touched(r) |->
                      IF p \in Tags!Touched(r) THEN Tags!Recomputed(r, p) ELSE x.rows[p]]
           matched == [s \in DOMAIN x.matched \cup {g} |->
                         IF s = g THEN x.match ELSE x.matched[s]]
           w == [x EXCEPT !.pc = "refresh", !.seg = None, !.match = {}, !.rows = rows,
                          !.matched = matched]
<1>1. /\ Tags!TypeOK /\ x \in Tags!RunState /\ x.pc = "apply"
      /\ Good(x, tags, audience, segment)
  BY RowFacts DEF TagInv, Tags!ApplySegment
<1>2. /\ OnItsWay(x) /\ KeepsOthers(x, tags, audience)
      /\ AgreesSoFar(x, tags, audience, segment)
  BY <1>1 DEF Good, Working
<1>3. /\ g \in x.scope /\ g \in Segments /\ x.asked \in [Segments -> Tags!Definitions]
      /\ x.match \subseteq Profiles
  BY <1>1, <1>2 DEF OnItsWay, Tags!RunState
<1>4. /\ segRun' = [segRun EXCEPT ![r] = w]
      /\ UNCHANGED <<matching, tags, audience, count, segment, later, laterNow, poll, write,
                     missed, segLease>>
  BY <1>1 DEF Tags!ApplySegment, Tags!profiles, Tags!sensor, Tags!TypeOK
<1>5. \A p \in Profiles :
        /\ Tags!Recomputed(r, p) \in Tags!Rows
        /\ Tags!Recomputed(r, p).tags \ {g} = Tags!Row(r, p).tags \ {g}
        /\ Tags!Recomputed(r, p).audience \ x.asked[g].carries
             = Tags!Row(r, p).audience \ x.asked[g].carries
  BY <1>1, <1>3, RecomputedKeeps
<1>6. Tags!Touched(r) \subseteq Profiles
  BY DEF Tags!Touched
<1>7. rows \in Tags!Partial(Profiles, Tags!Rows)
  <2>1. /\ DOMAIN x.rows \cup Tags!Touched(r) \subseteq Profiles
        /\ \A p \in DOMAIN x.rows : x.rows[p] \in Tags!Rows
    BY <1>1, <1>6, RowFacts
  <2>2. PICK P \in SUBSET Profiles : P = DOMAIN x.rows \cup Tags!Touched(r)
    BY <2>1
  <2>3. rows \in [P -> Tags!Rows]
    BY <1>5, <1>6, <2>1, <2>2
  <2> HIDE DEF rows
  <2>4. QED
    BY <2>3, InPartial
<1>8. matched \in Tags!Partial(Segments, SUBSET Profiles)
  <2>1. /\ DOMAIN x.matched \cup {g} \subseteq Segments
        /\ \A s \in DOMAIN x.matched : x.matched[s] \subseteq Profiles
    BY <1>1, <1>3, RowFacts
  <2>2. PICK P \in SUBSET Segments : P = DOMAIN x.matched \cup {g}
    BY <2>1
  <2>3. matched \in [P -> SUBSET Profiles]
    BY <1>3, <2>1, <2>2
  <2> HIDE DEF matched
  <2>4. QED
    BY <2>3, InPartial
<1>9. /\ DOMAIN rows = DOMAIN x.rows \cup Tags!Touched(r)
      /\ \A p \in Tags!Touched(r) : rows[p] = Tags!Recomputed(r, p)
      /\ \A p \in DOMAIN x.rows \ Tags!Touched(r) : rows[p] = x.rows[p]
      /\ DOMAIN matched = DOMAIN x.matched \cup {g} /\ matched[g] = x.match
      /\ \A s \in DOMAIN x.matched \ {g} : matched[s] = x.matched[s]
  OBVIOUS
<1> HIDE DEF rows, matched
<1>10. /\ w \in Tags!RunState /\ w.pc = "refresh" /\ w.asked = x.asked /\ w.todo = x.todo
       /\ w.rows = rows /\ w.matched = matched /\ w.scope = x.scope
       /\ w.disturbed = x.disturbed
  BY <1>1, <1>7, <1>8 DEF Tags!RunState
<1> HIDE DEF w
<1>11. ASSUME NEW p \in Profiles
       PROVE  /\ RowIn(w, tags, audience, p) = Tags!Recomputed(r, p)
              /\ Tags!Row(r, p) = RowIn(x, tags, audience, p)
  <2>1. Tags!Row(r, p) = RowIn(x, tags, audience, p)
    BY <1>1, RowFacts
  <2>2. CASE p \in Tags!Touched(r)
    BY <1>9, <1>10, <2>1, <2>2 DEF RowIn
  <2>3. CASE p \notin Tags!Touched(r)
    <3>1. Tags!Recomputed(r, p) = Tags!Row(r, p)
      BY <2>3 DEF Tags!Touched
    <3>2. RowIn(w, tags, audience, p) = RowIn(x, tags, audience, p)
      BY <1>9, <1>10, <2>3 DEF RowIn
    <3>3. QED
      BY <2>1, <3>1, <3>2
  <2>4. QED
    BY <2>2, <2>3
<1>12. Good(w, tags, audience, segment)
  <2>1. Working(w)
    BY <1>10 DEF Working
  <2>2. OnItsWay(w)
    BY <1>1, <1>2, <1>3, <1>9, <1>10 DEF OnItsWay
  <2>3. KeepsOthers(w, tags, audience)
    <3>1. OwnTags(w) = OwnTags(x) /\ w.scope = x.scope /\ x.asked[g].carries \subseteq OwnTags(x)
      BY <1>3, <1>10 DEF OwnTags
    <3> SUFFICES ASSUME NEW p \in Profiles
                 PROVE  /\ RowIn(w, tags, audience, p).tags \ x.scope = tags[p] \ x.scope
                        /\ RowIn(w, tags, audience, p).audience \ OwnTags(x)
                             = audience[p] \ OwnTags(x)
      BY <3>1 DEF KeepsOthers
    <3>2. /\ Tags!Row(r, p).tags \ x.scope = tags[p] \ x.scope
          /\ Tags!Row(r, p).audience \ OwnTags(x) = audience[p] \ OwnTags(x)
      BY <1>2, <1>11 DEF KeepsOthers
    <3>3. /\ Tags!Recomputed(r, p).tags \ {g} = Tags!Row(r, p).tags \ {g}
          /\ Tags!Recomputed(r, p).audience \ x.asked[g].carries
               = Tags!Row(r, p).audience \ x.asked[g].carries
      BY <1>5
    <3>4. QED
      BY <1>3, <1>11, <3>1, <3>2, <3>3
  <2>4. AgreesSoFar(w, tags, audience, segment)
    <3> SUFFICES ASSUME NEW p \in Profiles \ x.disturbed
                 PROVE  /\ x.asked = segment
                        /\ \A s \in DOMAIN matched :
                             Agrees(RowIn(w, tags, audience, p), p, s, matched[s], segment)
      BY <1>10 DEF AgreesSoFar
    <3>1. x.asked = segment
      BY <1>2 DEF AgreesSoFar
    <3>2. /\ Agrees(Tags!Recomputed(r, p), p, g, x.match, segment)
          /\ \A match : \A s \in Segments \ {g} :
               Agrees(Tags!Row(r, p), p, s, match, segment)
                 => Agrees(Tags!Recomputed(r, p), p, s, match, segment)
      BY <1>1, <1>3, <3>1, RecomputedAgrees
    <3>3. ASSUME NEW s \in DOMAIN x.matched, s # g
          PROVE  Agrees(Tags!Recomputed(r, p), p, s, x.matched[s], segment)
      <4>1. Agrees(Tags!Row(r, p), p, s, x.matched[s], segment)
        BY <1>2, <1>11 DEF AgreesSoFar
      <4>2. s \in Segments \ {g}
        BY <1>1, <3>3, RowFacts
      <4>3. QED
        BY <3>2, <4>1, <4>2
    <3>4. QED
      BY <1>9, <1>11, <3>1, <3>2, <3>3
  <2>5. QED
    BY <2>1, <2>2, <2>3, <2>4 DEF Good
<1>13. /\ segRun' \in [Tags!Txns -> Tags!RunState] /\ segRun'[r] = w
       /\ \A q \in Tags!Txns \ {r} : segRun'[q] = segRun[q]
  BY <1>1, <1>4, <1>10, OneRun
<1>14. Tags!TypeOK'
  BY <1>1, <1>4, <1>13 DEF Tags!TypeOK
<1>15. \A q \in Tags!Txns : Good(segRun'[q], tags', audience', segment')
  BY <1>4, <1>12, <1>13 DEF TagInv
<1>16. ASSUME NEW q \in Tags!Txns \ {r} PROVE DOMAIN rows \cap DOMAIN segRun[q].rows = {}
  <2>1. Tags!Touched(r) \cap DOMAIN segRun[q].rows = {}
    BY <1>1 DEF Tags!ApplySegment, Tags!Waits
  <2>2. DOMAIN x.rows \cap DOMAIN segRun[q].rows = {}
    BY DEF TagInv
  <2>3. QED
    BY <1>9, <2>1, <2>2
<1>17. \A q, t \in Tags!Txns :
         q # t => DOMAIN segRun'[q].rows \cap DOMAIN segRun'[t].rows = {}
  <2> SUFFICES ASSUME NEW q \in Tags!Txns, NEW t \in Tags!Txns, q # t
               PROVE  DOMAIN segRun'[q].rows \cap DOMAIN segRun'[t].rows = {}
    OBVIOUS
  <2>1. CASE q = r
    BY <1>10, <1>13, <1>16, <2>1
  <2>2. CASE t = r
    BY <1>10, <1>13, <1>16, <2>2
  <2>3. CASE q # r /\ t # r
    BY <1>13, <2>3 DEF TagInv
  <2>4. QED
    BY <2>1, <2>2, <2>3
<1>18. QED
  BY <1>14, <1>15, <1>17 DEF TagInv

\* Committing: the others find the rows of the run changed.
LEMMA CommitStep ==
  ASSUME Tags!SegmentAssumption, TagInv, NEW r \in Tags!Txns, Tags!CommitRun(r)
  PROVE  TagInv'
<1> DEFINE rows == DOMAIN segRun[r].rows
           others == Tags!Disturbed(r, rows)
<1>1. Tags!TypeOK /\ segRun[r] \in Tags!RunState /\ rows \in SUBSET Profiles
  BY RowFacts DEF TagInv
<1>2. /\ tags' = [p \in Profiles |-> Tags!Row(r, p).tags]
      /\ audience' = [p \in Profiles |-> Tags!Row(r, p).audience]
      /\ count' = [s \in Segments |-> Tags!Counted(r, s)]
      /\ segRun' = [others EXCEPT ![r] = Tags!Idle]
      /\ later' = Tags!Later(rows, segRun[r].stamp)
      /\ laterNow' = Tags!LaterNow(rows, segRun[r].stamp)
      /\ segLease' = Tags!Released(segLease, r)
      /\ missed' = (missed \/ (rows # {} /\ Tags!Passed(segRun[r].stamp)))
      /\ UNCHANGED <<matching, segment, poll, write>>
  BY DEF Tags!CommitRun
<1>3. /\ others \in [Tags!Txns -> Tags!RunState]
      /\ \A q \in Tags!Txns :
           /\ SameWork(segRun[q], others[q])
           /\ Working(segRun[q]) /\ q # r
                => others[q].disturbed = segRun[q].disturbed \cup rows
  BY <1>1, DisturbedRuns
<1> HIDE DEF others
<1>4. Tags!Idle \in Tags!RunState
  BY IdleState
<1>5. /\ segRun' \in [Tags!Txns -> Tags!RunState] /\ segRun'[r] = Tags!Idle
      /\ \A q \in Tags!Txns \ {r} : segRun'[q] = others[q]
  BY <1>2, <1>3, <1>4
<1>6. /\ tags' \in [Profiles -> SUBSET Segments]
      /\ audience' \in [Profiles -> SUBSET AudienceTags]
      /\ \A p \in Profiles : /\ tags'[p] = Tags!Row(r, p).tags
                             /\ audience'[p] = Tags!Row(r, p).audience
  BY <1>1, <1>2, RowFacts DEF Tags!Rows
<1>7. \A p \in Profiles \ rows : tags'[p] = tags[p] /\ audience'[p] = audience[p]
  BY <1>6 DEF Tags!Row
<1>8. count' \in [Segments -> Tags!Members]
  <2>1. \A s \in Segments : Tags!Counted(r, s) \in Tags!Members
    <3> SUFFICES ASSUME NEW s \in Segments PROVE Tags!Counted(r, s) \in Tags!Members
      OBVIOUS
    <3>1. CASE s \in DOMAIN segRun[r].matched
      BY <1>1, <3>1, RowFacts, SizeOf DEF Tags!Counted
    <3>2. CASE s \notin DOMAIN segRun[r].matched
      BY <1>1, <3>2 DEF Tags!Counted, Tags!TypeOK
    <3>3. QED
      BY <3>1, <3>2
  <2>2. QED
    BY <1>2, <2>1
<1>9. /\ later' \subseteq Profiles /\ laterNow' \subseteq Profiles
      /\ missed' \in BOOLEAN /\ segLease' \in Tags!Runs \cup {None}
  <2>1. later' \subseteq Profiles /\ laterNow' \subseteq Profiles
    BY <1>1, <1>2 DEF Tags!Later, Tags!LaterNow, Tags!TypeOK
  <2>2. missed' \in BOOLEAN
    BY <1>1, <1>2 DEF Tags!TypeOK
  <2>3. QED
    BY <1>1, <1>2, <2>1, <2>2, LeaseType
<1>10. Tags!TypeOK'
  BY <1>1, <1>2, <1>5, <1>6, <1>8, <1>9 DEF Tags!TypeOK
<1>11. \A q \in Tags!Txns \ {r} : rows \cap DOMAIN segRun[q].rows = {}
  BY DEF TagInv
<1>12. ASSUME NEW q \in Tags!Txns PROVE Good(segRun'[q], tags', audience', segment')
  <2>1. CASE q = r
    BY <1>5, <2>1, IdleState, RestIsGood DEF Working
  <2>2. CASE q # r
    <3>1. Good(segRun[q], tags, audience, segment)
      BY DEF TagInv
    <3>2. Beside(segRun[q], others[q], tags, audience, tags', audience', rows)
      BY <1>3, <1>7, <1>11, <2>2 DEF Beside
    <3>3. Good(others[q], tags', audience', segment)
      BY <3>1, <3>2, DisturbedIsGood
    <3>4. QED
      BY <1>2, <1>5, <2>2, <3>3
  <2>3. QED
    BY <2>1, <2>2
<1>13. \A q \in Tags!Txns : DOMAIN segRun'[q].rows \subseteq DOMAIN segRun[q].rows
  BY <1>3, <1>5, IdleState DEF SameWork
<1>14. QED
  BY <1>10, <1>12, <1>13 DEF TagInv

-----------------------------------------------------------------------------
(* The steps outside the runs.                                             *)

\* The runs go on, disturbed or not, or are given up.
LEMMA Outside ==
  ASSUME TagInv, Tags!TypeOK', NEW P \in SUBSET Profiles,
         \A q \in Tags!Txns : P \cap DOMAIN segRun[q].rows = {},
         \A p \in Profiles \ P : tags'[p] = tags[p] /\ audience'[p] = audience[p],
         segment' = segment,
         \A q \in Tags!Txns :
           \/ /\ SameWork(segRun[q], segRun'[q])
              /\ Working(segRun[q]) => segRun[q].disturbed \cup P \subseteq segRun'[q].disturbed
           \/ ~Working(segRun'[q]) /\ DOMAIN segRun'[q].rows = {}
                /\ DOMAIN segRun'[q].matched = {}
  PROVE  TagInv'
<1>1. ASSUME NEW q \in Tags!Txns
      PROVE  /\ Good(segRun'[q], tags', audience', segment')
             /\ DOMAIN segRun'[q].rows \subseteq DOMAIN segRun[q].rows
  <2>1. Good(segRun[q], tags, audience, segment)
    BY DEF TagInv
  <2>2. CASE /\ SameWork(segRun[q], segRun'[q])
             /\ Working(segRun[q]) => segRun[q].disturbed \cup P \subseteq segRun'[q].disturbed
    <3>1. Beside(segRun[q], segRun'[q], tags, audience, tags', audience', P)
      BY <2>2 DEF Beside
    <3>2. Good(segRun'[q], tags', audience', segment)
      BY <2>1, <3>1, DisturbedIsGood
    <3>3. QED
      BY <2>2, <3>2 DEF SameWork
  <2>3. CASE ~Working(segRun'[q]) /\ DOMAIN segRun'[q].rows = {}
               /\ DOMAIN segRun'[q].matched = {}
    BY <2>3, RestIsGood
  <2>4. QED
    BY <2>2, <2>3
<1>2. QED
  BY <1>1 DEF TagInv

AgedTo(x, from, to) == [x EXCEPT !.stamp = Tags!Aged(@, from, to)]

LEMMA Aging ==
  ASSUME Tags!TypeOK, NEW from, NEW to \in Tags!Stamps, NEW q \in Tags!Txns
  PROVE  /\ AgedTo(segRun[q], from, to) \in Tags!RunState
         /\ SameWork(segRun[q], AgedTo(segRun[q], from, to))
         /\ AgedTo(segRun[q], from, to).disturbed = segRun[q].disturbed
<1>1. segRun[q] \in Tags!RunState
  BY DEF Tags!TypeOK
<1>2. PICK c \in Tags!Stamps \cup {None} : c = Tags!Aged(segRun[q].stamp, from, to)
  BY <1>1 DEF Tags!RunState, Tags!Aged
<1> DEFINE y == [segRun[q] EXCEPT !.stamp = c]
<1>3. y = AgedTo(segRun[q], from, to)
  BY <1>2 DEF AgedTo
<1>4. y \in Tags!RunState /\ SameWork(segRun[q], y) /\ y.disturbed = segRun[q].disturbed
  BY <1>1 DEF Tags!RunState, SameWork
<1>5. QED
  BY <1>3, <1>4

LEMMA StayStep ==
  ASSUME TagInv, Tags!TypeOK', UNCHANGED <<tags, audience, segment, segRun>>
  PROVE  TagInv'
<1>1. \A q \in Tags!Txns :
        /\ SameWork(segRun[q], segRun'[q])
        /\ Working(segRun[q]) => segRun[q].disturbed \cup {} \subseteq segRun'[q].disturbed
        /\ {} \cap DOMAIN segRun[q].rows = {}
  BY DEF SameWork
<1>2. {} \in SUBSET Profiles
      /\ \A p \in Profiles \ {} : tags'[p] = tags[p] /\ audience'[p] = audience[p]
      /\ segment' = segment
  OBVIOUS
<1>3. QED
  BY <1>1, <1>2, Outside

\* Profile writers.
LEMMA WriterStep ==
  ASSUME Tags!SegmentAssumption, TagInv, NEW p \in Profiles,
         Tags!BeginChange(p) \/ Tags!CommitChange(p)
  PROVE  TagInv'
<1>1. Tags!TypeOK
  BY DEF TagInv
<1>2. CASE Tags!BeginChange(p)
  <2>1. /\ write' = [write EXCEPT ![p] = "after now"] /\ "after now" \in Tags!Stamps
        /\ UNCHANGED <<matching, tags, audience, count, segment, later, laterNow, poll,
                       segRun, segLease, missed>>
    BY <1>2 DEF Tags!BeginChange, Tags!profiles, Tags!sensor, Tags!Stamps
  <2>2. Tags!TypeOK'
    BY <1>1, <2>1 DEF Tags!TypeOK
  <2>3. QED
    BY <2>1, <2>2, StayStep
<1>3. CASE Tags!CommitChange(p)
  <2>1. PICK m \in SUBSET (Segments \ Unsafe) : matching' = [matching EXCEPT ![p] = m]
    BY <1>3 DEF Tags!CommitChange
  <2>2. PICK row \in Tags!Rows : /\ tags' = [tags EXCEPT ![p] = row.tags]
                                 /\ audience' = [audience EXCEPT ![p] = row.audience]
    <3>1. Overwrites \subseteq Tags!Rows
      BY SegBounds
    <3>2. [tags |-> tags[p], audience |-> audience[p]] \in Tags!Rows
      BY <1>1 DEF Tags!TypeOK, Tags!Rows
    <3>3. QED
      BY <1>3, <3>1, <3>2 DEF Tags!CommitChange
  <2>3. /\ later' = Tags!Later({p}, write[p]) /\ laterNow' = Tags!LaterNow({p}, write[p])
        /\ write' = [write EXCEPT ![p] = None] /\ segRun' = Tags!Disturbed(None, {p})
        /\ missed' = (missed \/ Tags!Passed(write[p]))
        /\ UNCHANGED <<count, segment, poll, segLease>>
        /\ \A q \in Tags!Txns : p \notin DOMAIN segRun[q].rows
    BY <1>3 DEF Tags!CommitChange
  <2>4. /\ segRun' \in [Tags!Txns -> Tags!RunState]
        /\ \A q \in Tags!Txns :
             /\ SameWork(segRun[q], segRun'[q])
             /\ Working(segRun[q]) /\ q # None
                  => segRun'[q].disturbed = segRun[q].disturbed \cup {p}
    BY <1>1, <2>3, DisturbedRuns
  <2>5. matching' \in [Profiles -> SUBSET Segments]
    BY <1>1, <2>1 DEF Tags!TypeOK
  <2>6. /\ tags' \in [Profiles -> SUBSET Segments]
        /\ audience' \in [Profiles -> SUBSET AudienceTags]
        /\ \A q \in Profiles \ {p} : tags'[q] = tags[q] /\ audience'[q] = audience[q]
    BY <1>1, <2>2 DEF Tags!TypeOK, Tags!Rows
  <2>7. /\ later' \subseteq Profiles /\ laterNow' \subseteq Profiles
        /\ write' \in [Profiles -> Tags!Stamps \cup {None}] /\ missed' \in BOOLEAN
    BY <1>1, <2>3 DEF Tags!TypeOK, Tags!Later, Tags!LaterNow
  <2>8. Tags!TypeOK'
    BY <1>1, <2>3, <2>4, <2>5, <2>6, <2>7 DEF Tags!TypeOK
  <2>9. \A q \in Tags!Txns :
          /\ {p} \cap DOMAIN segRun[q].rows = {}
          /\ SameWork(segRun[q], segRun'[q])
          /\ Working(segRun[q]) => segRun[q].disturbed \cup {p} \subseteq segRun'[q].disturbed
    <3>1. \A q \in Tags!Txns : q # None
      BY SegBounds
    <3>2. \A q \in Tags!Txns : {p} \cap DOMAIN segRun[q].rows = {}
      BY <2>3
    <3>3. \A q \in Tags!Txns : Working(segRun[q])
            => segRun[q].disturbed \cup {p} \subseteq segRun'[q].disturbed
      BY <2>4, <3>1
    <3>4. QED
      BY <2>4, <3>2, <3>3
  <2>10. {p} \in SUBSET Profiles /\ segment' = segment
    BY <2>3
  <2>11. QED
    BY <2>6, <2>8, <2>9, <2>10, Outside
<1>4. QED
  BY <1>2, <1>3

\* The sensor, and requests of runs.
LEMMA PollStep ==
  ASSUME Tags!SegmentAssumption, TagInv,
         Tags!Poll \/ Tags!PollError \/ Tags!RequestDemand
  PROVE  TagInv'
<1>1. Tags!TypeOK
  BY DEF TagInv
<1>2. CASE Tags!PollCount \/ Tags!PollError
  <2>1. /\ UNCHANGED <<matching, tags, audience, count, segment, later, laterNow, write,
                       segRun, segLease, missed>>
        /\ poll' \in {"idle", "found", "nothing"}
    BY <1>2 DEF Tags!PollCount, Tags!PollError, Tags!profiles
  <2>2. Tags!TypeOK'
    BY <1>1, <2>1 DEF Tags!TypeOK
  <2>3. QED
    BY <2>1, <2>2, StayStep
<1>3. CASE Tags!PollStart
  <2>1. /\ UNCHANGED <<matching, tags, audience, count, segment, later, segLease, missed>>
        /\ poll' = "started" /\ laterNow' = {} /\ "after cursor" \in Tags!Stamps
        /\ write' = [p \in Profiles |-> Tags!Aged(write[p], "after now", "after cursor")]
        /\ segRun' = [q \in Tags!Txns |-> AgedTo(segRun[q], "after now", "after cursor")]
    BY <1>3 DEF Tags!PollStart, Tags!AgeAll, Tags!profiles, Tags!Stamps, AgedTo
  <2>2. /\ write' \in [Profiles -> Tags!Stamps \cup {None}]
        /\ \A q \in Tags!Txns : /\ segRun'[q] \in Tags!RunState
                                /\ SameWork(segRun[q], segRun'[q])
                                /\ segRun'[q].disturbed = segRun[q].disturbed
    <3>1. write' \in [Profiles -> Tags!Stamps \cup {None}]
      BY <1>1, <2>1 DEF Tags!TypeOK, Tags!Aged
    <3>2. ASSUME NEW q \in Tags!Txns
          PROVE  /\ segRun'[q] \in Tags!RunState
                 /\ SameWork(segRun[q], segRun'[q])
                 /\ segRun'[q].disturbed = segRun[q].disturbed
      <4> DEFINE y == AgedTo(segRun[q], "after now", "after cursor")
      <4>1. y \in Tags!RunState /\ SameWork(segRun[q], y)
            /\ y.disturbed = segRun[q].disturbed
        BY <1>1, Aging DEF Tags!Stamps
      <4>2. segRun'[q] = y
        BY <2>1
      <4> HIDE DEF y
      <4>3. QED
        BY <4>1, <4>2
    <3>3. QED
      BY <3>1, <3>2
  <2>3. segRun' \in [Tags!Txns -> Tags!RunState]
    BY <2>1, <2>2
  <2>4. Tags!TypeOK'
    BY <1>1, <2>1, <2>2, <2>3 DEF Tags!TypeOK
  <2>5. \A q \in Tags!Txns :
          /\ {} \cap DOMAIN segRun[q].rows = {}
          /\ SameWork(segRun[q], segRun'[q])
          /\ Working(segRun[q]) => segRun[q].disturbed \cup {} \subseteq segRun'[q].disturbed
    BY <2>2
  <2>6. {} \in SUBSET Profiles /\ segment' = segment
        /\ \A p \in Profiles \ {} : tags'[p] = tags[p] /\ audience'[p] = audience[p]
    BY <2>1
  <2>7. QED
    BY <2>4, <2>5, <2>6, Outside
<1>4. CASE Tags!PollUpdate
  <2> DEFINE w == Tags!Queued(Segments, TRUE)
  <2>1. /\ UNCHANGED <<matching, tags, audience, count, segment, laterNow, segLease, missed>>
        /\ poll' = "idle" /\ later' = laterNow /\ "before cursor" \in Tags!Stamps
        /\ write' = [p \in Profiles |->
                       Tags!Aged(write[p], "after cursor", "before cursor")]
        /\ segRun' = [q \in Tags!Txns |->
             IF q = Sensor /\ poll = "found" THEN w
             ELSE AgedTo(segRun[q], "after cursor", "before cursor")]
    BY <1>4 DEF Tags!PollUpdate, Tags!CursorIsPollTime, Tags!profiles, Tags!Stamps, AgedTo
  <2>2. w \in Tags!RunState /\ ~Working(w) /\ DOMAIN w.rows = {} /\ DOMAIN w.matched = {}
    <3>1. Segments \in SUBSET Segments /\ TRUE \in BOOLEAN /\ 0 \in 0..MaxRetries
      BY SegBounds
    <3>2. QED
      BY <3>1, AtRest
  <2> HIDE DEF w
  <2>3. /\ write' \in [Profiles -> Tags!Stamps \cup {None}]
        /\ \A q \in Tags!Txns :
             LET y == AgedTo(segRun[q], "after cursor", "before cursor") IN
             y \in Tags!RunState /\ SameWork(segRun[q], y)
               /\ y.disturbed = segRun[q].disturbed
    <3>1. write' \in [Profiles -> Tags!Stamps \cup {None}]
      BY <1>1, <2>1 DEF Tags!TypeOK, Tags!Aged
    <3>2. "before cursor" \in Tags!Stamps
      BY <2>1
    <3>3. ASSUME NEW q \in Tags!Txns
          PROVE  LET y == AgedTo(segRun[q], "after cursor", "before cursor") IN
                 y \in Tags!RunState /\ SameWork(segRun[q], y)
                   /\ y.disturbed = segRun[q].disturbed
      BY <1>1, <3>2, Aging
    <3>4. QED
      BY <3>1, <3>3
  <2>4. ASSUME NEW q \in Tags!Txns
        PROVE  /\ segRun'[q] \in Tags!RunState
               /\ {} \cap DOMAIN segRun[q].rows = {}
               /\ \/ /\ SameWork(segRun[q], segRun'[q])
                     /\ Working(segRun[q])
                          => segRun[q].disturbed \cup {} \subseteq segRun'[q].disturbed
                  \/ ~Working(segRun'[q]) /\ DOMAIN segRun'[q].rows = {}
                       /\ DOMAIN segRun'[q].matched = {}
    <3>1. CASE q = Sensor /\ poll = "found"
      <4>1. segRun'[q] = w
        BY <2>1, <3>1
      <4>2. QED
        BY <2>2, <4>1
    <3> DEFINE y == AgedTo(segRun[q], "after cursor", "before cursor")
    <3>2. CASE ~(q = Sensor /\ poll = "found")
      <4>1. segRun'[q] = y
        BY <2>1, <3>2
      <4>2. y \in Tags!RunState /\ SameWork(segRun[q], y)
            /\ y.disturbed = segRun[q].disturbed
        BY <2>3
      <4> HIDE DEF y
      <4>3. QED
        BY <4>1, <4>2
    <3>3. QED
      BY <3>1, <3>2
  <2>5. segRun' \in [Tags!Txns -> Tags!RunState]
    BY <2>1, <2>4
  <2>6. Tags!TypeOK'
    BY <1>1, <2>1, <2>3, <2>5 DEF Tags!TypeOK
  <2>7. {} \in SUBSET Profiles /\ segment' = segment
        /\ \A p \in Profiles \ {} : tags'[p] = tags[p] /\ audience'[p] = audience[p]
    BY <2>1
  <2>8. QED
    BY <2>4, <2>6, <2>7, Outside
<1>5. CASE Tags!RequestDemand
  <2>1. PICK S \in Scopes : segRun' = [segRun EXCEPT ![Demand] = Tags!Queued(S, FALSE)]
    BY <1>5 DEF Tags!RequestDemand
  <2>2. /\ UNCHANGED <<matching, tags, audience, count, segment, later, laterNow, poll, write,
                       missed, segLease>>
        /\ Demand \in Tags!Txns /\ S \in SUBSET Segments
    BY <1>5, SegBounds DEF Tags!RequestDemand, Tags!profiles, Tags!sensor
  <2> DEFINE w == Tags!Queued(S, FALSE)
  <2>3. w \in Tags!RunState /\ ~Working(w) /\ DOMAIN w.rows = {} /\ DOMAIN w.matched = {}
    <3>1. FALSE \in BOOLEAN /\ 0 \in 0..MaxRetries
      BY SegBounds
    <3>2. QED
      BY <2>2, <3>1, AtRest
  <2>4. segRun' = [segRun EXCEPT ![Demand] = w]
    BY <2>1
  <2> HIDE DEF w
  <2>5. missed' \in BOOLEAN
    BY <1>1, <2>2 DEF Tags!TypeOK
  <2>6. QED
    BY <2>2, <2>3, <2>4, <2>5, GivenUp
<1>6. QED
  BY <1>2, <1>3, <1>4, <1>5 DEF Tags!Poll

\* A lease expires.
LEMMA ExpireStep ==
  ASSUME Tags!SegmentAssumption, TagInv, Tags!ExpireLease \/ Tags!ExpireDead
  PROVE  TagInv'
<1>1. Tags!TypeOK
  BY DEF TagInv
<1>2. /\ UNCHANGED <<matching, tags, audience, count, segment, later, laterNow, poll, write,
                     segRun, missed>>
      /\ segLease' = None
  BY DEF Tags!ExpireLease, Tags!ExpireDead, Tags!Expired, Tags!profiles, Tags!sensor
<1>3. Tags!TypeOK'
  BY <1>1, <1>2 DEF Tags!TypeOK
<1>4. QED
  BY <1>2, <1>3, StayStep

\* Edits of segments, which disturb whoever has read them.
LEMMA EditStep ==
  ASSUME Tags!SegmentAssumption, TagInv, NEW s \in Segments, NEW T \in Edits,
         Tags!PatchSegment(s, T) \/ Tags!EditOnly(s, T) \/ Tags!PostAudienceTags(s, T)
  PROVE  TagInv'
<1> DEFINE all == Tags!Disturbed(None, Profiles)
<1>1. Tags!TypeOK /\ T \in SUBSET AudienceTags
  BY SegBounds DEF TagInv
<1>2. /\ segment' = [segment EXCEPT ![s] = [carries |-> T, requires |-> T]]
      /\ UNCHANGED <<matching, tags, audience, count, later, laterNow, poll, write, segLease>>
      /\ missed' \in BOOLEAN
  BY <1>1 DEF Tags!PatchSegment, Tags!EditOnly, Tags!PostAudienceTags, Tags!EditSegment,
              Tags!profiles, Tags!sensor, Tags!TypeOK
<1>3. segment' \in [Segments -> Tags!Definitions]
  BY <1>1, <1>2 DEF Tags!TypeOK, Tags!Definitions
<1>4. /\ all \in [Tags!Txns -> Tags!RunState]
      /\ \A q \in Tags!Txns :
           /\ SameWork(segRun[q], all[q])
           /\ Working(segRun[q]) => all[q].disturbed = segRun[q].disturbed \cup Profiles
  BY <1>1, SegBounds, DisturbedRuns
<1> HIDE DEF all
<1>5. ASSUME NEW q \in Tags!Txns PROVE Good(all[q], tags', audience', segment')
  <2>1. Good(segRun[q], tags, audience, segment)
    BY DEF TagInv
  <2>2. Good(all[q], tags, audience, segment')
    BY <1>4, <2>1, EditedIsGood
  <2>3. QED
    BY <1>2, <2>2
<1>6. ASSUME NEW r \in Tags!Txns, NEW w \in Tags!RunState, DOMAIN w.rows = {},
             Good(w, tags', audience', segment'), segRun' = [all EXCEPT ![r] = w]
      PROVE  TagInv'
  <2>1. /\ segRun' \in [Tags!Txns -> Tags!RunState] /\ segRun'[r] = w
        /\ \A q \in Tags!Txns \ {r} : segRun'[q] = all[q]
    BY <1>4, <1>6
  <2>2. Tags!TypeOK'
    BY <1>1, <1>2, <1>3, <2>1 DEF Tags!TypeOK
  <2>3. \A q \in Tags!Txns : /\ Good(segRun'[q], tags', audience', segment')
                             /\ DOMAIN segRun'[q].rows \subseteq DOMAIN segRun[q].rows
    BY <1>4, <1>5, <1>6, <2>1 DEF SameWork
  <2>4. QED
    BY <2>2, <2>3 DEF TagInv
<1>7. /\ {s} \in SUBSET Segments /\ TRUE \in BOOLEAN /\ 0 \in 0..MaxRetries
      /\ Demand \in Tags!Txns /\ Inline \in Tags!Txns
  BY SegBounds
<1> DEFINE w == Tags!Queued({s}, TRUE)
<1>8. w \in Tags!RunState /\ ~Working(w) /\ DOMAIN w.rows = {} /\ DOMAIN w.matched = {}
  BY <1>7, AtRest
<1> HIDE DEF w
<1>9. CASE Tags!PatchSegment(s, T)
  <2>1. segRun' = [all EXCEPT ![Demand] = w]
    BY <1>9 DEF Tags!PatchSegment, all, w
  <2>2. Good(w, tags', audience', segment')
    BY <1>8, RestIsGood
  <2>3. QED
    BY <1>6, <1>7, <1>8, <2>1, <2>2
<1>10. CASE Tags!EditOnly(s, T)
  <2>1. segRun' = all
    BY <1>10 DEF Tags!EditOnly, all
  <2>2. Tags!TypeOK'
    BY <1>1, <1>2, <1>3, <1>4, <2>1 DEF Tags!TypeOK
  <2>3. \A q \in Tags!Txns : /\ Good(segRun'[q], tags', audience', segment')
                             /\ DOMAIN segRun'[q].rows \subseteq DOMAIN segRun[q].rows
    BY <1>4, <1>5, <2>1 DEF SameWork
  <2>4. QED
    BY <2>2, <2>3 DEF TagInv
<1>11. CASE Tags!PostAudienceTags(s, T)
  <2> DEFINE v == Tags!Started(w, segment')
  <2>1. segRun' = [all EXCEPT ![Inline] = v]
    BY <1>11 DEF Tags!PostAudienceTags, all, w
  <2>2. v \in Tags!RunState /\ DOMAIN v.rows = {} /\ Good(v, tags', audience', segment')
    BY <1>3, <1>8, StartIsGood
  <2> HIDE DEF v
  <2>3. QED
    BY <1>6, <1>7, <2>1, <2>2
<1>12. QED
  BY <1>9, <1>10, <1>11

-----------------------------------------------------------------------------
LEMMA InitTag == ASSUME Tags!SegmentAssumption, Tags!Init PROVE TagInv
<1>1. /\ matching \in [Profiles -> SUBSET Segments] /\ tags \in [Profiles -> SUBSET Segments]
      /\ audience \in [Profiles -> SUBSET AudienceTags]
      /\ segment \in [Segments -> Tags!Definitions] /\ later = {} /\ laterNow = {}
      /\ write \in [Profiles -> Tags!Stamps \cup {None}] /\ poll = "idle"
      /\ segRun = [r \in Tags!Txns |-> Tags!Idle] /\ segLease = None /\ missed = FALSE
  BY SegBounds DEF Tags!Init
<1>2. count \in [Segments -> Tags!Members]
  <2>1. Tags!Cardinality(Profiles) \in Nat
    BY SegBounds, SameCardinality, FS_CardinalityType
  <2>2. 0 \in Tags!Members
    BY <2>1 DEF Tags!Members
  <2>3. QED
    BY <2>2 DEF Tags!Init
<1>3. Tags!TypeOK
  BY <1>1, <1>2, IdleState DEF Tags!TypeOK
<1>4. \A r \in Tags!Txns : /\ Good(segRun[r], tags, audience, segment)
                           /\ DOMAIN segRun[r].rows = {}
  BY <1>1, IdleState, RestIsGood DEF Working
<1>5. QED
  BY <1>3, <1>4 DEF TagInv

LEMMA StepTag == ASSUME Tags!SegmentAssumption, TagInv, [Tags!Next]_Tags!vars PROVE TagInv'
<1>1. CASE \E p \in Profiles : Tags!BeginChange(p) \/ Tags!CommitChange(p)
  BY <1>1, WriterStep
<1>2. CASE Tags!Poll \/ Tags!PollError \/ Tags!RequestDemand
  BY <1>2, PollStep
<1>3. CASE Tags!Edit
  BY <1>3, EditStep DEF Tags!Edit
<1>4. CASE Tags!ExpireLease \/ Tags!ExpireDead
  BY <1>4, ExpireStep
<1>5. ASSUME NEW r \in Tags!Txns, Tags!RunStep(r) \/ Tags!Raise(r) \/ Tags!Die(r)
      PROVE  TagInv'
  <2>1. CASE r \in Tags!Runs /\ Tags!Acquire(r)
    BY <2>1, AcquireStep
  <2>2. CASE Tags!SkipRun(r) \/ Tags!Die(r) \/ Tags!Reap(r)
    BY <2>2, RestStep
  <2>3. CASE Tags!MatchSegment(r)
    BY <2>3, MatchStep
  <2>4. CASE Tags!ApplySegment(r)
    BY <2>4, ApplyStep
  <2>5. CASE Tags!CommitRun(r)
    BY <2>5, CommitStep
  <2>6. CASE Tags!LeaseLost(r) \/ Tags!DeadlockDetected(r) \/ Tags!Raise(r)
    BY <2>6, FailStep DEF Tags!LeaseLost, Tags!DeadlockDetected, Tags!Raise
  <2>7. QED
    BY <1>5, <2>1, <2>2, <2>3, <2>4, <2>5, <2>6 DEF Tags!RunStep
<1>6. CASE UNCHANGED Tags!vars
  <2>1. UNCHANGED <<matching, tags, audience, count, segment, later, laterNow, poll, write,
                    segRun, segLease, missed>>
    BY <1>6 DEF Tags!vars, Tags!profiles, Tags!sensor
  <2>2. Tags!TypeOK'
    BY <2>1 DEF TagInv, Tags!TypeOK
  <2>3. QED
    BY <2>1, <2>2, StayStep
<1>7. QED
  BY <1>1, <1>2, <1>3, <1>4, <1>5, <1>6 DEF Tags!Next

\* The job's state has its types for any number of profiles and segments: a
\* run retries at most MaxRetries times and writes rows of profiles only.
THEOREM SegmentTypeCorrect ==
  Tags!SegmentAssumption => (Tags!Spec => []Tags!TypeOK)
<1> SUFFICES ASSUME Tags!SegmentAssumption
             PROVE  Tags!Spec => []Tags!TypeOK
  OBVIOUS
<1>1. TagInv => Tags!TypeOK
  BY DEF TagInv
<1>2. Tags!Init => TagInv
  BY InitTag
<1>3. TagInv /\ [Tags!Next]_Tags!vars => TagInv'
  BY StepTag
<1>4. QED
  BY <1>1, <1>2, <1>3, PTL DEF Tags!Spec

\* What a good transaction commits.
LEMMA GoodCommit ==
  ASSUME Tags!SegmentAssumption, TagInv, NEW r \in Tags!Txns, Tags!CommitRun(r)
  PROVE  /\ \A p \in Profiles : Tags!KeepsOtherTags(r, p)
         /\ \A p \in Profiles \ segRun[r].disturbed, s \in Tags!SegmentsOf(r) \ Unsafe :
              Tags!Settled(r, p, s)
         /\ segRun[r].disturbed = {} => \A s \in Tags!SegmentsOf(r) \ Unsafe :
              count'[s] = Tags!Cardinality({p \in Profiles : s \in tags'[p]})
<1> DEFINE x == segRun[r]
<1>1. /\ Tags!TypeOK /\ Good(x, tags, audience, segment) /\ Working(x)
      /\ x.pc = "refresh" /\ x.todo = {} /\ x.scope \subseteq Segments
  BY RowFacts DEF TagInv, Tags!CommitRun, Working, Tags!RunState
<1>2. /\ OnItsWay(x) /\ KeepsOthers(x, tags, audience)
      /\ AgreesSoFar(x, tags, audience, segment)
  BY <1>1 DEF Good
<1>3. \A p \in Profiles : /\ tags'[p] = RowIn(x, tags, audience, p).tags
                          /\ audience'[p] = RowIn(x, tags, audience, p).audience
  BY <1>1, RowFacts DEF Tags!CommitRun
<1>4. Tags!SegmentsOf(r) = x.scope /\ Tags!Concerned(r) = OwnTags(x)
  BY DEF Tags!SegmentsOf, Tags!Concerned, OwnTags
<1>5. \A s \in x.scope \ Unsafe : s \in DOMAIN x.matched
  BY <1>1, <1>2 DEF OnItsWay
<1>6. \A p \in Profiles : Tags!KeepsOtherTags(r, p)
  BY <1>2, <1>3, <1>4 DEF KeepsOthers, Tags!KeepsOtherTags
<1>7. ASSUME NEW p \in Profiles \ x.disturbed, NEW s \in x.scope \ Unsafe
      PROVE  Tags!Settled(r, p, s)
  <2>1. Agrees(RowIn(x, tags, audience, p), p, s, x.matched[s], segment)
    BY <1>2, <1>5 DEF AgreesSoFar
  <2>2. QED
    BY <1>3, <1>5, <2>1 DEF Agrees, Tags!Settled
<1>8. ASSUME x.disturbed = {}, NEW s \in x.scope \ Unsafe
      PROVE  count'[s] = Tags!Cardinality({p \in Profiles : s \in tags'[p]})
  <2>1. s \in Segments /\ s \in DOMAIN x.matched /\ x.matched[s] \subseteq Profiles
    BY <1>1, <1>5, RowFacts
  <2>2. \A p \in Profiles : s \in tags'[p] <=> p \in x.matched[s]
    BY <1>7, <1>8 DEF Tags!Settled
  <2>3. {p \in Profiles : s \in tags'[p]} = x.matched[s]
    BY <2>1, <2>2
  <2>4. count'[s] = Tags!Counted(r, s)
    BY <2>1 DEF Tags!CommitRun
  <2>5. QED
    BY <2>1, <2>3, <2>4 DEF Tags!Counted
<1>9. QED
  BY <1>4, <1>6, <1>7, <1>8

\* Whoever runs beside it, with the lease or without, a run commits the tags of
\* what it matched, on every profile whose row and segments nobody changed since
\* it started, and changes no tag but those of its own segments.
THEOREM SegmentTags ==
  Tags!SegmentAssumption => (Tags!Spec => Tags!RunsSettleTags)
<1> SUFFICES ASSUME Tags!SegmentAssumption
             PROVE  Tags!Spec => Tags!RunsSettleTags
  OBVIOUS
<1>1. Tags!Init => TagInv
  BY InitTag
<1>2. TagInv /\ [Tags!Next]_Tags!vars => TagInv'
  BY StepTag
<1> DEFINE Settles == \A r \in Tags!Txns : Tags!CommitRun(r) =>
       /\ \A p \in Profiles : Tags!KeepsOtherTags(r, p)
       /\ \A p \in Profiles \ segRun[r].disturbed, s \in Tags!SegmentsOf(r) \ Unsafe :
            Tags!Settled(r, p, s)
       /\ segRun[r].disturbed = {} => \A s \in Tags!SegmentsOf(r) \ Unsafe :
            count'[s] = Tags!Cardinality({p \in Profiles : s \in tags'[p]})
<1>3. TagInv => Settles
  BY GoodCommit
<1> HIDE DEF Settles
<1>5. Tags!Spec => [][Settles]_Tags!vars
  BY <1>1, <1>2, <1>3, PTL DEF Tags!Spec
<1>6. QED
  BY <1>5 DEF Settles, Tags!RunsSettleTags
=============================================================================
