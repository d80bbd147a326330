--------------------------- MODULE TrackingAnalytics ---------------------------
(***************************************************************************)
(* customer360-backend/analytics: the job that reads the hourly objects of *)
(* one tracking source, stages a raw profile and a campaign figure for     *)
(* each event, and keeps the source's counters in Redis.  Runs (the        *)
(* three-minute schedule, launches from the API) overlap, die, raise and   *)
(* are retried; two Redis leases serialise them until one expires.         *)
(*                                                                         *)
(* An object is its position in the listing order (receive hour, then      *)
(* batch identifier); it holds one event, and a batch that the event API   *)
(* stored twice is two objects with the same event.                        *)
(***************************************************************************)
EXTENDS Naturals, FiniteSets, FiniteSetsExt

CONSTANTS
  Runs,            \* runs that may be active together
  NObjects,        \* objects of the source's bucket, numbered by key
  HourOf,          \* receive hour in the key of each object
  EventOf,         \* the event each object holds
  MaxHour,         \* bound: the clock stops here
  MaxLate,         \* hours by which a batch may reach the bucket late
  MarkTTL,         \* processed_object_ttl_seconds, in hours
  ObjectBatch,     \* object_batch_size
  MaxFigure,       \* bound: additions to a campaign figure that are told apart
  MaxFaults,       \* bound on crashes, errors and expiries
  None

ASSUME AnalyticsAssumption ==
  /\ IsFiniteSet(Runs) /\ None \notin Runs /\ None \notin Nat
  /\ \A n \in {NObjects, MaxHour, MaxLate, MarkTTL, ObjectBatch, MaxFigure,
               MaxFaults} : n \in Nat
  /\ MarkTTL > 0 /\ ObjectBatch > 0
  /\ HourOf \in [1..NObjects -> 0..MaxHour]
  /\ \A o, p \in 1..NObjects : o < p => HourOf[o] <= HourOf[p]
  /\ DOMAIN EventOf = 1..NObjects

VARIABLES
  hour,      \* the UTC hour
  stored,    \* objects in the bucket
  lease,     \* analytics:tracking-log-run-lock
  lock,      \* analytics:data-source-lock:<source>
  mark,      \* checkpoint and event markers: the hour they expire, 0 if absent
  cursor,    \* last_processed_object, 0 if none
  counter,   \* total_tracked_event_cache and the daily total; None if absent
  counted,   \* tracked-event increments made for each object
  profile,   \* total_tracked_events increments made for each event
  staged,    \* events whose raw profile is committed
  figure,    \* commits to crm_campaign_performance_daily for each object
  summary,   \* sys_data_source.total_tracked_event
  run,       \* [Runs -> the run's local state]
  faults     \* crashes, errors and expiries so far

vars == <<hour, stored, lease, lock, mark, cursor, counter, counted, profile,
          staged, figure, summary, run, faults>>

redisCounts == <<counter, counted, profile>>
database == <<staged, figure, summary>>
locks == <<lease, lock>>

INSTANCE RedisLease WITH NoOwner <- None

Objects == 1..NObjects
Events == {EventOf[o] : o \in Objects}
Keys == (Objects \X {"object"}) \cup (Events \X {"event"})
Counters == {"total", "daily"}

Idle == [pc |-> "idle", todo |-> {}, read |-> 0, done |-> 0, saw |-> FALSE,
         stale |-> 0]

Init ==
  /\ hour = 0
  /\ stored = {}
  /\ lease = None /\ lock = None
  /\ mark = [k \in Keys |-> 0]
  /\ cursor = 0
  /\ counter = [c \in Counters |-> None]
  /\ counted = [o \in Objects |-> 0]
  /\ profile = [e \in Events |-> 0]
  /\ staged = {}
  /\ figure = [o \in Objects |-> 0]
  /\ summary = 0
  /\ run = [r \in Runs |-> Idle]
  /\ faults = 0

(***************************************************************************)
(* The bucket and the clock.                                               *)
(***************************************************************************)
\* The event API stores a batch under its receive hour.
Store(o) ==
  /\ o \notin stored
  /\ hour \in HourOf[o]..HourOf[o] + MaxLate
  /\ stored' = stored \cup {o}
  /\ UNCHANGED <<hour, locks, mark, cursor, redisCounts, database, run, faults>>

Tick ==
  /\ hour < MaxHour
  /\ hour' = hour + 1
  /\ UNCHANGED <<stored, locks, mark, cursor, redisCounts, database, run, faults>>

\* A Redis lease reaches its TTL while its owner is slow, or dead.
Expire ==
  /\ faults < MaxFaults
  /\ \/ lease # None /\ lease' = Expired(lease) /\ UNCHANGED lock
     \/ lock # None /\ lock' = Expired(lock) /\ UNCHANGED lease
  /\ faults' = faults + 1
  /\ UNCHANGED <<hour, stored, mark, cursor, redisCounts, database, run>>

(***************************************************************************)
(* run, _run_locked and the start of _process_source.                      *)
(***************************************************************************)
Goto(r, pc) == run' = [run EXCEPT ![r].pc = pc]

SkipRun(r) ==
  /\ run[r].pc = "idle"
  /\ ~Acquirable(lease)
  /\ run' = [run EXCEPT ![r] = Idle]
  /\ UNCHANGED <<hour, stored, locks, mark, cursor, redisCounts, database, faults>>

AcquireRun(r) ==
  /\ run[r].pc = "idle"
  /\ Acquirable(lease)
  /\ lease' = r
  /\ Goto(r, "source")
  /\ UNCHANGED <<hour, stored, lock, mark, cursor, redisCounts, database, faults>>

\* Another run owns the source: it is skipped, and the run completes.
SkipSource(r) ==
  /\ run[r].pc = "source"
  /\ ~Acquirable(lock)
  /\ lease' = Released(lease, r)
  /\ run' = [run EXCEPT ![r] = Idle]
  /\ UNCHANGED <<hour, stored, lock, mark, cursor, redisCounts, database, faults>>

AcquireSource(r) ==
  /\ run[r].pc = "source"
  /\ Acquirable(lock)
  /\ lock' = r
  /\ Goto(r, "list")
  /\ UNCHANGED <<hour, stored, lease, mark, cursor, redisCounts, database, faults>>

\* _source_start_after: the hour being received is listed from the beginning.
StartAfter == IF cursor # 0 /\ HourOf[cursor] = hour THEN 0 ELSE cursor

List(r) ==
  /\ run[r].pc = "list"
  /\ run' = [run EXCEPT ![r].pc = "next",
                        ![r].todo = {o \in stored : o > StartAfter},
                        ![r].done = 0, ![r].saw = FALSE, ![r].stale = 0]
  /\ UNCHANGED <<hour, stored, locks, mark, cursor, redisCounts, database, faults>>

(***************************************************************************)
(* The loop over the listed objects.                                       *)
(***************************************************************************)
Current(r) == Min(run[r].todo)

LoopEnds(r) == run[r].todo = {} \/ run[r].done >= ObjectBatch

\* Both leases are refreshed before each object; a lost one raises (Raise).
NextObject(r) ==
  /\ run[r].pc = "next"
  /\ ~LoopEnds(r)
  /\ Refreshable(lease, r) /\ Refreshable(lock, r)
  /\ Goto(r, "mark")
  /\ UNCHANGED <<hour, stored, locks, mark, cursor, redisCounts, database, faults>>

Live(k) == mark[k] > hour
SetMark(k) == mark' = [mark EXCEPT ![k] = hour + MarkTTL]

\* record_profile_event_analytics: SET NX of the event's marker, and only for
\* a new one HINCRBY of the profile's counters.
MarkEvent(r) ==
  LET k == <<EventOf[Current(r)], "event">> IN
  /\ run[r].pc = "mark"
  /\ IF Live(k) THEN UNCHANGED mark /\ Goto(r, "figure")
                ELSE SetMark(k) /\ Goto(r, "profile")
  /\ UNCHANGED <<hour, stored, locks, cursor, redisCounts, database, faults>>

CountProfileEvent(r) ==
  /\ run[r].pc = "profile"
  /\ profile' = [profile EXCEPT ![EventOf[Current(r)]] = @ + 1]
  /\ Goto(r, "figure")
  /\ UNCHANGED <<hour, stored, locks, mark, cursor, counter, counted, database,
                 faults>>

\* upsert_campaign_performance_event adds to the day's row and commits.
UpsertCampaignPerformance(r) ==
  /\ run[r].pc = "figure"
  /\ figure' = [figure EXCEPT ![Current(r)] = IF @ < MaxFigure THEN @ + 1 ELSE @]
  /\ Goto(r, "commit")
  /\ UNCHANGED <<hour, stored, locks, mark, cursor, redisCounts, staged, summary,
                 faults>>

\* Mutant: the raw profiles are committed after the checkpoint only.
CommitLater(r) ==
  /\ run[r].pc = "commit"
  /\ Goto(r, "checkpoint")
  /\ UNCHANGED <<hour, stored, locks, mark, cursor, redisCounts, database, faults>>

\* dao_session.commit(): the upserted raw profile is durable.
CommitProfiles(r) ==
  /\ run[r].pc = "commit"
  /\ staged' = staged \cup {EventOf[Current(r)]}
  /\ Goto(r, "checkpoint")
  /\ UNCHANGED <<hour, stored, locks, mark, cursor, redisCounts, figure, summary,
                 faults>>

\* Mutant: the checkpoint never expires and is not asked for.
IncrementAlways(r) ==
  /\ run[r].pc = "checkpoint"
  /\ SetMark(<<Current(r), "object">>)
  /\ counted' = [counted EXCEPT ![Current(r)] = @ + 1]
  /\ run' = [run EXCEPT ![r].pc = "total", ![r].done = @ + 1]
  /\ UNCHANGED <<hour, stored, locks, cursor, counter, profile, database, faults>>

\* increment_hourly_count: one script sets the checkpoint and counts, or
\* finds the checkpoint there.  stale counts the objects a run counts after
\* it has lost a lease.
IncrementHourlyCount(r) ==
  LET k == <<Current(r), "object">> IN
  /\ run[r].pc = "checkpoint"
  /\ IF Live(k)
     THEN /\ run' = [run EXCEPT ![r].pc = "cursor", ![r].saw = TRUE]
          /\ UNCHANGED <<mark, counted>>
     ELSE /\ SetMark(k)
          /\ counted' = [counted EXCEPT ![Current(r)] = @ + 1]
          /\ run' = [run EXCEPT ![r].pc = "total", ![r].done = @ + 1,
               ![r].stale = IF lease = r /\ lock = r THEN @ ELSE @ + 1]
  /\ UNCHANGED <<hour, stored, locks, cursor, counter, profile, database, faults>>

Value(c) == IF counter[c] = None THEN 0 ELSE counter[c]
Writing(c) == IF c = "total" THEN "write total" ELSE "write daily"
AfterCounter(c) == IF c = "total" THEN "daily" ELSE "cursor"

\* increment_cached_total and increment_daily_total read, then write.
ReadCounter(r, c) ==
  /\ run[r].pc = c
  /\ run' = [run EXCEPT ![r].pc = Writing(c), ![r].read = Value(c)]
  /\ UNCHANGED <<hour, stored, locks, mark, cursor, redisCounts, database, faults>>

WriteCounter(r, c) ==
  /\ run[r].pc = Writing(c)
  /\ counter' = [counter EXCEPT ![c] = run[r].read + 1]
  /\ run' = [run EXCEPT ![r].pc = AfterCounter(c), ![r].read = 0]
  /\ UNCHANGED <<hour, stored, locks, mark, cursor, counted, profile, database,
                 faults>>

SaveCursor(r) ==
  /\ run[r].pc = "cursor"
  /\ cursor' = Current(r)
  /\ run' = [run EXCEPT ![r].pc = "next", ![r].todo = @ \ {Current(r)}]
  /\ UNCHANGED <<hour, stored, locks, mark, redisCounts, database, faults>>

(***************************************************************************)
(* The end of _process_source.                                             *)
(***************************************************************************)
\* With no cached total, a bucket that had checkpointed objects is counted.
RebuildTotal(r) ==
  /\ run[r].pc = "next" /\ LoopEnds(r)
  /\ counter["total"] = None /\ run[r].saw
  /\ run' = [run EXCEPT ![r].pc = "rebuilt", ![r].read = Cardinality(stored)]
  /\ UNCHANGED <<hour, stored, locks, mark, cursor, redisCounts, database, faults>>

CacheRebuiltTotal(r) ==
  /\ run[r].pc = "rebuilt"
  /\ counter' = [counter EXCEPT !["total"] = run[r].read]
  /\ Goto(r, "summary")
  /\ UNCHANGED <<hour, stored, locks, mark, cursor, counted, profile, database,
                 faults>>

ReadTotal(r) ==
  /\ run[r].pc = "next" /\ LoopEnds(r)
  /\ ~(counter["total"] = None /\ run[r].saw)
  /\ run' = [run EXCEPT ![r].pc = "summary", ![r].read = Value("total")]
  /\ UNCHANGED <<hour, stored, locks, mark, cursor, redisCounts, database, faults>>

UpdateSummary(r) ==
  /\ run[r].pc = "summary"
  /\ summary' = run[r].read
  /\ Goto(r, "release")
  /\ UNCHANGED <<hour, stored, locks, mark, cursor, redisCounts, staged, figure,
                 faults>>

\* release_source_lock, then lease.release().
Release(r) ==
  /\ run[r].pc = "release"
  /\ lock' = Released(lock, r) /\ lease' = Released(lease, r)
  /\ run' = [run EXCEPT ![r] = Idle]
  /\ UNCHANGED <<hour, stored, mark, cursor, redisCounts, database, faults>>

(***************************************************************************)
(* Failures.                                                               *)
(***************************************************************************)
Running(r) == run[r].pc # "idle"

\* An exception: rollback and both leases released; the op's retry policy or
\* the schedule starts it again.
Abort(r) ==
  /\ lock' = Released(lock, r) /\ lease' = Released(lease, r)
  /\ run' = [run EXCEPT ![r] = Idle]
  /\ UNCHANGED <<hour, stored, mark, cursor, redisCounts, database>>

LeaseLost(r) ==
  /\ run[r].pc = "next" /\ ~LoopEnds(r)
  /\ ~(Refreshable(lease, r) /\ Refreshable(lock, r))
  /\ Abort(r)
  /\ UNCHANGED faults

\* A call to S3, Redis or PostgreSQL raises.
Raise(r) ==
  /\ Running(r) /\ faults < MaxFaults
  /\ faults' = faults + 1
  /\ Abort(r)

\* The worker process dies: nothing is released.
Crash(r) ==
  /\ Running(r) /\ faults < MaxFaults
  /\ faults' = faults + 1
  /\ run' = [run EXCEPT ![r] = Idle]
  /\ UNCHANGED <<hour, stored, locks, mark, cursor, redisCounts, database>>

-----------------------------------------------------------------------------
Step(r) ==
  \/ SkipRun(r) \/ AcquireRun(r) \/ SkipSource(r) \/ AcquireSource(r) \/ List(r)
  \/ NextObject(r) \/ MarkEvent(r) \/ CountProfileEvent(r)
  \/ UpsertCampaignPerformance(r) \/ CommitProfiles(r)
  \/ IncrementHourlyCount(r) \/ SaveCursor(r)
  \/ \E c \in Counters : ReadCounter(r, c) \/ WriteCounter(r, c)
  \/ RebuildTotal(r) \/ CacheRebuiltTotal(r) \/ ReadTotal(r)
  \/ UpdateSummary(r) \/ Release(r) \/ LeaseLost(r)

Next ==
  \/ \E o \in Objects : Store(o)
  \/ Tick \/ Expire
  \/ \E r \in Runs : Step(r) \/ Raise(r) \/ Crash(r)

Spec == Init /\ [][Next]_vars

\* The schedule starts a run every three minutes and a started run goes on.
FairSpec == Spec /\ \A r \in Runs : WF_vars(Step(r))

-----------------------------------------------------------------------------
(* Properties                                                              *)

\* Where a run is before it has counted an object, and while it is at one.
ToCount == {"mark", "profile", "figure", "commit", "checkpoint"}
AtObject == ToCount \cup {"total", "write total", "daily", "write daily", "cursor"}

RunState ==
  [pc : AtObject \cup {"idle", "source", "list", "next", "rebuilt", "summary", "release"},
   todo : SUBSET Objects, read : Nat, done : 0..ObjectBatch, saw : BOOLEAN, stale : Nat]

TypeOK ==
  /\ hour \in 0..MaxHour
  /\ stored \subseteq Objects /\ staged \subseteq Events
  /\ lease \in Runs \cup {None} /\ lock \in Runs \cup {None}
  /\ mark \in [Keys -> 0..MaxHour + MarkTTL]
  /\ cursor \in Objects \cup {0}
  /\ counter \in [Counters -> Nat \cup {None}]
  /\ counted \in [Objects -> Nat] /\ profile \in [Events -> Nat]
  /\ figure \in [Objects -> 0..MaxFigure]
  /\ summary \in Nat /\ faults \in 0..MaxFaults
  /\ run \in [Runs -> RunState]

\* "Persistent per-source checkpoints so retries do not double-count processed
\* objects", as far as the checkpoint's TTL carries it: however runs overlap,
\* die or are retried, the hourly counter takes an object, and a profile takes
\* an event, at most once in MarkTTL hours.
Allowed(first) == 1 + (hour - first) \div MarkTTL
FirstHour(e) == Min({HourOf[o] : o \in {p \in Objects : EventOf[p] = e}})
OncePerTTL ==
  /\ \A o \in Objects : counted[o] > 0 => counted[o] <= Allowed(HourOf[o])
  /\ \A e \in Events : profile[e] > 0 => profile[e] <= Allowed(FirstHour(e))

\* No object is checkpointed, so hidden from later runs' counters, before the
\* raw profiles of its events are committed for identity resolution.
CheckpointedIsStaged == \A o \in Objects : counted[o] > 0 => EventOf[o] \in staged

\* A run that lost a lease while it was slow counts at most the object it was
\* at: the refresh before the next one stops it ("fail closed").
StaleRunStops == \A r \in Runs : run[r].stale <= 1

\* The increments of the hourly count, one by one.
Increments == UNION {{o} \X (1..counted[o]) : o \in Objects}

\* As long as nothing failed, whatever runs were started together, the cached
\* totals that are read, added to and written back agree with the counters
\* that are incremented by the script, and so does the summary.
TotalsAgree ==
  (faults = 0 /\ \A r \in Runs : ~Running(r)) =>
    LET n == Cardinality(Increments) IN
    /\ \A c \in Counters : Value(c) = n
    /\ summary = n

\* "The variant-aware partial unique index makes retries idempotent at the
\* daily aggregate level when the same object is replayed."
PerformanceOnce == \A o \in Objects : figure[o] <= 1

\* "A lexicographic StartAfter cursor can therefore hide a later object whose
\* UUID sorts before the previously saved object": with the active hour listed
\* from its beginning, every stored object is in the end counted.
EveryObjectCounted == \A o \in Objects : o \in stored ~> counted[o] > 0
=============================================================================
