--------------------------- MODULE SegmentRecompute ---------------------------
(***************************************************************************)
(* customer360-backend/segmentation and the API that shares its tables.    *)
(* A Dagster sensor polls for profiles changed since its cursor and        *)
(* requests a run, the API requests runs on demand, and a run, under a     *)
(* Redis lease, re-evaluates every segment in one READ COMMITTED           *)
(* transaction: it tags the profiles that match, untags the others, adds   *)
(* and removes audience tags and writes member counts.  The API edits the  *)
(* audience tags of a segment, and then submits a run for it or recomputes *)
(* it in a transaction of its own, without the lease.                      *)
(*                                                                         *)
(* Timestamps are modelled by where they lie: an updated_at is that of its *)
(* transaction's start, and all that is asked of it is whether it is later *)
(* than the cursor, or than the now_iso the cursor is about to become.     *)
(* One tenant, whose segments stay active.                                 *)
(***************************************************************************)
EXTENDS Naturals, FiniteSets

CONSTANTS
  Profiles, Segments,
  Unsafe,       \* segments whose sql_rules are missing or unsafe
  AudienceTags,
  First,        \* [Segments -> Definitions], to begin with
  Edits,        \* the audience_tags that an edit may give a segment
  Overwrites,   \* the tags that another writer may give a profile
  Sensor, Demand, \* the run the sensor requests, a run the API requests
  Inline,       \* the recompute that the API runs itself
  Scopes,       \* sets of segments that a run on demand is limited to
  MaxChanges,   \* bound: profile transactions
  MaxRequests,  \* bound: runs on demand and edits of segments
  MaxRetries,   \* RetryPolicy(max_retries)
  MaxFaults,    \* bound: failures and deaths of an attempt, expiries under it
  None

Runs == {Sensor, Demand}
Txns == Runs \cup {Inline}
Rows == [tags : SUBSET Segments, audience : SUBSET AudienceTags]

\* carries: the audience_tags of a segment.  requires: the tags of which its
\* sql_rules ask for one, (rules) AND (audience_tags && ARRAY[...]), or {}.
Definitions == [carries : SUBSET AudienceTags, requires : SUBSET AudienceTags]

ASSUME SegmentAssumption ==
  /\ Sensor # Demand /\ Inline \notin Runs /\ None \notin Txns
  /\ IsFiniteSet(Profiles) /\ None \notin Segments
  /\ Unsafe \subseteq Segments /\ First \in [Segments -> Definitions]
  /\ Edits \subseteq SUBSET AudienceTags /\ Overwrites \subseteq Rows
  /\ Scopes \subseteq SUBSET Segments
  /\ \A n \in {MaxChanges, MaxRequests, MaxRetries, MaxFaults} : n \in Nat

VARIABLES
  matching,   \* [Profiles -> segments whose own rules select the row]
  tags,       \* [Profiles -> segmentation_tags]
  audience,   \* [Profiles -> audience_tags]
  count,      \* [Segments -> member_count]
  segment,    \* [Segments -> Definitions]
  later,      \* profiles with updated_at > cursor
  laterNow,   \* profiles with updated_at > now_iso of the poll under way
  write,      \* [Profiles -> stamp of an open transaction, or None]
  poll,       \* the sensor's tick: "idle", "started", "found", "nothing"
  run,        \* [Txns -> local state, with the open transaction's writes]
  lease,      \* segmentation lock
  missed,     \* history: has a cause of staleness happened (see Tagged)?
  changes, requests, faults

profiles == <<matching, tags, audience, count>>
sensor == <<later, laterNow, poll>>
bounds == <<changes, requests, faults>>
vars == <<profiles, segment, sensor, write, run, lease, missed, bounds>>

INSTANCE RedisLease WITH NoOwner <- None

\* A transaction started after now_iso, between the cursor and now_iso, or
\* before the cursor.
Stamps == {"after now", "after cursor", "before cursor"}

\* asked: the segments as the run reads them when it starts.  due: the tags of
\* some change wait for this run.  disturbed (history): profiles whose row, or
\* the segments they are matched against, others have changed since.
Idle == [pc |-> "idle", stamp |-> None, asked |-> <<>>, todo |-> {}, seg |-> None,
         match |-> {}, rows |-> <<>>, matched |-> <<>>, tries |-> 0, scope |-> {},
         due |-> FALSE, disturbed |-> {}]

Init ==
  /\ matching = [p \in Profiles |-> {}]
  /\ tags = [p \in Profiles |-> {}]
  /\ audience = [p \in Profiles |-> {}]
  /\ count = [s \in Segments |-> 0]
  /\ segment = First
  /\ later = {} /\ laterNow = {}
  /\ write = [p \in Profiles |-> None]
  /\ poll = "idle"
  /\ run = [r \in Txns |-> Idle]
  /\ lease = None
  /\ missed = FALSE
  /\ changes = 0 /\ requests = 0 /\ faults = 0

\* The run has read the segments and has not committed.
Open(r) == run[r].pc \in {"refresh", "apply"}

\* The rows P change under the runs other than r.
Disturbed(r, P) ==
  [q \in Txns |-> IF q # r /\ Open(q) THEN [run[q] EXCEPT !.disturbed = @ \cup P]
                  ELSE run[q]]

(***************************************************************************)
(* Profile writers: identity resolution, PATCH of a profile, tag actions   *)
(* of a campaign.  NOW() is the start of their transaction, which may      *)
(* commit much later.                                                      *)
(***************************************************************************)
BeginChange(p) ==
  /\ write[p] = None /\ changes < MaxChanges
  /\ changes' = changes + 1
  /\ write' = [write EXCEPT ![p] = "after now"]
  /\ UNCHANGED <<profiles, segment, sensor, run, lease, missed, requests,
                 faults>>

\* The rows with the stamp of a transaction that commits.
Later(P, stamp) == IF stamp = "before cursor" THEN later ELSE later \cup P
LaterNow(P, stamp) == IF stamp = "after now" THEN laterNow \cup P ELSE laterNow

\* The cursor passes the stamp, and no run is requested after the commit.
Passed(stamp) ==
  stamp = "before cursor" \/ (stamp = "after cursor" /\ poll = "nothing")

CommitChange(p) ==
  /\ write[p] # None
  /\ \A r \in Txns : p \notin DOMAIN run[r].rows
  /\ \E m \in SUBSET (Segments \ Unsafe) : matching' = [matching EXCEPT ![p] = m]
  /\ \E row \in Overwrites \cup {[tags |-> tags[p], audience |-> audience[p]]} :
       /\ tags' = [tags EXCEPT ![p] = row.tags]
       /\ audience' = [audience EXCEPT ![p] = row.audience]
  /\ later' = Later({p}, write[p])
  /\ laterNow' = LaterNow({p}, write[p])
  /\ run' = Disturbed(None, {p})
  /\ write' = [write EXCEPT ![p] = None]
  /\ missed' = (missed \/ Passed(write[p]))
  /\ UNCHANGED <<count, segment, poll, lease, bounds>>

(***************************************************************************)
(* The API's edits of a segment: audience_tags and the rules composed with *)
(* them are updated and committed.  PATCH then submits a run for the       *)
(* segment, and goes on when that fails; POST audience-tags recomputes the *)
(* segment there and then.                                                 *)
(***************************************************************************)
EditSegment(s, T) ==
  /\ requests < MaxRequests
  /\ requests' = requests + 1
  /\ \A r \in Txns : s \notin DOMAIN run[r].matched
  /\ segment' = [segment EXCEPT ![s] = [carries |-> T, requires |-> T]]
  /\ UNCHANGED <<profiles, sensor, write, lease, changes, faults>>

Queued(S, due) == [Idle EXCEPT !.pc = "queued", !.scope = S, !.due = due]

\* A transaction that has read the segments.
Started(local, asked) ==
  [local EXCEPT !.pc = "refresh", !.stamp = "after now", !.asked = asked,
                !.todo = local.scope]

PatchSegment(s, T) ==
  /\ EditSegment(s, T)
  /\ run[Demand].pc = "idle"
  /\ run' = [Disturbed(None, Profiles) EXCEPT ![Demand] = Queued({s}, TRUE)]
  /\ UNCHANGED missed

\* The submission fails, or audience-tags is posted without recompute_profiles.
EditOnly(s, T) ==
  /\ EditSegment(s, T)
  /\ run' = Disturbed(None, Profiles)
  /\ missed' = TRUE

PostAudienceTags(s, T) ==
  /\ EditSegment(s, T)
  /\ run[Inline].pc = "idle"
  /\ run' = [Disturbed(None, Profiles) EXCEPT
              ![Inline] = Started(Queued({s}, TRUE), segment')]
  /\ UNCHANGED missed

(***************************************************************************)
(* segmentation_poll_sensor.                                               *)
(***************************************************************************)
RunActive == \E r \in Runs : run[r].pc # "idle"

Aged(stamp, from, to) == IF stamp = from THEN to ELSE stamp
AgeAll(from, to) ==
  /\ write' = [p \in Profiles |-> Aged(write[p], from, to)]
  /\ run' = [r \in Txns |-> [run[r] EXCEPT !.stamp = Aged(@, from, to)]]

\* No run is queued or active; now_iso is taken before the count.
PollStart ==
  /\ poll = "idle" /\ ~RunActive
  /\ poll' = "started"
  /\ laterNow' = {}
  /\ AgeAll("after now", "after cursor")
  /\ UNCHANGED <<profiles, segment, later, lease, missed, bounds>>

\* count_recently_changed_master_profiles(since).
PollCount ==
  /\ poll = "started"
  /\ poll' = IF later # {} THEN "found" ELSE "nothing"
  /\ UNCHANGED <<profiles, segment, later, laterNow, write, run, lease, missed,
                 bounds>>

\* The count fails: the tick is skipped and the cursor stays.
PollError ==
  /\ poll = "started" /\ faults < MaxFaults
  /\ faults' = faults + 1
  /\ poll' = "idle"
  /\ UNCHANGED <<profiles, segment, later, laterNow, write, run, lease, missed,
                 changes, requests>>

\* Mutant: the cursor becomes the time of its update.
CursorIsUpdateTime == {}

\* update_cursor(now_iso): what is later than the cursor from now on.
CursorIsPollTime == laterNow

\* update_cursor, and a RunRequest if something changed.
PollUpdate ==
  /\ poll \in {"found", "nothing"}
  /\ poll' = "idle"
  /\ later' = CursorIsPollTime
  /\ write' = [p \in Profiles |-> Aged(write[p], "after cursor", "before cursor")]
  /\ run' = [r \in Txns |->
       IF r = Sensor /\ poll = "found" THEN Queued(Segments, TRUE)
       ELSE [run[r] EXCEPT !.stamp = Aged(@, "after cursor", "before cursor")]]
  /\ UNCHANGED <<profiles, segment, laterNow, lease, missed, bounds>>

\* POST /segments/admin/recompute-all, or one segment.
RequestDemand ==
  /\ run[Demand].pc = "idle" /\ requests < MaxRequests
  /\ requests' = requests + 1
  /\ \E S \in Scopes : run' = [run EXCEPT ![Demand] = Queued(S, FALSE)]
  /\ UNCHANGED <<profiles, segment, sensor, write, lease, missed, changes, faults>>

(***************************************************************************)
(* recompute_all_active_segments, and recompute_segment_membership of the  *)
(* API, which does the same to one segment.                                *)
(***************************************************************************)

\* The segments that a run is asked for.
SegmentsOf(r) == run[r].scope

Acquire(r) ==
  /\ run[r].pc = "queued"
  /\ Acquirable(lease)
  /\ lease' = r
  /\ run' = [run EXCEPT ![r] = Started(@, segment)]
  /\ UNCHANGED <<profiles, segment, sensor, write, missed, bounds>>

\* Another run owns the lease: a summary of zeros, and success.
SkipRun(r) ==
  /\ run[r].pc = "queued"
  /\ ~Acquirable(lease)
  /\ run' = [run EXCEPT ![r] = Idle]
  /\ missed' = (missed \/ run[r].due)
  /\ UNCHANGED <<profiles, segment, sensor, write, lease, bounds>>

\* A row as the run's transaction sees it.
Row(r, p) == IF p \in DOMAIN run[r].rows THEN run[r].rows[p]
             ELSE [tags |-> tags[p], audience |-> audience[p]]

\* audience_tags && ARRAY[required]
Meets(has, required) == required = {} \/ has \cap required # {}

\* The sql_rules that the run has read, on the rows that it sees.
Matches(r, s) ==
  {p \in Profiles :
     /\ s \in matching[p]
     /\ Meets(Row(r, p).audience, run[r].asked[s].requires)}

\* lease.refresh() before each segment, which the API does without; a segment
\* with unsafe rules is passed over, any other fills _c360_segment_matches.
MatchSegment(r) ==
  /\ run[r].pc = "refresh"
  /\ r = Inline \/ Refreshable(lease, r)
  /\ \E s \in run[r].todo :
       run' = [run EXCEPT ![r].todo = @ \ {s},
         ![r].seg = IF s \in Unsafe THEN None ELSE s,
         ![r].match = IF s \in Unsafe THEN {} ELSE Matches(r, s),
         ![r].pc = IF s \in Unsafe THEN "refresh" ELSE "apply"]
  /\ UNCHANGED <<profiles, segment, sensor, write, lease, missed, bounds>>

\* own: the segment's audience tags as the run has read them.
WithSegment(row, s, own) ==
  [tags |-> row.tags \cup {s}, audience |-> row.audience \cup own]

\* Mutant: a tag another segment carries is removed as well.
WithoutSharedTags(row, s, own) ==
  [tags |-> row.tags \ {s}, audience |-> row.audience \ own]

\* The segment's audience tags go, but for those that another segment the
\* profile is tagged with carries by now.
WithoutSegment(row, s, own) ==
  [tags |-> row.tags \ {s},
   audience |-> {u \in row.audience :
     u \in own => \E t \in row.tags \ {s} : u \in segment[t].carries}]

\* _recompute_one_segment: tags in, tags out, audience tags, member_count.
Recomputed(r, p) ==
  LET s == run[r].seg
      own == run[r].asked[s].carries
  IN IF p \in run[r].match THEN WithSegment(Row(r, p), s, own)
                            ELSE WithoutSegment(Row(r, p), s, own)

\* The rows it updates: those it changes, and those of the others with one of
\* the segment's audience tags, changed or not.
Touched(r) ==
  {p \in Profiles :
     \/ Recomputed(r, p) # Row(r, p)
     \/ /\ p \notin run[r].match
        /\ Row(r, p).audience \cap run[r].asked[run[r].seg].carries # {}}

\* A row that an open transaction has written makes another run's UPDATE wait.
Waits(r, q) ==
  /\ run[r].pc = "apply" /\ q # r
  /\ Touched(r) \cap DOMAIN run[q].rows # {} \/ run[r].seg \in DOMAIN run[q].matched

ApplySegment(r) ==
  /\ run[r].pc = "apply"
  /\ \A q \in Txns : ~Waits(r, q)
  /\ run' = [run EXCEPT ![r].pc = "refresh", ![r].seg = None, ![r].match = {},
       ![r].rows = [p \in DOMAIN @ \cup Touched(r) |->
                      IF p \in Touched(r) THEN Recomputed(r, p) ELSE @[p]],
       ![r].matched = [s \in DOMAIN @ \cup {run[r].seg} |->
                         IF s = run[r].seg THEN run[r].match ELSE @[s]]]
  /\ UNCHANGED <<profiles, segment, sensor, write, lease, missed, bounds>>

\* The member_count of a segment as the run's transaction sees it.
Counted(r, s) ==
  IF s \in DOMAIN run[r].matched THEN Cardinality(run[r].matched[s]) ELSE count[s]

\* All segments of the run become visible together; lease.release().
CommitRun(r) ==
  LET rows == DOMAIN run[r].rows IN
  /\ run[r].pc = "refresh" /\ run[r].todo = {}
  /\ tags' = [p \in Profiles |-> Row(r, p).tags]
  /\ audience' = [p \in Profiles |-> Row(r, p).audience]
  /\ count' = [s \in Segments |-> Counted(r, s)]
  /\ later' = Later(rows, run[r].stamp)
  /\ laterNow' = LaterNow(rows, run[r].stamp)
  /\ run' = [Disturbed(r, rows) EXCEPT ![r] = Idle]
  /\ lease' = Released(lease, r)
  /\ missed' = (missed \/ (rows # {} /\ Passed(run[r].stamp)))
  /\ UNCHANGED <<matching, segment, poll, write, bounds>>

(***************************************************************************)
(* Failures.  An exception rolls back and releases the lease; the op is    *)
(* tried again, at most MaxRetries times, a request of the API is not.     *)
(***************************************************************************)
Fail(r) ==
  LET again == r # Inline /\ run[r].tries < MaxRetries IN
  /\ run' = [run EXCEPT ![r] = IF ~again THEN Idle
               ELSE [Queued(@.scope, @.due) EXCEPT !.tries = run[r].tries + 1]]
  /\ missed' = (missed \/ (run[r].due /\ ~again))
  /\ lease' = Released(lease, r)
  /\ UNCHANGED <<profiles, segment, sensor, write, changes, requests>>

LeaseLost(r) ==
  /\ r # Inline
  /\ run[r].pc = "refresh" /\ run[r].todo # {}
  /\ ~Refreshable(lease, r)
  /\ Fail(r) /\ UNCHANGED faults

\* PostgreSQL ends one of the transactions that wait for each other.
DeadlockDetected(r) ==
  /\ \E q, t \in Txns : Waits(r, q) /\ (Waits(q, r) \/ (Waits(q, t) /\ Waits(t, r)))
  /\ Fail(r) /\ UNCHANGED faults

Raise(r) ==
  /\ Open(r) /\ faults < MaxFaults
  /\ faults' = faults + 1
  /\ Fail(r)

\* The process of a run dies: its transaction is undone, its lease stays.
Die(r) ==
  /\ Open(r) /\ faults < MaxFaults
  /\ faults' = faults + 1
  /\ run' = [run EXCEPT ![r] = [Idle EXCEPT !.pc = IF r = Inline THEN "idle" ELSE "dead"]]
  /\ missed' = (missed \/ run[r].due)
  /\ UNCHANGED <<profiles, segment, sensor, write, lease, changes, requests>>

\* Run monitoring ends a run without a process, and resumes none.
Reap(r) ==
  /\ run[r].pc = "dead"
  /\ run' = [run EXCEPT ![r] = Idle]
  /\ UNCHANGED <<profiles, segment, sensor, write, lease, missed, bounds>>

\* A segment takes longer than the lease.
ExpireLease ==
  /\ lease # None /\ Open(lease) /\ faults < MaxFaults
  /\ faults' = faults + 1
  /\ lease' = Expired(lease)
  /\ UNCHANGED <<profiles, segment, sensor, write, run, missed, changes, requests>>

\* The lease of a run that has died.
ExpireDead ==
  /\ lease # None /\ ~Open(lease)
  /\ lease' = Expired(lease)
  /\ UNCHANGED <<profiles, segment, sensor, write, run, missed, bounds>>

-----------------------------------------------------------------------------
Poll == PollStart \/ PollCount \/ PollUpdate
Edit == \E s \in Segments \ Unsafe, T \in Edits :
          PatchSegment(s, T) \/ EditOnly(s, T) \/ PostAudienceTags(s, T)
RunStep(r) ==
  \/ MatchSegment(r) \/ ApplySegment(r) \/ CommitRun(r)
  \/ LeaseLost(r) \/ DeadlockDetected(r)
  \/ r \in Runs /\ (Acquire(r) \/ SkipRun(r) \/ Reap(r))

Next ==
  \/ \E p \in Profiles : BeginChange(p) \/ CommitChange(p)
  \/ Poll \/ PollError \/ RequestDemand \/ Edit \/ ExpireLease \/ ExpireDead
  \/ \E r \in Txns : RunStep(r) \/ Raise(r) \/ Die(r)

Spec == Init /\ [][Next]_vars

\* The Dagster daemon ticks the sensor, launches queued runs and reaps dead
\* ones; a transaction that nobody waits for goes on.
FairSpec == Spec /\ WF_vars(Poll) /\ \A r \in Txns : WF_vars(RunStep(r))

-----------------------------------------------------------------------------
(* Properties                                                              *)

Members == 0..Cardinality(Profiles)
Partial(D, R) == UNION {[P -> R] : P \in SUBSET D}
RunState ==
  [pc : {"idle", "queued", "refresh", "apply", "dead"}, stamp : Stamps \cup {None},
   asked : [Segments -> Definitions] \cup {<<>>}, todo : SUBSET Segments,
   seg : Segments \cup {None}, match : SUBSET Profiles, rows : Partial(Profiles, Rows),
   matched : Partial(Segments, SUBSET Profiles), tries : 0..MaxRetries,
   scope : SUBSET Segments, due : BOOLEAN, disturbed : SUBSET Profiles]

TypeOK ==
  /\ matching \in [Profiles -> SUBSET Segments]
  /\ tags \in [Profiles -> SUBSET Segments]
  /\ audience \in [Profiles -> SUBSET AudienceTags]
  /\ count \in [Segments -> Members]
  /\ segment \in [Segments -> Definitions]
  /\ later \subseteq Profiles /\ laterNow \subseteq Profiles
  /\ write \in [Profiles -> Stamps \cup {None}]
  /\ lease \in Runs \cup {None}
  /\ poll \in {"idle", "started", "found", "nothing"}
  /\ run \in [Txns -> RunState]
  /\ missed \in BOOLEAN

\* The audience tags that a run may add or remove.
Concerned(r) == UNION {run[r].asked[s].carries : s \in SegmentsOf(r)}

\* What a run commits for a segment s and a profile p that nobody disturbs.
Settled(r, p, s) ==
  /\ s \in DOMAIN run[r].matched
  /\ s \in tags'[p] <=> p \in run[r].matched[s]
  /\ s \in tags'[p] => segment[s].carries \subseteq audience'[p]
  /\ \A u \in segment[s].carries \cap audience'[p] :
       \E t \in tags'[p] : u \in segment[t].carries

\* A run changes no tag but those of its own segments.
KeepsOtherTags(r, p) ==
  /\ tags'[p] \ SegmentsOf(r) = tags[p] \ SegmentsOf(r)
  /\ audience'[p] \ Concerned(r) = audience[p] \ Concerned(r)

\* _recompute_one_segment writes tags, audience tags and member_count with
\* different statements, over the segments of a run in any order.  What a run
\* commits agrees with what it matched, from whatever tags it starts: a profile
\* whose row and segments no other transaction changed since carries the tag of
\* exactly the segments that matched it, all the audience tags of those, and
\* none of the others' but what it shares with one of its own; the member_count
\* is the number of tagged profiles.  And whoever runs beside it, with the lease
\* or without, no tag that another transaction has committed is overwritten.
RunsSettleTags ==
  [][\A r \in Txns : CommitRun(r) =>
       /\ \A p \in Profiles : KeepsOtherTags(r, p)
       /\ \A p \in Profiles \ run[r].disturbed, s \in SegmentsOf(r) \ Unsafe :
            Settled(r, p, s)
       /\ run[r].disturbed = {} => \A s \in SegmentsOf(r) \ Unsafe :
            count'[s] = Cardinality({p \in Profiles : s \in tags'[p]})]_vars

\* The segments whose sql_rules select the committed row of p.
Selecting(p) == {s \in matching[p] : Meets(audience[p], segment[s].requires)}

\* "At most one poll interval of staleness": a change of a profile, or of the
\* audience tags of a segment, reaches the tags of the profiles, unless a cause
\* of staleness happens: a transaction that changes profiles commits after the
\* cursor has passed its updated_at; the run that a change waits for finds the
\* lease taken, runs out of retries or dies; an edit's submission fails.
Tagged(p) == tags[p] \ Unsafe = Selecting(p)
EveryChangeTagged == []~missed => \A p \in Profiles : []<>Tagged(p)

\* The schema says of a segment's audience_tags that they are synced to the
\* profiles on recompute.  A run over all segments leaves the tags that none of
\* them carries any more.
AudienceSynced ==
  [][\A r \in Txns : CommitRun(r) /\ SegmentsOf(r) = Segments /\ run[r].disturbed = {} =>
       \A p \in Profiles :
         audience'[p] = UNION {segment[s].carries : s \in tags'[p]}]_vars

\* "A no-op (skip) tick whenever nothing changed."  A run rewrites, with a new
\* updated_at, the rows outside a segment that share a tag with it.
SensorRests == <>[](run[Sensor].pc # "queued")
=============================================================================
