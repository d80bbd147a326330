-------------------------- MODULE IdentityResolution --------------------------
(***************************************************************************)
(* customer360-backend/identity_resolution: batches of staged raw profiles *)
(* are matched to master profiles, linked, merged and marked processed,    *)
(* each batch in one READ COMMITTED transaction.  Two kinds of workers run *)
(* batches: drains (the Dagster job, serialised by a Redis lease, with the *)
(* event projections at their end) and triggers (attempt_trigger,          *)
(* throttled by the row lock of cdp_id_resolution_status).  Neither        *)
(* excludes the other, and the analytics job stages new observations of a  *)
(* raw profile at any time.                                                *)
(*                                                                         *)
(* A statement sees the committed rows and its own transaction's; a write  *)
(* to a row or unique key that another open transaction has written waits. *)
(* One tenant; an e-mail address is unique in it, a device is not.         *)
(***************************************************************************)
EXTENDS Naturals, Sequences, FiniteSets, FiniteSetsExt, Functions

CONSTANTS
  Drains, Triggers,  \* workers of the two kinds
  Raws,              \* raw_profile_ids
  Email, Device,     \* [Raws -> sequence: the values of its observations]
  Domain,            \* [Raws -> domain]
  MaxMasters,        \* bound: master profiles
  BatchSize,         \* batch_size
  MaxBatches,        \* MAX_BATCHES_PER_RUN
  MaxTriggers,       \* bound: trigger runs
  MaxFaults,         \* bound on errors, crashes and expiries of a live lease
  None

Workers == Drains \cup Triggers
Observations == UNION {{<<p, n>> : n \in DOMAIN Email[p]} : p \in Raws}
Ids == 1..MaxMasters

ASSUME IdentityAssumption ==
  /\ None \notin Workers /\ Drains \cap Triggers = {}
  /\ DOMAIN Email = Raws /\ DOMAIN Device = Raws /\ DOMAIN Domain = Raws
  /\ \A p \in Raws :
       /\ Email[p] \in Seq(Range(Email[p])) /\ Device[p] \in Seq(Range(Device[p]))
       /\ Len(Email[p]) = Len(Device[p])
       /\ Domain[p] # None
  /\ \A n \in {MaxMasters, BatchSize, MaxBatches, MaxTriggers,
          MaxFaults} :
       n \in Nat
  /\ BatchSize > 0 /\ MaxBatches > 0

VARIABLES
  raw,        \* cdp_raw_profiles_stage: version of the content, status_code
  master,     \* cdp_master_profiles; Absent where there is no row
  link,       \* cdp_profile_links: master of a raw profile, 0 if none
  lease,      \* identity-resolution:staging-drain-lock
  statusRow,  \* worker that locks the row of cdp_id_resolution_status
  run,        \* [Workers -> local state, with the open transaction's writes]
  seen,       \* history: version that the batch that marked the row had read
  owed,       \* history: masters a drain resolved and has not projected
  overlapped, \* history: have two transactions been open together?
  triggered,  \* trigger runs so far
  faults      \* errors, crashes and expiries so far

vars == <<raw, master, link, lease, statusRow, run, seen, owed, overlapped,
          triggered, faults>>
tables == <<raw, master, link, seen>>
counts == <<triggered, faults>>
others == <<tables, lease, statusRow, owed, overlapped, counts>>  \* all but run

INSTANCE RedisLease WITH NoOwner <- None

Absent == [domain |-> None, email |-> None, devices |-> {}]
NoTxn == [over |-> <<>>, links |-> <<>>, marks |-> <<>>]
NoRead == [email |-> None, conflict |-> FALSE]
Start == [pc |-> "idle", todo |-> {}, cur |-> None, id |-> 0, read |-> NoRead,
          txn |-> NoTxn, batch |-> {}, batches |-> 0, resolved |-> {}]

Init ==
  /\ raw = [p \in Raws |-> [ver |-> 0, status |-> 0]]
  /\ master = [i \in Ids |-> Absent]
  /\ link = [p \in Raws |-> 0]
  /\ lease = None /\ statusRow = None
  /\ run = [w \in Workers |-> Start]
  /\ seen = [p \in Raws |-> 0]
  /\ owed = {} /\ overlapped = FALSE /\ triggered = 0 /\ faults = 0

(***************************************************************************)
(* Transactions.                                                           *)
(***************************************************************************)
Txn(w) == run[w].txn
Open(w) == run[w].pc \in {"find", "link", "update", "create", "link new",
                          "mark", "commit"}
Wrote(f) == DOMAIN f
View(w) == [i \in Ids |-> IF i \in Wrote(Txn(w).over) THEN Txn(w).over[i]
                                                      ELSE master[i]]
LinkView(w) == [p \in Raws |-> IF p \in Wrote(Txn(w).links) THEN Txn(w).links[p]
                                                            ELSE link[p]]
Put(f, k, v) == [x \in DOMAIN f \cup {k} |-> IF x = k THEN v ELSE f[x]]

\* The transactions whose end a write of w has to wait for.
RowHolders(w, i) == {v \in Workers \ {w} : i \in Wrote(Txn(v).over)}
EmailHolders(w, e) ==
  {v \in Workers \ {w} : e # None /\ \E i \in Wrote(Txn(v).over) :
     Txn(v).over[i].email = e /\ master[i].email # e}
LinkHolders(w, p) == {v \in Workers \ {w} : p \in Wrote(Txn(v).links)}
MarkHolders(w, p) == {v \in Workers \ {w} : p \in Wrote(Txn(v).marks)}

(***************************************************************************)
(* upsert_raw_profile, by the analytics job: a new observation of a raw    *)
(* profile is committed, and the row is new (status_code 1) again.         *)
(***************************************************************************)
Stage(p) ==
  /\ raw[p].ver < Len(Email[p])
  /\ \A w \in Workers : p \notin Wrote(Txn(w).marks)
  /\ raw' = [raw EXCEPT ![p] = [ver |-> @.ver + 1, status |-> 1]]
  /\ UNCHANGED <<master, link, lease, statusRow, run, seen, owed, overlapped, counts>>

(***************************************************************************)
(* run_identity_resolution_tasks and attempt_trigger.                      *)
(***************************************************************************)
Goto(w, pc) == run' = [run EXCEPT ![w].pc = pc]

StartDrain(w) ==
  /\ w \in Drains /\ run[w].pc = "idle"
  /\ Acquirable(lease)
  /\ lease' = w
  /\ Goto(w, "fetch")
  /\ UNCHANGED <<tables, statusRow, owed, overlapped, counts>>

\* FOR UPDATE NOWAIT finds the row free, and the interval has passed.
StartTrigger(w) ==
  /\ w \in Triggers /\ run[w].pc = "idle"
  /\ statusRow \in {None, w} /\ triggered < MaxTriggers
  /\ statusRow' = w
  /\ triggered' = triggered + 1
  /\ Goto(w, "fetch")
  /\ UNCHANGED <<tables, lease, owed, overlapped, faults>>

\* The interval has not passed: rollback.
Throttled(w) ==
  /\ w \in Triggers /\ run[w].pc = "idle"
  /\ statusRow = w
  /\ statusRow' = None
  /\ UNCHANGED <<tables, lease, run, owed, overlapped, counts>>

(***************************************************************************)
(* run_resolution_batch.                                                   *)
(***************************************************************************)
New == {p \in Raws : raw[p].status = 1}

\* SELECT ... WHERE status_code = 1 LIMIT batch_size: no order, no row lock.
FetchBatch(w) ==
  /\ run[w].pc = "fetch" /\ New # {}
  /\ \E B \in kSubset(Min({BatchSize, Cardinality(New)}), New) :
       run' = [run EXCEPT ![w].pc = "find", ![w].batch = {},
                          ![w].todo = {<<p, raw[p].ver>> : p \in B}]
  /\ overlapped' = (overlapped \/ \E v \in Workers : Open(v))
  /\ UNCHANGED <<tables, lease, statusRow, owed, counts>>

\* No new rows: the batch returns 0 before its commit, so a trigger keeps its
\* transaction and the row lock.
EmptyBatch(w) ==
  /\ run[w].pc = "fetch" /\ New = {}
  /\ IF w \in Drains THEN Goto(w, "project") ELSE run' = [run EXCEPT ![w] = Start]
  /\ UNCHANGED others

EmailOf(c) == Email[c[1]][c[2]]
DeviceOf(c) == Device[c[1]][c[2]]

\* _build_match_condition and _find_master_profile: the conditions that hold
\* of a master of the profile's domain, and the masters with most of them.
Matches(m, c) ==
  {k \in {"email", "device"} :
     \/ k = "email" /\ EmailOf(c) # None /\ m.email = EmailOf(c)
     \/ k = "device" /\ DeviceOf(c) # None /\ DeviceOf(c) \in m.devices}
Score(m, c) == IF m.domain = Domain[c[1]] THEN Cardinality(Matches(m, c)) ELSE 0
BestMatches(view, c) ==
  LET best == Max({Score(view[i], c) : i \in Ids}) IN
  IF best = 0 THEN {} ELSE {i \in Ids : Score(view[i], c) = best}

FindMasterProfile(w) ==
  /\ run[w].pc = "find"
  /\ \E c \in run[w].todo :
       LET found == BestMatches(View(w), c) IN
       \/ /\ found = {}
          /\ run' = [run EXCEPT ![w].pc = "create", ![w].cur = c]
       \/ \E i \in found :
            run' = [run EXCEPT ![w].pc = "link", ![w].cur = c, ![w].id = i]
  /\ UNCHANGED others

\* _find_identity_conflicts: another master of the tenant owns the e-mail.
Conflicted(view, i, e) == \E j \in Ids \ {i} : e # None /\ view[j].email = e

\* INSERT ... ON CONFLICT (tenant_id, raw_profile_id) DO NOTHING.
Linked(w, p, i) ==
  IF LinkView(w)[p] # 0 THEN Txn(w).links ELSE Put(Txn(w).links, p, i)

\* _link_and_update, first half: the link, and the reads that the merge is
\* computed from (who owns the address, what the master has).
LinkProfile(w) ==
  LET c == run[w].cur i == run[w].id IN
  /\ run[w].pc = "link"
  /\ LinkHolders(w, c[1]) = {}
  /\ run' = [run EXCEPT ![w].pc = "update",
       ![w].txn.links = Linked(w, c[1], i),
       ![w].read = [email |-> View(w)[i].email,
                    conflict |-> Conflicted(View(w), i, EmailOf(c))]]
  /\ UNCHANGED others

\* _resolve_scalar_consolidation: a missing value never replaces one, a first
\* value is taken, and of two the attribute's rule keeps one (by recency,
\* verification or source, which are not modelled: either may win).
Consolidated(current, incoming) ==
  IF current = None \/ incoming = None THEN {current, incoming} \ {None}
  ELSE {current, incoming}

\* The addresses the UPDATE may set: the merge of what was read, or, where the
\* read showed another owner, whatever the row has.
MergedEmails(w) ==
  LET r == run[w].read merged == Consolidated(r.email, EmailOf(run[w].cur)) IN
  IF r.conflict THEN {View(w)[run[w].id].email}
  ELSE IF merged = {} THEN {None} ELSE merged

\* Mutant: a matched profile's device is not added.
DevicesKept(w) == View(w)[run[w].id].devices

\* array_append to device_ids, unless the row has it by now.
MergedDevices(w) ==
  View(w)[run[w].id].devices \cup ({DeviceOf(run[w].cur)} \ {None})

\* _link_and_update, second half: UPDATE of the master row, once no other open
\* transaction has written the row or the address.
UpdateWaits(w, e) == RowHolders(w, run[w].id) \cup EmailHolders(w, e)

UniqueIndexAllows(w, i, e) == ~Conflicted(View(w), i, e)

UpdateMaster(w) ==
  LET c == run[w].cur i == run[w].id IN
  /\ run[w].pc = "update"
  /\ \E e \in MergedEmails(w) :
       /\ UpdateWaits(w, e) = {}
       /\ UniqueIndexAllows(w, i, e)
       /\ run' = [run EXCEPT ![w].pc = "mark", ![w].read = NoRead,
            ![w].txn.over = Put(@, i,
              [domain |-> Domain[c[1]], email |-> e,
               devices |-> MergedDevices(w)])]
  /\ UNCHANGED others

\* Mutant: the earlier link is not looked up.
NoLinkLookup(w) == 0

\* _create_master_and_link: an earlier link is reused.
ExistingLink(w) == LinkView(w)[run[w].cur[1]]

ReuseLink(w) ==
  /\ run[w].pc = "create"
  /\ ExistingLink(w) # 0
  /\ run' = [run EXCEPT ![w].pc = "mark", ![w].id = ExistingLink(w)]
  /\ UNCHANGED others

CreateWaits(w) == EmailHolders(w, EmailOf(run[w].cur))

\* INSERT ... ON CONFLICT DO NOTHING RETURNING: a new master, or none because
\* the e-mail has an owner, which is then linked and updated instead.
CreateMaster(w) ==
  LET c == run[w].cur
      owners == {i \in Ids : EmailOf(c) # None /\ View(w)[i].email = EmailOf(c)}
      free == {i \in Ids : master[i] = Absent
                 /\ \A v \in Workers : i \notin Wrote(Txn(v).over)}
  IN
  /\ run[w].pc = "create"
  /\ ExistingLink(w) = 0
  /\ CreateWaits(w) = {}
  /\ IF owners # {}
     THEN \E i \in owners : run' = [run EXCEPT ![w].pc = "link", ![w].id = i]
     ELSE /\ free # {}
          /\ run' = [run EXCEPT ![w].pc = "link new", ![w].id = Min(free),
               ![w].txn.over = Put(@, Min(free),
                 [domain |-> Domain[c[1]], email |-> EmailOf(c),
                  devices |-> {DeviceOf(c)} \ {None}])]
  /\ UNCHANGED others

LinkNewWaits(w) == LinkHolders(w, run[w].cur[1])
MarkWaits(w) == MarkHolders(w, run[w].cur[1])

LinkNewMaster(w) ==
  /\ run[w].pc = "link new"
  /\ LinkNewWaits(w) = {}
  /\ run' = [run EXCEPT ![w].pc = "mark",
       ![w].txn.links = Linked(w, run[w].cur[1], run[w].id)]
  /\ UNCHANGED others

\* UPDATE ... SET status_code = 3, whatever the row holds by now.
Marked(w, c) == Put(Txn(w).marks, c[1], c[2])

\* resolve_persona, whose row locks are the master's, and _mark_as_processed.
MarkAsProcessed(w) ==
  LET c == run[w].cur IN
  /\ run[w].pc = "mark"
  /\ MarkWaits(w) = {}
  /\ run' = [run EXCEPT ![w].txn.marks = Marked(w, c),
       ![w].todo = @ \ {c}, ![w].cur = None, ![w].id = 0,
       ![w].batch = @ \cup {run[w].id},
       ![w].pc = IF run[w].todo = {c} THEN "commit" ELSE "find"]
  /\ UNCHANGED others

\* Mutant: only the last batch's profiles are kept for the projection.
ResolvedByLastBatch(w) == run[w].batch

\* _merge_resolved_profiles.
ResolvedByBatches(w) == run[w].resolved \cup run[w].batch

\* The batch commits; a full one of a drain is followed by another.
Commit(w) ==
  LET t == Txn(w) full == Cardinality(Wrote(t.marks)) >= BatchSize IN
  /\ run[w].pc = "commit"
  /\ master' = View(w)
  /\ link' = LinkView(w)
  /\ raw' = [p \in Raws |-> IF p \in Wrote(t.marks)
                            THEN [raw[p] EXCEPT !.status = 3] ELSE raw[p]]
  /\ seen' = [p \in Raws |-> IF p \in Wrote(t.marks) THEN t.marks[p] ELSE seen[p]]
  /\ IF w \in Drains
     THEN /\ run' = [run EXCEPT ![w] = [Start EXCEPT
               !.pc = IF full THEN "refresh" ELSE "project",
               !.batches = run[w].batches + 1,
               !.resolved = ResolvedByBatches(w)]]
          /\ owed' = owed \cup run[w].batch
          /\ UNCHANGED statusRow
     ELSE /\ run' = [run EXCEPT ![w] = Start]
          /\ statusRow' = None
          /\ UNCHANGED owed
  /\ UNCHANGED <<lease, overlapped, counts>>

\* lease.refresh() after a full batch.
RefreshLease(w) ==
  /\ run[w].pc = "refresh"
  /\ Refreshable(lease, w)
  /\ Goto(w, IF run[w].batches < MaxBatches THEN "fetch" ELSE "project")
  /\ UNCHANGED others

\* project_profiles writes the event file of one resolved master.
ProjectProfile(w) ==
  /\ run[w].pc = "project"
  /\ \E i \in run[w].resolved :
       /\ run' = [run EXCEPT ![w].resolved = @ \ {i}]
       /\ owed' = owed \ {i}
  /\ UNCHANGED <<tables, lease, statusRow, overlapped, counts>>

FinishDrain(w) ==
  /\ run[w].pc = "project" /\ run[w].resolved = {}
  /\ lease' = Released(lease, w)
  /\ run' = [run EXCEPT ![w] = Start]
  /\ UNCHANGED <<tables, statusRow, owed, overlapped, counts>>

(***************************************************************************)
(* Failures.  An exception rolls the open transaction back and releases    *)
(* the lease or the row; the retry policy or the next event starts again.  *)
(***************************************************************************)
Abort(w) ==
  /\ run' = [run EXCEPT ![w] = Start]
  /\ lease' = Released(lease, w)
  /\ statusRow' = Released(statusRow, w)
  /\ UNCHANGED <<tables, owed, overlapped, triggered>>

\* The address got another owner after the read: the unique index raises.
UniqueViolation(w) ==
  /\ run[w].pc = "update"
  /\ \E e \in MergedEmails(w) :
       UpdateWaits(w, e) = {} /\ ~UniqueIndexAllows(w, run[w].id, e)
  /\ Abort(w) /\ UNCHANGED faults

LeaseLost(w) ==
  /\ run[w].pc = "refresh"
  /\ ~Refreshable(lease, w)
  /\ Abort(w) /\ UNCHANGED faults

Waits(w) ==
  CASE run[w].pc = "link" -> LinkHolders(w, run[w].cur[1])
    [] run[w].pc = "update" -> UNION {UpdateWaits(w, e) : e \in MergedEmails(w)}
    [] run[w].pc = "create" /\ ExistingLink(w) = 0 -> CreateWaits(w)
    [] run[w].pc = "link new" -> LinkNewWaits(w)
    [] run[w].pc = "mark" -> MarkWaits(w)
    [] OTHER -> {}

\* PostgreSQL ends one of two transactions that wait for each other.
DeadlockDetected(w) ==
  /\ \E v \in Waits(w) : w \in Waits(v)
  /\ Abort(w) /\ UNCHANGED faults

\* A statement fails.  One of resolve_persona's is logged and swallowed, but
\* there is no savepoint: PostgreSQL refuses the statement that follows it.
Raise(w) ==
  /\ run[w].pc # "idle" /\ faults < MaxFaults
  /\ faults' = faults + 1
  /\ Abort(w)

\* The process dies: PostgreSQL rolls back, Redis keeps the lease.
Crash(w) ==
  /\ run[w].pc # "idle" /\ faults < MaxFaults
  /\ faults' = faults + 1
  /\ run' = [run EXCEPT ![w] = Start]
  /\ statusRow' = Released(statusRow, w)
  /\ UNCHANGED <<tables, lease, owed, overlapped, triggered>>

\* The lease of a slow drain reaches its TTL.
ExpireLive ==
  /\ lease # None /\ run[lease].pc # "idle" /\ faults < MaxFaults
  /\ faults' = faults + 1
  /\ lease' = Expired(lease)
  /\ UNCHANGED <<tables, statusRow, run, owed, overlapped, triggered>>

\* The lease of a dead one does so in the end.
ExpireDead ==
  /\ lease # None /\ run[lease].pc = "idle"
  /\ lease' = Expired(lease)
  /\ UNCHANGED <<tables, statusRow, run, owed, overlapped, counts>>

-----------------------------------------------------------------------------
BatchStep(w) ==
  \/ FetchBatch(w) \/ EmptyBatch(w) \/ FindMasterProfile(w) \/ LinkProfile(w)
  \/ UpdateMaster(w) \/ ReuseLink(w) \/ CreateMaster(w) \/ LinkNewMaster(w)
  \/ MarkAsProcessed(w) \/ Commit(w) \/ UniqueViolation(w)
  \/ DeadlockDetected(w)

DrainStep(w) ==
  StartDrain(w) \/ RefreshLease(w) \/ LeaseLost(w) \/ ProjectProfile(w)
  \/ FinishDrain(w)

Next ==
  \/ \E p \in Raws : Stage(p)
  \/ \E w \in Workers : BatchStep(w) \/ DrainStep(w) \/ StartTrigger(w)
                        \/ Throttled(w) \/ Raise(w) \/ Crash(w)
  \/ ExpireLive \/ ExpireDead

Spec == Init /\ [][Next]_vars

\* The sensor starts drains for ever, started workers go on, and the key of a
\* dead drain expires.
FairSpec ==
  /\ Spec
  /\ WF_vars(ExpireDead)
  /\ \A w \in Workers : SF_vars(BatchStep(w))
  /\ \A w \in Drains : WF_vars(DrainStep(w))

-----------------------------------------------------------------------------
(* Properties                                                              *)

Addresses == {EmailOf(c) : c \in Observations} \cup {None}
Masters == [domain : Range(Domain), email : Addresses,
            devices : SUBSET {DeviceOf(c) : c \in Observations}]
Versions == UNION {DOMAIN Email[p] : p \in Raws}
Partial(D, R) == UNION {[P -> R] : P \in SUBSET D}
RunState ==
  [pc : {"idle", "fetch", "find", "link", "update", "create", "link new", "mark",
         "commit", "refresh", "project"},
   todo : SUBSET Observations, cur : Observations \cup {None}, id : Ids \cup {0},
   read : [email : Addresses, conflict : BOOLEAN],
   txn : [over : Partial(Ids, Masters), links : Partial(Raws, Ids),
          marks : Partial(Raws, Versions)],
   batch : SUBSET Ids, batches : Nat, resolved : SUBSET Ids]

TypeOK ==
  /\ raw \in [Raws -> [ver : Nat, status : {0, 1, 3}]] /\ seen \in [Raws -> Nat]
  /\ \A p \in Raws : seen[p] <= raw[p].ver /\ raw[p].ver <= Len(Email[p])
  /\ master \in [Ids -> Masters \cup {Absent}]
  /\ link \in [Raws -> Ids \cup {0}]
  /\ lease \in Drains \cup {None} /\ statusRow \in Triggers \cup {None}
  /\ run \in [Workers -> RunState]
  /\ owed \subseteq Ids
  /\ overlapped \in BOOLEAN /\ triggered \in 0..MaxTriggers /\ faults \in 0..MaxFaults

\* Links, merges and marks of a batch become visible together or not at all,
\* whatever overlaps, dies or is retried: a row marked processed has a link,
\* and the link leads to a master profile that exists.
ProcessedIsLinked ==
  \A p \in Raws :
    /\ raw[p].status = 3 => link[p] # 0
    /\ link[p] # 0 => master[link[p]] # Absent

\* "Golden records without duplicates": as long as batches do not overlap, no
\* master profile is left without a raw profile, so no retry or re-staging
\* makes a second master for a profile that has one.
NoOrphanMaster ==
  ~overlapped => \A i \in Ids : master[i] # Absent => \E p \in Raws : link[p] = i

\* "Upgraded to UNIQUE per tenant": two masters never own one e-mail address,
\* although matching is per domain and two transactions create masters.
EmailHasOneOwner ==
  \A i, j \in Ids : i # j /\ master[i].email # None => master[i].email # master[j].email

\* What resolution batches leave behind: processed rows are linked, masters are
\* not orphaned and addresses have one owner, through overlapping batches,
\* waits, deadlocks, unique violations, retries and crashes.
LinksConsistent == ProcessedIsLinked /\ NoOrphanMaster /\ EmailHasOneOwner

\* A drain that meets no failure projects every master that its batches
\* resolved, not the last batch's alone.
DrainsProject ==
  (faults = 0 /\ ~overlapped /\ \A w \in Drains : run[w].pc = "idle") => owed = {}

\* An open batch has read an earlier observation of p.
ReadEarlier(p) ==
  \E w \in Workers, n \in 1..raw[p].ver - 1 :
    \/ <<p, n>> \in run[w].todo
    \/ p \in Wrote(Txn(w).marks) /\ Txn(w).marks[p] = n

\* The row was marked by a batch that had read c itself, the profile has a
\* link, and a master that recognises c at all knows its device.  (A linked
\* profile whose new values match no master is only marked, see ReuseLink.)
Resolved(c) ==
  /\ raw[c[1]].status = 3 /\ seen[c[1]] = c[2] /\ link[c[1]] # 0
  /\ BestMatches(master, c) # {} =>
       DeviceOf(c) \in {None} \cup UNION {master[i].devices : i \in Ids}

\* An observation staged while no open batch has read an earlier one of its
\* profile is in the end resolved or replaced by a newer one, through a bounded
\* number of failures: a batch is retried as a whole, no transaction waits for
\* ever, and no other marks the row unmerged.  Where an open batch has read an
\* earlier one this fails (NoObservationLost).
EveryObservationResolved ==
  \A c \in Observations :
    raw[c[1]] = [ver |-> c[2], status |-> 1] /\ ~ReadEarlier(c[1])
      ~> Resolved(c) \/ raw[c[1]].ver # c[2]

\* "status_code = 3: the raw profile has been processed; 1: it is new": a row
\* marked processed has been merged with the content it has now.
NoObservationLost ==
  \A p \in Raws : raw[p].status = 3 => seen[p] = raw[p].ver
=============================================================================
