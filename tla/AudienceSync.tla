----------------------------- MODULE AudienceSync -----------------------------
(***************************************************************************)
(* customer360-backend/data_synch/audience_sync.py: run_data_synch_job     *)
(* exports the eligible members of a campaign's segment to an advertising  *)
(* audience and records the run in crm_ad_sync_runs.  Jobs of the same     *)
(* audience (of the same tenant, for LEO Ads) are serialised by an         *)
(* advisory lock that belongs to the job's database session.  The LEO Ads  *)
(* destination is a second database session with a lock of its own.        *)
(*                                                                         *)
(* One tenant.  A target is what the idempotency key is made of: campaign, *)
(* platform and execution (None for a run on demand); the audience name is *)
(* the campaign's.  Who is eligible (segment tag, status, suppression,     *)
(* literal consent, a usable identifier) is a set that Change replaces.    *)
(***************************************************************************)
EXTENDS Naturals, FiniteSets

CONSTANTS
  Jobs, Campaigns, Profiles,
  Targets,      \* [campaign, platform, execution] records that jobs are run for
  Synced,       \* campaigns whose LEO Ads audience an earlier job has filled
  DryRuns,      \* the dry_run flags that are asked for, a set of BOOLEANs
  BatchSize,    \* members per upload
  MaxRetries,   \* RetryPolicy(max_retries)
  MaxStarts,    \* bound: jobs started
  MaxChanges,   \* bound: changes of eligibility
  MaxFaults,    \* bound: provider errors, lost sessions and crashes
  MaxAudiences, \* bound: audiences ever created at a provider
  None

Platforms == {"meta_ads", "google_ads", "tiktok_ads", "leo_ads"}

ASSUME SyncAssumption ==
  /\ Targets \subseteq [campaign : Campaigns, platform : Platforms,
                        execution : Nat \cup {None}]
  /\ Synced \subseteq Campaigns /\ DryRuns \subseteq BOOLEAN
  /\ BatchSize \in Nat \ {0} /\ MaxAudiences \in Nat \ {0}
  /\ \A n \in {MaxRetries, MaxStarts, MaxChanges, MaxFaults} : n \in Nat
  /\ None \notin Jobs /\ None \notin 0 .. MaxAudiences
  /\ None \notin [campaign : Campaigns, platform : Platforms]

VARIABLES
  job,       \* [Jobs -> local state]
  ledger,    \* [Targets -> row of crm_ad_sync_runs]
  lock,      \* [lock names -> job whose session holds it, or None]
  adsLock,   \* the job whose destination transaction holds leo-ads-sync
  eligible,  \* [Campaigns -> profiles]
  epoch,     \* number of changes of eligibility so far
  audience,  \* provider side: [audience id -> profiles in it]
  created,   \* provider side: the campaign and platform an audience is for
  google,    \* provider side: [audience id -> profiles in jobs Google was told to run]
  leo,       \* [Campaigns -> members and the epoch they were read in]
  keys,      \* leo_ads.user_serving_key
  starts, faults

ads == <<leo, keys>>
providers == <<audience, created, google>>
bounds == <<starts, faults>>
vars == <<job, ledger, lock, adsLock, eligible, epoch, providers, ads, bounds>>

GoogleList == 0      \* the user list a Google connector is configured with
Audiences == GoogleList .. MaxAudiences
External == {t \in Targets : t.platform # "leo_ads"}
Of(t) == [campaign |-> t.campaign, platform |-> t.platform]

\* The tenant's LEO Ads jobs share one lock, the others have one per audience.
LockName(t) ==
  IF t.platform = "leo_ads" THEN [campaign |-> None, platform |-> "leo_ads"]
  ELSE Of(t)
LockNames == {LockName(t) : t \in Targets}

Idle == [pc |-> "idle", target |-> None, asked |-> FALSE, dry |-> FALSE,
         session |-> FALSE, retries |-> 0, external |-> None, members |-> {}, left |-> {},
         epoch |-> 0, orphans |-> {}]

Steps == {"idle", "lock", "select", "create", "upload", "apply", "replace",
          "clean", "commit", "record"}

\* The state of a job, and a row of crm_ad_sync_runs.
JobState ==
  [pc : Steps, target : Targets \cup {None}, asked : BOOLEAN, dry : BOOLEAN,
   session : BOOLEAN, retries : 0 .. MaxRetries,
   external : Audiences \cup {None}, members : SUBSET Profiles,
   left : SUBSET Profiles, epoch : 0 .. MaxChanges, orphans : SUBSET Profiles]
RunRow ==
  [status : {"none", "Running", "Completed", "Failed"},
   external : Audiences \cup {None}, dry : BOOLEAN, members : SUBSET Profiles]

\* One type invariant; a lock names a job that is at a target of that lock.
TypeOK ==
  /\ DOMAIN job = Jobs
  /\ \A j \in Jobs : /\ job[j] \in JobState
                     /\ job[j].pc # "idle" => job[j].target \in Targets
                     /\ job[j].left \subseteq job[j].members
  /\ DOMAIN ledger = Targets /\ \A t \in Targets : ledger[t] \in RunRow
  /\ lock \in [LockNames -> Jobs \cup {None}]
  /\ \A n \in LockNames : lock[n] # None =>
       /\ job[lock[n]].target \in Targets
       /\ LockName(job[lock[n]].target) = n
  /\ adsLock \in Jobs \cup {None}
  /\ eligible \in [Campaigns -> SUBSET Profiles] /\ epoch \in 0 .. MaxChanges
  /\ audience \in [Audiences -> SUBSET Profiles]
  /\ created \in [Audiences -> {Of(t) : t \in Targets} \cup {None}]
  /\ google \in [Audiences -> SUBSET Profiles]
  /\ DOMAIN leo = Campaigns
  /\ \A c \in Campaigns :
       leo[c] \in [members : SUBSET Profiles, epoch : 0 .. MaxChanges]
  /\ keys \subseteq Profiles
  /\ starts \in 0 .. MaxStarts /\ faults \in 0 .. MaxFaults

Init ==
  /\ job = [j \in Jobs |-> Idle]
  /\ ledger = [t \in Targets |-> [status |-> "none", external |-> None,
                                  dry |-> FALSE, members |-> {}]]
  /\ lock = [n \in LockNames |-> None]
  /\ adsLock = None
  /\ eligible = [c \in Campaigns |-> Profiles]
  /\ epoch = 0
  /\ audience = [a \in Audiences |-> {}]
  /\ created = [a \in Audiences |-> None]
  /\ google = [a \in Audiences |-> {}]
  /\ leo = [c \in Campaigns |->
              [members |-> IF c \in Synced THEN Profiles ELSE {}, epoch |-> 0]]
  /\ keys = IF Synced = {} THEN {} ELSE Profiles
  /\ starts = 0 /\ faults = 0

\* Consent, suppression or segment membership changes.
Change ==
  /\ epoch < MaxChanges
  /\ epoch' = epoch + 1
  /\ \E c \in Campaigns, p \in Profiles :
       eligible' = [eligible EXCEPT
         ![c] = IF p \in @ THEN @ \ {p} ELSE @ \cup {p}]
  /\ UNCHANGED <<job, ledger, lock, adsLock, providers, ads, bounds>>

-----------------------------------------------------------------------------
(* From the start of a job to its selection of members.                    *)
Called(t, dry, n) == [Idle EXCEPT !.pc = "lock", !.target = t, !.asked = dry,
                                  !.session = TRUE, !.retries = n]

Start(j) ==
  /\ job[j].pc = "idle"
  /\ starts < MaxStarts
  /\ starts' = starts + 1
  /\ \E t \in Targets, d \in DryRuns :
       job' = [job EXCEPT ![j] = Called(t, d, 0)]
  /\ UNCHANGED <<ledger, lock, adsLock, eligible, epoch, providers, ads, faults>>

\* Mutant: jobs are not serialised.
LockIgnored(n) == TRUE

LockFree(n) == lock[n] = None

\* The run row of a retry keeps its audience; a new row of a workflow
\* execution takes over the audience of an earlier one.
KnownExternal(t) ==
  LET rows == {u \in Targets : Of(u) = Of(t) /\ ledger[u].external # None}
  IN  IF ledger[t].status # "none" THEN {ledger[t].external}
      ELSE IF t.execution # None /\ rows # {} THEN {ledger[u].external : u \in rows}
      ELSE {None}

\* Waits for the advisory lock, then commits the row as Running.  Without a
\* connector an external platform is only logged.
Begin(j) ==
  LET t == job[j].target IN
  /\ job[j].pc = "lock"
  /\ LockFree(LockName(t))
  /\ lock' = [lock EXCEPT ![LockName(t)] = j]
  /\ \E x \in KnownExternal(t), unconfigured \in BOOLEAN :
       /\ unconfigured => t.platform # "leo_ads"
       /\ job' = [job EXCEPT ![j].pc = "select", ![j].external = x,
                             ![j].dry = job[j].asked \/ unconfigured]
  /\ ledger' = [ledger EXCEPT ![t].status = "Running", ![t].dry = job[j].asked]
  /\ UNCHANGED <<adsLock, eligible, epoch, providers, ads, bounds>>

\* Where each platform's sync starts.
FirstStep(t, x) ==
  CASE t.platform = "meta_ads" -> IF x = None THEN "create" ELSE "upload"
    [] t.platform = "leo_ads" -> "replace"
    [] OTHER -> "upload"

\* Reads the eligible members; there may be nothing to send.
Select(j) ==
  LET t == job[j].target
      m == eligible[t.campaign]
      nothing == job[j].dry \/ (t \in External /\ m = {})
      x == IF t.platform = "google_ads" /\ job[j].external = None
             THEN GoogleList ELSE job[j].external
  IN
  /\ job[j].pc = "select" /\ job[j].session
  /\ IF nothing
       THEN job' = [job EXCEPT ![j].pc = "record"]
       ELSE job' = [job EXCEPT ![j].pc = FirstStep(t, x), ![j].external = x,
                      ![j].members = m, ![j].left = m, ![j].epoch = epoch]
  /\ ledger' = [ledger EXCEPT ![t].members = IF nothing THEN {} ELSE m]
  /\ UNCHANGED <<lock, adsLock, eligible, epoch, providers, ads, bounds>>

-----------------------------------------------------------------------------
(* The external providers: Meta creates the audience and adds batches to   *)
(* it, Google stages batches in a job and then runs it, TikTok uploads a   *)
(* file and creates the audience from it.  None of them removes members.   *)
NextAudience == {a \in Audiences \ {GoogleList} :
                   created[a] = None /\ \A b \in 1 .. a - 1 : created[b] # None}

CreateAudience(j, a, members) ==
  /\ created' = [created EXCEPT ![a] = Of(job[j].target)]
  /\ audience' = [audience EXCEPT ![a] = members]

Create(j) ==
  /\ job[j].pc = "create"
  /\ \E a \in NextAudience :
       /\ CreateAudience(j, a, {})
       /\ job' = [job EXCEPT ![j].pc = "upload", ![j].external = a]
  /\ UNCHANGED <<ledger, lock, adsLock, eligible, epoch, google, ads, bounds>>

\* A full batch, the last one may be shorter.
Batches(left) ==
  {b \in SUBSET left : Cardinality(b) = BatchSize \/ (b = left /\ Cardinality(b) < BatchSize)}

Upload(j) ==
  LET t == job[j].target IN
  /\ job[j].pc = "upload"
  /\ \E b \in IF t.platform = "tiktok_ads" THEN {job[j].left} ELSE Batches(job[j].left) :
       /\ job' = [job EXCEPT ![j].left = @ \ b,
            ![j].pc = IF job[j].left # b THEN "upload"
                      ELSE IF t.platform = "meta_ads" THEN "record" ELSE "apply"]
       /\ audience' = IF t.platform = "meta_ads"
                        THEN [audience EXCEPT ![job[j].external] = @ \cup b]
                        ELSE audience
  /\ UNCHANGED <<ledger, lock, adsLock, eligible, epoch, created, google, ads, bounds>>

\* The job of Google runs from now on, which nobody waits for.
GoogleRuns(x, members) == [google EXCEPT ![x] = @ \cup members]

\* TikTok creates the audience unless there is one.
Apply(j) ==
  LET t == job[j].target IN
  /\ job[j].pc = "apply"
  /\ \/ /\ t.platform = "google_ads"
        /\ google' = GoogleRuns(job[j].external, job[j].members)
        /\ job' = [job EXCEPT ![j].pc = "record"]
        /\ UNCHANGED <<audience, created>>
     \/ /\ t.platform = "tiktok_ads" /\ job[j].external = None
        /\ \E a \in NextAudience :
             /\ CreateAudience(j, a, job[j].members)
             /\ job' = [job EXCEPT ![j].pc = "record", ![j].external = a]
        /\ UNCHANGED google
     \/ /\ t.platform = "tiktok_ads" /\ job[j].external # None
        /\ job' = [job EXCEPT ![j].pc = "record"]
        /\ UNCHANGED providers
  /\ UNCHANGED <<ledger, lock, adsLock, eligible, epoch, ads, bounds>>

\* A job of Google adds a member to its list.  One that Google has refused, in a
\* batch (enablePartialFailure) or at the end, is never added; nobody reads which.
GoogleAdds(x, p) ==
  /\ p \in google[x] \ audience[x]
  /\ audience' = [audience EXCEPT ![x] = @ \cup {p}]
  /\ UNCHANGED <<job, ledger, lock, adsLock, eligible, epoch, created, google, ads,
                 bounds>>

-----------------------------------------------------------------------------
(* LEO Ads: one destination transaction under the tenant's leo-ads-sync    *)
(* lock.  The members stream from the source session's open cursor.        *)
\* Mutant: the destination takes no lock.
AdsLockIgnored == TRUE

AdsLockFree == adsLock = None

\* Mutant: the members are fetched before the destination is replaced.
ReplaceBuffered(j) ==
  /\ job[j].pc = "replace"
  /\ AdsLockFree
  /\ adsLock' = j
  /\ job' = [job EXCEPT ![j].pc = "clean", ![j].left = {}]
  /\ UNCHANGED <<ledger, lock, eligible, epoch, providers, ads, bounds>>

Replace(j) ==
  /\ job[j].pc = "replace" /\ job[j].session
  /\ AdsLockFree
  /\ adsLock' = j
  /\ job' = [job EXCEPT ![j].pc = "clean", ![j].left = {}]
  /\ UNCHANGED <<ledger, lock, eligible, epoch, providers, ads, bounds>>

\* A removed member's serving key goes unless another audience has it.
Orphans(c, members) ==
  {p \in leo[c].members \ members :
     \A d \in Campaigns \ {c} : p \notin leo[d].members}

Clean(j) ==
  /\ job[j].pc = "clean"
  /\ job' = [job EXCEPT ![j].pc = "commit",
       ![j].orphans = Orphans(job[j].target.campaign, job[j].members)]
  /\ UNCHANGED <<ledger, lock, adsLock, eligible, epoch, providers, ads, bounds>>

Commit(j) ==
  /\ job[j].pc = "commit"
  /\ leo' = [leo EXCEPT ![job[j].target.campaign] =
                [members |-> job[j].members, epoch |-> job[j].epoch]]
  /\ keys' = (keys \cup job[j].members) \ job[j].orphans
  /\ adsLock' = None
  /\ job' = [job EXCEPT ![j].pc = "record"]
  /\ UNCHANGED <<ledger, lock, eligible, epoch, providers, bounds>>

-----------------------------------------------------------------------------
(* The end of a job.  Both locks go with the sessions that hold them.      *)
Unlocked(j) == [n \in LockNames |-> IF lock[n] = j THEN None ELSE lock[n]]

\* Mutant: the destination session is not closed.
AdsStillLocked(j) == adsLock

AdsUnlocked(j) == IF adsLock = j THEN None ELSE adsLock

Record(j) ==
  LET t == job[j].target IN
  /\ job[j].pc = "record" /\ job[j].session
  /\ ledger' = [ledger EXCEPT ![t].status = "Completed", ![t].dry = job[j].dry,
       ![t].external = IF job[j].members = {} THEN @ ELSE job[j].external]
  /\ job' = [job EXCEPT ![j] = Idle]
  /\ lock' = Unlocked(j)
  /\ UNCHANGED <<adsLock, eligible, epoch, providers, ads, bounds>>

\* The exception handler marks the row when its session still can; the op is
\* retried as a new call.
Raise(j) ==
  LET t == job[j].target IN
  /\ ledger' = IF job[j].session
                 THEN [ledger EXCEPT ![t].status = "Failed"] ELSE ledger
  /\ job' = [job EXCEPT ![j] =
       IF job[j].retries < MaxRetries
         THEN Called(t, job[j].asked, job[j].retries + 1) ELSE Idle]
  /\ lock' = Unlocked(j)
  /\ adsLock' = AdsUnlocked(j)
  /\ UNCHANGED <<eligible, epoch, providers, ads, starts>>

\* A provider call or a destination statement fails; what the provider had
\* already done stays done.
Fail(j) ==
  /\ job[j].pc \in Steps \ {"idle", "lock"}
  /\ faults < MaxFaults /\ faults' = faults + 1
  /\ Raise(j)

\* The next statement on a lost session.
Disconnected(j) ==
  /\ job[j].pc \in {"select", "replace", "record"} /\ ~ job[j].session
  /\ Raise(j)
  /\ UNCHANGED faults

SessionLost(j) ==
  /\ job[j].pc \in Steps \ {"idle", "lock"} /\ job[j].session
  /\ faults < MaxFaults /\ faults' = faults + 1
  /\ job' = [job EXCEPT ![j].session = FALSE]
  /\ lock' = Unlocked(j)
  /\ UNCHANGED <<ledger, adsLock, eligible, epoch, providers, ads, starts>>

Crash(j) ==
  /\ job[j].pc # "idle"
  /\ faults < MaxFaults /\ faults' = faults + 1
  /\ job' = [job EXCEPT ![j] = Idle]
  /\ lock' = Unlocked(j)
  /\ adsLock' = AdsUnlocked(j)
  /\ UNCHANGED <<ledger, eligible, epoch, providers, ads, starts>>

JobStep(j) ==
  \/ Begin(j) \/ Select(j) \/ Create(j) \/ Upload(j) \/ Apply(j)
  \/ Replace(j) \/ Clean(j) \/ Commit(j) \/ Record(j) \/ Disconnected(j)

Next ==
  \/ Change
  \/ \E x \in Audiences, p \in Profiles : GoogleAdds(x, p)
  \/ \E j \in Jobs : \/ Start(j) \/ JobStep(j)
                     \/ Fail(j) \/ SessionLost(j) \/ Crash(j)

Spec == Init /\ [][Next]_vars

\* The worker goes on with a job it has started; a lock goes to each waiter.
FairSpec == Spec /\ \A j \in Jobs : SF_vars(JobStep(j))

-----------------------------------------------------------------------------
\* _sync_leo_ads: an audience is never replaced by members read before the
\* ones it has, although the lock that orders the reads can be lost with its
\* session while the destination transaction goes on.
NewestSnapshotWins == [][\A c \in Campaigns : leo'[c].epoch >= leo[c].epoch]_vars

\* _sync_leo_ads: a profile has a serving key exactly while it is a member of
\* some audience of the tenant.
KeysMatchMembership == keys = UNION {leo[c].members : c \in Campaigns}

\* What a provider has been given for an audience: the members that Meta has, or
\* those of the jobs that Google was told to run.
HandedOver(t, x) == IF t.platform = "google_ads" THEN google[x] ELSE audience[x]

\* run_data_synch_job: a Completed row of a real run names an audience for which
\* every member the run selected was handed over, whatever failed or was retried
\* and whoever ran beside it: Meta has them, and they were all staged in jobs that
\* Google was told to run.  What Google does with them no row tells.  (Not TikTok,
\* where a new file is not attached to an existing audience.)
CompletedIsHandedOver ==
  \A t \in External : t.platform # "tiktok_ads" /\ ledger[t].status = "Completed" =>
    \/ ledger[t].members = {}
    \/ /\ ledger[t].external # None
       /\ ledger[t].members \subseteq HandedOver(t, ledger[t].external)

\* The row's uploaded_count is the number of the members selected.  Google may
\* have fewer, now and for ever.
CompletedIsDelivered ==
  \A t \in External : t.platform = "google_ads" /\ ledger[t].status = "Completed" =>
    ledger[t].members = {} \/ ledger[t].members \subseteq audience[ledger[t].external]

\* README "Retries ... preserve the external audience ID": the retries and the
\* replays of one audience never leave a second one at the provider.
OneAudience ==
  \A a, b \in Audiences : created[a] # None /\ created[a] = created[b] => a = b

\* Every job that starts ends: whatever fails or crashes, no lock stays taken
\* that a later job waits for.
EveryJobEnds == \A j \in Jobs : job[j].pc # "idle" ~> job[j].pc = "idle"

-----------------------------------------------------------------------------
\* The snapshots that are on their way to a LEO Ads audience.
Reading ==
  {[campaign |-> job[j].target.campaign,
    members |-> job[j].members, epoch |-> job[j].epoch] :
     j \in {k \in Jobs : job[k].pc \in {"replace", "clean", "commit"}}}

Served == INSTANCE ServedAudiences WITH reading <- Reading

\* _sync_leo_ads: whatever sessions are lost and jobs retried between the selection
\* of the members and the commit at the destination, an audience changes in one
\* step, to members that were eligible at one moment and newer than those it has.
ImplementsServedAudiences == Served!Spec
=============================================================================
