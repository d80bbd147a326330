-------------------------- MODULE AudienceSyncProofs --------------------------
(***************************************************************************)
(* Proofs about AudienceSync for any number of jobs, campaigns, profiles   *)
(* and targets, any batch size, and any number of faults.                  *)
(***************************************************************************)
EXTENDS AudienceSync, TLAPS

(***************************************************************************)
(* The inductive invariant, in three layers.  First the sessions: a job    *)
(* whose session lives has the lock of its target from its row on, and the *)
(* destination transaction is the one that has the leo-ads-sync lock.      *)
(***************************************************************************)
Began(j) == job[j].pc \notin {"idle", "lock"}
Selected(j) == job[j].pc \notin {"idle", "lock", "select"}
InDestination(j) == job[j].pc \in {"clean", "commit"}

OnItsWay(j) ==
  /\ job[j].pc \in {"replace", "clean", "commit"} =>
       job[j].target.platform = "leo_ads"
  /\ job[j].pc \in {"create", "upload", "apply"} =>
       job[j].target.platform # "leo_ads"
  /\ ~Selected(j) => job[j].members = {}
  /\ job[j].pc = "lock" => job[j].session
  /\ job[j].pc = "create" => job[j].left = job[j].members

OnPath == \A j \in Jobs : OnItsWay(j)

HoldsLock ==
  \A j \in Jobs, n \in LockNames :
    lock[n] = j <=> Began(j) /\ job[j].session /\ LockName(job[j].target) = n

HoldsAdsLock == \A j \in Jobs : InDestination(j) <=> adsLock = j

SessionInv == TypeOK /\ OnPath /\ HoldsLock /\ HoldsAdsLock

(***************************************************************************)
(* LEO Ads.  The source lock orders the reads of the members: a job that   *)
(* may still enter the destination has read after every job that is in it  *)
(* or was, so the order of the commits is that of the reads.               *)
(***************************************************************************)
EpochsPassed ==
  /\ \A j \in Jobs : job[j].epoch <= epoch
  /\ \A c \in Campaigns : leo[c].epoch <= epoch

\* What j has read is not older than what the destination has.
NotOlder(j) == \A c \in Campaigns : leo[c].epoch <= job[j].epoch

ReadsInOrder ==
  \A j \in Jobs :
    /\ InDestination(j) => NotOlder(j)
    /\ job[j].pc = "replace" /\ job[j].session =>
         /\ NotOlder(j)
         /\ \A k \in Jobs : InDestination(k) => job[k].epoch <= job[j].epoch

OrphansCurrent ==
  \A j \in Jobs :
    job[j].pc = "commit" =>
      job[j].orphans = Orphans(job[j].target.campaign, job[j].members)

LeoInv == EpochsPassed /\ ReadsInOrder /\ OrphansCurrent /\ KeysMatchMembership

(***************************************************************************)
(* The external providers.  The row of a job that has selected is about    *)
(* its members, and what is uploaded so far is in an audience that is not  *)
(* created again.                                                          *)
(***************************************************************************)
RowOf(j) ==
  job[j].session =>
    /\ Began(j) => ledger[job[j].target].status = "Running"
    /\ Selected(j) => ledger[job[j].target].members = job[j].members

RowIsRunning == \A j \in Jobs : RowOf(j)

Exists(x) == x # None => x = GoogleList \/ created[x] # None

AudiencesExist ==
  /\ \A j \in Jobs : Exists(job[j].external)
  /\ \A t \in Targets : Exists(ledger[t].external)

Has(t, x, members) == x # None /\ members \subseteq HandedOver(t, x)

Uploaded(j) ==
  LET platform == job[j].target.platform IN
  /\ job[j].pc = "upload" /\ platform = "meta_ads" =>
       Has(job[j].target, job[j].external, job[j].members \ job[j].left)
  /\ job[j].pc \in {"upload", "apply"} /\ platform = "google_ads" =>
       job[j].external # None
  /\ job[j].pc = "apply" => platform # "meta_ads"
  /\ job[j].pc = "record" /\ platform \in {"meta_ads", "google_ads"} =>
       job[j].members = {} \/ Has(job[j].target, job[j].external, job[j].members)

UploadedSoFar == \A j \in Jobs : Uploaded(j)

RowInv == RowIsRunning /\ AudiencesExist /\ UploadedSoFar /\ CompletedIsHandedOver

SyncInv == SessionInv /\ LeoInv /\ RowInv

-----------------------------------------------------------------------------
(* Frames: what a step of job j that leads it to w keeps.                  *)
Moved(j, w) ==
  /\ w \in JobState
  /\ w.pc # "idle" => w.target \in Targets
  /\ w.left \subseteq w.members
  /\ job' = [job EXCEPT ![j] = w]

LEMMA JobsAfter ==
  ASSUME TypeOK, NEW j \in Jobs, NEW w, Moved(j, w)
  PROVE  /\ job'[j] = w
         /\ \A k \in Jobs \ {j} : job'[k] = job[k]
         /\ DOMAIN job' = Jobs
         /\ \A k \in Jobs : /\ job'[k] \in JobState
                            /\ job'[k].pc # "idle" => job'[k].target \in Targets
                            /\ job'[k].left \subseteq job'[k].members
  BY DEF TypeOK, Moved

\* The advisory lock stays with the session, or goes with it.
LEMMA LockKept ==
  ASSUME SessionInv, NEW j \in Jobs, NEW w, Moved(j, w), UNCHANGED lock,
         \/ ~Began(j) /\ w.pc \in {"idle", "lock"}
         \/ /\ w.target = job[j].target /\ w.session = job[j].session
            /\ Began(j) /\ w.pc \notin {"idle", "lock"}
  PROVE  lock' \in [LockNames -> Jobs \cup {None}] /\ HoldsLock'
<1>1. TypeOK /\ HoldsLock
  BY DEF SessionInv
<1>2. QED
  BY <1>1, JobsAfter DEF TypeOK, HoldsLock, Began

LEMMA LockFreed ==
  ASSUME SessionInv, NEW j \in Jobs, NEW w, Moved(j, w), lock' = Unlocked(j),
         w.session = FALSE \/ w.pc \in {"idle", "lock"}
  PROVE  lock' \in [LockNames -> Jobs \cup {None}] /\ HoldsLock'
<1>1. TypeOK /\ HoldsLock
  BY DEF SessionInv
<1>2. lock' \in [LockNames -> Jobs \cup {None}]
  BY <1>1 DEF TypeOK, Unlocked
<1>3. ASSUME NEW k \in Jobs, NEW n \in LockNames
      PROVE  lock'[n] = k <=> /\ job'[k].pc \notin {"idle", "lock"}
                              /\ job'[k].session
                              /\ LockName(job'[k].target) = n
  <2>1. lock'[n] = IF lock[n] = j THEN None ELSE lock[n]
    BY DEF Unlocked
  <2>2. None # k
    BY SyncAssumption
  <2>3. CASE k = j
    BY <1>1, <2>1, <2>2, <2>3, JobsAfter
  <2>4. CASE k # j
    BY <1>1, <2>1, <2>2, <2>4, JobsAfter DEF HoldsLock, Began
  <2>5. QED
    BY <2>3, <2>4
<1>4. QED
  BY <1>2, <1>3 DEF HoldsLock, Began

\* Likewise the lock of the destination transaction.
LEMMA AdsLockKept ==
  ASSUME SessionInv, NEW j \in Jobs, NEW w, Moved(j, w), UNCHANGED adsLock,
         InDestination(j) <=> w.pc \in {"clean", "commit"}
  PROVE  adsLock' \in Jobs \cup {None} /\ HoldsAdsLock'
<1>1. TypeOK /\ HoldsAdsLock
  BY DEF SessionInv
<1>2. QED
  BY <1>1, JobsAfter DEF TypeOK, HoldsAdsLock, InDestination

LEMMA AdsLockFreed ==
  ASSUME SessionInv, NEW j \in Jobs, NEW w, Moved(j, w),
         adsLock' = AdsUnlocked(j), w.pc \notin {"clean", "commit"}
  PROVE  adsLock' \in Jobs \cup {None} /\ HoldsAdsLock'
<1>1. TypeOK /\ HoldsAdsLock
  BY DEF SessionInv
<1>2. QED
  BY <1>1, JobsAfter, SyncAssumption
  DEF TypeOK, HoldsAdsLock, InDestination, AdsUnlocked

\* The first layer, put together.
LEMMA SessionFrame ==
  ASSUME SessionInv, NEW j \in Jobs, NEW w, Moved(j, w),
         lock' \in [LockNames -> Jobs \cup {None}], HoldsLock',
         adsLock' \in Jobs \cup {None}, HoldsAdsLock', OnItsWay(j)',
         DOMAIN ledger' = Targets, \A t \in Targets : ledger'[t] \in RunRow,
         eligible' \in [Campaigns -> SUBSET Profiles], epoch' \in 0 .. MaxChanges,
         audience' \in [Audiences -> SUBSET Profiles],
         created' \in [Audiences -> {Of(t) : t \in Targets} \cup {None}],
         google' \in [Audiences -> SUBSET Profiles],
         DOMAIN leo' = Campaigns,
         \A c \in Campaigns :
           leo'[c] \in [members : SUBSET Profiles, epoch : 0 .. MaxChanges],
         keys' \subseteq Profiles,
         starts' \in 0 .. MaxStarts, faults' \in 0 .. MaxFaults
  PROVE  SessionInv'
<1>1. TypeOK /\ OnPath
  BY DEF SessionInv
<1>2. ASSUME NEW n \in LockNames, lock'[n] # None
      PROVE  /\ job'[lock'[n]].target \in Targets
             /\ LockName(job'[lock'[n]].target) = n
  <2> DEFINE k == lock'[n]
  <2>1. k \in Jobs
    BY <1>2
  <2>2. job'[k].pc \notin {"idle", "lock"} /\ LockName(job'[k].target) = n
    BY <2>1 DEF HoldsLock, Began
  <2>3. QED
    BY <1>1, <2>1, <2>2, JobsAfter
<1>3. TypeOK'
  BY <1>1, <1>2, JobsAfter DEF TypeOK
<1>4. OnPath'
  BY <1>1, JobsAfter DEF OnPath, OnItsWay, Selected
<1>5. QED
  BY <1>3, <1>4 DEF SessionInv

-----------------------------------------------------------------------------
\* The second layer: a step outside the destination, or one that changes
\* nothing that was read there.
LEMMA LeoFrame ==
  ASSUME SessionInv, LeoInv, NEW j \in Jobs, NEW w, Moved(j, w),
         UNCHANGED <<leo, keys, epoch>>, w.epoch <= epoch,
         w.pc \in {"replace", "clean", "commit"} =>
           /\ w.pc = job[j].pc /\ w.target = job[j].target
           /\ w.session => job[j].session
           /\ w.epoch = job[j].epoch /\ w.members = job[j].members
           /\ w.orphans = job[j].orphans
  PROVE  LeoInv'
<1>1. TypeOK
  BY DEF SessionInv
<1>2. EpochsPassed'
  BY <1>1, JobsAfter DEF LeoInv, EpochsPassed
<1>3. ReadsInOrder'
  <2>1. ASSUME NEW k \in Jobs, InDestination(k)'
        PROVE  InDestination(k) /\ job'[k].epoch = job[k].epoch
    BY <1>1, <2>1, JobsAfter DEF InDestination
  <2>2. ASSUME NEW k \in Jobs, job'[k].pc = "replace", job'[k].session
        PROVE  job[k].pc = "replace" /\ job[k].session
               /\ job'[k].epoch = job[k].epoch
    BY <1>1, <2>2, JobsAfter
  <2>3. QED
    BY <2>1, <2>2 DEF LeoInv, ReadsInOrder, NotOlder
<1>4. OrphansCurrent'
  BY <1>1, JobsAfter DEF LeoInv, OrphansCurrent, Orphans
<1>5. QED
  BY <1>2, <1>3, <1>4 DEF LeoInv, KeysMatchMembership

-----------------------------------------------------------------------------
(* The third layer.                                                        *)
Handed(t) ==
  t.platform \notin {"leo_ads", "tiktok_ads"} /\ ledger[t].status = "Completed" =>
    ledger[t].members = {} \/ Has(t, ledger[t].external, ledger[t].members)

HandedAll == \A t \in Targets : Handed(t)

LEMMA CompletedEach == CompletedIsHandedOver <=> HandedAll
  BY DEF CompletedIsHandedOver, HandedAll, Handed, Has, External

\* The row of a target is its job's own as long as the job has the lock, or
\* nobody has it.
LEMMA OtherRowsKept ==
  ASSUME SessionInv, NEW j \in Jobs, job[j].target \in Targets,
         \/ Began(j) /\ job[j].session
         \/ lock[LockName(job[j].target)] = None,
         \A t \in Targets \ {job[j].target} : ledger'[t] = ledger[t]
  PROVE  \A k \in Jobs \ {j} :
           Began(k) /\ job[k].session =>
             ledger'[job[k].target] = ledger[job[k].target]
<1>1. TypeOK /\ HoldsLock
  BY DEF SessionInv
<1> SUFFICES ASSUME NEW k \in Jobs \ {j}, Began(k), job[k].session
             PROVE  ledger'[job[k].target] = ledger[job[k].target]
  OBVIOUS
<1>2. job[k].target \in Targets
  BY <1>1 DEF TypeOK, Began
<1>3. CASE job[k].target = job[j].target
  <2> DEFINE n == LockName(job[j].target)
  <2>1. n \in LockNames
    BY DEF LockNames
  <2>2. lock[n] = k
    BY <1>1, <1>3, <2>1 DEF HoldsLock
  <2>3. lock[n] = j \/ lock[n] = None
    BY <1>1, <2>1 DEF HoldsLock
  <2>4. QED
    BY <2>2, <2>3, SyncAssumption
<1>4. QED
  BY <1>2, <1>3

\* Audiences are created once and only grow.
AudiencesGrow ==
  \A x \in Audiences :
    Exists(x) => /\ Exists(x)'
                 /\ audience[x] \subseteq audience'[x] /\ google[x] \subseteq google'[x]

LEMMA RowFrame ==
  ASSUME SessionInv, RowInv, NEW j \in Jobs, NEW w, Moved(j, w), AudiencesGrow,
         \A k \in Jobs \ {j} :
           Began(k) /\ job[k].session =>
             ledger'[job[k].target] = ledger[job[k].target],
         \A t \in Targets :
           \/ ledger'[t] = ledger[t]
           \/ Exists(ledger[t].external)' /\ Handed(t)',
         RowOf(j)', Uploaded(j)', Exists(job[j].external)'
  PROVE  RowInv'
<1>1. TypeOK
  BY DEF SessionInv
<1>3. RowIsRunning'
  BY <1>1, JobsAfter DEF RowInv, RowIsRunning, RowOf, Began, Selected
<1>4. ASSUME NEW k \in Jobs \ {j} PROVE Exists(job[k].external)' /\ Uploaded(k)'
  <2>1. job'[k] = job[k]
    BY <1>1, JobsAfter
  <2>2. Exists(job[k].external) /\ Uploaded(k) /\ job[k] \in JobState
    BY <1>1 DEF RowInv, AudiencesExist, UploadedSoFar, TypeOK
  <2> DEFINE x == job[k].external
             m == job[k].members
             l == job[k].left
  <2>3. x \in Audiences \cup {None} /\ m \in SUBSET Profiles
        /\ m \ l \in SUBSET Profiles
    BY <2>2 DEF JobState
  <2>4. x # None => x \in Audiences
    BY <2>3
  <2>5. x # None => Exists(x)
    BY <2>2
  <2>6. Exists(job[k].external)'
    BY <2>1, <2>4, <2>5 DEF Exists, AudiencesGrow
  <2>7. /\ Has(job[k].target, x, m) => Has(job[k].target, job[k].external, job[k].members)'
        /\ Has(job[k].target, x, m \ l) =>
             Has(job[k].target, job[k].external, job[k].members \ job[k].left)'
    BY <2>1, <2>3, <2>4, <2>5 DEF Has, HandedOver, AudiencesGrow
  <2>8. Uploaded(k)'
    BY <2>1, <2>2, <2>7 DEF Uploaded
  <2>9. QED
    BY <2>6, <2>8
<1>5. ASSUME NEW t \in Targets, ledger'[t] = ledger[t]
      PROVE  Exists(ledger[t].external)' /\ Handed(t)'
  <2>1. Exists(ledger[t].external) /\ Handed(t) /\ ledger[t] \in RunRow
    BY <1>1, CompletedEach DEF RowInv, AudiencesExist, TypeOK, HandedAll
  <2> DEFINE x == ledger[t].external
  <2>2. x # None => x \in Audiences
    BY <2>1 DEF RunRow
  <2>3. ledger[t].members \in SUBSET Profiles
    BY <2>1 DEF RunRow
  <2>4. Exists(ledger[t].external)'
    BY <1>5, <2>1, <2>2 DEF Exists, AudiencesGrow
  <2>5. Has(t, x, ledger[t].members) =>
          Has(t, ledger[t].external, ledger[t].members)'
    BY <1>5, <2>1, <2>2, <2>3 DEF Has, HandedOver, AudiencesGrow
  <2>6. QED
    BY <1>5, <2>1, <2>4, <2>5 DEF Handed
<1>6. AudiencesExist'
  <2>1. Exists(job[j].external)'
    BY <1>1, JobsAfter DEF Exists
  <2>2. QED
    BY <1>4, <1>5, <2>1 DEF AudiencesExist
<1>7. UploadedSoFar'
  BY <1>4 DEF UploadedSoFar
<1>8. CompletedIsHandedOver'
  <2>1. HandedAll'
    BY <1>5 DEF HandedAll
  <2>2. QED
    BY <2>1, CompletedEach, PTL
<1>9. QED
  BY <1>3, <1>6, <1>7, <1>8 DEF RowInv

LEMMA RowFrameQuiet ==
  ASSUME SessionInv, RowInv, NEW j \in Jobs, NEW w, Moved(j, w),
         UNCHANGED <<ledger, audience, created, google>>,
         RowOf(j)', Uploaded(j)', Exists(w.external)
  PROVE  RowInv'
<1>1. AudiencesGrow
  BY DEF AudiencesGrow, Exists
<1>2. Exists(job[j].external)'
  BY JobsAfter DEF Exists, SessionInv
<1>3. QED
  BY <1>1, <1>2, RowFrame

-----------------------------------------------------------------------------
(* A job that starts, is retried or ends has selected nothing.             *)
Reset(w) ==
  /\ w \in JobState /\ w.pc \in {"idle", "lock"}
  /\ w.pc = "lock" => w.target \in Targets /\ w.session
  /\ w.external = None /\ w.members = {} /\ w.left = {} /\ w.epoch = 0

LEMMA Bounds ==
  MaxRetries \in Nat /\ MaxStarts \in Nat /\ MaxChanges \in Nat /\ MaxFaults \in Nat
  BY SyncAssumption

LEMMA IdleIsReset == Reset(Idle)
  BY SyncAssumption DEF Reset, Idle, JobState, Steps

LEMMA CalledIsReset ==
  ASSUME NEW t \in Targets, NEW d \in BOOLEAN, NEW n \in 0 .. MaxRetries
  PROVE  Reset(Called(t, d, n))
<1>1. PICK i : i = Idle
  OBVIOUS
<1>2. i \in JobState /\ Reset(i)
  BY <1>1, IdleIsReset DEF Reset
<1> DEFINE w == [i EXCEPT !.pc = "lock", !.target = t, !.asked = d,
                           !.session = TRUE, !.retries = n]
<1>3. w \in JobState
  BY <1>2 DEF JobState, Steps
<1>4. w.pc = "lock" /\ w.target = t /\ w.session = TRUE
      /\ w.external = i.external /\ w.members = i.members /\ w.left = i.left
      /\ w.epoch = i.epoch
  BY <1>2 DEF JobState
<1>5. Reset(w)
  BY <1>2, <1>3, <1>4 DEF Reset
<1>6. QED
  BY <1>1, <1>5 DEF Called

LEMMA ResetMoves ==
  ASSUME SyncInv, NEW j \in Jobs, NEW w, Reset(w), job' = [job EXCEPT ![j] = w],
         UNCHANGED <<leo, keys, epoch, audience, created, google>>,
         \A t \in Targets :
           \/ ledger'[t] = ledger[t]
           \/ Exists(ledger[t].external)' /\ Handed(t)',
         \A k \in Jobs \ {j} :
           Began(k) /\ job[k].session =>
             ledger'[job[k].target] = ledger[job[k].target]
  PROVE  Moved(j, w) /\ OnItsWay(j)' /\ LeoInv' /\ RowInv'
<1>1. SessionInv /\ LeoInv /\ RowInv /\ TypeOK
  BY DEF SyncInv, SessionInv
<1>2. Moved(j, w)
  BY DEF Moved, Reset
<1>3. job'[j] = w
  BY <1>1, <1>2, JobsAfter
<1>4. OnItsWay(j)'
  BY <1>3 DEF OnItsWay, Selected, Reset
<1>5. LeoInv'
  <2>1. w.epoch <= epoch
    BY <1>1, SyncAssumption DEF Reset, TypeOK
  <2>2. QED
    BY <1>1, <1>2, <2>1, LeoFrame DEF Reset
<1>6. RowInv'
  <2>1. RowOf(j)' /\ Uploaded(j)'
    BY <1>3 DEF RowOf, Uploaded, Reset, Began, Selected
  <2>2. Exists(job[j].external)'
    BY <1>3 DEF Exists, Reset
  <2>3. AudiencesGrow
    BY DEF AudiencesGrow, Exists
  <2>4. QED
    BY <1>1, <1>2, <2>1, <2>2, <2>3, RowFrame
<1>7. QED
  BY <1>2, <1>4, <1>5, <1>6

LEMMA StartStep ==
  ASSUME SyncInv, NEW j \in Jobs, Start(j) PROVE SyncInv'
<1>1. SessionInv /\ TypeOK
  BY DEF SyncInv, SessionInv
<1>2. PICK t \in Targets, d \in DryRuns :
        job' = [job EXCEPT ![j] = Called(t, d, 0)]
  BY DEF Start
<1> DEFINE w == Called(t, d, 0)
<1>3. Reset(w)
  BY SyncAssumption, CalledIsReset
<1> HIDE DEF w
<1>4. job' = [job EXCEPT ![j] = w]
  BY <1>2 DEF w
<1>5. UNCHANGED <<ledger, lock, adsLock, eligible, epoch, audience, created, google, leo,
                  keys, faults>>
  BY DEF Start, providers, ads
<1>6. Moved(j, w) /\ OnItsWay(j)' /\ LeoInv' /\ RowInv'
  BY <1>3, <1>4, <1>5, ResetMoves
<1>7. lock' \in [LockNames -> Jobs \cup {None}] /\ HoldsLock'
  BY <1>1, <1>3, <1>5, <1>6, LockKept DEF Start, Began, Reset
<1>8. adsLock' \in Jobs \cup {None} /\ HoldsAdsLock'
  BY <1>1, <1>3, <1>5, <1>6, AdsLockKept DEF Start, InDestination, Reset
<1>9. starts' \in 0 .. MaxStarts
  BY <1>1, Bounds DEF Start, TypeOK
<1>10. SessionInv'
  BY <1>1, <1>5, <1>6, <1>7, <1>8, <1>9, SessionFrame DEF TypeOK
<1>11. QED
  BY <1>6, <1>10 DEF SyncInv

\* A failed job is called again or given up; its row fails with it.
LEMMA RaiseStep ==
  ASSUME SyncInv, NEW j \in Jobs, Began(j), Raise(j), faults' \in 0 .. MaxFaults
  PROVE  SyncInv'
<1>1. SessionInv /\ TypeOK /\ RowInv
  BY DEF SyncInv, SessionInv
<1>2. PICK t \in Targets : t = job[j].target
  BY <1>1 DEF TypeOK, Began
<1> DEFINE w == IF job[j].retries < MaxRetries
                  THEN Called(t, job[j].asked, job[j].retries + 1) ELSE Idle
<1>3. Reset(w)
  <2>1. job[j] \in JobState
    BY <1>1 DEF TypeOK
  <2>2. job[j].asked \in BOOLEAN /\ job[j].retries \in 0 .. MaxRetries
    BY <2>1 DEF JobState
  <2>3. QED
    BY <2>2, CalledIsReset, IdleIsReset, Bounds
<1>4. job' = [job EXCEPT ![j] = w] /\ lock' = Unlocked(j)
      /\ adsLock' = AdsUnlocked(j)
      /\ UNCHANGED <<eligible, epoch, audience, created, google, leo, keys, starts>>
  BY <1>2 DEF Raise, providers, ads
<1> HIDE DEF w
<1> DEFINE row == [ledger[t] EXCEPT !.status = "Failed"]
<1>5. \/ ledger' = ledger
      \/ job[j].session /\ ledger' = [ledger EXCEPT ![t] = row]
  BY <1>2 DEF Raise
<1>6. /\ row \in RunRow /\ row.status = "Failed"
      /\ row.external = ledger[t].external
  BY <1>1, <1>2 DEF TypeOK, RunRow
<1> HIDE DEF row
<1>7. /\ DOMAIN ledger' = Targets
      /\ \A u \in Targets \ {t} : ledger'[u] = ledger[u]
      /\ ledger'[t] = ledger[t] \/ ledger'[t] = row
  BY <1>1, <1>2, <1>5 DEF TypeOK
<1>8. \A u \in Targets : ledger'[u] \in RunRow
  BY <1>1, <1>6, <1>7 DEF TypeOK
<1>9. \A u \in Targets :
        \/ ledger'[u] = ledger[u]
        \/ Exists(ledger[u].external)' /\ Handed(u)'
  <2>1. CASE ledger'[t] = ledger[t]
    BY <1>7, <2>1
  <2>2. CASE ledger'[t] = row
    <3>1. Exists(ledger[t].external)
      BY <1>1, <1>2 DEF RowInv, AudiencesExist
    <3>2. Exists(ledger[t].external)'
      BY <1>4, <1>6, <2>2, <3>1 DEF Exists
    <3>3. Handed(t)'
      BY <1>6, <2>2 DEF Handed
    <3>4. QED
      BY <1>7, <3>2, <3>3
  <2>3. QED
    BY <1>7, <2>1, <2>2
<1>10. \A k \in Jobs \ {j} :
        Began(k) /\ job[k].session =>
          ledger'[job[k].target] = ledger[job[k].target]
  <2>1. CASE ledger' = ledger
    BY <2>1
  <2>2. CASE job[j].session
    BY <1>1, <1>2, <1>7, <2>2, OtherRowsKept
  <2>3. QED
    BY <1>5, <2>1, <2>2
<1>11. Moved(j, w) /\ OnItsWay(j)' /\ LeoInv' /\ RowInv'
  BY <1>3, <1>4, <1>9, <1>10, ResetMoves
<1>12. lock' \in [LockNames -> Jobs \cup {None}] /\ HoldsLock'
  BY <1>1, <1>3, <1>4, <1>11, LockFreed DEF Reset
<1>13. adsLock' \in Jobs \cup {None} /\ HoldsAdsLock'
  BY <1>1, <1>3, <1>4, <1>11, AdsLockFreed DEF Reset
<1>14. SessionInv'
  BY <1>1, <1>4, <1>7, <1>8, <1>11, <1>12, <1>13, SessionFrame DEF TypeOK
<1>15. QED
  BY <1>11, <1>14 DEF SyncInv

LEMMA CrashStep ==
  ASSUME SyncInv, NEW j \in Jobs, Crash(j) PROVE SyncInv'
<1>1. SessionInv /\ TypeOK
  BY DEF SyncInv, SessionInv
<1> DEFINE w == Idle
<1>2. Reset(w)
  BY IdleIsReset
<1> HIDE DEF w
<1>3. job' = [job EXCEPT ![j] = w] /\ lock' = Unlocked(j)
      /\ adsLock' = AdsUnlocked(j)
      /\ UNCHANGED <<ledger, eligible, epoch, audience, created, google, leo, keys, starts>>
  BY DEF Crash, providers, ads, w
<1>4. Moved(j, w) /\ OnItsWay(j)' /\ LeoInv' /\ RowInv'
  BY <1>2, <1>3, ResetMoves
<1>5. lock' \in [LockNames -> Jobs \cup {None}] /\ HoldsLock'
  BY <1>1, <1>2, <1>3, <1>4, LockFreed DEF Reset
<1>6. adsLock' \in Jobs \cup {None} /\ HoldsAdsLock'
  BY <1>1, <1>2, <1>3, <1>4, AdsLockFreed DEF Reset
<1>7. faults' \in 0 .. MaxFaults
  BY <1>1, Bounds DEF Crash, TypeOK
<1>8. SessionInv'
  BY <1>1, <1>3, <1>4, <1>5, <1>6, <1>7, SessionFrame DEF TypeOK
<1>9. QED
  BY <1>4, <1>8 DEF SyncInv

-----------------------------------------------------------------------------
(* The steps of a job on its way.                                          *)
LEMMA RowWritten ==
  ASSUME TypeOK, NEW t \in Targets, NEW row \in RunRow,
         ledger' = [ledger EXCEPT ![t] = row]
  PROVE  /\ DOMAIN ledger' = Targets
         /\ \A u \in Targets : ledger'[u] \in RunRow
         /\ ledger'[t] = row
         /\ \A u \in Targets \ {t} : ledger'[u] = ledger[u]
  BY DEF TypeOK

\* An audience that a new row takes over exists.
LEMMA KnownExists ==
  ASSUME TypeOK, RowInv, NEW t \in Targets, NEW x \in KnownExternal(t)
  PROVE  x \in Audiences \cup {None} /\ Exists(x)
<1>1. \A u \in Targets : /\ ledger[u].external \in Audiences \cup {None}
                         /\ Exists(ledger[u].external)
  BY DEF TypeOK, RunRow, RowInv, AudiencesExist
<1>2. x = None \/ \E u \in Targets : x = ledger[u].external
  BY DEF KnownExternal
<1>3. QED
  BY <1>1, <1>2 DEF Exists

LEMMA BeginStep ==
  ASSUME SyncInv, NEW j \in Jobs, Begin(j) PROVE SyncInv'
<1>1. SessionInv /\ TypeOK /\ OnPath /\ HoldsLock /\ LeoInv /\ RowInv
  BY DEF SyncInv, SessionInv
<1>2. job[j] \in JobState /\ job[j].left \subseteq job[j].members
      /\ job[j].members = {} /\ job[j].epoch <= epoch /\ job[j].pc = "lock"
  BY <1>1 DEF TypeOK, OnPath, OnItsWay, Selected, Begin, LeoInv, EpochsPassed
<1>3. PICK t \in Targets : t = job[j].target
  BY <1>1, <1>2 DEF TypeOK
<1>4. PICK x \in KnownExternal(t), u \in BOOLEAN :
        job' = [job EXCEPT ![j].pc = "select", ![j].external = x,
                           ![j].dry = job[j].asked \/ u]
  BY <1>3 DEF Begin
<1>5. x \in Audiences \cup {None} /\ Exists(x)
  BY <1>1, KnownExists
<1> DEFINE w == [job[j] EXCEPT !.pc = "select", !.external = x,
                               !.dry = job[j].asked \/ u]
           row == [ledger[t] EXCEPT !.status = "Running", !.dry = job[j].asked]
           n == LockName(t)
<1>6. /\ w \in JobState /\ w.left \subseteq w.members
      /\ w.pc = "select" /\ w.target = t /\ w.session = job[j].session
      /\ w.members = {} /\ w.epoch <= epoch /\ w.external = x
  BY <1>2, <1>3, <1>5 DEF JobState, Steps
<1>7. /\ row \in RunRow /\ row.status = "Running"
      /\ row.external = ledger[t].external
  <2>1. ledger[t] \in RunRow /\ job[j].asked \in BOOLEAN
    BY <1>1, <1>2 DEF TypeOK, JobState
  <2>2. QED
    BY <2>1 DEF RunRow
<1>8. job' = [job EXCEPT ![j] = w] /\ ledger' = [ledger EXCEPT ![t] = row]
  BY <1>3, <1>4, ZenonT(40) DEF Begin
<1>9. /\ n \in LockNames /\ lock[n] = None /\ lock' = [lock EXCEPT ![n] = j]
      /\ UNCHANGED <<adsLock, eligible, epoch, audience, created, google, leo, keys,
                     starts, faults>>
  BY <1>3 DEF Begin, LockFree, LockNames, providers, ads, bounds
<1> HIDE DEF w, row
<1>10. Moved(j, w) /\ job'[j] = w
  BY <1>1, <1>6, <1>8, JobsAfter DEF Moved
<1>11. /\ DOMAIN ledger' = Targets /\ ledger'[t] = row
       /\ \A v \in Targets : ledger'[v] \in RunRow
       /\ \A v \in Targets \ {t} : ledger'[v] = ledger[v]
  BY <1>1, <1>7, <1>8, RowWritten
<1>12. lock' \in [LockNames -> Jobs \cup {None}] /\ HoldsLock'
  <2>1. lock' \in [LockNames -> Jobs \cup {None}]
    BY <1>1, <1>9 DEF TypeOK
  <2>2. ASSUME NEW k \in Jobs, NEW m \in LockNames
        PROVE  lock'[m] = k <=> /\ job'[k].pc \notin {"idle", "lock"}
                                /\ job'[k].session
                                /\ LockName(job'[k].target) = m
    <3>1. lock'[m] = IF m = n THEN j ELSE lock[m]
      BY <1>1, <1>9 DEF TypeOK
    <3>2. k # j => job'[k] = job[k]
      BY <1>1, <1>10, JobsAfter
    <3>3. lock[m] # j
      BY <1>1, <1>2 DEF HoldsLock, Began
    <3>4. job[j].session
      BY <1>1, <1>2 DEF OnPath, OnItsWay
    <3>5. k # None
      BY SyncAssumption
    <3>6. lock[m] = k <=> /\ job[k].pc \notin {"idle", "lock"}
                          /\ job[k].session /\ LockName(job[k].target) = m
      BY <1>1 DEF HoldsLock, Began
    <3>7. CASE k = j
      BY <1>6, <1>10, <3>1, <3>3, <3>4, <3>7
    <3>8. CASE k # j
      BY <1>9, <3>1, <3>2, <3>5, <3>6, <3>8
    <3>9. QED
      BY <3>7, <3>8
  <2>3. QED
    BY <2>1, <2>2 DEF HoldsLock, Began
<1>13. adsLock' \in Jobs \cup {None} /\ HoldsAdsLock'
  BY <1>1, <1>2, <1>6, <1>9, <1>10, AdsLockKept DEF InDestination
<1>14. OnItsWay(j)'
  BY <1>6, <1>10 DEF OnItsWay
<1>15. SessionInv'
  BY <1>1, <1>9, <1>10, <1>11, <1>12, <1>13, <1>14, SessionFrame DEF TypeOK
<1>16. LeoInv'
  BY <1>1, <1>6, <1>9, <1>10, LeoFrame
<1>17. RowInv'
  <2>1. AudiencesGrow /\ Exists(job[j].external)'
    BY <1>5, <1>6, <1>9, <1>10 DEF AudiencesGrow, Exists
  <2>2. RowOf(j)' /\ Uploaded(j)'
    BY <1>6, <1>7, <1>10, <1>11 DEF RowOf, Uploaded, Selected
  <2>3. Exists(ledger[t].external)' /\ Handed(t)'
    <3>1. Exists(ledger[t].external)
      BY <1>1 DEF RowInv, AudiencesExist
    <3>2. QED
      BY <1>7, <1>9, <1>11, <3>1 DEF Exists, Handed
  <2>4. \A k \in Jobs \ {j} :
          Began(k) /\ job[k].session =>
            ledger'[job[k].target] = ledger[job[k].target]
    BY <1>1, <1>3, <1>9, <1>11, OtherRowsKept
  <2>5. QED
    BY <1>1, <1>10, <1>11, <2>1, <2>2, <2>3, <2>4, RowFrame
<1>18. QED
  BY <1>15, <1>16, <1>17 DEF SyncInv

LEMMA SelectStep ==
  ASSUME SyncInv, NEW j \in Jobs, Select(j) PROVE SyncInv'
<1>1. SessionInv /\ TypeOK /\ OnPath /\ HoldsLock /\ LeoInv /\ RowInv
  BY DEF SyncInv, SessionInv
<1>2. /\ job[j] \in JobState /\ job[j].members = {} /\ job[j].left = {}
      /\ job[j].epoch <= epoch /\ Exists(job[j].external)
      /\ job[j].pc = "select" /\ job[j].session
  BY <1>1 DEF TypeOK, OnPath, OnItsWay, Selected, Select, LeoInv, EpochsPassed,
              RowInv, AudiencesExist
<1>3. PICK t \in Targets : t = job[j].target
  BY <1>1, <1>2 DEF TypeOK
<1>4. eligible[t.campaign] \subseteq Profiles /\ epoch \in 0 .. MaxChanges
      /\ t.platform \in Platforms
  BY <1>1, SyncAssumption DEF TypeOK
<1> DEFINE m == eligible[t.campaign]
           nothing == job[j].dry \/ (t \in External /\ m = {})
           x == IF t.platform = "google_ads" /\ job[j].external = None
                  THEN GoogleList ELSE job[j].external
<1>5. PICK sent \in SUBSET Profiles : sent = IF nothing THEN {} ELSE m
  BY <1>4
<1> DEFINE w == IF nothing THEN [job[j] EXCEPT !.pc = "record"]
                ELSE [job[j] EXCEPT !.pc = FirstStep(t, x), !.external = x,
                        !.members = m, !.left = m, !.epoch = epoch]
           row == [ledger[t] EXCEPT !.members = sent]
<1>6. /\ job' = [job EXCEPT ![j] = w] /\ ledger' = [ledger EXCEPT ![t] = row]
      /\ UNCHANGED <<lock, adsLock, eligible, epoch, audience, created, google, leo, keys,
                     starts, faults>>
  BY <1>3, <1>5, ZenonT(40) DEF Select, providers, ads, bounds
<1>7. x \in Audiences \cup {None} /\ Exists(x)
  BY <1>2, SyncAssumption DEF JobState, Audiences, GoogleList, Exists
<1>8. /\ FirstStep(t, x) \in {"create", "upload", "replace"}
      /\ FirstStep(t, x) = "replace" <=> t.platform = "leo_ads"
      /\ FirstStep(t, x) = "create" => t.platform = "meta_ads"
      /\ FirstStep(t, x) = "upload" /\ t.platform \in {"meta_ads", "google_ads"}
           => x # None
  BY <1>4, SyncAssumption DEF FirstStep, Platforms, GoogleList
<1>9. /\ w \in JobState /\ w.left \subseteq w.members
      /\ w.target = t /\ w.session /\ w.members = sent /\ Exists(w.external)
      /\ w.epoch <= epoch
      /\ \/ w.pc = "record" /\ sent = {}
         \/ /\ w.pc = FirstStep(t, x) /\ w.external = x /\ w.left = sent
            /\ w.epoch = epoch
  <2>1. CASE nothing
    BY <1>2, <1>3, <1>5, <2>1 DEF JobState, Steps
  <2>2. CASE ~nothing
    <3>1. PICK first : first = FirstStep(t, x)
      OBVIOUS
    <3>2. PICK y \in Audiences \cup {None} : y = x
      BY <1>7
    <3>3. sent = m /\ first \in {"create", "upload", "replace"}
      BY <1>5, <1>8, <2>2, <3>1
    <3>4. w = [job[j] EXCEPT !.pc = first, !.external = y, !.members = sent,
                             !.left = sent, !.epoch = epoch]
      BY <2>2, <3>1, <3>2, <3>3
    <3> HIDE DEF w, nothing, x, m
    <3>5. /\ w \in JobState /\ w.pc = first /\ w.external = y
          /\ w.members = sent /\ w.left = sent /\ w.epoch = epoch
          /\ w.target = job[j].target /\ w.session = job[j].session
      BY <1>2, <1>4, <3>3, <3>4 DEF JobState, Steps
    <3>6. QED
      BY <1>2, <1>3, <1>4, <1>7, <3>1, <3>2, <3>5, Bounds
  <2>3. QED
    BY <2>1, <2>2
<1>10. row \in RunRow /\ row.status = ledger[t].status
       /\ row.external = ledger[t].external /\ row.members = sent
  <2>1. ledger[t] \in RunRow
    BY <1>1 DEF TypeOK
  <2>2. QED
    BY <2>1 DEF RunRow
<1> HIDE DEF w, row, x, nothing
<1>11. Moved(j, w) /\ job'[j] = w
  BY <1>1, <1>6, <1>9, JobsAfter DEF Moved
<1>12. /\ DOMAIN ledger' = Targets /\ ledger'[t] = row
       /\ \A v \in Targets : ledger'[v] \in RunRow
       /\ \A v \in Targets \ {t} : ledger'[v] = ledger[v]
  BY <1>1, <1>6, <1>10, RowWritten
<1>13. w.pc \in {"record", "create", "upload", "replace"}
  BY <1>8, <1>9
<1>14. lock' \in [LockNames -> Jobs \cup {None}] /\ HoldsLock'
  BY <1>1, <1>2, <1>3, <1>6, <1>9, <1>11, <1>13, LockKept DEF Began
<1>15. adsLock' \in Jobs \cup {None} /\ HoldsAdsLock'
  BY <1>1, <1>2, <1>6, <1>11, <1>13, AdsLockKept DEF InDestination
<1>16. OnItsWay(j)'
  BY <1>8, <1>9, <1>11, <1>13 DEF OnItsWay, Selected
<1>17. SessionInv'
  BY <1>1, <1>6, <1>11, <1>12, <1>14, <1>15, <1>16, SessionFrame DEF TypeOK
<1>18. LeoInv'
  <2>1. CASE w.pc # "replace"
    BY <1>1, <1>6, <1>9, <1>11, <1>13, <2>1, LeoFrame
  <2>2. CASE w.pc = "replace"
    <3>1. EpochsPassed /\ ReadsInOrder /\ OrphansCurrent /\ KeysMatchMembership
      BY <1>1 DEF LeoInv
    <3>2. w.epoch = epoch
      BY <1>9, <2>2
    <3>3. \A k \in Jobs \ {j} : job'[k] = job[k]
      BY <1>1, <1>11, JobsAfter
    <3>4. EpochsPassed'
      BY <1>6, <1>9, <1>11, <3>1, <3>3 DEF EpochsPassed
    <3>5. ReadsInOrder'
      <4>1. NotOlder(j)'
        BY <1>6, <1>11, <3>1, <3>2 DEF NotOlder, EpochsPassed
      <4>2. \A k \in Jobs : InDestination(k)' => InDestination(k) /\ k # j
        BY <1>11, <2>2, <3>3 DEF InDestination
      <4>3. \A k \in Jobs : InDestination(k)' => job'[k].epoch <= job'[j].epoch
        BY <1>11, <3>1, <3>2, <3>3, <4>2 DEF EpochsPassed
      <4>4. QED
        BY <1>6, <3>1, <3>3, <4>1, <4>2, <4>3 DEF ReadsInOrder, NotOlder
    <3>6. OrphansCurrent'
      BY <1>6, <1>11, <2>2, <3>1, <3>3 DEF OrphansCurrent, Orphans
    <3>7. QED
      BY <1>6, <3>1, <3>4, <3>5, <3>6 DEF LeoInv, KeysMatchMembership
  <2>3. QED
    BY <2>1, <2>2
<1>19. RowInv'
  <2>1. AudiencesGrow /\ Exists(job[j].external)'
    BY <1>6, <1>9, <1>11 DEF AudiencesGrow, Exists
  <2>2. ledger[t].status = "Running"
    BY <1>1, <1>2, <1>3 DEF RowInv, RowIsRunning, RowOf, Began
  <2>3. RowOf(j)'
    BY <1>9, <1>10, <1>11, <1>12, <2>2 DEF RowOf
  <2>4. Uploaded(j)'
    BY <1>7, <1>8, <1>9, <1>11 DEF Uploaded, Has
  <2>5. Exists(ledger[t].external)' /\ Handed(t)'
    <3>1. Exists(ledger[t].external)
      BY <1>1 DEF RowInv, AudiencesExist
    <3>2. QED
      BY <1>6, <1>10, <1>12, <2>2, <3>1 DEF Exists, Handed
  <2>6. \A k \in Jobs \ {j} :
          Began(k) /\ job[k].session =>
            ledger'[job[k].target] = ledger[job[k].target]
    BY <1>1, <1>2, <1>3, <1>12, OtherRowsKept DEF Began
  <2>7. QED
    BY <1>1, <1>11, <1>12, <2>1, <2>3, <2>4, <2>5, <2>6, RowFrame
<1>20. QED
  BY <1>17, <1>18, <1>19 DEF SyncInv

\* A new audience is none that existed.
LEMMA NewAudience ==
  ASSUME TypeOK, NEW j \in Jobs, job[j].target \in Targets,
         NEW a \in NextAudience, NEW m \in SUBSET Profiles,
         CreateAudience(j, a, m), google' = google
  PROVE  /\ a \in Audiences /\ a # None
         /\ audience' \in [Audiences -> SUBSET Profiles] /\ audience'[a] = m
         /\ created' \in [Audiences -> {Of(t) : t \in Targets} \cup {None}]
         /\ Exists(a)' /\ AudiencesGrow
<1>1. a \in Audiences /\ a # GoogleList /\ created[a] = None
  BY DEF NextAudience
<1>2. a # None
  BY <1>1, SyncAssumption DEF Audiences, GoogleList
<1>3. PICK o \in {Of(t) : t \in Targets} : o = Of(job[j].target)
  OBVIOUS
<1>4. o # None
  <2>1. job[j].target.campaign \in Campaigns /\ job[j].target.platform \in Platforms
    BY SyncAssumption
  <2>2. o \in [campaign : Campaigns, platform : Platforms]
    BY <1>3, <2>1 DEF Of
  <2>3. QED
    BY <2>2, SyncAssumption
<1>5. created' = [created EXCEPT ![a] = o] /\ audience' = [audience EXCEPT ![a] = m]
  BY <1>3 DEF CreateAudience
<1>6. /\ audience' \in [Audiences -> SUBSET Profiles] /\ audience'[a] = m
      /\ created' \in [Audiences -> {Of(t) : t \in Targets} \cup {None}]
      /\ created'[a] = o
  BY <1>1, <1>5 DEF TypeOK
<1>7. AudiencesGrow
  BY <1>1, <1>2, <1>4, <1>5 DEF AudiencesGrow, Exists, TypeOK
<1>8. QED
  BY <1>1, <1>2, <1>4, <1>6, <1>7 DEF Exists

\* A step of an external job that keeps its row and its sessions.
LEMMA ExternalStep ==
  ASSUME SyncInv, NEW j \in Jobs, Selected(j), ~InDestination(j),
         NEW w \in JobState, job' = [job EXCEPT ![j] = w],
         w.pc \in {"upload", "apply", "record"},
         w.pc # "record" => job[j].target.platform # "leo_ads",
         w.left \subseteq w.members, w.members = job[j].members,
         w.target = job[j].target, w.session = job[j].session,
         w.epoch = job[j].epoch,
         audience' \in [Audiences -> SUBSET Profiles],
         created' \in [Audiences -> {Of(t) : t \in Targets} \cup {None}],
         google' \in [Audiences -> SUBSET Profiles],
         AudiencesGrow, Exists(job[j].external)', Uploaded(j)',
         UNCHANGED <<ledger, lock, adsLock, eligible, epoch, ads, bounds>>
  PROVE  SyncInv'
<1>1. SessionInv /\ TypeOK /\ OnPath /\ LeoInv /\ RowInv
  BY DEF SyncInv, SessionInv
<1>2. Moved(j, w) /\ job'[j] = w
  <2>1. job[j].target \in Targets
    BY <1>1 DEF TypeOK, Selected
  <2>2. Moved(j, w)
    BY <2>1 DEF Moved
  <2>3. QED
    BY <1>1, <2>2, JobsAfter
<1>3. lock' \in [LockNames -> Jobs \cup {None}] /\ HoldsLock'
  BY <1>1, <1>2, LockKept DEF Began, Selected
<1>4. adsLock' \in Jobs \cup {None} /\ HoldsAdsLock'
  BY <1>1, <1>2, AdsLockKept
<1>5. OnItsWay(j)'
  BY <1>2 DEF OnItsWay, Selected
<1>6. SessionInv'
  BY <1>1, <1>2, <1>3, <1>4, <1>5, SessionFrame DEF TypeOK, ads, bounds
<1>7. LeoInv'
  BY <1>1, <1>2, LeoFrame DEF ads, LeoInv, EpochsPassed
<1>8. RowOf(j)'
  <2>1. RowOf(j) /\ Began(j) /\ Selected(j)
    BY <1>1 DEF RowInv, RowIsRunning, Began, Selected
  <2>2. ledger' = ledger /\ job'[j].target = job[j].target
        /\ job'[j].session = job[j].session /\ job'[j].members = job[j].members
    BY <1>2
  <2>3. QED
    BY <2>1, <2>2 DEF RowOf
<1>9. RowInv'
  BY <1>1, <1>2, <1>8, RowFrame
<1>10. QED
  BY <1>6, <1>7, <1>9 DEF SyncInv

LEMMA CreateStep ==
  ASSUME SyncInv, NEW j \in Jobs, Create(j) PROVE SyncInv'
<1>1. SessionInv /\ TypeOK /\ OnPath
  BY DEF SyncInv, SessionInv
<1>2. /\ job[j] \in JobState /\ job[j].pc = "create"
      /\ job[j].target \in Targets /\ job[j].target.platform # "leo_ads"
      /\ job[j].left = job[j].members
  BY <1>1 DEF TypeOK, Create, OnPath, OnItsWay
<1>3. PICK a \in NextAudience :
        /\ CreateAudience(j, a, {}) /\ google' = google
        /\ job' = [job EXCEPT ![j].pc = "upload", ![j].external = a]
  BY DEF Create
<1>4. /\ a \in Audiences /\ a # None /\ audience'[a] = {}
      /\ audience' \in [Audiences -> SUBSET Profiles]
      /\ created' \in [Audiences -> {Of(t) : t \in Targets} \cup {None}]
      /\ Exists(a)' /\ AudiencesGrow
  BY <1>1, <1>2, <1>3, NewAudience
<1> DEFINE w == [job[j] EXCEPT !.pc = "upload", !.external = a]
<1>5. /\ w \in JobState /\ w.pc = "upload" /\ w.external = a
      /\ w.left = w.members /\ w.members = job[j].members
      /\ w.target = job[j].target /\ w.session = job[j].session
      /\ w.epoch = job[j].epoch
  BY <1>2, <1>4 DEF JobState, Steps
<1>6. job' = [job EXCEPT ![j] = w]
  BY <1>3
<1> HIDE DEF w
<1>7. job'[j] = w
  BY <1>1, <1>6 DEF TypeOK
<1>8. Exists(job[j].external)' /\ Uploaded(j)'
  BY <1>4, <1>5, <1>7 DEF Uploaded, Has, HandedOver, Exists
<1>9. Selected(j) /\ ~InDestination(j)
  BY <1>2 DEF Selected, InDestination
<1>10. UNCHANGED <<ledger, lock, adsLock, eligible, epoch, ads, bounds>>
  BY DEF Create
<1>11. google' \in [Audiences -> SUBSET Profiles]
  BY <1>1, <1>3 DEF TypeOK
<1>12. QED
  BY <1>2, <1>4, <1>5, <1>6, <1>8, <1>9, <1>10, <1>11, ExternalStep

LEMMA UploadStep ==
  ASSUME SyncInv, NEW j \in Jobs, Upload(j) PROVE SyncInv'
<1>1. SessionInv /\ TypeOK /\ OnPath /\ RowInv
  BY DEF SyncInv, SessionInv
<1>2. /\ job[j] \in JobState /\ job[j].pc = "upload"
      /\ job[j].left \subseteq job[j].members
      /\ job[j].target.platform # "leo_ads"
      /\ Exists(job[j].external) /\ Uploaded(j)
  BY <1>1 DEF TypeOK, Upload, OnPath, OnItsWay, RowInv, AudiencesExist,
              UploadedSoFar
<1>3. PICK t \in Targets : t = job[j].target
  BY <1>1, <1>2 DEF TypeOK
<1>4. PICK x \in Audiences \cup {None} : x = job[j].external
  BY <1>2 DEF JobState
<1>5. PICK b \in SUBSET job[j].left :
        /\ job' = [job EXCEPT ![j].left = @ \ b,
             ![j].pc = IF job[j].left # b THEN "upload"
                       ELSE IF t.platform = "meta_ads" THEN "record"
                       ELSE "apply"]
        /\ audience' = IF t.platform = "meta_ads"
                         THEN [audience EXCEPT ![x] = @ \cup b] ELSE audience
  BY <1>3, <1>4 DEF Upload, Batches
<1>6. PICK next :
        next = IF job[j].left # b THEN "upload"
               ELSE IF t.platform = "meta_ads" THEN "record" ELSE "apply"
  OBVIOUS
<1>7. /\ next \in {"upload", "record", "apply"}
      /\ next # "upload" => job[j].left = b
      /\ next = "record" => t.platform = "meta_ads"
      /\ next = "apply" => t.platform # "meta_ads"
  BY <1>6
<1> DEFINE w == [job[j] EXCEPT !.left = @ \ b, !.pc = next]
<1>8. /\ w \in JobState /\ w.pc = next /\ w.external = x
      /\ w.left = job[j].left \ b /\ w.members = job[j].members
      /\ w.target = t /\ w.session = job[j].session /\ w.epoch = job[j].epoch
  BY <1>2, <1>3, <1>4, <1>7 DEF JobState, Steps
<1>9. job' = [job EXCEPT ![j] = w]
  BY <1>5, <1>6
<1> HIDE DEF w
<1>10. job'[j] = w
  BY <1>1, <1>9 DEF TypeOK
<1>11. job[j].left \subseteq Profiles
  BY <1>2 DEF JobState
<1>12. audience' \in [Audiences -> SUBSET Profiles] /\ UNCHANGED <<created, google>>
       /\ AudiencesGrow
  BY <1>1, <1>5, <1>11 DEF TypeOK, AudiencesGrow, Exists, Upload
<1>13. Exists(job[j].external)'
  BY <1>2, <1>4, <1>8, <1>10, <1>12 DEF Exists
<1>14. Uploaded(j)'
  <2>1. CASE t.platform = "meta_ads"
    <3>1. x # None /\ job[j].members \ job[j].left \subseteq audience[x]
      BY <1>2, <1>3, <1>4, <2>1 DEF Uploaded, Has, HandedOver
    <3>2. audience'[x] = audience[x] \cup b
      BY <1>1, <1>5, <2>1, <3>1 DEF TypeOK
    <3>3. job[j].members \ (job[j].left \ b) \subseteq audience'[x]
      BY <3>1, <3>2
    <3>4. next # "upload" => job[j].members \subseteq audience'[x]
      BY <1>6, <1>7, <3>1, <3>2
    <3>5. QED
      BY <1>6, <1>7, <1>8, <1>10, <2>1, <3>1, <3>3, <3>4 DEF Uploaded, Has, HandedOver
  <2>2. CASE t.platform # "meta_ads"
    BY <1>2, <1>3, <1>4, <1>6, <1>7, <1>8, <1>10, <2>2 DEF Uploaded
  <2>3. QED
    BY <2>1, <2>2
<1>15. Selected(j) /\ ~InDestination(j) /\ w.left \subseteq w.members
       /\ created' \in [Audiences -> {Of(u) : u \in Targets} \cup {None}]
       /\ google' \in [Audiences -> SUBSET Profiles]
       /\ UNCHANGED <<ledger, lock, adsLock, eligible, epoch, ads, bounds>>
  BY <1>1, <1>2, <1>8, <1>12 DEF Selected, InDestination, TypeOK, Upload
<1>16. QED
  BY <1>2, <1>3, <1>6, <1>7, <1>8, <1>9, <1>12, <1>13, <1>14, <1>15, ExternalStep

LEMMA ApplyStep ==
  ASSUME SyncInv, NEW j \in Jobs, Apply(j) PROVE SyncInv'
<1>1. SessionInv /\ TypeOK /\ OnPath /\ RowInv
  BY DEF SyncInv, SessionInv
<1>2. /\ job[j] \in JobState /\ job[j].pc = "apply"
      /\ job[j].left \subseteq job[j].members /\ job[j].members \in SUBSET Profiles
      /\ Exists(job[j].external) /\ Uploaded(j)
  BY <1>1 DEF TypeOK, JobState, Apply, RowInv, AudiencesExist, UploadedSoFar
<1>3. PICK t \in Targets : t = job[j].target
  BY <1>1, <1>2 DEF TypeOK
<1>4. Selected(j) /\ ~InDestination(j)
      /\ UNCHANGED <<ledger, lock, adsLock, eligible, epoch, ads, bounds>>
  BY <1>2 DEF Selected, InDestination, Apply
\* The job goes on to its record with audience x.
<1>5. ASSUME NEW x \in Audiences \cup {None}, Exists(x)',
             job' = [job EXCEPT ![j].pc = "record", ![j].external = x],
             audience' \in [Audiences -> SUBSET Profiles], AudiencesGrow,
             created' \in [Audiences -> {Of(u) : u \in Targets} \cup {None}],
             google' \in [Audiences -> SUBSET Profiles],
             \/ t.platform = "tiktok_ads"
             \/ /\ t.platform = "google_ads" /\ x # None
                /\ job[j].members \subseteq google'[x]
      PROVE  SyncInv'
  <2> DEFINE w == [job[j] EXCEPT !.pc = "record", !.external = x]
  <2>1. /\ w \in JobState /\ w.pc = "record" /\ w.external = x
        /\ w.left = job[j].left /\ w.members = job[j].members
        /\ w.target = t /\ w.session = job[j].session /\ w.epoch = job[j].epoch
    BY <1>2, <1>3 DEF JobState, Steps
  <2>2. job' = [job EXCEPT ![j] = w]
    BY <1>5
  <2> HIDE DEF w
  <2>3. job'[j] = w
    BY <1>1, <2>2 DEF TypeOK
  <2>4. Exists(job[j].external)' /\ Uploaded(j)'
    BY <1>5, <2>1, <2>3 DEF Exists, Uploaded, Has, HandedOver
  <2>5. QED
    BY <1>2, <1>3, <1>4, <1>5, <2>1, <2>2, <2>4, ExternalStep
<1>6. PICK y \in Audiences \cup {None} : y = job[j].external
  BY <1>2 DEF JobState
<1>7. job[j] = [job[j] EXCEPT !.external = y]
  BY <1>2, <1>6 DEF JobState
<1>8. CASE /\ t.platform = "google_ads"
           /\ google' = GoogleRuns(job[j].external, job[j].members)
           /\ job' = [job EXCEPT ![j].pc = "record"]
           /\ UNCHANGED <<audience, created>>
  <2>1. y # None
    BY <1>2, <1>3, <1>6, <1>8 DEF Uploaded
  <2>2. /\ google' \in [Audiences -> SUBSET Profiles]
        /\ AudiencesGrow /\ job[j].members \subseteq google'[y]
    BY <1>1, <1>2, <1>6, <1>8, <2>1 DEF TypeOK, AudiencesGrow, Exists, GoogleRuns
  <2>3. job' = [job EXCEPT ![j].pc = "record", ![j].external = y]
    BY <1>7, <1>8
  <2>4. Exists(y)'
    BY <1>2, <1>6, <1>8 DEF Exists
  <2>5. QED
    BY <1>1, <1>5, <1>8, <2>1, <2>2, <2>3, <2>4 DEF TypeOK
<1>9. CASE t.platform = "tiktok_ads" /\ job[j].external = None
  <2>1. PICK a \in NextAudience :
          /\ CreateAudience(j, a, job[j].members) /\ google' = google
          /\ job' = [job EXCEPT ![j].pc = "record", ![j].external = a]
    BY <1>3, <1>9 DEF Apply
  <2>2. /\ a \in Audiences /\ Exists(a)' /\ AudiencesGrow
        /\ audience' \in [Audiences -> SUBSET Profiles]
        /\ created' \in [Audiences -> {Of(u) : u \in Targets} \cup {None}]
    BY <1>1, <1>2, <1>3, <2>1, NewAudience
  <2>3. google' \in [Audiences -> SUBSET Profiles]
    BY <1>1, <2>1 DEF TypeOK
  <2>4. QED
    BY <1>5, <1>9, <2>1, <2>2, <2>3
<1>10. CASE /\ t.platform = "tiktok_ads"
            /\ job' = [job EXCEPT ![j].pc = "record"]
            /\ UNCHANGED providers
  <2>1. job' = [job EXCEPT ![j].pc = "record", ![j].external = y]
    BY <1>7, <1>10
  <2>2. Exists(y)' /\ AudiencesGrow
    BY <1>2, <1>6, <1>10 DEF Exists, AudiencesGrow, providers
  <2>3. QED
    BY <1>1, <1>5, <1>10, <2>1, <2>2 DEF TypeOK, providers
<1>11. QED
  BY <1>3, <1>8, <1>9, <1>10 DEF Apply

LEMMA RecordStep ==
  ASSUME SyncInv, NEW j \in Jobs, Record(j) PROVE SyncInv'
<1>1. SessionInv /\ TypeOK /\ RowInv
  BY DEF SyncInv, SessionInv
<1>2. /\ job[j] \in JobState /\ job[j].pc = "record" /\ job[j].session
      /\ Exists(job[j].external) /\ Uploaded(j) /\ RowOf(j)
  BY <1>1 DEF TypeOK, Record, RowInv, AudiencesExist, UploadedSoFar, RowIsRunning
<1>3. PICK t \in Targets : t = job[j].target
  BY <1>1, <1>2 DEF TypeOK
<1>4. ledger[t] \in RunRow /\ Exists(ledger[t].external)
      /\ ledger[t].members = job[j].members
  BY <1>1, <1>2, <1>3 DEF TypeOK, RowInv, AudiencesExist, RowOf, Selected
<1> DEFINE w == Idle
<1>5. PICK x \in Audiences \cup {None} :
        x = IF job[j].members = {} THEN ledger[t].external ELSE job[j].external
  BY <1>2, <1>4 DEF JobState, RunRow
<1> DEFINE row == [ledger[t] EXCEPT !.status = "Completed", !.dry = job[j].dry,
                                    !.external = x]
<1>6. Reset(w)
  BY IdleIsReset
<1>7. row \in RunRow /\ row.external = x /\ row.members = job[j].members
  BY <1>2, <1>4 DEF RunRow, JobState
<1>8. /\ job' = [job EXCEPT ![j] = w] /\ lock' = Unlocked(j)
      /\ ledger' = [ledger EXCEPT ![t] = row]
      /\ UNCHANGED <<adsLock, eligible, epoch, audience, created, google, leo, keys, starts,
                     faults>>
  BY <1>3, <1>5 DEF Record, providers, ads, bounds
<1> HIDE DEF w, row
<1>9. /\ DOMAIN ledger' = Targets /\ ledger'[t] = row
      /\ \A u \in Targets : ledger'[u] \in RunRow
      /\ \A u \in Targets \ {t} : ledger'[u] = ledger[u]
  BY <1>1, <1>7, <1>8, RowWritten
<1>10. Exists(ledger[t].external)'
  BY <1>2, <1>4, <1>5, <1>7, <1>8, <1>9 DEF Exists
<1>11. Handed(t)'
  <2> SUFFICES ASSUME t.platform \notin {"leo_ads", "tiktok_ads"},
                      job[j].members # {}
               PROVE  Has(t, ledger[t].external, ledger[t].members)'
    BY <1>7, <1>9 DEF Handed
  <2>1. t.platform \in {"meta_ads", "google_ads"}
    BY SyncAssumption DEF Platforms
  <2>2. Has(t, x, job[j].members)
    BY <1>2, <1>3, <1>5, <2>1 DEF Uploaded
  <2>3. QED
    BY <1>7, <1>8, <1>9, <2>2 DEF Has, HandedOver
<1>12. \A k \in Jobs \ {j} :
        Began(k) /\ job[k].session =>
          ledger'[job[k].target] = ledger[job[k].target]
  BY <1>1, <1>2, <1>3, <1>9, OtherRowsKept DEF Began
<1>13. Moved(j, w) /\ OnItsWay(j)' /\ LeoInv' /\ RowInv'
  BY <1>6, <1>8, <1>9, <1>10, <1>11, <1>12, ResetMoves
<1>14. lock' \in [LockNames -> Jobs \cup {None}] /\ HoldsLock'
  BY <1>1, <1>6, <1>8, <1>13, LockFreed DEF Reset
<1>15. adsLock' \in Jobs \cup {None} /\ HoldsAdsLock'
  BY <1>1, <1>2, <1>6, <1>8, <1>13, AdsLockKept DEF Reset, InDestination
<1>16. SessionInv'
  BY <1>1, <1>8, <1>9, <1>13, <1>14, <1>15, SessionFrame DEF TypeOK
<1>17. QED
  BY <1>13, <1>16 DEF SyncInv

\* The session is gone and its lock with it; the job goes on without.
LEMMA SessionLostStep ==
  ASSUME SyncInv, NEW j \in Jobs, SessionLost(j) PROVE SyncInv'
<1>1. SessionInv /\ TypeOK /\ OnPath /\ LeoInv /\ RowInv
  BY DEF SyncInv, SessionInv
<1> DEFINE w == [job[j] EXCEPT !.session = FALSE]
<1>2. /\ job[j] \in JobState /\ job[j].pc \notin {"idle", "lock"}
      /\ job[j].left \subseteq job[j].members /\ job[j].target \in Targets
      /\ OnItsWay(j) /\ job[j].epoch <= epoch /\ Exists(job[j].external)
      /\ Uploaded(j)
  BY <1>1 DEF SessionLost, TypeOK, OnPath, LeoInv, EpochsPassed, RowInv,
              AudiencesExist, UploadedSoFar
<1>3. /\ w \in JobState /\ w.pc = job[j].pc /\ w.session = FALSE
      /\ w.target = job[j].target /\ w.members = job[j].members
      /\ w.left = job[j].left /\ w.epoch = job[j].epoch
      /\ w.external = job[j].external /\ w.orphans = job[j].orphans
  BY <1>2 DEF JobState
<1>4. /\ job' = [job EXCEPT ![j] = w] /\ lock' = Unlocked(j)
      /\ UNCHANGED <<ledger, adsLock, eligible, epoch, audience, created, google, leo, keys,
                     starts>>
  BY DEF SessionLost, providers, ads
<1> HIDE DEF w
<1>5. Moved(j, w) /\ job'[j] = w
  BY <1>1, <1>2, <1>3, <1>4, JobsAfter DEF Moved
<1>6. lock' \in [LockNames -> Jobs \cup {None}] /\ HoldsLock'
  BY <1>1, <1>3, <1>4, <1>5, LockFreed
<1>7. adsLock' \in Jobs \cup {None} /\ HoldsAdsLock'
  BY <1>1, <1>3, <1>4, <1>5, AdsLockKept DEF InDestination
<1>8. OnItsWay(j)' /\ RowOf(j)'
  BY <1>2, <1>3, <1>5 DEF OnItsWay, Selected, RowOf
<1>9. Uploaded(j)'
  BY <1>2, <1>3, <1>4, <1>5 DEF Uploaded, Has, HandedOver
<1>10. faults' \in 0 .. MaxFaults
  BY <1>1, Bounds DEF SessionLost, TypeOK
<1>11. SessionInv'
  BY <1>1, <1>4, <1>5, <1>6, <1>7, <1>8, <1>10, SessionFrame DEF TypeOK
<1>12. LeoInv'
  BY <1>1, <1>2, <1>3, <1>4, <1>5, LeoFrame
<1>13. RowInv'
  BY <1>1, <1>2, <1>3, <1>4, <1>5, <1>8, <1>9, RowFrameQuiet
<1>14. QED
  BY <1>11, <1>12, <1>13 DEF SyncInv

LEMMA ChangeStep ==
  ASSUME SyncInv, Change PROVE SyncInv'
<1>1. /\ TypeOK /\ OnPath /\ HoldsLock /\ HoldsAdsLock
      /\ EpochsPassed /\ ReadsInOrder /\ OrphansCurrent /\ KeysMatchMembership
      /\ RowIsRunning /\ AudiencesExist /\ UploadedSoFar /\ CompletedIsHandedOver
  BY DEF SyncInv, SessionInv, LeoInv, RowInv
<1>2. UNCHANGED <<job, ledger, lock, adsLock, audience, created, google, leo, keys, starts,
                  faults>>
  BY DEF Change, providers, ads, bounds
<1>3. epoch' = epoch + 1 /\ epoch' \in 0 .. MaxChanges
  BY <1>1, Bounds DEF Change, TypeOK
<1>4. eligible' \in [Campaigns -> SUBSET Profiles]
  BY <1>1 DEF Change, TypeOK
<1>5. TypeOK'
  BY <1>1, <1>2, <1>3, <1>4 DEF TypeOK
<1>6. OnPath' /\ HoldsLock' /\ HoldsAdsLock'
  BY <1>1, <1>2
  DEF OnPath, OnItsWay, HoldsLock, HoldsAdsLock, Began, Selected, InDestination
<1>7. EpochsPassed'
  BY <1>1, <1>2, <1>3 DEF EpochsPassed, TypeOK, JobState
<1>8. ReadsInOrder' /\ OrphansCurrent' /\ KeysMatchMembership'
  BY <1>1, <1>2 DEF ReadsInOrder, NotOlder, InDestination, OrphansCurrent,
                    Orphans, KeysMatchMembership
<1>9. RowIsRunning' /\ AudiencesExist'
  BY <1>1, <1>2 DEF RowIsRunning, RowOf, Began, Selected, AudiencesExist, Exists
<1>10. UploadedSoFar' /\ CompletedIsHandedOver'
  BY <1>1, <1>2 DEF UploadedSoFar, Uploaded, Has, HandedOver, CompletedIsHandedOver
<1>11. QED
  BY <1>5, <1>6, <1>7, <1>8, <1>9, <1>10 DEF SyncInv, SessionInv, LeoInv, RowInv

\* Google goes on with its jobs beside everything else.
LEMMA GoogleStep ==
  ASSUME SyncInv, NEW x \in Audiences, NEW p \in Profiles, GoogleAdds(x, p)
  PROVE  SyncInv'
<1>1. SessionInv /\ LeoInv /\ RowInv /\ TypeOK
  BY DEF SyncInv, SessionInv
<1>2. /\ UNCHANGED <<job, ledger, lock, adsLock, eligible, epoch, created, google,
                     leo, keys, starts, faults>>
      /\ audience' = [audience EXCEPT ![x] = @ \cup {p}]
  BY DEF GoogleAdds, ads, bounds
<1>3. /\ audience' \in [Audiences -> SUBSET Profiles]
      /\ \A y \in Audiences : audience[y] \subseteq audience'[y]
  BY <1>1, <1>2 DEF TypeOK
<1>4. SessionInv'
  <2>1. TypeOK'
    BY <1>1, <1>2, <1>3 DEF TypeOK
  <2>2. OnPath' /\ HoldsLock' /\ HoldsAdsLock'
    BY <1>1, <1>2 DEF SessionInv, OnPath, OnItsWay, HoldsLock, HoldsAdsLock,
       Began, Selected, InDestination
  <2>3. QED
    BY <2>1, <2>2 DEF SessionInv
<1>5. LeoInv'
  BY <1>1, <1>2 DEF LeoInv, EpochsPassed, ReadsInOrder, NotOlder, InDestination,
     OrphansCurrent, Orphans, KeysMatchMembership
<1>6. ASSUME NEW t \in Targets, NEW y \in Audiences \cup {None},
             NEW members \in SUBSET Profiles, Has(t, y, members)
      PROVE  y # None /\ members \subseteq HandedOver(t, y)'
  BY <1>2, <1>3, <1>6 DEF Has, HandedOver
<1>7. RowInv'
  <2>1. RowIsRunning' /\ AudiencesExist'
    BY <1>1, <1>2 DEF RowInv, RowIsRunning, RowOf, Began, Selected,
       AudiencesExist, Exists
  <2>2. UploadedSoFar'
    <3>1. ASSUME NEW j \in Jobs PROVE Uploaded(j)'
      <4>1. job[j] \in JobState /\ Uploaded(j)
            /\ (job[j].pc # "idle" => job[j].target \in Targets)
        BY <1>1 DEF TypeOK, RowInv, UploadedSoFar
      <4>2. /\ job[j].external \in Audiences \cup {None}
            /\ job[j].members \in SUBSET Profiles
            /\ job[j].members \ job[j].left \in SUBSET Profiles
        BY <4>1 DEF JobState
      <4>3. job[j].target \in Targets =>
              /\ Has(job[j].target, job[j].external, job[j].members) =>
                    Has(job[j].target, job[j].external, job[j].members)'
              /\ Has(job[j].target, job[j].external, job[j].members \ job[j].left) =>
                    Has(job[j].target, job[j].external, job[j].members \ job[j].left)'
        BY <1>2, <1>6, <4>2 DEF Has
      <4>4. QED
        BY <1>2, <4>1, <4>3 DEF Uploaded
    <3>2. QED
      BY <3>1 DEF UploadedSoFar
  <2>3. CompletedIsHandedOver'
    <3>1. HandedAll
      BY <1>1, CompletedEach DEF RowInv
    <3>2. ASSUME NEW t \in Targets PROVE Handed(t)'
      <4>1. Handed(t) /\ ledger[t] \in RunRow
        BY <1>1, <3>1 DEF HandedAll, TypeOK
      <4>2. /\ ledger[t].external \in Audiences \cup {None}
            /\ ledger[t].members \in SUBSET Profiles
        BY <4>1 DEF RunRow
      <4>3. Has(t, ledger[t].external, ledger[t].members) =>
              Has(t, ledger[t].external, ledger[t].members)'
        BY <1>2, <1>6, <4>2 DEF Has
      <4>4. QED
        BY <1>2, <4>1, <4>3 DEF Handed
    <3>3. HandedAll'
      BY <3>2 DEF HandedAll
    <3>4. QED
      BY <3>3, CompletedEach, PTL
  <2>4. QED
    BY <2>1, <2>2, <2>3 DEF RowInv
<1>8. QED
  BY <1>4, <1>5, <1>7 DEF SyncInv

-----------------------------------------------------------------------------
(* The steps of the LEO Ads destination.                                   *)
\* Every LEO Ads job of the tenant waits for the same source lock.
LEMMA OneLeoSession ==
  ASSUME SessionInv, NEW j \in Jobs, NEW k \in Jobs,
         Began(j), job[j].session, job[j].target.platform = "leo_ads",
         Began(k), job[k].session, job[k].target.platform = "leo_ads"
  PROVE  j = k
<1>1. TypeOK /\ HoldsLock
  BY DEF SessionInv
<1> DEFINE n == LockName(job[j].target)
<1>2. n \in LockNames
  BY <1>1 DEF TypeOK, Began, LockNames
<1>3. LockName(job[k].target) = n
  BY DEF LockName
<1>4. QED
  BY <1>1, <1>2, <1>3 DEF HoldsLock

\* A step of a LEO Ads job that keeps its row and its session.
LEMMA LeoStep ==
  ASSUME SyncInv, NEW j \in Jobs, Selected(j),
         job[j].target.platform = "leo_ads",
         NEW w \in JobState, job' = [job EXCEPT ![j] = w],
         w.pc \in {"clean", "commit", "record"},
         w.left \subseteq w.members, w.members = job[j].members,
         w.target = job[j].target, w.session = job[j].session,
         w.external = job[j].external,
         adsLock' \in Jobs \cup {None}, HoldsAdsLock',
         DOMAIN leo' = Campaigns,
         \A c \in Campaigns :
           leo'[c] \in [members : SUBSET Profiles, epoch : 0 .. MaxChanges],
         keys' \subseteq Profiles,
         UNCHANGED <<ledger, lock, eligible, epoch, providers, bounds>>
  PROVE  SessionInv' /\ RowInv' /\ Moved(j, w)
<1>1. SessionInv /\ TypeOK /\ OnPath /\ RowInv
  BY DEF SyncInv, SessionInv
<1>2. Moved(j, w) /\ job'[j] = w
  <2>1. job[j].target \in Targets
    BY <1>1 DEF TypeOK, Selected
  <2>2. Moved(j, w)
    BY <2>1 DEF Moved
  <2>3. QED
    BY <1>1, <2>2, JobsAfter
<1>3. lock' \in [LockNames -> Jobs \cup {None}] /\ HoldsLock'
  BY <1>1, <1>2, LockKept DEF Began, Selected
<1>4. OnItsWay(j)'
  BY <1>2 DEF OnItsWay, Selected
<1>5. SessionInv'
  BY <1>1, <1>2, <1>3, <1>4, SessionFrame DEF TypeOK, providers, bounds
<1>6. RowOf(j)'
  <2>1. RowOf(j) /\ Began(j)
    BY <1>1 DEF RowInv, RowIsRunning, Began, Selected
  <2>2. ledger' = ledger /\ job'[j].target = job[j].target
        /\ job'[j].session = job[j].session /\ job'[j].members = job[j].members
    BY <1>2
  <2>3. QED
    BY <2>1, <2>2 DEF RowOf
<1>7. Uploaded(j)'
  BY <1>2 DEF Uploaded
<1>8. Exists(w.external)
  BY <1>1 DEF RowInv, AudiencesExist
<1>9. RowInv'
  BY <1>1, <1>2, <1>6, <1>7, <1>8, RowFrameQuiet DEF providers
<1>10. QED
  BY <1>2, <1>5, <1>9

LEMMA ReplaceStep ==
  ASSUME SyncInv, NEW j \in Jobs, Replace(j) PROVE SyncInv'
<1>1. /\ SessionInv /\ TypeOK /\ OnPath /\ HoldsAdsLock
      /\ EpochsPassed /\ ReadsInOrder /\ OrphansCurrent /\ KeysMatchMembership
  BY DEF SyncInv, SessionInv, LeoInv
<1>2. /\ job[j] \in JobState /\ job[j].pc = "replace" /\ job[j].session
      /\ job[j].target.platform = "leo_ads" /\ NotOlder(j)
  BY <1>1 DEF TypeOK, Replace, OnPath, OnItsWay, ReadsInOrder
<1> DEFINE w == [job[j] EXCEPT !.pc = "clean", !.left = {}]
<1>3. /\ w \in JobState /\ w.pc = "clean" /\ w.left = {}
      /\ w.members = job[j].members /\ w.target = job[j].target
      /\ w.session = job[j].session /\ w.external = job[j].external
      /\ w.epoch = job[j].epoch
  BY <1>2 DEF JobState, Steps
<1>4. /\ job' = [job EXCEPT ![j] = w] /\ adsLock = None /\ adsLock' = j
      /\ UNCHANGED <<ledger, lock, eligible, epoch, providers, ads, bounds>>
  BY DEF Replace, AdsLockFree
<1> HIDE DEF w
<1>5. job'[j] = w /\ \A k \in Jobs \ {j} : job'[k] = job[k]
  BY <1>1, <1>4 DEF TypeOK
<1>6. \A k \in Jobs : ~InDestination(k)
  BY <1>1, <1>4, SyncAssumption DEF HoldsAdsLock
<1>7. adsLock' \in Jobs \cup {None} /\ HoldsAdsLock'
  BY <1>3, <1>4, <1>5, <1>6 DEF HoldsAdsLock, InDestination
<1>8. SessionInv' /\ RowInv' /\ Moved(j, w)
  BY <1>1, <1>2, <1>3, <1>4, <1>7, LeoStep DEF Selected, TypeOK, ads
<1>9. EpochsPassed'
  BY <1>1, <1>3, <1>4, <1>5 DEF EpochsPassed, ads
<1>10. ReadsInOrder'
  <2>1. NotOlder(j)'
    BY <1>2, <1>3, <1>4, <1>5 DEF NotOlder, ads
  <2>2. \A k \in Jobs \ {j} : ~(job[k].pc = "replace" /\ job[k].session)
    BY <1>1, <1>2, OneLeoSession DEF Began, OnPath, OnItsWay
  <2>3. QED
    BY <1>3, <1>5, <1>6, <2>1, <2>2 DEF ReadsInOrder, InDestination
<1>11. OrphansCurrent'
  BY <1>1, <1>3, <1>4, <1>5 DEF OrphansCurrent, Orphans, ads
<1>12. KeysMatchMembership'
  BY <1>1, <1>4 DEF KeysMatchMembership, ads
<1>13. QED
  BY <1>8, <1>9, <1>10, <1>11, <1>12 DEF SyncInv, LeoInv

LEMMA CleanStep ==
  ASSUME SyncInv, NEW j \in Jobs, Clean(j) PROVE SyncInv'
<1>1. /\ SessionInv /\ TypeOK /\ OnPath /\ HoldsAdsLock
      /\ EpochsPassed /\ ReadsInOrder /\ OrphansCurrent /\ KeysMatchMembership
  BY DEF SyncInv, SessionInv, LeoInv
<1>2. /\ job[j] \in JobState /\ job[j].pc = "clean"
      /\ job[j].target.platform = "leo_ads" /\ job[j].target \in Targets
      /\ job[j].left \subseteq job[j].members
  BY <1>1 DEF TypeOK, Clean, OnPath, OnItsWay
<1>3. PICK o \in SUBSET Profiles :
        o = Orphans(job[j].target.campaign, job[j].members)
  <2>1. job[j].target.campaign \in Campaigns
    BY <1>2, SyncAssumption
  <2>2. QED
    BY <1>1, <2>1 DEF TypeOK, Orphans
<1> DEFINE w == [job[j] EXCEPT !.pc = "commit", !.orphans = o]
<1>4. /\ w \in JobState /\ w.pc = "commit" /\ w.left = job[j].left
      /\ w.members = job[j].members /\ w.target = job[j].target
      /\ w.session = job[j].session /\ w.external = job[j].external
      /\ w.epoch = job[j].epoch /\ w.orphans = o
  BY <1>2 DEF JobState, Steps
<1>5. /\ job' = [job EXCEPT ![j] = w]
      /\ UNCHANGED <<ledger, lock, adsLock, eligible, epoch, providers, ads, bounds>>
  BY <1>3 DEF Clean
<1> HIDE DEF w
<1>6. job'[j] = w /\ \A k \in Jobs \ {j} : job'[k] = job[k]
  BY <1>1, <1>5 DEF TypeOK
<1>7. \A k \in Jobs : InDestination(k)' <=> InDestination(k)
  BY <1>2, <1>4, <1>6 DEF InDestination
<1>8. adsLock' \in Jobs \cup {None} /\ HoldsAdsLock'
  BY <1>1, <1>5, <1>7 DEF HoldsAdsLock, TypeOK
<1>9. SessionInv' /\ RowInv' /\ Moved(j, w)
  BY <1>1, <1>2, <1>4, <1>5, <1>8, LeoStep DEF Selected, TypeOK, ads
<1>10. EpochsPassed'
  BY <1>1, <1>4, <1>5, <1>6 DEF EpochsPassed, ads
<1>11. ReadsInOrder'
  <2>1. \A k \in Jobs : job'[k].epoch = job[k].epoch
    BY <1>4, <1>6
  <2>2. \A k \in Jobs : NotOlder(k) => NotOlder(k)'
    BY <1>5, <2>1 DEF NotOlder, ads
  <2>3. QED
    BY <1>1, <1>4, <1>6, <1>7, <2>1, <2>2 DEF ReadsInOrder
<1>12. OrphansCurrent'
  <2>1. leo' = leo
    BY <1>5 DEF ads
  <2>2. QED
    BY <1>1, <1>3, <1>4, <1>6, <2>1 DEF OrphansCurrent, Orphans
<1>13. KeysMatchMembership'
  BY <1>1, <1>5 DEF KeysMatchMembership, ads
<1>14. QED
  BY <1>9, <1>10, <1>11, <1>12, <1>13 DEF SyncInv, LeoInv

\* The audience is replaced by what was read, not before what it holds was.
LEMMA CommitReplaces ==
  ASSUME SyncInv, NEW j \in Jobs, Commit(j)
  PROVE  \E c \in Campaigns, r \in [members : SUBSET Profiles, epoch : 0 .. MaxChanges] :
           /\ c = job[j].target.campaign
           /\ r.members = job[j].members /\ r.epoch = job[j].epoch
           /\ leo' = [leo EXCEPT ![c] = r]
           /\ keys' = (keys \cup r.members) \ Orphans(c, r.members)
           /\ \A d \in Campaigns : leo[d].epoch <= r.epoch
           /\ r.epoch <= epoch
<1>1. TypeOK /\ OnPath /\ EpochsPassed /\ ReadsInOrder /\ OrphansCurrent
  BY DEF SyncInv, SessionInv, LeoInv
<1>2. /\ job[j] \in JobState /\ job[j].target \in Targets /\ NotOlder(j)
      /\ job[j].pc = "commit" /\ job[j].epoch <= epoch
      /\ job[j].orphans = Orphans(job[j].target.campaign, job[j].members)
  BY <1>1 DEF TypeOK, Commit, ReadsInOrder, InDestination, EpochsPassed,
              OrphansCurrent
<1>3. PICK c \in Campaigns : c = job[j].target.campaign
  BY <1>2, SyncAssumption
<1>4. PICK r \in [members : SUBSET Profiles, epoch : 0 .. MaxChanges] :
        r = [members |-> job[j].members, epoch |-> job[j].epoch]
  BY <1>2 DEF JobState
<1>5. r.members = job[j].members /\ r.epoch = job[j].epoch
  BY <1>4
<1>6. /\ leo' = [leo EXCEPT ![c] = r]
      /\ keys' = (keys \cup r.members) \ Orphans(c, r.members)
  BY <1>2, <1>3, <1>4, <1>5 DEF Commit
<1>7. QED
  BY <1>2, <1>3, <1>5, <1>6 DEF NotOlder

LEMMA CommitStep ==
  ASSUME SyncInv, NEW j \in Jobs, Commit(j) PROVE SyncInv'
<1>1. /\ SessionInv /\ TypeOK /\ OnPath /\ HoldsAdsLock
      /\ EpochsPassed /\ ReadsInOrder /\ OrphansCurrent /\ KeysMatchMembership
  BY DEF SyncInv, SessionInv, LeoInv
<1>2. /\ job[j] \in JobState /\ job[j].pc = "commit" /\ adsLock = j
      /\ job[j].target.platform = "leo_ads"
      /\ job[j].left \subseteq job[j].members
  BY <1>1 DEF TypeOK, Commit, OnPath, OnItsWay, HoldsAdsLock, InDestination
<1>3. PICK c \in Campaigns, r \in [members : SUBSET Profiles, epoch : 0 .. MaxChanges] :
        /\ c = job[j].target.campaign
        /\ r.members = job[j].members /\ r.epoch = job[j].epoch
        /\ leo' = [leo EXCEPT ![c] = r]
        /\ keys' = (keys \cup r.members) \ Orphans(c, r.members)
        /\ \A d \in Campaigns : leo[d].epoch <= r.epoch
        /\ r.epoch <= epoch
  BY CommitReplaces
<1>4. /\ DOMAIN leo' = Campaigns /\ leo'[c] = r
      /\ \A d \in Campaigns \ {c} : leo'[d] = leo[d]
      /\ r.members \subseteq Profiles
  BY <1>1, <1>3 DEF TypeOK
<1>5. \A d \in Campaigns :
        leo'[d] \in [members : SUBSET Profiles, epoch : 0 .. MaxChanges]
  BY <1>1, <1>4 DEF TypeOK
<1>6. keys' \subseteq Profiles
  BY <1>1, <1>3, <1>4 DEF TypeOK
<1> DEFINE w == [job[j] EXCEPT !.pc = "record"]
<1>7. /\ w \in JobState /\ w.pc = "record" /\ w.left = job[j].left
      /\ w.members = job[j].members /\ w.target = job[j].target
      /\ w.session = job[j].session /\ w.external = job[j].external
      /\ w.epoch = job[j].epoch
  BY <1>2 DEF JobState, Steps
<1>8. /\ job' = [job EXCEPT ![j] = w] /\ adsLock' = None
      /\ UNCHANGED <<ledger, lock, eligible, epoch, providers, bounds>>
  BY DEF Commit
<1> HIDE DEF w
<1>9. job'[j] = w /\ \A k \in Jobs \ {j} : job'[k] = job[k]
  BY <1>1, <1>8 DEF TypeOK
<1>10. \A k \in Jobs : ~InDestination(k)'
  BY <1>1, <1>2, <1>7, <1>9 DEF InDestination, HoldsAdsLock
<1>11. adsLock' \in Jobs \cup {None} /\ HoldsAdsLock'
  BY <1>8, <1>10, SyncAssumption DEF HoldsAdsLock
<1>12. SessionInv' /\ RowInv' /\ Moved(j, w)
  BY <1>2, <1>4, <1>5, <1>6, <1>7, <1>8, <1>11, LeoStep DEF Selected
<1>13. EpochsPassed'
  <2>1. \A d \in Campaigns : leo'[d].epoch <= epoch
    BY <1>1, <1>3, <1>4 DEF EpochsPassed
  <2>2. QED
    BY <1>1, <1>7, <1>8, <1>9, <2>1 DEF EpochsPassed
<1>14. ReadsInOrder'
  <2>1. ASSUME NEW k \in Jobs, job'[k].pc = "replace", job'[k].session
        PROVE  NotOlder(k)'
    <3>1. k # j /\ job'[k] = job[k]
      BY <1>7, <1>9, <2>1
    <3>2. NotOlder(k) /\ job[j].epoch <= job[k].epoch
      BY <1>1, <1>2, <2>1, <3>1 DEF ReadsInOrder, InDestination
    <3>3. QED
      BY <1>3, <1>4, <3>1, <3>2 DEF NotOlder
  <2>2. QED
    BY <1>10, <2>1 DEF ReadsInOrder
<1>15. OrphansCurrent'
  BY <1>10 DEF OrphansCurrent, InDestination
<1>16. KeysMatchMembership'
  <2>1. ASSUME NEW p, p \in keys'
        PROVE  \E d \in Campaigns : p \in leo'[d].members
    <3>1. CASE p \in r.members
      BY <1>4, <3>1
    <3>2. CASE p \notin r.members
      <4>1. PICK d \in Campaigns : p \in leo[d].members
        BY <1>1, <1>3, <2>1, <3>2 DEF KeysMatchMembership
      <4>2. d = c => \E e \in Campaigns \ {c} : p \in leo[e].members
        BY <1>3, <2>1, <3>2, <4>1 DEF Orphans
      <4>3. QED
        BY <1>4, <4>1, <4>2
    <3>3. QED
      BY <3>1, <3>2
  <2>2. ASSUME NEW p, NEW d \in Campaigns, p \in leo'[d].members
        PROVE  p \in keys'
    <3>1. CASE d = c
      BY <1>3, <1>4, <2>2, <3>1 DEF Orphans
    <3>2. CASE d # c
      <4>1. p \in leo[d].members
        BY <1>4, <2>2, <3>2
      <4>2. p \in keys /\ p \notin Orphans(c, r.members)
        BY <1>1, <3>2, <4>1 DEF KeysMatchMembership, Orphans
      <4>3. QED
        BY <1>3, <4>2
    <3>3. QED
      BY <3>1, <3>2
  <2>3. QED
    BY <2>1, <2>2 DEF KeysMatchMembership
<1>17. QED
  BY <1>12, <1>13, <1>14, <1>15, <1>16 DEF SyncInv, LeoInv

-----------------------------------------------------------------------------
LEMMA SyncInit == Init => SyncInv
<1> SUFFICES ASSUME Init PROVE SyncInv
  OBVIOUS
<1>1. Idle \in JobState /\ Idle.pc = "idle" /\ Idle.left = {}
      /\ Idle.members = {} /\ Idle.external = None /\ Idle.epoch = 0
      /\ Idle.session = FALSE
  BY IdleIsReset DEF Reset, Idle
<1> HIDE DEF Idle
<1>2. \A j \in Jobs : job[j] = Idle
  BY DEF Init
<1>3. TypeOK
  <2>1. \A t \in Targets : ledger[t] \in RunRow
    BY DEF Init, RunRow
  <2>2. \A c \in Campaigns :
          leo[c] \in [members : SUBSET Profiles, epoch : 0 .. MaxChanges]
    BY Bounds DEF Init
  <2>3. \A n \in LockNames : lock[n] = None
    BY DEF Init
  <2>4. /\ lock \in [LockNames -> Jobs \cup {None}] /\ adsLock \in Jobs \cup {None}
        /\ DOMAIN job = Jobs /\ DOMAIN ledger = Targets /\ DOMAIN leo = Campaigns
    BY DEF Init
  <2>5. /\ eligible \in [Campaigns -> SUBSET Profiles] /\ keys \subseteq Profiles
        /\ audience \in [Audiences -> SUBSET Profiles]
        /\ created \in [Audiences -> {Of(t) : t \in Targets} \cup {None}]
        /\ google \in [Audiences -> SUBSET Profiles]
    BY DEF Init
  <2>6. epoch \in 0 .. MaxChanges /\ starts \in 0 .. MaxStarts
        /\ faults \in 0 .. MaxFaults
    BY Bounds DEF Init
  <2>7. QED
    BY <1>1, <1>2, <2>1, <2>2, <2>3, <2>4, <2>5, <2>6 DEF TypeOK
<1>4. OnPath /\ HoldsAdsLock
  BY <1>1, <1>2, SyncAssumption
  DEF OnPath, OnItsWay, HoldsAdsLock, InDestination, Init
<1>5. HoldsLock
  BY <1>1, <1>2, SyncAssumption DEF HoldsLock, Began, Init
<1>6. EpochsPassed /\ ReadsInOrder /\ OrphansCurrent
  BY <1>1, <1>2 DEF EpochsPassed, ReadsInOrder, InDestination, OrphansCurrent, Init
<1>7. KeysMatchMembership
  BY SyncAssumption DEF KeysMatchMembership, Init
<1>8. RowInv
  BY <1>1, <1>2 DEF RowInv, RowIsRunning, RowOf, Began, Selected, AudiencesExist,
     Exists, UploadedSoFar, Uploaded, CompletedIsHandedOver, Init, External
<1>9. QED
  BY <1>3, <1>4, <1>5, <1>6, <1>7, <1>8 DEF SyncInv, SessionInv, LeoInv

LEMMA SyncStep == SyncInv /\ [Next]_vars => SyncInv'
<1> SUFFICES ASSUME SyncInv, [Next]_vars PROVE SyncInv'
  OBVIOUS
<1>1. TypeOK
  BY DEF SyncInv, SessionInv
<1>2. ASSUME NEW j \in Jobs, JobStep(j) PROVE SyncInv'
  <2>1. CASE Disconnected(j)
    <3>1. Began(j) /\ Raise(j) /\ faults' \in 0 .. MaxFaults
      BY <1>1, <2>1 DEF Disconnected, Began, TypeOK
    <3>2. QED
      BY <3>1, RaiseStep
  <2>2. QED
    BY <1>2, <2>1, BeginStep, SelectStep, CreateStep, UploadStep, ApplyStep,
       ReplaceStep, CleanStep, CommitStep, RecordStep DEF JobStep
<1>3. ASSUME NEW j \in Jobs, Fail(j) PROVE SyncInv'
  <2>1. Began(j) /\ Raise(j) /\ faults' \in 0 .. MaxFaults
    BY <1>1, <1>3, Bounds DEF Fail, Began, TypeOK
  <2>2. QED
    BY <2>1, RaiseStep
<1>4. CASE UNCHANGED vars
  <2>1. UNCHANGED <<job, ledger, lock, adsLock, eligible, epoch, audience, created, google,
                    leo, keys, starts, faults>>
    BY <1>4 DEF vars, providers, ads, bounds
  <2>2. SessionInv'
    BY <2>1 DEF SyncInv, SessionInv, TypeOK, OnPath, OnItsWay, HoldsLock,
       HoldsAdsLock, Began, Selected, InDestination
  <2>3. LeoInv'
    BY <2>1 DEF SyncInv, LeoInv, EpochsPassed, ReadsInOrder, NotOlder,
       InDestination, OrphansCurrent, Orphans, KeysMatchMembership
  <2>4. RowInv'
    BY <2>1 DEF SyncInv, RowInv, RowIsRunning, RowOf, Began, Selected,
       AudiencesExist, Exists, UploadedSoFar, Uploaded, Has, HandedOver,
       CompletedIsHandedOver
  <2>5. QED
    BY <2>2, <2>3, <2>4 DEF SyncInv
<1>5. CASE \E x \in Audiences, p \in Profiles : GoogleAdds(x, p)
  BY <1>5, GoogleStep
<1>6. QED
  BY <1>2, <1>3, <1>4, <1>5, ChangeStep, StartStep, SessionLostStep, CrashStep DEF Next

-----------------------------------------------------------------------------
(* The theorems.                                                           *)
\* Type correctness; in particular an advisory lock is that of the target its
\* holder works on, through retries, lost sessions and crashes.
THEOREM SyncTypeCorrect == Spec => []TypeOK
<1>1. SyncInv => TypeOK
  BY DEF SyncInv, SessionInv
<1>2. QED
  BY SyncInit, SyncStep, <1>1, PTL DEF Spec

\* However the jobs of the tenant's audiences interleave, fail or lose their
\* sessions, a profile has a serving key exactly while an audience has it
\* (_sync_leo_ads).
THEOREM SyncKeys == Spec => []KeysMatchMembership
<1>1. SyncInv => KeysMatchMembership
  BY DEF SyncInv, LeoInv
<1>2. QED
  BY SyncInit, SyncStep, <1>1, PTL DEF Spec

\* A Completed row of run_data_synch_job names an audience for which every member
\* the run selected was handed over (Meta has them, Google was told to run the jobs
\* they are staged in), for any batch size and any number of retries and jobs.
THEOREM SyncHandedOver == Spec => []CompletedIsHandedOver
<1>1. SyncInv => CompletedIsHandedOver
  BY DEF SyncInv, RowInv
<1>2. QED
  BY SyncInit, SyncStep, <1>1, PTL DEF Spec

\* Only the commit of a destination writes the audience table.
LEMMA LeoKept ==
  ASSUME NEW j \in Jobs,
         \/ Begin(j) \/ Select(j) \/ Create(j) \/ Upload(j) \/ Apply(j)
         \/ Replace(j) \/ Clean(j) \/ Record(j) \/ Disconnected(j)
  PROVE  UNCHANGED leo
<1>1. CASE Begin(j) \/ Select(j) \/ Create(j)
  BY <1>1 DEF Begin, Select, Create, ads
<1>2. CASE Upload(j)
  BY <1>2 DEF Upload, ads
<1>3. CASE Apply(j)
  BY <1>3 DEF Apply, ads
<1>4. CASE Replace(j) \/ Clean(j)
  BY <1>4 DEF Replace, Clean, ads
<1>5. CASE Record(j) \/ Disconnected(j)
  BY <1>5 DEF Record, Disconnected, Raise, ads
<1>6. CASE Upload(j) \/ Apply(j)
  BY <1>2, <1>3, <1>6
<1>7. CASE Replace(j) \/ Clean(j) \/ Record(j) \/ Disconnected(j)
  BY <1>4, <1>5, <1>7
<1>8. QED
  BY <1>1, <1>6, <1>7

\* An audience of LEO Ads is never replaced by members read before those it
\* has, although the lock that orders the reads can be lost before the
\* destination commits.
THEOREM SyncNewest == Spec => NewestSnapshotWins
<1>1. SyncInv /\ [Next]_vars
        => [\A c \in Campaigns : leo'[c].epoch >= leo[c].epoch]_vars
  <2> SUFFICES ASSUME SyncInv, [Next]_vars, NEW c \in Campaigns
               PROVE  leo'[c].epoch >= leo[c].epoch
    OBVIOUS
  <2>1. /\ DOMAIN leo = Campaigns
        /\ \A d \in Campaigns :
             leo[d] \in [members : SUBSET Profiles, epoch : 0 .. MaxChanges]
    BY DEF SyncInv, SessionInv, TypeOK
  <2>2. leo[c].epoch \in Nat
    BY <2>1
  <2>3. CASE UNCHANGED leo
    BY <2>2, <2>3
  <2>4. ASSUME NEW j \in Jobs, Commit(j) PROVE leo'[c].epoch >= leo[c].epoch
    <3>1. PICK d \in Campaigns,
               r \in [members : SUBSET Profiles, epoch : 0 .. MaxChanges] :
            /\ leo' = [leo EXCEPT ![d] = r]
            /\ \A e \in Campaigns : leo[e].epoch <= r.epoch
      BY <2>4, CommitReplaces
    <3>2. r.epoch \in Nat
      OBVIOUS
    <3>3. leo'[c] = IF c = d THEN r ELSE leo[c]
      BY <2>1, <3>1
    <3>4. QED
      BY <2>2, <3>1, <3>2, <3>3
  <2>5. ASSUME NEW j \in Jobs, JobStep(j), ~ Commit(j) PROVE UNCHANGED leo
    BY <2>5, LeoKept DEF JobStep
  <2>6. ASSUME NEW j \in Jobs, Start(j) \/ Fail(j) \/ SessionLost(j) \/ Crash(j)
        PROVE  UNCHANGED leo
    BY <2>6 DEF Start, Fail, SessionLost, Crash, Raise, ads
  <2>7. CASE Change \/ UNCHANGED vars
    BY <2>3, <2>7 DEF Change, vars, ads
  <2>8. CASE \E x \in Audiences, p \in Profiles : GoogleAdds(x, p)
    BY <2>3, <2>8 DEF GoogleAdds, ads
  <2>9. QED
    BY <2>3, <2>4, <2>5, <2>6, <2>7, <2>8 DEF Next
<1>2. Spec => []SyncInv
  BY SyncInit, SyncStep, PTL DEF Spec
<1>3. QED
  BY <1>1, <1>2, PTL DEF Spec, NewestSnapshotWins

-----------------------------------------------------------------------------
(***************************************************************************)
(* The jobs implement ServedAudiences: a selection reads a snapshot, the   *)
(* commit at the destination publishes it, and every other step of a job   *)
(* keeps its snapshot or gives it up.                                      *)
(***************************************************************************)
OnWay == {"replace", "clean", "commit"}
Snap(w) == [campaign |-> w.target.campaign, members |-> w.members,
            epoch |-> w.epoch]

LEMMA ReadingIs ==
  /\ Reading = {Snap(job[j]) : j \in {k \in Jobs : job[k].pc \in OnWay}}
  /\ Reading' = {Snap(job'[j]) : j \in {k \in Jobs : job'[k].pc \in OnWay}}
  BY DEF Reading, Snap, OnWay

LEMMA SnapshotDropped ==
  ASSUME TypeOK, NEW j \in Jobs, NEW w, job' = [job EXCEPT ![j] = w],
         w.pc \in OnWay => job[j].pc \in OnWay /\ Snap(w) = Snap(job[j])
  PROVE  Reading' \in SUBSET Reading
<1>1. job'[j] = w /\ \A k \in Jobs \ {j} : job'[k] = job[k]
  BY DEF TypeOK
<1>2. ASSUME NEW k \in Jobs, job'[k].pc \in OnWay
      PROVE  job[k].pc \in OnWay /\ Snap(job'[k]) = Snap(job[k])
  BY <1>1, <1>2
<1>3. QED
  BY <1>2, ReadingIs

LEMMA SnapshotAdded ==
  ASSUME TypeOK, NEW j \in Jobs, NEW w, job' = [job EXCEPT ![j] = w],
         job[j].pc \notin OnWay, w.pc \in OnWay
  PROVE  Reading' = Reading \cup {Snap(w)}
<1>1. job'[j] = w /\ \A k \in Jobs \ {j} : job'[k] = job[k]
  BY DEF TypeOK
<1>2. QED
  BY <1>1, ReadingIs

\* A step outside LEO Ads, or one that goes on with its snapshot.
LEMMA QuietStep ==
  ASSUME TypeOK, NEW j \in Jobs, NEW w, job' = [job EXCEPT ![j] = w],
         w.pc \in OnWay => job[j].pc \in OnWay /\ Snap(w) = Snap(job[j]),
         UNCHANGED <<eligible, epoch, ads>>
  PROVE  Served!Next
<1>1. Reading' \in SUBSET Reading
  BY SnapshotDropped
<1>2. Served!Drop
  BY <1>1 DEF Served!Drop, ads
<1>3. QED
  BY <1>2 DEF Served!Next

\* The beginning and the end of a job.
LEMMA EndsServed ==
  ASSUME SyncInv, NEW j \in Jobs,
         Start(j) \/ Begin(j) \/ Record(j) \/ Fail(j) \/ Disconnected(j)
         \/ SessionLost(j) \/ Crash(j)
  PROVE  Served!Next
<1>1. TypeOK /\ job[j] \in JobState
  BY DEF SyncInv, SessionInv, TypeOK
<1>2. Idle.pc \notin OnWay /\ \A t, d, n : Called(t, d, n).pc \notin OnWay
  BY DEF Idle, Called, OnWay
<1>3. CASE Start(j)
  <2>1. PICK t \in Targets, d \in DryRuns :
          job' = [job EXCEPT ![j] = Called(t, d, 0)]
    BY <1>3 DEF Start
  <2>2. QED
    BY <1>1, <1>2, <1>3, <2>1, QuietStep DEF Start
<1>4. CASE Begin(j)
  <2>1. PICK x \in KnownExternal(job[j].target), unconfigured \in BOOLEAN :
          job' = [job EXCEPT ![j].pc = "select", ![j].external = x,
                             ![j].dry = job[j].asked \/ unconfigured]
    BY <1>4 DEF Begin
  <2> DEFINE w == [job[j] EXCEPT !.pc = "select", !.external = x,
                                 !.dry = job[j].asked \/ unconfigured]
  <2>2. job' = [job EXCEPT ![j] = w]
    BY <1>1, <2>1
  <2>3. w.pc \notin OnWay
    BY <1>1 DEF JobState, OnWay
  <2> HIDE DEF w
  <2>4. QED
    BY <1>1, <1>4, <2>2, <2>3, QuietStep DEF Begin
<1>5. CASE Record(j) \/ Crash(j)
  <2>1. job' = [job EXCEPT ![j] = Idle] /\ UNCHANGED <<eligible, epoch, ads>>
    BY <1>5 DEF Record, Crash
  <2>2. QED
    BY <1>1, <1>2, <2>1, QuietStep
<1>6. CASE Fail(j) \/ Disconnected(j)
  <2> DEFINE w == IF job[j].retries < MaxRetries
                  THEN Called(job[j].target, job[j].asked, job[j].retries + 1)
                  ELSE Idle
  <2>1. job' = [job EXCEPT ![j] = w] /\ UNCHANGED <<eligible, epoch, ads>>
    BY <1>6 DEF Fail, Disconnected, Raise
  <2>2. w.pc \notin OnWay
    BY <1>2
  <2> HIDE DEF w
  <2>3. QED
    BY <1>1, <2>1, <2>2, QuietStep
<1>7. CASE SessionLost(j)
  <2> DEFINE w == [job[j] EXCEPT !.session = FALSE]
  <2>1. job' = [job EXCEPT ![j] = w] /\ UNCHANGED <<eligible, epoch, ads>>
    BY <1>7 DEF SessionLost
  <2>2. w.pc = job[j].pc /\ Snap(w) = Snap(job[j])
    BY <1>1 DEF JobState, Snap
  <2> HIDE DEF w
  <2>3. QED
    BY <1>1, <2>1, <2>2, QuietStep
<1>8. QED
  BY <1>3, <1>4, <1>5, <1>6, <1>7

\* The external platforms have no snapshot on its way.
LEMMA ExternalServed ==
  ASSUME SyncInv, NEW j \in Jobs, Create(j) \/ Upload(j) \/ Apply(j)
  PROVE  Served!Next
<1>1. TypeOK /\ job[j] \in JobState
  BY DEF SyncInv, SessionInv, TypeOK
<1>2. ASSUME NEW w, job' = [job EXCEPT ![j] = w],
             w.pc \in {"upload", "apply", "record"},
             UNCHANGED <<eligible, epoch, ads>>
      PROVE  Served!Next
  <2>1. w.pc \notin OnWay
    BY <1>2 DEF OnWay
  <2>2. QED
    BY <1>1, <1>2, <2>1, QuietStep
<1>3. CASE Create(j)
  <2>1. PICK a : job' = [job EXCEPT ![j].pc = "upload", ![j].external = a]
    BY <1>3 DEF Create
  <2> DEFINE w == [job[j] EXCEPT !.pc = "upload", !.external = a]
  <2>2. job' = [job EXCEPT ![j] = w] /\ w.pc = "upload"
    BY <1>1, <2>1 DEF JobState
  <2> HIDE DEF w
  <2>3. QED
    BY <1>2, <1>3, <2>2 DEF Create
<1>4. CASE Upload(j)
  <2>1. PICK b \in SUBSET job[j].left, s \in {"upload", "apply", "record"} :
          job' = [job EXCEPT ![j].left = job[j].left \ b, ![j].pc = s]
    <3>1. PICK b \in SUBSET job[j].left :
            job' = [job EXCEPT ![j].left = @ \ b,
              ![j].pc = IF job[j].left # b THEN "upload"
                        ELSE IF job[j].target.platform = "meta_ads"
                             THEN "record" ELSE "apply"]
      BY <1>4 DEF Upload, Batches
    <3>2. QED
      BY <1>1, <3>1 DEF TypeOK
  <2> DEFINE w == [job[j] EXCEPT !.left = job[j].left \ b, !.pc = s]
  <2>2. job' = [job EXCEPT ![j] = w] /\ w.pc = s
    BY <1>1, <2>1 DEF JobState
  <2> HIDE DEF w
  <2>3. QED
    BY <1>2, <1>4, <2>2 DEF Upload
<1>5. CASE Apply(j)
  <2>1. PICK x : job' = [job EXCEPT ![j].pc = "record", ![j].external = x]
                 \/ job' = [job EXCEPT ![j].pc = "record"]
    BY <1>5 DEF Apply
  <2> DEFINE v == [job[j] EXCEPT !.pc = "record", !.external = x]
             w == [job[j] EXCEPT !.pc = "record"]
  <2>2. /\ job' = [job EXCEPT ![j] = v] \/ job' = [job EXCEPT ![j] = w]
        /\ v.pc = "record" /\ w.pc = "record"
    BY <1>1, <2>1 DEF JobState
  <2> HIDE DEF v, w
  <2>3. QED
    BY <1>2, <1>5, <2>2 DEF Apply
<1>6. QED
  BY <1>3, <1>4, <1>5

\* The selection of a LEO Ads job reads, that of another one does not.
LEMMA SelectServed ==
  ASSUME SyncInv, NEW j \in Jobs, Select(j)
  PROVE  Served!Next
<1>1. /\ TypeOK /\ job[j] \in JobState /\ job[j].pc = "select"
      /\ job[j].target \in Targets
  BY DEF SyncInv, SessionInv, TypeOK, Select
<1>2. UNCHANGED <<eligible, epoch, ads>>
  BY DEF Select
<1>3. job[j].pc \notin OnWay
  BY <1>1 DEF OnWay
<1> DEFINE c == job[j].target.campaign
<1>4. c \in Campaigns
  BY <1>1, SyncAssumption
<1>5. CASE job' = [job EXCEPT ![j].pc = "record"]
  <2> DEFINE w == [job[j] EXCEPT !.pc = "record"]
  <2>1. job' = [job EXCEPT ![j] = w] /\ w.pc = "record"
    BY <1>1, <1>5 DEF JobState
  <2> HIDE DEF w
  <2>2. w.pc \notin OnWay
    BY <2>1 DEF OnWay
  <2>3. QED
    BY <1>1, <1>2, <2>1, <2>2, QuietStep
<1>6. CASE job' # [job EXCEPT ![j].pc = "record"]
  <2>1. PICK x :
          job' = [job EXCEPT ![j].pc = FirstStep(job[j].target, x),
                             ![j].external = x, ![j].members = eligible[c],
                             ![j].left = eligible[c], ![j].epoch = epoch]
    BY <1>6 DEF Select
  <2> DEFINE s == FirstStep(job[j].target, x)
             w == [job[j] EXCEPT !.pc = s, !.external = x,
                     !.members = eligible[c], !.left = eligible[c],
                     !.epoch = epoch]
  <2>2. /\ job' = [job EXCEPT ![j] = w] /\ w.pc = s
        /\ w.members = eligible[c] /\ w.epoch = epoch /\ w.target = job[j].target
    BY <1>1, <2>1 DEF JobState
  <2> HIDE DEF w, s
  <2>3. CASE s \notin OnWay
    BY <1>1, <1>2, <2>2, <2>3, QuietStep
  <2>4. CASE s \in OnWay
    <3>1. Reading' = Reading \cup {Snap(w)}
      BY <1>1, <1>3, <2>2, <2>4, SnapshotAdded
    <3>2. Snap(w) = Served!Snapshot(c)
      BY <2>2 DEF Snap, Served!Snapshot
    <3>3. Served!Read(c)
      BY <1>2, <3>1, <3>2 DEF Served!Read, ads
    <3>4. QED
      BY <1>4, <3>3 DEF Served!Next
  <2>5. QED
    BY <2>3, <2>4
<1>7. QED
  BY <1>5, <1>6

\* The commit publishes what the job has read.
LEMMA CommitServed ==
  ASSUME SyncInv, KeysMatchMembership', NEW j \in Jobs, Commit(j)
  PROVE  Served!Next
<1>1. TypeOK /\ job[j] \in JobState /\ job[j].pc = "commit"
  BY DEF SyncInv, SessionInv, TypeOK, Commit
<1> DEFINE w == [job[j] EXCEPT !.pc = "record"]
<1>2. job' = [job EXCEPT ![j] = w] /\ w.pc = "record"
  BY <1>1 DEF Commit, JobState
<1> HIDE DEF w
<1>3. Reading' \in SUBSET Reading
  <2>1. w.pc \notin OnWay
    BY <1>2 DEF OnWay
  <2>2. QED
    BY <1>1, <1>2, <2>1, SnapshotDropped
<1>4. Snap(job[j]) \in Reading
  BY <1>1, ReadingIs DEF OnWay
<1>5. PICK c \in Campaigns, r \in [members : SUBSET Profiles, epoch : 0 .. MaxChanges] :
        /\ c = job[j].target.campaign
        /\ r.members = job[j].members /\ r.epoch = job[j].epoch
        /\ leo' = [leo EXCEPT ![c] = r]
        /\ \A d \in Campaigns : leo[d].epoch <= r.epoch
  BY CommitReplaces
<1> DEFINE s == Snap(job[j])
<1>6. s.campaign = c /\ s.members = r.members /\ s.epoch = r.epoch
  BY <1>5 DEF Snap
<1>7. r = [members |-> r.members, epoch |-> r.epoch]
  OBVIOUS
<1>8. leo[c].epoch \in Nat /\ r.epoch \in Nat
  BY <1>1 DEF TypeOK
<1>9. keys' = Served!Members'
  BY DEF KeysMatchMembership, Served!Members
<1>10. UNCHANGED <<eligible, epoch>>
  BY DEF Commit
<1> HIDE DEF s
<1>11. Served!Publish(s)
  BY <1>3, <1>5, <1>6, <1>7, <1>8, <1>9, <1>10 DEF Served!Publish
<1>12. QED
  BY <1>4, <1>11 DEF Served!Next, s

\* Replace and Clean keep their snapshot.
LEMMA DestinationServed ==
  ASSUME SyncInv, NEW j \in Jobs, Replace(j) \/ Clean(j)
  PROVE  Served!Next
<1>1. TypeOK /\ job[j] \in JobState
  BY DEF SyncInv, SessionInv, TypeOK
<1> DEFINE v == [job[j] EXCEPT !.pc = "clean", !.left = {}]
           w == [job[j] EXCEPT !.pc = "commit", !.orphans =
                   Orphans(job[j].target.campaign, job[j].members)]
<1>2. /\ job' = [job EXCEPT ![j] = v] \/ job' = [job EXCEPT ![j] = w]
      /\ UNCHANGED <<eligible, epoch, ads>> /\ job[j].pc \in OnWay
  BY <1>1 DEF Replace, Clean, OnWay
<1>3. Snap(v) = Snap(job[j]) /\ Snap(w) = Snap(job[j])
  BY <1>1 DEF Snap, JobState
<1> HIDE DEF v, w
<1>4. QED
  BY <1>1, <1>2, <1>3, QuietStep

\* However jobs interleave, fail, retry and lose their sessions, each step is one
\* step of ServedAudiences or none (_sync_leo_ads).
THEOREM SyncImplementsServed == Spec => ImplementsServedAudiences
<1>1. Init => Served!Init
  <2> SUFFICES ASSUME Init PROVE Served!Init
    OBVIOUS
  <2>1. Reading = {}
    <3>1. \A k \in Jobs : job[k].pc \notin OnWay
      BY DEF Init, Idle, OnWay
    <3>2. QED
      BY <3>1, ReadingIs
  <2>2. eligible \in [Campaigns -> SUBSET Profiles] /\ epoch = 0
    BY DEF Init
  <2>3. leo \in [Campaigns -> [members : SUBSET Profiles, epoch : {0}]]
    BY DEF Init
  <2>4. keys = Served!Members
    BY SyncInit DEF SyncInv, LeoInv, KeysMatchMembership, Served!Members
  <2>5. QED
    BY <2>1, <2>2, <2>3, <2>4 DEF Served!Init
<1>2. SyncInv /\ SyncInv' /\ [Next]_vars => [Served!Next]_(Served!vars)
  <2> SUFFICES ASSUME SyncInv, SyncInv', [Next]_vars
               PROVE  [Served!Next]_(Served!vars)
    OBVIOUS
  <2>1. CASE UNCHANGED vars
    BY <2>1 DEF vars, ads, Reading, Served!vars
  <2>2. CASE Change
    <3>1. UNCHANGED <<leo, keys, job>>
      BY <2>2 DEF Change, ads
    <3>2. /\ eligible' \in [Campaigns -> SUBSET Profiles]
          /\ epoch' = epoch + 1
      BY <2>2 DEF Change, SyncInv, SessionInv, TypeOK
    <3>3. Served!Change
      BY <3>1, <3>2 DEF Served!Change, Reading
    <3>4. QED
      BY <3>3 DEF Served!Next
  <2>3. ASSUME NEW j \in Jobs, Start(j) \/ Fail(j) \/ SessionLost(j) \/ Crash(j)
        PROVE  Served!Next
    BY <2>3, EndsServed
  <2>4. ASSUME NEW j \in Jobs, JobStep(j) PROVE Served!Next
    <3>1. KeysMatchMembership'
      BY DEF SyncInv, LeoInv
    <3>2. QED
      BY <2>4, <3>1, EndsServed, ExternalServed, SelectServed,
         DestinationServed, CommitServed DEF JobStep
  <2>5. CASE \E x \in Audiences, p \in Profiles : GoogleAdds(x, p)
    BY <2>5 DEF GoogleAdds, ads, Reading, Served!vars
  <2>6. QED
    BY <2>1, <2>2, <2>3, <2>4, <2>5 DEF Next
<1>3. QED
  BY SyncInit, SyncStep, <1>1, <1>2, PTL
  DEF Spec, ImplementsServedAudiences, Served!Spec

\* What the jobs inherit by implementing it: the serving keys are those of the
\* members, and an audience that was read since the last change of eligibility has
\* exactly the eligible members, whichever job came last.
THEOREM ServedIsUpToDate == Served!Spec => []Served!UpToDate
<1> DEFINE Snaps == [campaign : Campaigns, members : SUBSET Profiles, epoch : Nat]
           Types == /\ epoch \in Nat
                    /\ eligible \in [Campaigns -> SUBSET Profiles]
                    /\ leo \in [Campaigns -> [members : SUBSET Profiles,
                                              epoch : Nat]]
                    /\ Reading \subseteq Snaps
           Passed == /\ \A c \in Campaigns : leo[c].epoch <= epoch
                     /\ \A s \in Reading : s.epoch <= epoch
           Current == \A s \in Reading :
                        s.epoch = epoch => s.members = eligible[s.campaign]
           Inv == Types /\ Passed /\ Current /\ Served!UpToDate
<1>1. Served!Init => Inv
  BY DEF Served!Init, Served!UpToDate
<1>2. Inv /\ [Served!Next]_(Served!vars) => Inv'
  <2> SUFFICES ASSUME Inv, [Served!Next]_(Served!vars) PROVE Inv'
    OBVIOUS
  <2>1. CASE UNCHANGED Served!vars
    BY <2>1 DEF Served!vars, Served!UpToDate, Served!Members
  <2>2. CASE Served!Change
    <3>1. /\ epoch' = epoch + 1 /\ UNCHANGED <<leo, keys, Reading>>
          /\ eligible' \in [Campaigns -> SUBSET Profiles]
      BY <2>2 DEF Served!Change
    <3>2. /\ \A c \in Campaigns : leo[c].epoch <= epoch'
                                  /\ leo[c].epoch # epoch'
          /\ \A s \in Reading : s.epoch <= epoch' /\ s.epoch # epoch'
      <4>1. \A c \in Campaigns : leo[c].epoch \in Nat
        OBVIOUS
      <4>2. \A s \in Reading : s.epoch \in Nat
        OBVIOUS
      <4>3. QED
        BY <3>1, <4>1, <4>2
    <3>3. Types' /\ Passed' /\ Current'
      BY <3>1, <3>2
    <3>4. Served!UpToDate'
      BY <3>1, <3>2 DEF Served!UpToDate, Served!Members
    <3>5. QED
      BY <3>3, <3>4
  <2>3. CASE Served!Drop
    BY <2>3 DEF Served!Drop, Served!UpToDate, Served!Members
  <2>4. ASSUME NEW c \in Campaigns, Served!Read(c) PROVE Inv'
    <3> DEFINE s == Served!Snapshot(c)
    <3>1. /\ Reading' = Reading \cup {s}
          /\ UNCHANGED <<eligible, epoch, leo, keys>>
      BY <2>4 DEF Served!Read
    <3>2. /\ s \in Snaps /\ s.epoch = epoch /\ s.campaign = c
          /\ s.members = eligible[c]
      BY DEF Served!Snapshot
    <3> HIDE DEF s
    <3>3. Types' /\ Passed' /\ Current'
      BY <3>1, <3>2
    <3>4. Served!UpToDate'
      BY <3>1 DEF Served!UpToDate, Served!Members
    <3>5. QED
      BY <3>3, <3>4
  <2>5. ASSUME NEW s \in Reading, Served!Publish(s) PROVE Inv'
    <3> DEFINE r == [members |-> s.members, epoch |-> s.epoch]
    <3>1. /\ leo' = [leo EXCEPT ![s.campaign] = r] /\ keys' = Served!Members'
          /\ Reading' \in SUBSET Reading
          /\ UNCHANGED <<eligible, epoch>>
      BY <2>5 DEF Served!Publish
    <3>2. /\ r \in [members : SUBSET Profiles, epoch : Nat]
          /\ s.campaign \in Campaigns /\ s.epoch <= epoch
          /\ r.members = s.members /\ r.epoch = s.epoch
      OBVIOUS
    <3> HIDE DEF r
    <3>3. /\ leo'[s.campaign] = r
          /\ \A c \in Campaigns \ {s.campaign} : leo'[c] = leo[c]
      BY <3>1, <3>2
    <3>4. Types' /\ Passed' /\ Current'
      BY <3>1, <3>2, <3>3
    <3>5. Served!UpToDate'
      BY <3>1, <3>2, <3>3 DEF Served!UpToDate
    <3>6. QED
      BY <3>4, <3>5
  <2>6. QED
    BY <2>1, <2>2, <2>3, <2>4, <2>5 DEF Served!Next
<1>3. Inv => Served!UpToDate
  OBVIOUS
<1> HIDE DEF Inv
<1>4. QED
  BY <1>1, <1>2, <1>3, PTL DEF Served!Spec
=============================================================================
