# TLA+ models of LEO Customer 360

LEO Customer 360 is a customer data platform: an event API takes tracking
batches from web sites and channels, background jobs turn them into profiles,
segments and analytics, and campaigns send e-mail, Zalo, push and profile
updates to the profiles of a segment. This directory models the parts in which
correctness depends on interleaving, failure, retry and restart, checks them on
small instances with TLC, and proves their safety properties with TLAPS for
every size.

## 1. Inventory

| Component (source) | State | Operations | Interacts with | Hard behaviour | Correct when |
|---|---|---|---|---|---|
| Redis stream hand-off (`customer360-event-api/core/redis_queue.py`, `storage.py`, `service.py`) | stream, consumer group with pending list, idempotency keys; S3 objects and processed markers | publish script, read own, read new, store, mark, XACK, XDEL | request handlers, worker threads of several processes, Redis, S3 | crash between any two calls, two workers under one consumer name, entries of a name nobody comes back under, lost answers, expiry, hour boundary | an answered batch is stored, once, unchanged |
| In-process buffer (`core/buffered_storage.py`) | bounded queue, pending deque, flags | put, get, flush, timer, drain, close | request threads, one worker thread | put racing close, failing writes | FIFO, nothing dropped, shutdown ends |
| Request pipeline (`core/routers/tracking.py`, `redis_cache.py`) | rate counters, lazily built global storage | bot filter, rate limit, ingest | the two storages | unlocked lazy global: two workers under one consumer name | limits respected |
| Tracking-log analytics (`customer360-backend/analytics`) | run lease, source lock, cursor, checkpoints, counters in Redis; raw profiles, campaign figures and summary in PostgreSQL | list, process an object, count, save the cursor, rebuild totals | the S3 objects of the hand-off, identity resolution | late objects, crash between two writes, expiry of locks and checkpoints | every object counted once |
| Identity resolution (`identity_resolution`) | staged and master profiles, links, lease, throttle row | stage, fetch, match, link, merge, create, mark, commit, project | analytics, the trigger endpoint, PostgreSQL locks | a drain and a trigger over the same rows, deadlock, restaging under a running batch | every raw profile resolved, into one master |
| Segment recomputation (`segmentation`), Redis lease (`shared/redis_lock.py`) | tags, audience tags, member counts, audience tags and rules of segments, lease, sensor cursor | poll, recompute each segment, commit, edit a segment, recompute it in the API | Dagster sensor and runs, admin API, profile writers | recomputation without the lease, lease expiry under a live holder, death of a run, cursor ahead of work, commits later than their time stamp | every change leads to a recomputation |
| Campaign drafting and review (`customer360-api`) | campaign row with approval, plan, terms, flow, version stamp; audit row | edit, save the workflow, PATCH, submit, approve, reject | reviewers, activation, runner | stale reads, a write without the stamp check | nothing unreviewed runs |
| Campaign activation and workflow (`campaign_activation`) | campaign status, execution id, action ledger, advisory lock | activate, submit, run, begin and finish an action, final status | admin API, Dagster with op retries, PostgreSQL, providers | stale and duplicate requests and runs, lost submission answer, crash, one failing journey | no completed action repeated, status tells the truth, every activation ends |
| Journey engine (`customer360-dao/.../workflow`) | journey context | node by node | gateways | error in one journey | one bad profile does not stop the pass |
| E-mail dispatch (`email_engine`) | dispatch ledger, suppression list, advisory lock | batch, lookup, send, upsert, commit | Dagster retries, SMTP, unsubscribes | crash before the commit of a batch, overlap, unsubscribe during a batch | no message after a committed Sent or Suppressed |
| Zalo dispatch (`notification_engine`) | the same ledger | intent, send, result, each committed | Dagster retries, Zalo (paid) | crash between send and result, timeout, lost database session | at most one message per recipient |
| Audience synchronisation (`data_synch/audience_sync.py`) | run rows, advisory locks, audiences at providers, LEO Ads memberships and serving keys | lock, select, create, upload, apply, replace, clean, record | Meta, Google, TikTok, the LEO Ads database, consent changes | two sessions, retries after half an export, overlapping jobs, an export the provider only started | what was selected is handed over, newest last |
| Recommendations (`ai_agents_runners/runner.py`, `content_repository.py`) | run row, ranked rows, cache entries and generation | rank batches, finish, edit content, invalidate, read through the cache | Dagster, Redis, content editors, requests | failure between batches, late store, expiring generation, Redis down | only complete runs served, invalidated lists gone |
| Opt-out projection, imports, agents, CRUD, UI | see section 6 | | | | |

`PROJECT.json` lists every component with its status, and every hazard at the
line where it bites.

How the parts hang together: `TrackingStream` writes the objects that
`TrackingAnalytics` reads; analytics stages the raw profiles that
`IdentityResolution` resolves; resolution writes the master profiles whose changes
`SegmentRecompute` polls for; a segment is the audience of a campaign, which
`CampaignReview` governs and `CampaignExecution` runs, through `EmailDispatch`,
`ZaloDispatch` and `AudienceSync`. Each module takes its neighbour's output as an
environment action (`Store`, `Stage`, `BeginChange`/`CommitChange`, `Change`,
`Unsubscribe`) that may happen at any time. `RedisLease` is shared by three of them.

## 2. Plan

Done:

1. `TrackingStream` with `DurableHandoff` and `TrackingStreamProofs`;
2. `BufferedTracking`;
3. `CampaignExecution`;
4. `EmailDispatch`, `ZaloDispatch` and `ZaloDispatchProofs`, with unsubscribes
   during a batch and the loss of the database session;
5. `RedisLease` and its three users `TrackingAnalytics`, `IdentityResolution` and
   `SegmentRecompute`;
6. `CampaignReview`;
7. `AudienceSync`;
8. `Recommendations`;
9. type correctness of every module, and every safety invariant and action
   property that a run checks, as theorems (section 5);
10. abstract specifications of what the core components promise, each implemented
    by its detailed module, checked and proved: `GovernedCampaign`,
    `DispatchLedger` (by both engines), `ActionLedger` and `ServedAudiences`.

Next, in this order:

11. the parts of "partly" components that keep protocol state: publishing of
    recommendations, creation of campaigns by the planner;
12. abstract specifications of the recommendation cache (a list is loaded at one
    moment after the last invalidation a request has seen) and of identity
    resolution (observations are merged into masters in one step each).

## 3. Modules and the code

| Module | Role |
|---|---|
| `DurableHandoff` | abstract promise of the tracking API: one immutable object per key, a promised object is written |
| `GovernedCampaign` | abstract promise of campaign governance: every request takes effect in one step |
| `DispatchLedger` | abstract promise of both dispatch engines: rows tell the truth, decided recipients get nothing |
| `ActionLedger` | abstract promise of a campaign's execution: one announced call at a time, completed work is final |
| `ServedAudiences` | abstract promise of the LEO Ads sync: an audience changes in one step and never to older members |
| `TrackingStream` | handlers, Redis stream and group, worker threads, S3, clock |
| `BufferedTracking` | the `memory` backend |
| `RedisLease` | the operators of a Redis lease: acquire, refresh, release, expire |
| `TrackingAnalytics` | analytics runs over the objects of one source |
| `IdentityResolution` | drains and triggers over one tenant's staged profiles |
| `SegmentRecompute` | sensor, runs and lease over one tenant's segments |
| `CampaignReview` | one campaign row, its requests, activation and runner |
| `CampaignExecution` | one campaign: API, activation jobs, workflow runs, ledger |
| `EmailDispatch`, `ZaloDispatch` | one campaign's dispatch runs and ledger |
| `AudienceSync` | one tenant's audience jobs |
| `Recommendations` | one segment's ranking runs and the cache |
| `MC*` | constants and symmetry for TLC |
| `TrackingStreamProofs` | theorems about `TrackingStream` and, through an instance, `BufferedTracking` |
| `ZaloDispatchProofs` | theorems about `ZaloDispatch` and, through an instance, `EmailDispatch` |
| `TrackingAnalyticsProofs` | theorems about `TrackingAnalytics` and, through an instance, `SegmentRecompute` |
| `IdentityResolutionProofs`, `CampaignReviewProofs`, `CampaignExecutionProofs`, `AudienceSyncProofs`, `RecommendationsProofs` | theorems about the module each is named after |

The map from definitions to lines is `map` in `PROJECT.json`. Conventions: one
action for each stretch of code between two calls that another process can
observe or that can fail; `pc` names the next call; a database transaction is
one action; an exception that leaves a Dagster op is `Raised` / `RaisedRun` /
`Retried` (a new attempt, up to `MaxRetries`); definitions that begin with
"Mutant:" in their comment are deliberate errors, used by nothing.

**TrackingStream.** `Receive` is `TrackingLogService.ingest` fixing `received_at`
and thereby the object key (batch and hour) and the body. The `Publish...`
actions are the atomic Lua script and the ways its answer comes back: an
answered or a lost reply, full, unavailable. A client retry is another
`Receive`. Each worker follows `_run`: own pending entries, then new
entries; each message goes through `HeadMarker`, `PutObject`, `WriteMarker`,
`XAck`, `XDel`; any failing call is `Abandon` (the rest of the list is left pending)
or `Refuse` for a batch S3 storage always rejects. `_read_pending` goes on to
`XAUTOCLAIM` (`redis_queue.py:235`) only when the reply to `XREADGROUP` with id `0` is
falsy, and that reply is `[[stream, []]]` when nothing is pending, so no entry is ever
claimed. An entry delivered to a consumer name under which no process comes back is
`Stranded`; the liveness property and `DurableHandoff` (`orphaned`) name it as
the exception. The body of an object is its batch with `received_at`, which is what
two bodies for a key differ in.

**BufferedTracking.** The closed check and the put are two actions because the
lock is released between them. `CloseJoin` covers both ends of `join(timeout)`.

**CampaignExecution.** `status`, `execId` and `ledger` are the committed
database state. `ApiActivate` observes without the lock; `ActivateMark` is the
activation transaction under the lock; `SubmitRaises` covers a submission whose
answer is lost after Dagster created the run. A workflow run walks profile by
profile and node by node (`cur`); `reach` is the set of actions on the paths.
Approvals, segment and graph validation are outcomes (`ActivateRefused`,
`RunRaises`), connectors and providers are `ProviderAnswers`. An error raised before
`campaign_loaded` is set (`workflow_runner.py:966`) leaves the status as it is: the row
is of another execution or not Running, its segment has been deactivated since, the
flow cannot be loaded (`RunRefused`); so does one of the write of Failed itself
(`RunRaisesUnmarked`, `MarkRaises` for the activation). `lost` records that an op ended
in this way, and `Abandoned` that no op of the current execution is left to write a
final status. The per-action
advisory lock is left out: it is taken only under the campaign lock. The status
Applied of a tag action is Sent.

**EmailDispatch / ZaloDispatch.** The two engines share a ledger table and
differ in the order of send and commit, which is what the models keep. In
`EmailDispatch` a run's uncommitted rows are local (`wrote`) and become visible
in `CommitBatch`; in `ZaloDispatch` every upsert is committed. `delivered` and
`late` are history variables: the messages the provider really took, and those it
took for a recipient who had unsubscribed. `Ambiguous` says whether a send that
reports failure may have been delivered. In `ZaloDispatch` a run may lose its
database session while it is inside the provider call (`LoseSession`): the
advisory lock is free at once, the call may still deliver (`OrphanSend`), and its
result cannot be recorded.

**The abstract specifications.** Each detailed module instantiates its own with a
refinement mapping and states `Implements...`, a PROPERTY of its run. `DurableHandoff`
sees the keys that were answered for and the objects. `GovernedCampaign` sees the
columns of `CampaignReview`'s row; requests, stamps and stale reads are out of its
sight, so a request takes effect at its commit. `DispatchLedger` sees the committed
rows (`row`, `committed`), messages and unsubscribes; `Intents` says whether a message
must be announced, `TRUE` for Zalo and `FALSE` for e-mail. `ActionLedger` sees status,
execution, ledger and the actions whose provider is being called (`Called`).
`ServedAudiences` sees eligibility, memberships, keys and the snapshots on their way
(`Reading`). What each of them gives is stated beside it (`OnlySigned`, `Truthful`,
`Kept` and `RowsFinal`, `UpToDate`). The properties `TerminalNeverResent`,
`CompletedIsFinal` and `NewestSnapshotWins` follow from a refinement that a run
checks; they are proved but no run checks them again.

**RedisLease.** A lease is its holder or `None`. `Acquirable` is SET NX,
`Refreshable` and `Released` the two compare-and-set scripts; `Expired` may happen
at any time, since nothing bounds the time between two refreshes.

**TrackingAnalytics.** Objects are numbered in the order of their keys and stored
in any order within `MaxLate` hours (`Store`). A run acquires the run lease and the
source lock, lists from `StartAfter`, and takes each object through the sequence of
separate Redis and database writes of `_process_source`: event marks, profile
counts, campaign figure, commit of the staged profiles, the hourly count that is
guarded by the checkpoint, the two totals that are read and written back, the
cursor. `counted`, `profile` and `figure` are histories of increments. The listing
is a snapshot, there is one source, and the daily counter is that of one day.

**IdentityResolution.** A worker's open transaction is `txn`: the masters, links and
marks it has written. Other workers read committed rows only (`View`), and a write
of a row or key that another open transaction has written waits (`...Waits`);
`DeadlockDetected` ends one of two that wait for each other. Matching is exact on
e-mail and device within a domain, and a merge gives the master the address, if it is
free, and the device; a profile's content is a sequence of observations that `Stage`
moves along while batches run. `ReuseLink` is the row that is linked already and whose
new values match no master: it is marked and nothing of it is merged
(`resolver.py:1022`). `Resolved` therefore asks for the merge only where some master
recognises the observation. `seen` records which observation the batch that marked a
row had read, `overlapped` that two transactions were open at once, `owed` the masters
a drain must project.

**SegmentRecompute.** `matching` is what the rules of each segment say of a profile
now, apart from the audience tags they ask for, which are in `segment`: `carries` are
the tags of the segment, `requires` those composed into its rules. `tags`, `audience`
and `count` are committed. Profile writers (identity resolution, PATCH of a profile,
tag actions of campaigns) change what matches and may overwrite both tag columns
(`Overwrites`). The API edits the audience tags of a segment and then submits a run
for it (`PatchSegment`), recomputes it in its own transaction without the lease
(`PostAudienceTags`, the transaction `Inline`), or does neither (`EditOnly`, also a
submission that failed). A run writes into its own transaction (`rows`, `matched`) and
waits for the rows of another one; its statements for one segment are one step. The
rows it updates include those outside the segment that share a tag with it and do not
change (`Touched`), which the sensor finds changed. Time is only the order of update
times, cursor and poll: `later` and `laterNow` are the profiles whose change is newer
than the cursor or the poll in progress. A run can fail, lose its lease, or die with it
(`Die`), after which Dagster's run monitoring ends it (`Reap`). Two histories serve the
properties: `disturbed` are the rows that others changed since a run read the segments,
and `missed` that a cause of staleness has happened which the code accepts (a commit
behind the cursor; a run, which a change waits for, that finds the lease taken, has no
retry left or dies; an edit without a recomputation). Left out: creating, deactivating
and deleting segments; an edit of the base rules, which differs from an edit of the
tags in what then matches only; a second run on demand or a second request of the API
at the same time. Dagster's queue also limits segmentation runs to one
(`render_dagster_instance.py:146`); the model does not rely on it.

**CampaignReview.** A request reads the row (`Read...`) and commits later
(`Commit...`), when the stamp is compared under the row lock, or gets `Conflict`; the
generic PATCH only writes its columns. The columns are grouped by who may write
them: plan, terms, flow, status, approval. `Activate`, `Load` and `Settle` are the
backend's writes and checks of the same row. `reviewed` and `signed` are what
approvers had read.

**AudienceSync.** A target is what the idempotency key is made of. The job's session
holds the advisory lock and can be lost while the destination transaction of LEO Ads,
which has a session and a lock of its own, goes on. `epoch` numbers the eligibility a
snapshot was read in. Meta is taken to add every identifier of an upload that it
answers without an error. Google is not: its batches are posted with
`enablePartialFailure`, the reply is not read, and `:run` starts a job that nobody
polls (`audience_sync.py:270-279`). So `Apply` only puts the members into `google`,
the jobs Google was told to run; `GoogleAdds` adds members one by one, at any time or
never, and has no fairness.

**Recommendations.** A list is the state it was loaded from: committed changes, run,
batches, age. `Tick` takes a unit from every time to live; a request takes at most
`MaxDelay` from reading the generation to its answer; the run has `MaxDelay = TTL`.
`InvalidatedNotServed` is proved for `MaxDelay <= TTL`; with one unit more TLC finds a
behaviour of 12 states in which a list loaded before an edit is served after its
invalidation, because the generation key has expired meanwhile.

## 4. Runs

| Run | Bounds | Shows |
|---|---|---|
| `tracking_safety` | 2 batches (one refused by S3), 1 handler, 2 workers under one consumer name, 2 entries, capacity 2, 2 hours of 2 ticks, TTL 3 = hour + delay | no answered batch lost, no pending entry without payload, marker matches object, objects immutable |
| `tracking_liveness` | 2 batches, 2 workers under names of their own, of which one is never restarted | every answered storable batch is stored or stranded; refinement of `DurableHandoff` with liveness |
| `buffered_tracking` | 3 batches, 2 threads, queue 1, flush list 2 | FIFO conservation; timer flush; shutdown ends with S3 down |
| `campaign_execution` | 2 activation jobs, 2 runs, 1 profile with 2 action nodes, 1 retry, crashes; also from a completed execution | calls covered by the ledger, Completed is true, one replay for each observation, Running ends unless the execution is abandoned; refinement of `ActionLedger` |
| `email_dispatch` | 2 runs, 3 recipients, batches of 2, 1 retry, lost answers | at most one message after an unsubscribe; refinement of `DispatchLedger`: truthful rows, nothing sent after a decided one |
| `zalo_dispatch` | 2 runs, 3 recipients, 1 retry, lost sessions | at most once; every delivery recorded; refinement of `DispatchLedger` with announced messages |
| `analytics` | 2 runs, 3 objects of 2 hours, one event stored twice, batches of 2, checkpoints of 2 hours, 2 faults | an object and an event counted once in the life of a checkpoint; staged before checkpointed; a run without its lock stops; totals agree while nothing fails |
| `identity` | 1 drain, 1 trigger, 2 profiles of 2 domains with 1 and 3 observations, batches of 2, 3 masters, 1 fault | processed rows linked, no orphan master without overlap, one owner for an address; drains project; every observation resolved unless staged under an open batch |
| `segmentation` | 1 profile, 2 segments that share a tag, one of which matches by it, sensor, 1 run on demand or edit with the API's own recomputation, 2 changes, of which some overwrite tags, 1 retry, 1 fault | a run settles what nobody disturbed and overwrites no foreign tag; every change tagged but for the named causes |
| `campaign_review` | 2 requests, 2 plans, 2 terms, 4 writes, 2 flows | approved means reviewed; the runner runs what was signed; no lost edit; a running flow is pinned; refinement of `GovernedCampaign` |
| `audience_sync` | 2 jobs, 2 campaigns, 6 targets over 4 platforms, 2 profiles, batches of 1, 1 retry, 1 change, 1 fault | serving keys match memberships; Completed is handed over; every job ends; refinement of `ServedAudiences`: newest snapshot wins |
| `recommendations` | 2 runs of 2 batches, 2 requests, 1 edit, TTL 1, delay 1 | only complete runs served; invalidated lists not served; no list older than its time to live |

Why the bounds suffice for the cases of interest: two workers under one name give
every race over one entry, and under two names one that strands; two entries give a
list in which one message fails and another waits; one handler that may receive again
at any tick gives every client retry, since a retry differs from the first post only
in its time; two activation jobs from a completed execution give a replay and a second
one that observed the same execution; two runs give a duplicate or a late one beside
the current; a second batch of a dispatch gives committed and uncommitted recipients
at once. Two analytics faults give an expired lock and a crash of the run that took it
over; three objects give a late one, and a second batch after a full one. Two profiles
that share a device and in turn an address give every match, conflict and unique-index
race of the resolver. Two segments that share an audience tag, one of which matches by
it, give the removal that must keep it and a run that matches by what it has itself
written; the statements of a run treat each row by itself, and waiting is for a row,
so one profile gives every conflict of rows (the theorem is for any number, and for
unsafe segments, of which the instance has none). Four writes of a campaign row give
read, edit, approval and a stale commit. Two external executions of one audience give
a replay that finds the first one's row.

Each property has a mutant of the code that breaks it, listed in `PROJECT.json`.
Deadlock is checked for the tracking, analytics, identity, segmentation and
recommendation models. The campaign, dispatch and audience models come to rest when
all jobs have ended, so there it is not. `TypeOK` is in no cfg, because
it is proved of every module; `INVARIANT TypeOK` may be added to any of them.

### Fairness

* `TrackingStream`: worker threads are scheduled (weak fairness of the steps that make
  progress), the processes in `Restarted` are restarted by the deployment, and from
  some time on no call fails and no process dies. The last is what "eventually" means
  for a system whose every write may fail; handlers and clients promise nothing.
* `BufferedTracking`: the worker thread is scheduled, and the flush interval, which
  keeps passing, is noticed. That writes succeed in the end is a premise of
  `EventuallyFlushed` alone; `StopEndsWorker` holds without it.
* `CampaignExecution`: Dagster starts queued runs and steps of a live process are
  taken; every provider call ends because each has a timeout.
* `IdentityResolution`: the sensor keeps starting drains, a dead drain's key expires
  (weak fairness), and PostgreSQL grants a lock to each waiter in the end (strong
  fairness of a batch's steps). Faults are bounded.
* `SegmentRecompute`: the Dagster daemon keeps ticking the sensor, starts the queued
  runs and ends dead ones (run monitoring, `render_dagster_instance.py:155`), and
  transactions that wait for nobody go on (weak fairness). Profile writers and demands
  promise nothing.
* `AudienceSync`: a started job goes on and PostgreSQL grants an advisory lock to each
  waiter (strong fairness of a job's steps).

### Disagreements between code and documentation

Each of these is a property that TLC refutes, with a configuration kept beside the
runs: `tlc -config X_y.cfg MCX`. A `_refuted` configuration serves two properties; the
second stands in its comment, to be put in the place of the first.

| Configuration | Property | What the code does, and what is said |
|---|---|---|
| `TrackingStream_poison.cfg` | `StorableEventuallyStored` | `_process_messages` returns at the first message that raises and reads the same list again (`redis_queue.py:269`), so a batch S3 storage always refuses blocks its consumer; the event API's README says each accepted batch is "then written by a background worker". |
| `TrackingStream_refuted.cfg` | `ProcessedEntriesDeleted` | A failure between XACK and XDEL (`redis_queue.py:267`) leaves an entry nobody deletes; the README says "Successfully processed entries are deleted after acknowledgement". |
| `TrackingStream_refuted.cfg` | `StoredWhoeverDies` | The claim is never reached (`redis_queue.py:232`), so what a dead consumer had read stays in the stream; the README says an unacknowledged message "can be claimed by another tracking-api replica after a worker failure". |
| `BufferedTracking_close.cfg` | `CloseFlushesAll` | The closed flag is read under the lock and the put made outside it (`buffered_storage.py:96`); `close()` says it will "flush all remaining queued tracking logs". |
| `CampaignExecution_stuck.cfg` | `RunningEnds` | A crash after the commit of Running (`activation.py:210`), or an error before the campaign is loaded (a segment deactivated meanwhile, `workflow_runner.py:944`), leaves it Running, which activation refuses; `campaign_activation/README.md:84` has Running lead to Completed or Failed. |
| `ZaloDispatch_timeout.cfg` | `AtMostOnce` | A timeout becomes Failed (`adapters.py:68`), which the next run sends again; `send.py:337` says "never double-bill". |
| `TrackingAnalytics_refuted.cfg` | `PerformanceOnce` | The objects of the active hour are listed by every run, and their campaign figures are added and committed before the checkpoint is looked at, so they are added again without any failure; `repositories.py:107` says the unique index "makes retries idempotent at the daily aggregate level when the same object is replayed". |
| `TrackingAnalytics_refuted.cfg` | `EveryObjectCounted` | An object that reaches the bucket after the cursor has left its hour is never listed, although the comment at `tracking_log_service.py:371` names the danger and lists the active hour again. |
| `IdentityResolution_lost.cfg` | `NoObservationLost` | `_mark_as_processed` sets status 3 whatever was staged since the fetch (`resolver.py:1229`), so a newer observation is never merged. |
| `CampaignReview_patch.cfg` | `ApprovedTermsUntouched` | `_block_edit_of_approved_campaign` looks at the row its request has read (`crm_api.py:66`); a PATCH that was read before the approval changes approved terms. |
| `AudienceSync_refuted.cfg` | `OneAudience` | Meta's audience id is recorded with the result only, so a failed upload leads to a second audience; `audience_sync.py:615` says the row preserves "the external audience ID", "making reruns idempotent". |
| `AudienceSync_refuted.cfg` | `CompletedIsDelivered` | The row becomes Completed with the number of all members as `uploaded_count` although Google may refuse some or fail the job (`audience_sync.py:270-279`). |
| `SegmentRecompute_refuted.cfg` | `AudienceSynced` | A tag that an edit takes from a segment stays on its profiles after every recomputation, since a run removes only tags the segment still carries (`recompute.py:240`); the schema says of the tags "synced to cdp_master_profiles.audience_tags on recompute" (`database-schema.sql:3055`). |
| `SegmentRecompute_refuted.cfg` | `SensorRests` | A run gives a new `updated_at` to unchanged rows outside a segment that share a tag with it (`recompute.py:240-267`), so the sensor requests run after run; its comment speaks of "a no-op (skip) tick whenever nothing changed". |

More follow from the models without a configuration of their own. The object key
contains the hour of receipt, so a client retry after the hour changed is stored
as a second object, although the event API's README says that a retry "reuses the
same logical object". With a TTL below an hour plus the handler delay
`MarkerDescribesObject` fails (this is why the theorems assume
`TTLCoversHour`), although the README says the keys "may expire safely". The
e-mail engine commits once per batch, so a crash re-sends every recipient of the
batch, not just "this recipient" as the comment at the send says. Analytics
checkpoints live 48 hours, so "retries do not double-count"
(`analytics/README.md:17`) holds for that long (`OncePerTTL`). `resolve_persona`
"NEVER raises", but without a savepoint its failed statement aborts the batch. The
sensor's "at most one poll interval of staleness" (`segmentation/dagster_defs.py:143`)
has the exceptions that `EveryChangeTagged` names. A TikTok audience that exists
gets a new file uploaded but not attached, and the run is Completed. `edit_draft`
accepts a Running campaign, which `campaign_workflow_repository.py:331` refuses
("A running campaign cannot be edited.").

## 5. Proofs

All results hold for every value of the constants that satisfies the named assumptions
of the modules: any number of processes, profiles, batches, objects, retries and
faults. Every safety invariant of the runs, every action property and every refinement
(of `DurableHandoff` the safety part) is a theorem. Where a module is reached through
an instance (`Buffer`, `Mail`, `Tags`), its theorems have its assumption as their
hypothesis.

Each proof has one shape: an inductive invariant, a lemma for its initial states, a
lemma for each action (actions that disturb the same part share one), a lemma
`Step...` that puts them together, and the temporal theorem. The invariants were
checked as invariants of the runs before they were proved.

`TrackingStreamProofs` (988 obligations):

* `TypeCorrect`; `AcceptedNeverLost`, `PendingAlwaysInStream`. Neither property is
  inductive: that XACK is safe depends on what the acknowledging worker has seen.
  `IInv` adds that ids are used in order, that every published entry (answered or
  not) is readable or stored, that a marker comes after its object, and what each
  worker knows about its current entry at `mark`, `ack` and `del`.
* `MarkersCorrect`, `ObjectsNeverChange`, under `TTLCoversHour`. `OnceInv` adds that
  requests are at most `MaxDelay` old, that a published key is remembered for
  as long as a request for its hour can arrive, hence that a key is published at
  most once, and that S3 holds only what the stream held.
* `ImplementsHandoffSafety`, under `TTLCoversHour`: the initial states and steps map
  to `DurableHandoff!Safety`.
* `BufferTypeCorrect`, `BufferFifo` (`FifoConserved` of `BufferedTracking`): with the
  types the property is inductive; the argument is about sequences, the head of one
  buffer moved to the end of the one before it.

`ZaloDispatchProofs` (1291 obligations):

* `ZaloTypeCorrect`; `ZaloAtMostOnce` and `ZaloDeliveryRecorded` when failures are
  unambiguous (`~Ambiguous`, without which `ZaloDispatch_timeout.cfg` is a
  counterexample). `OnceInv` adds that only the lock holder is inside, that a run past
  the read has an undecided row, that a run about to send, the one that has lost its
  session included, has its intent committed and nothing delivered yet, and that no
  two such runs are at the same recipient (`OneSender`): a lost session frees the
  lock, so exclusion alone no longer says so.
* `EmailTypeCorrect`, `EmailOneLate` (`OneLateMessage`), `EmailNeverResent`
  (`TerminalNeverResent`), the last two for ambiguous failures as well. `SendInv` adds
  that the row which allowed a message still allows it when the message goes, and that
  a run which may still reach a recipient who got a late message has that recipient in
  its snapshot of the suppression list: this is why there is no second.
* `ZaloImplementsLedger` (under `~Ambiguous`) and `EmailImplementsLedger`: both
  implement `DispatchLedger`, each step being one of its steps or none. The ledger is
  more than the properties above: a row must say what happened. For Zalo `TruthInv`
  adds that a run whose call succeeded has a message to its recipient and that a run
  past the consent check is at a recipient who may be written to; for e-mail
  `HonestInv` adds that what an open transaction has written for each recipient of its
  batch, and will commit at once or not at all, is true. `LedgerTruthful` shows what
  the ledger gives (`Truthful`).

`CampaignExecutionProofs` (1558 obligations): `CampaignTypeCorrect`, `CampaignExclusion`,
`CampaignOneReplay` (`OneReplayPerObservation`), `CampaignCallsLedgered`
(`CallsAreLedgered`), `CampaignCompletedHandled` (`CompletedMeansHandled`) and
`CampaignCompletedFinal` (`CompletedIsFinal`). `ExecInv` says that activations and
passes exclude each other, that whoever is inside works on the current execution, and
that each execution was allocated by a request that had observed the one before it,
which is what makes a second replay of one observation impossible. `LedgerInv` adds
that a pass without an error has completed every action behind its place. This
invariant also carries the refinement `CampaignImplementsLedger`: by exclusion the
calls (`Called`) are those of the run that holds the lock, so only its calls, records
and final status and the two status writes of an activation are steps of
`ActionLedger`; `ActionLedgerKept` shows what that gives.

`CampaignReviewProofs` (697 obligations): `ReviewTypeCorrect`, `ReviewApproved`
(`ApprovedIsReviewed`), `ReviewRuns` (`RunsWhatWasReviewed`), `ReviewAudit`
(`AuditTracksPlan`), `ReviewFlowPinned` (`RunningFlowIsPinned`). `ReviewInv` says that a
request whose stamp still matches has read the row as it is, and what each kind of
request may have prepared; the PATCH, which skips the stamp, keeps the columns that
are signed. `ReviewImplements`: the requests implement `GovernedCampaign`, in which each
has the campaign to itself. `GovernedInv` adds to `ReviewInv` what each kind of request
makes of the row it has read, column by column, so that a commit whose stamp matches
writes what a request made at that moment would; and that something is under execution
exactly while the backend has loaded the campaign and not settled it.
`GovernanceSigned`: in a `GovernedCampaign` only what was approved is Approved or runs.

`AudienceSyncProofs` (2118 obligations): `SyncTypeCorrect`, `SyncKeys`
(`KeysMatchMembership`), `SyncHandedOver` (`CompletedIsHandedOver`) and `SyncNewest`
(`NewestSnapshotWins`). `SyncInv` has three layers: who holds which lock, a lost
session included; that the order in which snapshots are committed to LEO Ads is that
of their reads, although the first lock may be gone by then; and that a row is about
its job's members and an audience that exists has been given what was uploaded so far
(for Google, what was staged is handed over in `Apply`). The
attempt showed that the `CASE` of `Upload` had overlapping arms, a free choice in
TLA+; it is now an ordered choice like the code's. `SyncImplementsServed` needs no more
than `SyncInv`: a selection reads a snapshot, the commit publishes it, every other step
keeps it or gives it up; `ServedIsUpToDate` shows that an audience which was read since
the last change of eligibility has exactly the eligible members.

`RecommendationsProofs` (1492 obligations): `RecommendationsTypeCorrect`,
`RecommendationsComplete` (`ServedRunComplete`), `RecommendationsNotTooOld`
(`AnswersNotTooOld`), and `RecommendationsFresh` (`InvalidatedNotServed`) under
`MaxDelay <= TTL`. `ServeInv` bounds the age of a list together with what its request
or cache entry has left. `FreshInv` says that requests with one key began under one
invalidation, and that a request that has outlived an invalidation with the key "0",
or the list it stored, is gone before the generation expires and the key is "0"
again; the hypothesis is what gives this.

`TrackingAnalyticsProofs` (3255 obligations):

* `AnalyticsTypeCorrect`, `AnalyticsOncePerTTL` (`OncePerTTL`), `AnalyticsStagedFirst`
  (`CheckpointedIsStaged`), `AnalyticsStaleStops` (`StaleRunStops`). `CountInv` says that
  every count has pushed its marker one time to live further (`MarksAhead`), a run
  between an event's marker and its count being as good as a count, and that a run
  which has counted without its leases does not get them back.
* `AnalyticsTotals` (`TotalsAgree`). `TotalInv` says that while nothing has failed one
  run at a time is past its start, which total still lacks its increment at each
  place of that run, and that a checkpoint that was seen belongs to an increment, so
  the total is never rebuilt. The number of increments is the cardinality of the set
  `Increments` and not a fold over the counts, about which nothing could be proved.
* `SegmentTypeCorrect`, `SegmentTags` (`RunsSettleTags` of `SegmentRecompute`). No lease
  enters the argument, since the API's transaction has none. `TagInv` says of every
  open transaction that each of its segments is matched or still to do (`OnItsWay`),
  that it has changed no tag of a segment it is not asked for (`KeepsOthers`), and that
  the rows nobody has disturbed agree with what it has matched so far (`AgreesSoFar`);
  and that open transactions have written disjoint rows, so a commit changes no row
  that another one has written, and disturbs those it does change.

`IdentityResolutionProofs` (1999 obligations): `IdentityTypeCorrect`, `IdentityLinks`
(`LinksConsistent`), `IdentityDrains` (`DrainsProject`). `IdInv` treats what a transaction
has written like what is committed: its links lead to masters it can see, no address
has two owners in its view, and no two open transactions have written one row or one
address (`Apart`), so either may commit first. While no two were open together
(`Alone`) the open one sees no orphan and what it read still holds; while nothing has
failed every master that is owed a projection is in the hands of a running drain
(`Pending`).

What the proofs assume of constants beyond the bounds: the sets of runs and of
profiles that are counted are finite; `None` differs from the values it stands beside;
a profile's observations are finite sequences of equal length for address and device;
every profile has a domain (the column is `NOT NULL DEFAULT '_'`). TLC evaluates these
assumptions in the runs.

Only model-checked:

* liveness, which rests on fairness and `ENABLED` and is outside the prover:
  `StorableEventuallyStored`, `EventuallyFlushed`, `StopEndsWorker`,
  `RunningEndsUnlessAbandoned`, `EveryObservationResolved`, `EveryChangeTagged`,
  `EveryJobEnds`, and the liveness part of `ImplementsDurableHandoff`;
* the fourteen refuted claims of section 4, which are counterexamples of their own.

## 6. Not modelled

* Tracking requests: rate limiting (one atomic script), validation, bot detection,
  webhook signatures. Each request decides by itself.
* Opt-out projection and token refresh: idempotent upserts over a look-back window;
  their effect is `Unsubscribe`, respectively a failed send.
* Product and content import, AI agents and planners, the persona engine: outcomes
  depend on text, models and floating-point scores; what they hand on is a choice
  in the models.
* Message rendering, journey branching on profile attributes (`reach` stands for
  it), connector handling, hashing and wire formats, fuzzy match scores and the
  merge of columns other than e-mail, the eligibility of profiles for ranking.
* Campaign creation by the planner, publishing, deletion and agent-saved versions;
  the CRUD of the admin API, which is single transactions.
* Frontend, promotions, seeding, notebooks, deployment and documentation: no
  protocol state. They are the larger part of the repository's lines.

Assumptions about the environment: the advisory locks of e-mail dispatch and of the
campaign live as long as their run; Redis loses no acknowledged write; PostgreSQL is
read committed with row locks and unique indexes as modelled; segment membership is
fixed while a campaign runs.
