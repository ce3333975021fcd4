# TLA+ models of KUKAN

KUKAN is an open-data catalogue: an API (`packages/api`), workers
(`apps/worker`), PostgreSQL for everything that must be right, an object store
for files and a search index. What makes it work is not in any one request: it
is how jobs are handed out, how the workers keep out of each other's way on one
resource, and how what is derived from a file (versions, preview, index, lake
tables) follows the file. That is what these modules model.

    cd tla
    tlc -workers 2 -config MCJobStore.cfg MCJobStore # any run of the tables
    below
    tlapm JobStoreProofs.tla                              # any module with proofs

Contents: 1 the system, 2 the plan, 3 the job table, 4 the loops of a worker,
5 the runs of one resource, 6 its objects in the bucket, 7 the search documents
of a dataset, 8 the tables of a resource, 9 what is proved, 10 where code and
text disagree, 11 what is left out.


## 1. The system

### Components, their state and their operations

| Component | Source | State it keeps | Operations | Modelled in |
|---|---|---|---|---|
| Job queue, the table | `packages/queue/src/postgres.ts` | rows of `job`: state, run_at, lease, owner, attempts, priority | enqueue (with a stand-in, in a caller's transaction), claim, extend, complete, fail, release, bury, retry, prune | `JobRow`, `JobStore`, `JobPromise` |
| Job queue, loops and waking | same, `wake.ts`, `apps/worker/src/index.ts` | active loops, `wakes`, timer, backoff, the coalesced signal | requestPass, lane, armForNextDue, arm, passFailed, wake, stop | `WorkerLanes` |
| Resource claim | `services/pipeline/pipeline-claim.ts` | `claim_owner`, `claim_kind`, `claim_owner_at` of `resource_pipeline` | take, release, cancel, take over, touch; the conditions `heldBy`, `stillHeld`, `stillHolds` | `ResourceRuns` |
| Pipeline run | `apps/worker/src/pipeline/` | `resource_pipeline.status`, steps, preview key, metadata | claim, fetch, version, interpret, lake, index, summarize, release | `ResourceRuns` (the lake step in `LakeCatalog`; not summarize) |
| Upload, revert, rebuild | `routes/resources.ts`, `resource-service.ts`, `resource-version-service.ts` | `resource.storage_key`, `content_revision`, pending key | prepare, promote, cancel, revert, rebuild | `ResourceRuns` |
| Live pointer, objects, orphan ledger | `storage-pointer.ts`, `cron/orphan-cleanup/` | `orphaned_object`, the keys in the rows | reserve, park, publish, sweep, reconcile | `StorageObjects` (pointer also in `ResourceRuns`) |
| Versions | `resource-version-service.ts`, `run/version-gate.ts` | `resource_version` | create, copy, purge | `StorageObjects` (create and revert also in `ResourceRuns`) |
| Content index mark | `services/search/content-index-*.ts` | `resource.content_index_due_at`, `metadata.contentIndexed` | raise, read, lower, sweep, reindex | `ResourceRuns` |
| Search documents | `search-index.ts`, `doc-marks.ts`, `package-cleanup.ts` | `doc_sync_due_at`, the documents, `SEARCH_DOC_SYNC_LOCK` | mark, sync under a lock, compare-and-clear, sweep, rebuild, purge | `SearchDocSync` |
| Datasets, organizations | `package-service.ts`, `organization-service.ts` | `package.state`, `organization.name` | create, edit, delete, restore, publish, purge, rename | as far as `SearchDocSync` needs them |
| Embeddings | `embed-resources.ts` | `embedding_due_at` | mark, plan, embed, settle | planned |
| Lake catalog | `services/lake/`, `rebuild-lake-catalog.ts` | `lake_catalog_key`, the objects under `lake/`, `resource_version.lake_snapshot_id` | ingest, commit, clear, rebuild, purge, hand on | `LakeCatalog` |
| API concurrency limits | `services/concurrency/` | slots and waiters | acquire, release, time out | `Semaphore` planned |
| Child processes | `services/child/host.ts`, `apps/worker/src/heavy/` | one child, its budget | start, ask, kill, respawn | planned last |
| Summaries, OData, datasets and users, health check, routes, web | see `PROJECT.json` | | | not modelled (section 11) |

### How they interact

* **Calls and messages.** The API writes a job in the transaction that changes
  the row (`PipelineService.enqueue`), and after the commit sends `POST /wake`.
  The signal carries nothing and may be lost: the job is in the table. (An
  older sentence in `docs/pipeline.md` still has the row written first and the
  message sent later; since ADR-058 both commit together, and that is what is
  modelled.) A worker takes jobs, and its handlers enqueue others.
* **Shared state.** The job table is shared by processes that know nothing of
  each other but the owner in a lease. `resource_pipeline` is shared by runs,
  users' requests and jobs, and its claim says who may write. The object store
  and the search index are outside any transaction.
* **Callbacks and timers.** A worker's loops wake for a signal, for a timer
  set from the earliest due row, and for the hourly pass.

### Where it is hard, and what makes each part correct

* The queue delivers at least once: a lease lapses while its worker hangs, a
  process dies on a last attempt, a stop interrupts a handler, a stand-in is
  taken between two statements. *Correct*: no request is lost, no row is
  stranded, a displaced process changes nothing, every job ends.
* The loops may miss a wake-up: a job is written while a loop leaves, timer
  answers come out of order, a failed pass replaces a sooner timer. *Correct*:
  with a loop idle no ready job is overslept, and a stopped process is quiet.
* A stopped run goes on executing until its next statement. *Correct*: nothing
  it does lands in the database any more, and at most one write in the index.
* Uploads take no claim and move the pointer under a run. *Correct*: no
  replacement is left unprocessed without something on the row that says so.
* A revert stops a run and retracts content, and may itself be taken over.
  *Correct*: nothing starts over the content before it is done, it never
  writes without the claim, and no retry fetches the retracted content again.
* A run skips work the row says is done. *Correct*: what the row says of the
  preview and the index is so.
* Objects are written before a row names them and deleted after the last one
  let go, by processes that may die in between. *Correct*: what is served or
  belongs to a version is there, what nothing names can be found and goes, and
  a purge ends with its file gone.
* Search documents are written by requests, a job and a rebuild, of rows that
  change meanwhile. *Correct*: a document is what its row says, or the row is
  marked; no document goes back to an older one; every mark is settled.
* A version's rows are written to the bucket in many steps and come into use by
  one comparison of a pointer; whoever fails leaves objects, and whoever comes
  next deletes them. *Correct*: the catalog in use has what the version rows say,
  all of it is in the bucket, a purged version is in neither, and every version
  comes in or is refused.

`PROJECT.json` lists the hazards line by line under "hazards", each with the
properties that would catch it, or the reason why none does yet.


## 2. Plan

| Order | Module | Models | Status |
|---|---|---|---|
| 1 | `JobRow`, `JobStore` | the table's statements and everybody who issues them | done, proved in `JobStoreProofs` |
| 2 | `JobPromise` | what the queue promises its callers; `JobStore` refines it | done, proved in `JobPromiseProofs` |
| 3 | `WorkerLanes` | the loops, timer and signal of one process, over the statements of `JobRow` | done, proved in `WorkerLanesProofs` |
| 4 | `ResourceRuns` | one resource: claim, runs, uploads, reverts, jobs, index mark | done, proved in `ResourceRunsProofs` |
| 5 | `StorageObjects` | keys, the orphan ledger, the sweep's gap between question and deletion, version copies, purge and its interruptions | done, proved in `StorageObjectsProofs` |
| 6 | `SearchDocSync` | a dataset's search documents: marks, the lock, batches, compare-and-clear, purge, rename, rebuild | done, proved in `SearchDocSyncTypes` and `SearchDocSyncProofs` |
| 7 | `ResourceEmbeds` | the embed job: plan, call the provider without the row, settle by comparison | next |
| 8 | `LakeCatalog` | generations, download and commit, rebuild against ingest, clearing, purge | done, proved in `LakeCatalogProofs` |
| 9 | `ClaimSets` | claims over sets of resources: minting in order, all or nothing | next |
| 10 | `Semaphore` | waiters of two priorities, time-outs, aborts, hand-over | next |

Abstract specifications worth stating: `JobPromise` (stated and refined), and
*one writer* for the claim (who may write, refined by `ResourceRuns`).

Bounds of planned runs: two writers of one vector, three overlapping claim sets.


## 3. The job table: `JobRow`, `JobStore`, `JobPromise`

`JobRow` has the statements as operators on one row: `Claimable` and `Taken`
(claim), `StandsIn` and `Raised` (enqueue), `FailedRow`, `ReleasedRow`,
`Exhausted` and `BuriedRow`, `RevivedRow`. A row is `[state, kind, priority,
due, attempts, lease, lockedBy]`; times are abstracted to what a WHERE clause
asks of them (`due`; lease `none`, `live` or `lapsed`), and time passes in two
actions, `ComesDue` and `Lapse`.

`JobStore` puts callers and processes around it. One action is one statement:
`StandIn`/`NoStandIn` and `Insert` are the two halves of `enqueue`; a caller's
transaction is `Insert` (or the stand-in's update) then `Commit` or `Rollback`,
with the updated row locked until then; a lane goes `Claim` → the handler ends
one of three ways → `Complete`, `Fail` or `Release`, each of which may fail
(`CompleteErrs`, `SettleErrs`), find its lease gone, or never be made (`Crash`,
`LetGo` for a process that hangs). `ClaimUnanswered` is a claim that committed
and whose answer was lost. `taker`, `served` and `given` are history variables:
which lane took a row last, which requests a handler has finished, and which
ones a process had in view when it took the row (`TakenSince`). A lease names a
process, so what a process finishes counts for what it has taken since.

`JobPromise` is what a caller may rely on: a request is owed until a handler that
could see it has finished, or its job is dead. `JobStore` implements it through
`Fate`, the view a caller has of the table (`KeepsPromise`).

| Run | Instance | Shows |
|---|---|---|
| `MCJobStore.cfg` | 2 processes × 1 loop, one of them without a handler for the second kind; 2 callers on different terms, 2 rows, 2 attempts | `TypeOK`, `ExhaustedIsLeased`; `NoLostWork`; `StandInAsWanted` (whoever waits is not left behind a less urgent or later row); `DisplacedCannotSettle`; the refinement `KeepsPromise` |
| `MCJobStoreRetry.cfg` | 3 attempts, 1 request, under `FairSpec` | `WorkEnds` |

*Bounds.* Two processes are enough for a takeover, two attempts for a retry and
a burial (three in the retry run), two requests for a stand-in or a race, two
rows for order. Two loops in a process were explored besides (one process, one
row, two requests; two processes, one row, one request: 130 and 200 thousand
states), with the same result, and the proofs are for any number of them. The
terms asked for are the three that differ in what they
do (`MixedTerms`): an urgent job that can wait, a less urgent one wanted now,
and one of a kind only the newer process knows. *Fairness.* `FairSpec` asks
that lanes look (the hourly pass),
that a handler returns and its statement is made, that leases lapse and delays
end, and that one process, `Steady`, stays up. Claiming and burying need strong
fairness: another process can take the row each time this one is about to.
Nothing is asked of the other process: it may hang, die or stop.
`CHECK_DEADLOCK FALSE`: with all processes stopped and no caller left the
table rests.


## 4. The loops of a worker: `WorkerLanes`

One process, its loops and what wakes them. JavaScript runs one piece at a time,
so what lies between two awaits is one action: `Pass` is `requestPass`; a loop
goes `Bury` → `Claim` or `ClaimNone` → `Run` → back, or `Close`, where it either
fails (`PassFailed`: backoff and one timer) or asks for the next due row (`Ask`)
whose answer comes later and in any order (`Arm`). `lane[n].woken` is the
comparison of `wakes` with what it was when the loop looked. Times count down in
ticks. The other side of the wire is `Write` (commit) → `WakeHere` or `Request`
(the coalesced `POST /wake`) → `Deliver`, or lost. The second worker only takes,
extends, completes or dies.

| Run | Instance | Shows |
|---|---|---|
| `MCWorkerLanes.cfg` | 2 loops, 2 rows, failing claims and timer queries | `TypeOK`, `NothingOverslept`, `StopIsFinal` |
| `MCWorkerLanesLive.cfg` | 2 loops, 1 row, any statement may fail, under `FairSpec` | `TakenInTheEnd`, with nothing asked of the hourly pass; a row that a failed settling left leased to this process counts as taken (section 10) |

*Bounds.* Two loops are what it takes for one to look while the other leaves or
for two timer answers to cross (`MaxAsks` bounds answers under way). Ticks are as
small as keeps lease, retry and backoff apart. A worker with the default pool has
three loops: the proofs are for any number, and what three do that two cannot is
in section 10. *Fairness.* The process runs,
time passes, handlers end, a signal that was sent arrives unless the model lost
it (`missed` then exempts its rows until the next pass), and a statement does not
fail for ever. One thing seen on the way: the second look a loop takes when
`wakes` moved is not what keeps a job from being overslept, since the loop's
own request for the next due row also finds it; it saves the round trip.


## 5. The runs of one resource: `ResourceRuns`

One resource; each worker has one run at a time; besides them a user's cancel,
an upload, a revert, a job that holds the claim, and the content sweep, each
switched on by `Others`. What may go wrong is chosen by `Faults`.

| Variable | Column or place |
|---|---|
| `claim` | `claim_owner`, `claim_kind`; `idle`: `claim_owner_at` and the newest step are 15 minutes old. `dead`: the owner is a process that is gone |
| `fence` | a statement is under way with the pipeline row locked `FOR SHARE` |
| `status`, `flaws` | `resource_pipeline.status`; the steps recorded as failed |
| `live`, `external`, `versions` | `resource.storage_key`, `url_type`; the keys `resource_version` rows name |
| `made`, `filed` | what preview and `sourceHash` on the row were made from; `metadata.contentIndexed` |
| `index`, `due` | the content documents by chunk; `content_index_due_at` |
| `waiting` | jobs of the resource, by payload: ordinary, `rebuildOnly`, `indexOnly` |
| `buried` | a job of the resource lies dead in the table, its attempts spent |
| `run`, `up`, `rv`, `job` | where each actor is, with what it has read |

A run is `Take` → `ClaimRun` (or `Requeue`) → `BeginRun` → `Fetch` →
`PublishStart`/`Publish` → `VersionGate`/`InsertVersion` → `Interpret` →
`Describe` (or `Reuse`) → `IndexStart` → `Check`/`Send` per write →
`RecordIndexed` → `LowerMark` → `Finish` → `Release` → `Done`. Each write to the
row is conditioned on the claim (`IfHeld`), a step's start is where a run finds
out (`Cancelled`), and the outer catch is `RunFails`, `Interrupted` and
`Cancelled`.

*The fence.* `publishLiveContent` locks the claim's row and may then wait for
the resource's row, so it is two actions, with `fence` set in between; any
statement that updates the pipeline row waits (`RowFree`). Weakened to a look
(`PublishStartUnfenced`), the property fails, as the comment on `stillHeld` says
it was measured to. *The look.* An index write is `Check` then `Send`, with
anything in between.

*The crash of a worker* orphans the claim, and the queue hands the job out again
once its lease lapses, or buries it (`GivenUp`) after its last attempt. A run cut
short by the container's memory fails its job, which goes the same two ways; one
cut short by a stop is handed back uncounted. How often a job was taken is not
kept here: where `bury` is among the faults, any attempt may be its last. The
admin's retry of a dead job, and a lease that lapses under a living worker, are
`JobStore`'s. `GoStale` lets fifteen minutes pass, always possible under a dead
owner, and under a living one only where `stall` is among the faults.

| Run | Instance (2 workers) | Shows |
|---|---|---|
| `MCResourceRuns.cfg` | cancel, upload; 2 of crash, stall, fetch, defer, queue, stop, step, and jobs that are buried; `FairSpec` | `TypeOK`, `StatusHasWork`, `IndexedRecordTrue`, `OneStrayWrite`, `StoppedLandsNothing`, `SelfHealing`, `UploadsProcessed` |
| `MCResourceRunsSearch.cfg` | only rebuilds asked for; revert, job; 1 of search, jobdies, crash, stall | `RevertUndisturbed`, `StoppedRevertLandsNothing`; `NothingForgotten` by way of the mark and the sweep; `OnlyAskedFetches` |

*Bounds.* Two workers: one run that has lost the claim and one that has it.
Keys (`MaxKey` 2 or 3): the content at the start, one replacement, and a second
one that overtakes it or that a revert issues. `Chunks` is 1: the removal
and one chunk are two writes of one Index step, enough for one to follow the
other after a stop (`StrayWritesBounded` is proved for any number). One or two faults:
every property is about one thing going wrong at the wrong moment, or about a
second one during the recovery. `MaxAsks` bounds what users ask for. *Fairness*
in `FairSpec`: runs go on, endpoints answer, the sweep's hour comes round, and a
claim nobody works under goes stale. It is weak fairness throughout: a job that
finds the resource held puts itself back, so nothing is taken from a run that
is about to claim for ever. `CHECK_DEADLOCK FALSE`: once all that may be
asked for has been, the resource rests.

`NothingForgotten` is about rest: with no job, run or request under way, preview,
versions and index are those of the live content, *or* the row says they may
not be (a status of error or cancelled, a failed step, the mark). The one thing
nothing records is an index write that strayed in after a stop
(`docs/pipeline.md`, section 3, describes the window): the history variable
`strayed` excuses it, and `OneStrayWrite` bounds it.

A buried job is the queue's answer to work it could not get done: nobody runs it
until an admin retries it, and the dead row in the job table says so. It excuses
`StatusHasWork` (the row goes on saying queued or processing), `UploadsProcessed`
and `NothingForgotten`; the first two are checked with burials, and without one
the excuse never applies. `IndexedRecordTrue` and `SelfHealing` need no excuse.

Combinations left out of the passing runs, because they lead to what section 10
describes: index-only runs with cancels or uploads, which includes uploads with a
search backend that fails, since the sweep then asks for an index-only run; hung
runs with job claims under `StatusHasWork`. `StatusHasWork` itself excuses one
row, queued with its Fetch step failed, which is also described there. With two
faults, a revert that hangs may wipe the index after the run that took over has
indexed, and the run its request then asks for may hang too: `NothingForgotten`
is checked for reverts with one.


## 6. The objects of one resource: `StorageObjects`

The bucket takes part in no transaction, so an object is there before a row
names it and after the last row let go of it. The module has one resource's
objects, everything that names them, and everybody who writes or deletes them;
who else works on the resource is chosen by `Others`, what goes wrong by
`Faults` (a bounded number of times) and `Endless` (any number of times).

| Variable | Column or place |
|---|---|
| `live`, `hash`, `external`, `pending` | `resource.storage_key`, `hash`, `url_type`, `pending_storage_key` |
| `versions` | `resource_version`: key and state (`active`, `purging`, `purged`) |
| `preview` | `resource_pipeline.preview_key` |
| `objects`, `origin` | the keys that hold an object; the bytes, by the key that first carried them |
| `ledger` | `orphaned_object`: write-ahead records and parked keys |
| `claim` | the claim of `ResourceRuns`, reduced to who has it |
| `run`, `rv`, `purge`, `up`, `sweep`, `recon` | where each actor is, with what it has read |
| `queued`, `urls` | a `purge-version` job; upload URLs handed out and not used |

A run is `TakeClaim` → `Reserve`/`Store` (fetch) → `PublishContent` → `Gate` →
`AskOwner` → `FileTaken`, or `Copy`/`FileCopied` where a version owns the object
already → `Interpret` → `Paint` → `Point` → `Leave`. A revert is `AskRevert` →
`TakeOver` → `CopyVersion` → `FileReverted` → `Detach`, `DetachRetracted`,
`DropRetracted` → `LeaveRevert`. A purge is `ClaimPurge` → `StartPurge` →
`DeleteVersion` → `DetachPurged` → … → `RestoreLive` → `DeleteServed` →
`AskRebuild` → `FinishPurge`; `QueueStranded` is the hourly look for purges whose
job is gone. The sweep is `SweepLists` → `SweepAsks` → `SweepDeletes` →
`SweepUntracks`, each a statement of its own with anything in between.

| Run | Instance (4 keys) | Shows |
|---|---|---|
| `MCStorageObjects.cfg` | a run, a purge, the sweep; one death of any of them, a lost job or a refused delete; `FairSpec` | `NothingStranded` (an object nothing names is on the ledger or in somebody's hand), `PurgedGone`, `PurgeEnds`, `GarbageGoes` |
| `MCStorageObjectsRevert.cfg` | a run, reverts, purges that are cut off any number of times | `TypeOK`, `VersionsStored` (every version's file is there), `OneOwner` (no object belongs to two versions), `LiveIsNewest` |
| `MCStorageObjectsUpload.cfg` | a run, cancels, uploads, reverts that die, the reconciliation | `ServedStored`: what the live pointer and the preview name is never deleted |

*Bounds.* Two versions to begin with and two more keys: a fetched object and its
copy, or an upload and a revert's copy. One run: a displaced run goes on after a
cancel, next to whoever has the claim by then. *Fairness.* Runs, purges and the
sweep go on, and the hourly passes come round; deletes do not fail for ever.
*The hour.* A write is assumed to end within the hour its write-ahead record
gives it (`InFlight` keeps the sweep off such keys), and a parked key may be
swept at any time. `CHECK_DEADLOCK FALSE`: with the keys used up, it rests.

*A claim that goes stale* (`GoesStale`) is a dead holder's, or, where `stall` is
among the faults, that of a living one who made no progress for 15 minutes and
goes on after that. No run kept here has `stall`: a run is displaced by `Cancel`,
which comes to the same; with a revert displaced while it lives the uploads'
instance has 10.7 million states, in which TLC found `ServedStored` to hold (it is
also proved, `ServedStays`), and takes too long to be kept; a purge that hangs and
goes on makes `VersionsStored` and `LiveIsNewest` false, and a run that is
displaced `NothingStranded` (section 10).

*Copies and steps.* A copy that the storage refuses fails its step, and the run
goes on to the next one, as it does when the source is gone. `FinishPurge` marks
the version purged, gives the claim back and ends the job in one step; in the
code these are three, and a death between them leaves a claim that goes stale
and a job that finds no version to purge, which changes nothing above.

`VersionsStored` is checked without uploads: with uploads and cancels together
it is false, by the route described in section 10. `ServedStored` is checked
without purges, which would fall back to a version whose file went that way.


## 7. The search documents of a dataset: `SearchDocSync`

One dataset, its resources and the index. A transaction that changes what a
document says marks the row (`doc_sync_due_at`); the writers take no lock.
Whoever holds `SEARCH_DOC_SYNC_LOCK` then reads marked rows, writes or removes
their documents, and clears each mark only if it is still the one read.

| Variable | Column or place |
|---|---|
| `row[d]` | `state`; `text`, the number of the last transaction that marked the row, which stands for its content and for the mark's time; `due`, a mark is set |
| `org` | the organization's name (by the number of the rename) and the progress of a rename's transaction with the row locks it holds |
| `index[d]` | what the document says, or `Nothing` |
| `lock` | the advisory lock, held by a transaction |
| `act[a]` | a request or a worker: what it still has to write (`todo`), what it has read, what was refused |
| `waiting` | a sync job waits in the queue (`unlessWaiting`: one at most) |

`Commit` is the transaction of a request, with one operator per service method
(`Create`, `EditDataset`, `EditResource`, `EditByRun`, `DeleteResource`,
`DeleteDataset`, `MakeLive` for publish, restore and their repetition,
`PurgeDeleted`, `PurgeDraft`); afterwards the request writes what it marked, in the order
of the route: `TakeLock` (or `LeaveToJob`) → `ReadRows` → `BuildDoc` (a dataset's
content is read by statements of its own, under read committed) → `WriteIndex` →
`Settle`, and `Ask` for the job if anything was left. The job takes the same
steps with rounds (`After`); the rebuild copies and drops without clearing marks;
a purge removes the documents under the lock and then the rows (`PurgeRows`).
A rename is `RenameMark` → `RenameTake` → `RenameCommit`, between which datasets
may be published or created, and writers of the dataset's row wait (`RowFree`) or
time out (`RowTimesOut`).
Removing a dataset from the index is two requests, its
children's documents first: a refusal in between (`ChildrenGone`) leaves the
dataset's own document, and its mark. A request counts as waiting until it has
asked for the job (`Waiters`).

| Run | Instance | Shows |
|---|---|---|
| `MCSearchDocSync.cfg` | one resource, 2 requests, 1 worker, all operations, a rename, a rebuild; 2 transactions, 1 of a failing index, a failing queue, a death | `TypeOK`, `StaleIsMarked`, `NeverOlder`, `SearchableOnReturn` |
| `MCSearchDocSyncLive.cfg` | 2 resources, one always refused, batches of 1; `FairSpec` | `MarksSettled` |

`StaleIsMarked` is the purpose of the marks: a document that differs from its row
has a marked row, whatever crashed. `NeverOlder` is what the lock is for.
`SearchableOnReturn` is about the shortcut of a request that finds the lock held and
nothing due. `MarksSettled` is about refused documents at the head of the line
and jobs that were never asked for.

*Bounds.* Two transactions are enough for a newer mark between read and clear, a
deletion after a restore, a rename across a publish; two requests for a purge
against a restore or an edit against an edit; a batch of one for rounds that begin with
what was refused. *Fairness.* Processes go on; a lock that is free again and again
is got, and a job that waits is taken though others are (strong fairness:
PostgreSQL and the queue serve in order); the sweep's hour comes round. Nothing is asked
of requests, renames or rebuilds beginning. *Assumed.* An index request
does not outlive its client's transaction: one that did would land without
the lock. `CHECK_DEADLOCK FALSE`: once the transactions are used up, it rests.


## 8. The tables of a resource: `LakeCatalog`

A resource's tables are data files in the bucket, a catalog object (DuckDB's)
that says which of them each snapshot reads, and a pointer on the pipeline row
that makes one catalog the resource's. A version row records the snapshot it was
loaded at. Objects are never rewritten, so a key stands for its content: a data
file is the version whose rows it holds, a catalog the list of files it reads,
and a snapshot a place in that list. Names are taken that nothing mentions any
more (`NewName`, `NewGeneration`: in the code they are random).

| Variable | Column or place |
|---|---|
| `row[v]` | `resource_version`: `state`, `lake_snapshot_id` (`snap`), `lake_ingest_reason` (`refused`), `no_table_reason`, the count of failures; `kind` is what the file turns out to be |
| `pointer` | `resource_pipeline.lake_catalog_key` |
| `bucket`, `ledger` | the objects under the resource's prefix; the catalogs on `orphaned_object` |
| `claim` | the claim of `ResourceRuns`, reduced to who has it |
| `waiting`, `leased` | the jobs `lake-ingest`, `rebuild-lake-catalog`, `purge-version`; `lake_ingest_queued_at` within the hour |
| `act[w]` | where a worker is, with what it has downloaded, drafted, read or listed |
| `left`, `lost` | history: data files of a load that died; objects destroyed from outside |

A load is `StartRun` or `StartIngest` → `Ask` → `Open` (the catalog downloaded)
→ `Load` → `Publish` (the new catalog on the ledger and in the bucket) →
`Commit`, one transaction under the claim that compares the pointer with the
catalog the draft was built on and moves it with the snapshots. Then it clears:
`Clear` (claim and pointer read) → `List` → `Recheck` (both asked again) →
`Delete`; so does every failure. A rebuild is `StartOther` → `Decide` → `Read`
for each version in order → `Publish` → `Commit`; a purge is `Check`, the same
rebuild, `Finish`. `Release` and `EndJob` are what becomes of the job, with the
chain to the next outstanding version (`HandOn`) and `Failed`, the count that
refuses a version in the end. `Sweep` and `Lapse` are the hourly pass and the
hour.

| Run | Instance | Shows |
|---|---|---|
| `MCLakeCatalog.cfg` | 2 workers, 2 versions, the first of which may be purged; one fault of any of twelve kinds; `FairSpec` | `SnapshotsTrue` and `CatalogTrue`; `NothingLittered` (at rest the bucket holds what is needed, what the orphan sweep takes, and what a dead load left); `BacklogDrains` |

*Bounds.* Two workers are one that lost its claim and one that has it; two
versions are an order, a version overtaken, a purge beside a load. The faults: a
death, a claim gone stale or cancelled, a statement that fails, a worker told to
stop, a commit whose answer is lost, a deletion that leaves one object, an object
destroyed, a version that cannot be read, one whose key columns are not unique
(`badKey`), a run that comes by a version again, and a job still in the queue
after its hour (`late`). With two faults, and with both versions open to purge,
`SnapshotsTrue` and `CatalogTrue` were explored and hold, as they are proved to;
`NothingLittered` is then false, by the first of the lake's routes in section 10;
what else makes it false is at the end of section 9.
*Fairness.* A worker that has begun goes on (weak). A job that waits is taken
though others take the claim again and again (strong: the queue serves by due
time and tries held ones again). The hourly pass and the hour come round, and a
dead owner's claim goes stale. *The hour.* The jobs of one hour are over before
the next, but for the fault `late`; the orphan sweep takes a catalog only when no
writer that began before it was parked is still at work. `CHECK_DEADLOCK
FALSE`: with both versions in and nothing owed, it rests.


## 9. What is proved

All theorems but the refinement are `Spec => []Inv` or `Spec => [][A]_vars`, for
every value of the constants that meets the assumptions of the module (named
`…Assumption`; they say that bounds are naturals, that names do not clash and
that there are finitely many workers of the lake and delays of jobs). The few
that need more, such as that nobody uploads, have it as a hypothesis of their
own. Every leaf is checked.

`JobStoreProofs`, for any number of processes, lanes, rows and callers:

* `TypeCorrect`, `NoRowStranded` (`ExhaustedIsLeased`) and `LeasesOwned`
  (`LeaseHasOwner`) rest on `RowInv`: types, plus, for each row, that lease and
  owner go together, only on ready rows taken at least once. None of the three is
  inductive by itself: that a row out of attempts is leased needs that `fail`
  finds the attempts it counted, and that needs the row to be ready.
* `DisplacedHarmless` (`DisplacedCannotSettle`) needs `TakerInv`, that the owner
  of a lease is the process of the lane that took it last, on top of `RowInv`.

`JobPromiseProofs`, for any number of processes, loops in a process, rows and
requests:

* `WaitersNotLeftBehind` (`StandInAsWanted`) rests on `ReqInv`. The property
  speaks of requests that committed; the invariant also has those of open
  transactions, whose row is either fresh (`Fresh`: nobody has taken it) or
  locked by the transaction and as its update left it.
* `WorkNotLost` (`NoLostWork`) rests on `PromiseInv`, which adds `SeenInv`: a
  leased row that has not been asked of since was taken with all its requests in
  view, and a loop about to settle its row had seen what is counted as served.
  A completed row may go only because of it.
* `PromiseKept` (`KeepsPromise`): every step of `JobStore` moves the fates of
  the requests as `JobPromise` allows. A request's fate depends on its own record,
  its row and what was served (`FateOfRow`, `FatesByRow`), so steps that touch
  one row move the fates of its requests only.

`WorkerLanesProofs`, for any loops, jobs, delays and lengths of lease, retry and
backoff:

* `TypeCorrect` and `StoppedForGood` (`StopIsFinal`) rest on `Fits`: a leased row
  is ready and was taken, a running loop has a job, a stopped process no timer.
* `NoLostWakeUp` (`NothingOverslept`) has two hypotheses. Settling does not throw
  (`"settle" \notin Faults`), as in the run; and there are at most two loops
  (`Few`), or the leases of this process are extended in time (`LeasesKept`).
  Without either it is false (section 10). The property speaks of a process at
  rest; the invariant has to hold in mid-flight. A row ready to be taken or to
  become so is covered when a signal or a look at all rows is on its way
  (`Told`), by the timer or an answer under way (`InTime`), or by the loop that
  runs it. Right after a job failed none of these holds, and two loops may let
  go of two rows at once. So `Looked` assigns each uncovered row (`Left`) to a
  loop that has still to look, no loop having two: a loop that takes a row which
  was another's hands its own over; one that takes a covered row shows that all
  are covered, since what can be taken now comes due first; one that finds none
  asks for the next, and the answer covers all (`OwnRun`: the query leaves out
  this process's rows, and a loop has each of those). `MissedAll` is why the
  exemption for lost signals does not hide a row written later.

`ResourceRunsProofs`, for any number of workers, keys, chunks, requests and faults:

* `TypeCorrect`. The claim's three columns are set and cleared together.
* `StoppedIsStopped` (`StoppedLandsNothing`) and `StoppedRevertIsStopped`
  (`StoppedRevertLandsNothing`) rest on `FenceKept`: a run or a revert whose
  statement has the row locked holds the claim, and one that is about to move
  the pointer has it locked. Most steps are *calm*: they leave the lock alone
  and, while it is held, the claim's owner (`CalmRun`, `CalmOther`); only the
  publishing steps and a death are looked at one by one. The action properties
  then follow step by step, each write being conditioned or fenced.
* `StrayWritesBounded` (`OneStrayWrite`) rests on `StrayBound`: a run that has
  strayed once has lost the claim and is on its way out, and no step between
  two writes lets it by, since a claim once lost never comes back to the same
  taking.

`FullInv == TypeOK /\ FenceKept /\ StrayBound` is the inductive one.

* `FetchesWereAsked` (`OnlyAskedFetches`) rests on `FetchInv`: while no fetch was
  asked for, no ordinary job or run is about as long as the resource is
  external, and nothing promoted is external; an upload's own run reads what is
  live. No fault is excluded.
* `RevertHasResource` (`RevertUndisturbed`): a revert's claim is a job's
  (`RevertIsJob`), so that neither a cancel nor a run that gives back finds it
  its own, and each step that takes the claim from it found it stale
  (`KeepsHold`).
* `WorkBehindStatus` (`StatusHasWork`) has a hypothesis: no job claims or no
  holder that hangs (`"job" \notin Others \/ "stall" \notin Faults`). Its run has no
  jobs; with both it is false (section 10). `WorkInv`, on top of `FullInv`, says
  more than the property, which a run waiting to release would satisfy: a job is
  coming, or the queue has buried one (`Coming`), or the *holder* is at work (`Served`). A holder that leaves
  without settling its status was superseded, put off or refused by the queue;
  `Fits` has what stands behind the row in each case. A claim taken over is the
  delicate step: the row is the taker's only because a stale claim is a dead
  holder's whose job comes again or is buried (`StaleIsDead`), or because no job
  takes it.
* `IndexRecordHolds` (`IndexedRecordTrue`) and `NobodyForgets`
  (`NothingForgotten`) rest on `RecordInv`, which says of a run under its claim
  what it has read, by how far it has come (`Reads`). Between a reading and its
  use only two things can have happened: nothing, or an upload, which takes no
  claim; so the content a run works on is the one served or has been replaced by
  a key no version has, with a job for it on its way (`Serves`, `Replaced`). From
  the start of its Index step to its end the record does not name the run's
  bytes (`IndexedContent`), and that is where the record would become a lie: an
  index-only run or a rebuild whose Interpret failed starts from a record that
  does. A revert empties the index first and clears the record after, so the
  record describes the index (`Describes`) except in between, where the revert
  has the resource to itself (`Reverting`). `Settled` adds that a complete row is
  true or a job, a run about to begin or the revert's last statements will see to
  it. The hypotheses name what section 10 shows to break them. The record is
  sound (`RecordSound`: no index-only run, no search backend that fails, and no
  failing step together with rebuilds or reverts), or for the second theorem
  nobody believes it (`RecordUnread`: no ordinary runs); reverts do not hang
  (`RevertsAlive`), or for the second theorem no claim is taken over from a live
  holder (`NoHang`). The first covers the constants of its run; the second those
  of its run without `stall`, the one hang there being TLC's alone.

`SearchDocSyncTypes` and `SearchDocSyncProofs`, for any documents, requests,
workers, size of a batch, refused documents and faults:

* `Types` (`TypeOK`) needs `Formed` (what an actor does next fits what it is and
  the part it is at: only a rebuild lists, only a request purges, a purge's batch
  names the dataset) and `Room` (a rename that has begun has a transaction left).
* `NoEditLost` (`StaleIsMarked`) rests on the invariant `Right`. `StaleIsMarked`
  says nothing of what a writer has in its hands, which is where an edit is lost.
  So `InHand` speaks of the batch: for each of its rows, the batch is about to do
  what the row asks, or the row has been marked since it was read, with a mark
  that cannot equal the one read (`Times`), and will not be cleared. `Written`
  says the same of the marks a batch is to clear after the index took it. One
  writer at a time is at it (`Alone`). A purge and a rename are different: a
  purge removes documents first and marks later, under no lock between
  (`Emptied`); a rename changes what documents say of rows it does not write, and
  is right because it holds the dataset's row from its second look to its commit
  (`Renaming`). Drafts have no document (`Unseen`). A purge that crossed a
  restore is the exception of the property, and stays one of the theorem.
* `IndexNeverBack` (`NeverOlder`) adds `Ordered`: what is about to be written is
  no older than what is there and no newer than the row.
* `EditIsSearchable` (`SearchableOnReturn`) adds what a request knows of its parts.
  Each document of a part was written by the request's own transaction, or was
  not active in it; to be active again takes a later transaction (`Told`). A part
  left to the holder of the lock had nothing marked, so `StaleIsMarked` speaks
  for it. A batch that was not full held all of the part that was marked
  (`NotFull`); the rest was in line when it was read, and nobody else writes
  until the lock is let go, though the rows may move on (`Unread`). What the batch
  did clear is right by `Written`. TLC had checked `Whole`, `Told` and `Unread`
  completely on the instance of the run.

Each action is of one of a few kinds (a step that only moves its actor, a
transaction that marks, a reading, a batch that lands, marks cleared), stated by
what it does to each row and each actor; the invariant is proved once for each
kind, and each action is shown to be of its kind. TLC had checked `Right` on
the instance of the run `search` first.

`LakeCatalogProofs`, for any finite number of workers, any versions, any faults:

* `TypeCorrect`. Types include which kind of job gets where (`JobFits`) and that
  what can be named is finite, from which a name that nothing mentions exists
  (`NamesAreNew`).
* `SnapshotsStayTrue` (`SnapshotsTrue`) needs `Shapes`: a load's draft is the
  catalog it downloaded and one file more, a rebuild's draft has each version
  once. The commit compares with the former, so no number moves under a row.
* `CatalogStaysTrue` (`CatalogTrue`) rests on `CatalogInv`. `Agreed` is the
  property's text about numbers and order; a load keeps the order because under
  the claim it is the first of its version and the last of all (`LoadsFirst`), a
  rebuild because it reads in order. That the catalog reads nothing purged comes
  from the jobs: whoever has the claim does not bring in a version that a purge
  is at (`Spares`: the purge took the claim after marking the row, and what was
  begun before cannot commit), and from the commit of its rebuild to its end the
  row has no snapshot (`Cleansed`). That nothing needed is deleted (`InPlace`) needs
  to look at whoever deletes: what `Delete` holds is not read by the catalog in
  use nor by what the holder of the claim is drafting (`Deletes`, `DraftsWhole`),
  though the pointer may have moved since the second look. It is so since a
  later draft either continues the catalog that was looked at, which was spared,
  or has new names, which nothing on a list can have.

`StorageObjectsProofs`, for any number of runs and keys, everybody at work at
once, any faults but one:

* No purge that lives loses its claim as stale (`PurgesLast`: no holder that
  hangs, or no purges) is the hypothesis of everything below, since with such a
  purge some of it is false (section 10). Only `TypeCorrect` (`TypeOK`) has none.
  A run may lose its claim to a cancel at any time, anybody's goes stale once he is
  dead, and where there are no purges also while he lives. The hypothesis covers
  the constants of all three runs.
* `OwnersDiffer` (`OneOwner`), `NewestIsServed` (`LiveIsNewest`) and `PurgeIsFinal`
  (`PurgedGone`) rest on one invariant, `StorageInv`, proved by `InvHolds`. No two
  of its parts stand alone.
* `Keys`: a key has one use at a time. It is the object a run is writing, a
  revert's copy, an upload, or content (the live object, a version's, what a run
  is publishing), and an unminted key has no use. Without it a late `Store` or
  upload could bring back the object of a purged version.
* `RunSound` is what a run under its claim knows of what it publishes and files:
  not the key of a purged version; at its filing, no key a version owns. The row
  was read statements ago, and it is the claim that keeps it true. A displaced
  run knows nothing of the kind, and its fenced statements do nothing.
* `OneVersion` is stronger than `OneOwner`, which lets a tombstone share a key:
  a run may file a key only if no version, purged or not, has it.
* `PurgeSound` follows the purge through its statements: it has the claim, one
  version is being purged, its object goes first, the live pointer then leaves
  it or moves to the newest version left. `LiveIsNewest` and `PurgedGone` need
  to know how far it is, since a purge may be cut off and begun again.

Each step is first shown to be of one of a few kinds (`NextIs`: a run, an upload,
a revert, a purge moves, or nothing of these does), and each part is proved once
for each kind. TLC had checked `StorageInv` before, completely for one run and
by simulation for two runs and three faults.

What is in the bucket comes on top of that, again for any number of runs, keys
and faults:

* `FilesUnlessOvertaken`: `VersionsStored` holds, uploads and purges included, as
  long as `NotOvertaken` does: no run is about to file an object that a sweep has
  decided to delete. The route of section 10 is thus the only kind there is.
* `FilesStay` (`VersionsStored`) where nobody uploads, and `ServedStays`
  (`ServedStored`) where there are no uploads or no purges, in the second case
  whoever hangs. Neither holds for
  everybody at once: a version lost by that route is what a purge falls back to.
* `UseInv` says why no delete hits what is named, statement by statement.
  `SweepSound`: a key the sweep has asked about is nobody's own any more, a run
  that is to publish it took it from the pointer, and once the answer was no,
  neither pointer nor preview comes to name it, though the ledger does not keep
  anybody from naming it again. `DropSound`: a preview that was detached is never
  content, and the file a purge deletes last is no version's that counts.
  `InBucket`: whatever the next statement of anybody points at is there.
* Without uploads `NotOvertaken` follows (`NobodyOvertakes`): a run under its claim
  serves what it is about to file (`NoUpload`), and the sweep has asked about
  what is served. An upload moves the pointer under no claim, and the argument
  ends there.

TLC had searched the first seven million states of each of two instances for a
violation of these invariants (one run and five keys, with purges and with
uploads), and found none.

Nothing unnamed is lost sight of, under a hypothesis each:

* `StrandedOnlyIfUnnamed` (`NothingStranded`), everybody at work and any faults, as
  long as `StillNamed` holds: a key the sweep found named keeps a name, or has no
  object, until the sweep has dropped its record. `Tracked` carries it: the
  record is there before the object is, and only three things take it off, a
  pointer that comes to name the key, a file a purge or a sweep has deleted, and
  the sweep's last statement.
* `NothingIsStranded` (`NothingStranded`) where nobody uploads, cancels, reverts or
  hangs until his claim is stale (`Unshared`), with `StillNamed` proved. Then whoever is at work has the claim and finds the
  pointer where he read it (`Solo`), so nobody parks what is still named; no
  record is of a named key, and what the sweep or the reconciliation is at gets
  no name any more (`Clean`). Runs that fail or die, purges cut off and begun
  again and reconciliations are all included.
* With a cancel or a revert it is false (section 10). TLC had checked `Tracked`
  under cancels, reverts and uploads with `StillNamed` as a constraint, and
  `Solo` and `Clean` for one run and two faults and for two runs and one.

*Only model-checked.* `NothingLittered` is no theorem: it holds for the faults of
its run and is false with more of them, even with one version and no purge.

* `{"stop", "stall", "rerun"}`: a load that lost its claim writes its file after
  the run that took over has committed and listed the bucket. It is then told to
  stop; its own clearing finds the claim gone, and so does not clear; its job
  comes back, finds nothing outstanding and clears nothing.
* `{"load", "delete", "rerun", "crash"}`: a load fails, and so does the deletion
  in its clearing; a second run commits and dies before it clears; the job of the
  first finds nothing outstanding.

The file stays until the next load's or rebuild's clearing, which removes it, and
no row ever names it (`CatalogTrue` is not touched). With one version, TLC finds
`NothingLittered` true under any two faults, and under any three without `stop`.

Out of the prover's reach altogether: liveness under fairness (`WorkEnds`,
`TakenInTheEnd`, `SelfHealing`, `UploadsProcessed`, `PurgeEnds`, `GarbageGoes`,
`MarksSettled`, `BacklogDrains`), and ENABLED; also induction over data and
RECURSIVE operators, of which these modules use none.


## 10. Where the code and what is written about it disagree

All of these come out of the modules with other constants or one more formula,
given with each; the configurations kept here are those that pass.

* *A row nobody is settling is left out of the timer* (`WorkerLanes`,
  `NothingOverslept` with "settle" among the `Faults`). When settling throws, the
  row stays leased to this process (`postgres.ts:547`), and the query for the
  next due row leaves out its own.
* *A lease of its own that lapses* (`WorkerLanes`, `NothingOverslept` with 3
  loops and no faults). The query for the next due row leaves out this process's
  own, since "it extends their leases while they run" (`postgres.ts:784`); but
  `hold` gives up after 90 minutes (`postgres.ts:756`) or when its updates fail.
  A job whose lease lapsed under a hung handler is then on nobody's timer, and a
  loop that ends a job of its own takes it a second time instead of asking what
  is due next. The job that loop has just failed, due in five minutes, waits for
  one of the two to end or for the hourly pass, with the third loop idle.
* *A timer that spins* (`WorkerLanes`, 2 loops). With another loop busy, a row
  whose worker died on its last attempt is counted as due at once by the timer,
  cannot be taken, and is buried only when all loops are idle
  (`postgres.ts:514`).
* *A record of an index that is gone* (`ResourceRuns`, `IndexedRecordTrue` with an
  index-only run asked for and a cancel). The run stopped after its removal
  (`process-resource.ts:388`) leaves `contentIndexed` true; later runs skip. Two
  more ways to it: a rebuild of described content whose Interpret fails keeps the
  metadata it found, its Index step removes the documents all the same, and a
  cancel ends it there (`Asked = {"rebuild"}`, `Others = {"upload", "cancel"}`,
  `Faults = {"step"}`); and a revert that hung and was displaced empties the index
  under the run that took over (`Others = {"revert"}`, `Faults = {"stall"}`).
* *A purge that leaves a preview* (`StorageObjects`). A run that has published and
  is cancelled, fails or dies before Interpret leaves the preview made from the
  version before. Purging that version finds it not served and concludes that
  "its derivatives describe content this purge does not touch"
  (`resource-version-service.ts:1791`); the preview stays, and is handed out
  (`routes/resources.ts:226`). A variable that records which key `Point` read
  shows it with one run, one cancel and one purge.
* *A key on the ledger that comes into use* (`StorageObjects`, `VersionsStored` with
  `Others = {"upload", "cancel", …}`). A run that takes an uploaded object as its
  content, and is cancelled before it publishes, parks that object, having moved
  nothing, though the pointer names it. An hour later the sweep lists the key;
  the next run publishes the same object (which takes it off the ledger) and has
  asked the gate for its version; an upload moves the pointer to another object;
  the sweep asks who names the key, and nobody does; the run files its version on
  it, and the sweep deletes the version's file. The sweep's comment has it that no
  writer can produce a key already on the ledger (`sweep-orphans.ts:64`). For the
  same reason such a key, once replaced, need not have the hour its readers are
  promised (`PARKED_UNTIL`).
* *A record dropped for a key that just lost its name* (`StorageObjects`,
  `NothingStranded` with `Others = {"cancel"}` or `{"revert"}`, one run, 5 keys,
  `Faults = {"rundies"}`; or with `Faults = {"stall"}`). The sweep untracks what it found referenced along with
  what it deleted (`sweep-orphans.ts:83`). A run that took the live object as its
  content, having no version of it yet, loses its claim and parks that object,
  having moved nothing. An hour later the sweep lists the key and finds it named;
  the next run, or a revert, publishes another object and parks the key again, on
  the record that is there; the sweep drops the record. Only the reconciliation,
  which is run by hand, finds the object. The comment has it that
  "the record is the leftover and the object stays" (`sweep-orphans.ts:80`); by
  the time it is dropped it may be the only thing that knows of the object.
* *A purge that hangs* (`StorageObjects`, `VersionsStored` or `LiveIsNewest` with
  `Others = {"purge"}`, `Faults = {"stall"}`). The comment has the claim "held for
  the whole purge" (`resource-version-service.ts:1688`), but it is stale after 15
  minutes without progress, and past the lake nothing in the purge asks for it
  again. The content served is the newest version's, fetched again under a key no
  version owns; the purge of that version looks at it, and hangs. A run takes the
  claim and the served object as its content, and the gate finds no version of
  it, for that one is being purged: the run files it as a new version. The purge
  goes on, moves the pointer back to the version below, and deletes what was
  served (line 1797), now the new version's file.
* *A document that outlives its dataset* (`SearchDocSync`, `StaleIsMarked` without
  its last disjunct). A purge has removed the documents and let the lock go; a
  restore commits and writes them; a second deletion commits; the purge then
  deletes the rows, which are in the state it asks for (`package-service.ts:905`),
  and with them the marks. The document is found by searches until the next
  rebuild.
* *Two loops of one process share a lease* (`Lanes = {1, 2}` in `JobStore`,
  `taker[j] = l` asked for in `DisplacedCannotSettle` instead of the process). A
  loop whose lease lapsed settles the row another loop of the same process has
  taken since; ADR-058 section 7 holds loops and tasks to be the same. For the
  same reason `NoLostWork` needs `TakenSince`: counted for its own taking alone,
  a loop that completes late, after an admin's retry and a second loop's taking,
  removes a request its handler never saw.
* *A purged version's file that stays* (`LakeCatalog`, `NothingLittered` without
  `left`). A load dies after its data file and before its commit; its version is
  purged. The row has no snapshot, so the purge clears without a list of files
  (`resource-version-service.ts:1237`), which keeps the whole generation in use,
  and the file with it, though its comment has the purge not complete "while its
  rows are still in the bucket" (1210). The next load's clearing removes it.
* *A stopped load is called failed* (`LakeCatalog`, `Cancel` before `Commit`). A run
  cancelled while it loads is turned away by its commit with a `ConflictError`;
  `executeLake` lets only `RunCancelledError` through (`steps/lake.ts:56`), so the
  run queues a retry of a load nobody wants any more. It does no harm.
* *Queued with no job* (`StatusHasWork` without its first disjunct). A
  rate-limited fetch sends the step, the status and the delayed job in one
  `Promise.all` (`process-resource.ts:113`); if the queue refuses the job, the
  write of `queued` may land after the one of `error`.
* *Processing with nobody on it* (`StatusHasWork`, `Others = {"job"}`, `Faults =
  {"stall"}`). A run that made no progress for 15 minutes and was displaced by
  a job's claim ends as if cancelled (`process-resource.ts:335`), but the job's
  claim wrote no `cancelled` on the row.
* *Cancelled though no run was stopped* (`Others = {"job", "revert"}`, `Faults =
  {"jobdies"}`). A revert that takes over a dead job's claim records
  `cancelled` (`pipeline-claim.ts:544`).


## 11. What is not modelled, and why

* *In the queue*: admin listings and the scaling figures only read. The
  contents of payloads matter only as kinds and stand-ins.
* *In the runs*: a key stands for the object and its bytes, so a re-fetch that
  returns the same bytes, or one key with two interpretations (an edited
  format or key column), is left out, and with it the version gate's comparison
  of hash and format. Summarize writes to its own place under the same claim; the
  lake step is in `LakeCatalog`. Files with no content documents, drafts and deleted
  datasets take the branches of the Index step that only remove. Two pending
  uploads, of which the older is refused by its key, are one upload here. A
  failed step's two writes (step, then metadata) are one; so is the sweep's
  removal, which is made under the claim from start to end. A revert resent, a
  cleared resource and repaired derivatives end in the same rebuild request as
  `Ask("rebuild")`. The API process does not die in the model: a death between
  promotion and enqueue, or between a revert's commit and the index's removal,
  is listed as a hazard without a property.
* *In the lake*: what a load writes in the tables (keys, inserts, updates and
  deletes, columns that come and go), the readers' cache of downloaded catalogs,
  the deletion of a whole resource's tables, and the migration from the shared
  catalog, of which only the state it leaves is an initial state.
* *Files and formats* (interpretation, Parquet, OCR, encodings): pure
  conversions with no state to share.
* *Summaries, OData and queries, datasets and users, health checks, routes,
  authentication, MCP, the web interface, adapters and infrastructure*: single
  statements, reads, formatting or outside services. The parts of them that are
  concurrent (semaphore, child host, purge of a dataset) are in the plan.
