# A TLA+ development of TC-Backend

TC-Backend is the file server behind two client applications, MemoryKeeper (family photos and videos) and AstroJournal
(astrophotography). Clients upload files over HTTP; background workers store, deduplicate and analyse them; two more
queues call paid external services (Google Vision, astrometry.net); clients synchronise through a change feed. This
directory holds TLA+ models of the parts where concurrency, crashes and external failures decide correctness, TLC
configurations that check them on small instances, and TLAPS proofs for every size.

Paths below are relative to the repository root.

## 1. Inventory

### 1.1 Processes and shared state

| process | code | state it shares |
|---|---|---|
| API server (many concurrent requests) | `app/main.py`, `app/*/routers` | PostgreSQL, `incoming/` |
| upload workers | `worker/background_worker.py`, `worker/plugins` | `common_upload_jobs`, `common_files`, disk |
| Vision workers | `worker/vision_worker.py` | `common_vision_jobs`, `common_api_usage` |
| Plate Solve workers | `worker/plate_solve_worker.py` | `astro_plate_solve_jobs`, observation records, `common_api_usage` |
| folder watcher | `watcher/folder_watcher.py` | the upload API only |
| external services | astrometry.net, Google, weather | reached through `BaseClient` |

There is no in-process sharing: everything meets in the database and on disk. A step of a model is therefore a
transaction, a change on disk, a call of an external service, or a single statement where the code reads in one
statement and writes in another.

### 1.2 Components

| component | state | operations | what is hard | what makes it correct |
|---|---|---|---|---|
| Upload queue and API (`routers/upload.py`, `upload_job_repository.py`) | rows WAITING/PROCESSING/COMPLETED/FAILED, `client_file_id`, declared hash, `started_at`, `retry_count` | receive, refuse, insert, lose an insert, backfill a hash, claim, complete, fail, recover stale | idempotent replays racing each other; a recovery while the first worker still runs | one job per key; a finished job stays finished; priority order; every job ends |
| Upload pipeline and storage (`worker/plugins`, `storage_service.py`) | incoming and original files, `common_files`, links, metadata, Vision rows, advisory locks | hash check, duplicate check, move or copy, insert, lose an insert, link, EXIF, enqueue | a crash between a change on disk and a commit; same content twice; tombstones | no bytes lost, active rows have files, content stored once, completed uploads linked |
| Plate Solve (`plate_solve_worker.py`, queue service and repository) | one job per file with owner, lease, provider ids; status copied into records | submit, create, retry, delete, claim, reserve, upload, record, poll, replace, requeue, complete, fail | leases that run out, provider ids recorded after the call, unlocked reads | a solution belongs to its file, saved work is resumed, uploads within quota, records agree |
| Vision (`vision_worker.py`, `vision_job_repository.py`, retry in `auto_tag_service.py`) | Vision rows, usage units, raw labels | queue on import, claim, reserve, call, defer on quota, complete, fail, recover, retry | limit reached between check and reservation; late results without an owner check; a cleanup that deletes the file under a claim | quota never exceeded; a job costs what it was granted; results stay; every job ends |
| API usage (`api_usage_repository.py`) | units per provider, API and month | reserve (one conditional UPDATE), increase, can_use | the last unit; the client's own retries | used <= limit |
| Observation records (`observation_record_service.py`) | records with revision, representative flag, deletion mark | create (idempotent), update (revision checked), soft delete | `ensure_link` commits and so releases the reset lock in the middle of create | edits name the revision they saw; no live record on a deleted file |
| File cleanup (`file_cleanup_service.py`) | tombstones, assets on disk | cleanup when unreferenced | files are deleted before the commit | media that others use are kept; a loss can be retried |
| Resets (`*/services/reset_service.py`, `reset_guard.py`) | shared/exclusive advisory lock | preview, execute | running workers, uploads in flight, failure half way | nothing of the other service is touched |
| Change feed (`change_event_repository.py`) | append-only ids | append in the writer's transaction, list after cursor | ids are taken before commits | paging itself loses nothing |
| Master data (sites, equipment, framing, favorites) | revisioned rows, tombstones | create, update, delete | lost updates, replays, cascades | every change is one announced revision |
| Places (`place_service.py`, matcher, batches) | places, relation and category of each photo | assign, batch, categorise, answer pending, patch position, merge, delete, match, reclassify | automatic writers read without a lock | references are live; the user's decision stands |
| Capture dates (`capture_date_service.py`, source-year and backfill scripts) | a projection of five inputs per photo | override, EXIF, duplicate upload, audit, plan, reconcile, backfill | every writer must store the projection; programs with files between them | the projection fits its inputs; a year is applied once |
| Tags (`tag_service.py`, `tag_catalog_service.py`, curation) | tags, relations, labels, overrides, suppressions | create, rename, delete, merge, assign, remove, hide, adopt | revisions written from unlocked reads; a rename in two commits | no photo on a deleted tag; renaming keeps the photos; revisions grow |
| Metadata (`metadata_repository.py`, `metadata_priority.py`, backfills) | one row per photo, history per field | upsert by priority, patch, delete, restore, fill blanks | stages under way, interrupted restores | the user's value stands |
| Media derivatives (`media_derivatives.py`, three scripts) | previews, thumbnails, their paths | make, make again, name, unlink | file and row are never changed together | what a row names exists; what was deleted is gone |
| Galleries, travel, cursors | none (queries) | page, count, group, remember | photos move between pages; several queries must agree | no photo twice or skipped; counts open on their photos |
| Watcher | queue of paths, hash cache | enqueue, wait until stable, upload | a file still being written | not modelled |
| Monitoring, security, configuration, routers, schemas, migrations | little | – | – | not modelled, see section 7 |

`PROJECT.json` lists the same components with their sources and status, and under `hazards` every place where the code
can go wrong in a way a test would hardly reach, with the property that watches it.

### 1.3 How components interact

* The upload API writes a row and a file; an upload worker claims the row and runs the plugins, which write files,
  links, metadata and a Vision row.
* Creating an observation record links the file and enqueues a Plate Solve job in the same transaction; deleting the
  last record of a file fails the waiting job, and a second transaction may delete the file.
* Every write that clients see appends a change event in its own transaction.
* Plate Solve and Vision share the usage table and `BaseClient` (timeouts, repeated requests).
* Uploading and deleting a photo touch its place, date, tags, metadata and files at once; everything else changes one
  of them, and galleries read them all.
* Both resets exclude uploads and record creation by an advisory lock and delete rows of the queues.

## 2. Plan

| order | module | content | state |
|---|---|---|---|
| 1 | `UploadJobs`, `UploadJobsProofs` | the queue; abstract specification for the pipeline | done, proved |
| 2 | `UploadPipeline`, `UploadPipelineProofs` | files, disk, dedup; refines `UploadJobs` | done, safety and refinement proved |
| 3 | `PlateSolve`, `PlateSolveProofs` | queue with leases, provider, records' status | done, all safety properties proved |
| 4 | `VisionQueue`, `VisionQueueProofs` | queue, quota, months, recovery, retry, reset and cleanup | done, all safety properties proved |
| 5 | `AstroStore`, `MasterData`, `AstroJournal`; `Revisioned`; `AstroJournalProofs` | rows, transactions, change feed; master data; records, cleanup, reset; the abstract specification | done, safety and refinement proved |
| 6 | `Photos`, `Places`, `CaptureDates`, `Tags`, `Metadata`, composed by `Library`; `LibraryProofs`, `PlacesProofs` | the MemoryKeeper library | done, all properties of these modules proved |
| 7 | `Derivatives`, `Gallery`, `Projections` over `Library`; `ReadersProofs` | files of photos, pages, aggregates | done, proved but for sums, visits and memories |
| 8 | `Watcher` composed with `UploadJobs` | event queue, hash cache, retries | later |

The abstract specifications are `UploadJobs` (for `UploadPipeline`) and `Revisioned` (for the master data).

## 3. The modules

### 3.1 `UploadJobs`

`jobs` is the table (id order is creation order), `req` the requests, `worker` the workers. A row keeps status,
service, source, `client_file_id`, declared hash, the age class of `started_at` (unset, fresh, stale) and
`retry_count`; file names, sizes and timestamps are dropped.

| action | code |
|---|---|
| `Receive`, `Refuse` | `upload_file` up to the idempotency answer (200, 409), and its refusals |
| `CreateWaitingJob`, `LoseInsert` | the insert and the `IntegrityError` branch that answers with the winner's job |
| `BackfillHash` | `set_client_content_sha256_if_missing`: a write after an unlocked read |
| `Claim` | `claim_next_waiting_job`: `FOR UPDATE SKIP LOCKED`, AstroJournal first, then age |
| `Start`, `MarkCompleted`, `ReadForFailure`, `MarkFailed` | `process_next_job`; failing re-reads the row, then writes |
| `RecoverStale` | `recover_stale_processing_jobs`: only `started_at` counts, no owner is known |
| `ExpireSlow`, `ExpireDead`, `Crash` | time and processes |

`ExpireSlow` makes a job stale that a worker still runs, and is bounded by `MaxSlow`; `ExpireDead` makes one stale that
nobody runs, and is not bounded.

### 3.2 `UploadPipeline`

Extends `UploadJobs`. Content is identified with its SHA-256. `ctx[w].stage` says where in the plugin chain a running
worker is: read, lock, duplicate, drop, move, copy, insert, link, exif, queue, enqueue, finish. `disk` has every
content at every place as absent, partial or whole; `files`, `links`, `meta` and `vision` are the tables. A `Setting`
is a deployment: with or without advisory locks (PostgreSQL has them, SQLite has not), and with incoming and originals
on one filesystem or on two (a move is then a copy followed by an unlink, and `FinishCopy` is a step of its own).
Initially each content is unknown, an active file of MemoryKeeper, a file a MemoryKeeper reset left without a link, or
the tombstone of an AstroJournal cleanup. `ImplementsQueue` states that the pipeline refines the queue: `Queue` is
an instance of `UploadJobs` on the pipeline's jobs, requests and workers, and every stage is one of its steps or leaves
them alone. `DeclaredHashVerified` is about rows without a `client_file_id`: in one that has it, a replay may fill in
the missing hash (`BackfillHash`) after the running worker has read the row, and nobody compares that hash.

### 3.3 `PlateSolve`

`job` has the row of each file; `worker` the local variables of `process_next_plate_solve_job`; `req` the API requests
and the observation record each may have created; `present` the files still there; `subs` what the provider knows of
each upload; `used` this month's units.

| action | code |
|---|---|
| `Submit`, `CreateBoth`, `CreateRead`, `CreateCommit` | enqueue; create inserts both rows or copies the status of a job it read unlocked |
| `RetryRead`, `RetryWrite` | `retry`: FAILED is read without a lock, WAITING written whatever the row has become |
| `Delete`, `DeleteCommit`, `Cleanup` | `soft_delete`, `fail_waiting_for_file`, and the cleanup transaction |
| `Claim`, `SyncClaim` | `claim_next`: the claim and the records' status are two transactions |
| `LoadWork`, `Reserve` | `_load_work`, API key, `reserve_usage` |
| `Upload`, `UploadError`, `UploadRefused`, `UploadMissing` | `AstrometryClient.submit` through `BaseClient._request`, which repeats a request up to `RetryCount` times |
| `RecordSubmission`, `RecordProviderJob`, `TouchLease` | owner-checked writes, each its own transaction |
| `Ask`, `AskMissing`, `AskError` | a round of `_poll_provider`; 404 on saved work means one replacement |
| `RequeueTransient`, `Fail`, `Complete` | the last transaction; who lost the lease changes nothing |
| `Open`, `Solve`, `Purge` | the provider (external) |
| `Crash`, `ExpireSlow`, `ExpireDead` | processes and leases |

A repeated upload carries no image: the client passes an open file handle and `requests` finds it at its end
(`whole` is false then). Coordinates, WCS contents and event rows are left out; that records take the job's status is
kept. `raced` is a history variable: the files for which one of the three unlocked windows
(`CreateCommit`, `DeleteCommit`, `SyncClaim`) wrote a status the job no longer had.

### 3.4 `VisionQueue`

`rows` is `common_vision_jobs` by id (`ABSENT` before the insert), `stale` the ids whose claim is older than
`STALE_SECONDS`; `files` has of each file whether its row is live, its assets are on disk, which services link it,
whether raw labels exist, and whether a cleanup holds its row lock; `imports` are upload runs, `worker` the Vision
workers; `used` and `calls` are this month's units and what Google counted. `cost`, `taken` and `retried` are history
variables: units reserved for a row, times it was recovered, times it was retried.

| action | code |
|---|---|
| `Register`, `Skip`, `CheckQueue`, `CheckLabels`, `Create` | the pipeline as far as Vision sees it: store or link, then `_enqueue_vision_job` or `_reuse_or_enqueue_vision`; check and insert are two transactions |
| `Pick`, `MarkProcessing` | `get_next_waiting_job` and `can_use`, then the conditional UPDATE |
| `RejectImage`, `Reserve`, `Call`, `Save` | `process_vision_job`: image check, `reserve_usage`, `label_detection` (external), labels |
| `ReadForFailure`, `MarkFailed`, `MarkCompleted`, `MarkWaiting` | the end of `process_next_vision_job`; none checks an owner, and a failure writes the `retry_count` it read plus one |
| `RecoverStale` | `recover_stale_processing_jobs` |
| `Requeue` | `retry_failed` and `retry_job`, under row locks |
| `Reset` | `MemoryKeeperResetService.execute`, as far as links and Vision rows go |
| `Unlink`, `DeleteAssets`, `CommitCleanup`, `FailCleanup` | `cleanup_for_reset` with `commit=True`: assets go before the transaction ends |
| `ExpireSlow`, `ExpireDead`, `Crash`, `NewMonth` | time and processes |

The heartbeat that `recover_stale_processing_jobs` consults is left out: a worker sends one when it claims and none
until its result, and a claim counts as old after six hours while a heartbeat counts as live for ninety seconds, so
that the two never meet. `db.refresh` followed at once by the commit is one step for `mark_waiting` and
`mark_completed`, which read nothing they write back; columns that SQLAlchemy leaves out of an UPDATE because the value
it read equals the new one are not distinguished.

### 3.5 `AstroStore`, `MasterData`, `AstroJournal`, `Revisioned`

`AstroStore` has what all AstroJournal handlers share: `row` (committed rows of equipment, sites, framing references,
favorites and records: state, revision, flag, foreign keys, catalog object), `req` (open transactions with the rows they
locked and mean to write), the sequence `seq` and the committed `log` of change events, and the `cursor` of each client.
A handler reads and locks (`Begin`), flushes, which takes row locks and draws event ids (`Append_`), and commits or is
aborted; only a commit is visible to others. `ListChanges` is one page of `GET /api/common/changes`.

| actions | code |
|---|---|
| `EquipmentCreate`, `SiteCreate`, `ReferenceCreate`, `FavoriteAdd`, `Insert` | the POST handlers: checks, then the insert, which waits for or loses against an equal key |
| edits and deletes of `MasterData` (`WriteEdit`, `EquipmentDeleteFlush`, ...) | conditional UPDATE on the revision; deleting an equipment clears it as default of its sites |
| `RecordCreate`, `EnsureLink`, `ClearRepresentative`, `RecordInsert` | `ObservationRecordService.create`: the link is committed first and ends the shared reset lock |
| `RecordUpdate`, `UpdateIfRevision`, `RecordDelete`, `RecordDeleteFlush` | `update` and `soft_delete` |
| `CleanupPreserve`, `CleanupUnlink`, `CleanupDelete`, `CleanupCommit` | `cleanup_if_unreferenced`: keep, unlink the service, delete the media, then the rows |
| `ResetBegin` ... `ResetCommit`, `Abort` | `AstroJournalResetService.execute`: exclusive lock, refusal while work runs, files, rows |
| `RestoreFile`, `StoreFile`, `UploadAccept`, `UploadClaim`, `UploadEnd`, `PlateClaim`, `PlateEnd`, `SyncObservationStatus`, `VisionToggle` | the workers, as far as they block or write these rows |

`Revisioned` is what a mirrored resource promises: created once, edited while it lives, buried once, every change one
more revision that the feed announces in the same step. `Canonical` maps the rows and the log onto it.
`late` is a history variable: records whose create had passed its checks when their file was tombstoned.

A Reset that has its locks (`ResetLock`) reads its scope again (`ResetScan`) and deletes the media of the files that are
no tombstones, one after the other; its DELETE of the records then waits for the row locks of other transactions
(`ResetCommit`). An upload that meets a tombstone of its bytes restores the row and the media in one transaction
(`RestoreFile`) and links the file in a later one (`StoreFile`); `restored` has the files between the two. Nothing
protects such a file: a repeated DELETE of its old record cleans it up again, media and all, and the upload then links a
tombstone. `LossIsRetryable` therefore counts a file that is restored and not yet linked as owned.

### 3.6 The library: `Photos`, `Places`, `CaptureDates`, `Tags`, `Metadata`, `Library`

`Photos` has the photos that are there (`live`), the number of commits (`changes`, the bound) and `WriteColumns`: a
SQLAlchemy session writes the columns whose value differs from what it has read, and no others. The other modules use it
for every session that reads without a lock and commits later.

* `Places`: places, the relation of each photo to one, its category and position. Handlers that lock everything first
  are one step (`AssignPlace`, `SetCategory`, `PlaceMerge`, `PlaceDelete`); the matcher (`AutoRead`, `ResolveCandidate`,
  `Finish`), its variant that creates no place (`AutoReadKnown`), `PendingRead`, `GpsRead` and `ReclassifyRead` are
  sessions. The earth is a line; the radius is a constant.
* `CaptureDates`: `Calculate` is the priority of the five inputs, `Synchronized` the stored projection. `Override`,
  `ExifRead`, `SyncRead` (duplicate upload), `AuditAndPlan`, `ReconVerify`, `ReconBatch`, `BackfillScan`,
  `BackfillApply` are its writers. Ten dates make a year.
* `Tags`: tags, relations (legacy rows with a bare name included), Vision labels curated by `RuleOf`, overrides and
  suppressions. Deleting and merging tags are sessions that lock the tags, read the relations and revisions of their
  photos without a lock and write later: `TagDeleteRead`/`TagDeleteCommit`, `TagMergeRead`/`TagMergeCommit`, and for the
  catalog `CatalogDeleteRead` (ended by `TagDeleteCommit`) and `CatalogMergeRead`/`CatalogMergeCommit`, with the keys to
  link and the suppressions to add among what is read. `CatalogRename`, `CatalogAdopt` and `CatalogMergeCommit` commit
  the tag, `CatalogLink` the override once more. Three simplifications: what the catalog reads of its entries before the
  tags are locked is one step with the lock, a catalog rename is one step up to its first commit, and what the catalog
  does to labels and bare names in one commit (`PromoteLegacy`, `CatalogSuppress`, `CatalogDeleteName`) is one step.
  `HideTag`, `HideLabel` and `HideName` hide the three kinds of entries on a photo,
  `RestoreTag`, `RestoreLabel` and `RestoreName` bring them back.
* `Metadata`: row and latest history of each field. `StageRead`, `StageCommit` are the plugins' upserts by priority,
  `PatchFields` the user's edit, which locks the row; `MetaOfDeleted` keeps the history, `Replayed` restores from it;
  `Fill*` are the backfill scripts.
* `Library` composes them with `UploadPhoto` and `DeletePhoto`. `DeletePhoto` is the delete of a photo that no other
  service links. With another link the cleanup answers PRESERVED_OTHER_SERVICE, which also commits: MemoryKeeper's link,
  tags and state go, row, metadata and files stay. That result is not modelled here (in `AstroJournal` it is
  `CleanupPreserve`).

Each has history variables for the windows the code leaves open (`raced`, `torn`, `stray`, `unsure`): they are set only
when a session commits over a change it has not seen, or is cut short, and the invariants except exactly those photos.
`RevisionGrows` excepts the very step (`Overtakes`), and no later one. `RenameKeepsPhotos` excepts the photos whose user
decided about the two tags apart from the rename or merge (`DecidedApart`): the source was assigned while a session held
it, the target was taken off after the merge had read that it is on, or the tag to rename is off and only a label shows
it. All other photos must be kept whatever happened since the relations were read.

### 3.7 What reads the library: `Derivatives`, `Gallery`, `Projections`

`Derivatives` has the files of a photo and the paths its row names; `PreviewPlugin`, `Register`, `RemovePhoto`,
`RemoveFails` and the scripts (`Regenerate`, `BackfillMedia`, `Outdated`, then `Make`, `CheckActive`, `NamePaths` or
`StagePreview`, `ReplacePreview`) are its writers. The scripts and `PreviewPlugin` change either a file or a row in a
step. The move and the insert of an upload are one step (`Register`; `UploadPipeline` has them apart), and so are the
unlinks and the commit of a deletion (`RemovePhoto`); a deletion that fails between them is `RemoveFails`. A script that
ends exactly between the unlinks of a deletion and its commit is therefore not told from one that ends before or after
them. `GetMedia` is what the API serves.
`AssetsSpec` is the library with its files. `AssetsMatchRows` excepts photos whose deletion failed half-way (`damaged`),
those deleted under a script and those an upload or script was cut short on (`astray`).

`Gallery` has one client that pages (`FirstPage`, `NextPage`): `Matches` is the filter, `SortKey` and `Beyond` the
keyset pagination with its year-only and undated photos, `Decoded` the versions of the cursor. Between pages the library
changes (`Meanwhile`), and `Moved` are the photos that a change touched. A page is the photos that fewer than `Limit`
others come before. `PagesExact` has one exception, which its proof brought to light: a cursor of version 1 keeps only
the date, and its year is taken from it; a stale session can leave a photo whose stored year is not its date's (`torn`),
and a client that holds such a cursor (`strayed`) goes on from the wrong year. Cursors of version 2 carry the year.

`Projections` has the queries that aggregate: the year and place hierarchy, the summary, travel places and the memories
of a day, as operators (not the cleanup groups, see section 7). `OpensAsCounted` relates each count and each leaf to the photos that the request
behind it finds; `TotalsAdd` adds them up, and `MemoriesDistinct` is about the memories (the run checks these two
together, as `ReadersAgree`).

## 4. The runs

| run | instance | shows |
|---|---|---|
| `upload_queue` | 3 requests, 2 workers, 3 jobs, 1 key, 1 crash, 1 slow run | `TypeOK`, `DoubleRunIsCounted`, `ReplayAgreement`, `TerminalIsFinal` |
| `store` | 2 uploads, 2 workers; one content with a crash or a slow run under advisory locks; two contents, right and wrong hashes, copies between filesystems and databases without locks, without crashes | `RegisteredOnDisk`, `ContentKept`, `CompletedIsLinked`, `DeclaredHashVerified`, `OneOriginal`, refinement `ImplementsQueue` |
| `store_liveness` | 2 MemoryKeeper uploads, 2 workers, 1 crash or 1 slow run (`OneFault`); 396 thousand states | `EveryJobEnds` |
| `plate_solve` | 1 file, 2 workers, 3 requests, 2 faults, quota 2, 2 tries per upload | `PlateTypeOK`, `UploadsReserved`, `SolutionIsOwn`, `ResumesSavedWork`, `RecordsFollowJob` |
| `plate_liveness` | 1 file, 2 workers, 2 requests, 1 fault | `EveryJobSettles` |
| `vision_queue` | 1 file, 2 workers, 2 imports, 1 row, 1 unit in each of 2 months, 1 fault, `MAX_RETRY_COUNT` 2 | `QuotaHolds`, `PaidOnce`, `CompletedIsKept`, `VisionJobEnds` |
| `astro_journal` | 1 equipment, site, reference, favorite and file, 2 records, 2 transactions, 1 feed client, 3 flushes, 1 reset | `FeedMissesOnlyInFlight`, `EditsKnownState`, `HomeIntact`, `LossIsRetryable`, `SharedMediaKept`, `DeleteFreesSites`, refinement `MasterImplementsRevisioned` |
| `library` | up to 3 photos, 2 places, 2 tags, 2 workers, 2 scripts, up to 5 commits; 557 thousand states | `ReferencesLive`, `UserDecisionStands`, `ProjectionCoherent`, `SourceYearOnce`, `DeletedTagsUnused`, `UserValueStands`, `AssetsMatchRows`, `PagesExact`, `OpensAsCounted`, `ReadersAgree`, `RenameKeepsPhotos`, `RevisionGrows` |

Four runs end in a counterexample that is a finding:

| run | property | what the code does |
|---|---|---|
| `store_copy_crash` | `ContentKept` | a crash inside the copy between filesystems leaves a partial original; the rerun takes it for the stored file and unlinks the only whole copy |
| `store_unprocessed` | `CompletedIsProcessed` | a run that fails after the file row was committed makes the next upload of the same bytes a "duplicate", completed although EXIF never ran |
| `record_delete` | `DeleteIncrementsRevision` | DELETE of a record writes the revision it read without a lock plus one; next to a PATCH the tombstone repeats a revision |
| `place_user_decision` | `UserDecisionIsFinal` | the matcher checks for a user's decision without a lock, and its later commit replaces one made in between |

### Bounds

Two workers and one crash or lost lease are what it takes to have an old owner and a new one; three requests make a
creation, a retry and a deletion (or two retries) meet on one job; one content uploaded twice is the deduplication
race; two contents are needed only for wrong hashes. Queue positions, retries and provider ids are bounded by
`MaxJobs`, the number of faults, and `MaxSubs >= Limit * RetryCount`, which the quota guarantees is never exceeded, so
that `MaxSubs` cuts off nothing. (Two requests and one fault are too few for `plate_solve`: an upload repeated beyond
its tries, a second reservation beyond the quota and a late writer under a new owner all need more.) `MaxCrashes`, `MaxSlow` and `MaxFaults` bound only the environment. `plate_solve` has
one file because files meet only in the claim order and in the quota; the second is exercised by retries and
replacements of the one file. `vision_queue` has one unit a month, so that the second worker always meets the limit, and
two months, so that a deferred job runs again and a call can cross the boundary; its safety properties are proved for
any number of rows. One fault is enough for an old owner and a new one, a death after the claim, or a cleanup that
deletes the files and rolls back. `MaxRetry` is 2 in place of 3, which leaves one retry.

`store` uses a constraint (`StoreScope`) that gives crashes to the PostgreSQL deployment with one content, and second
contents to the others; one crash or one slow run in a behaviour. `astro_journal` uses one (`Focus`) by which a behaviour
stays with the master data and the feed, or with records, cleanup and reset, which meet only in the feed. Three flushes
are an edit, one that overtakes it and one that follows; two records of one object are what a representative needs. A
behaviour with a committed Reset and an upload that restores or links the file has one write of a record, and so has one
with Vision jobs (`FewJobs`); the theorems of section 5 hold without any of these bounds.
In `library`, `part` chooses which of places, dates, tags, metadata, files or paging a behaviour is about: their
writers touch disjoint columns, uploads and deletions go with each, and the revision, which tags and dates share, is
in both. `Commits` bounds the commits of a part by 2 to 5: a race needs a read, a change in between and a commit, a
restoration an upload, an edit, a deletion, a second upload and a stage. Paging has three photos, pages of one, and
two changes between pages; sort keys with equal dates, year-only dates and no date occur among them; the totals and
memories (`ReadersAgree`) are evaluated between pagings, where every state of the library occurs. A behaviour about
dates has a second photo that stays, for the source years. A behaviour about tags is about one photo, which starts
with tags or with bare names, up to renaming (`FirstTags`). Labels of the hierarchy are missing in a photo, in a
place, in both or in neither, so that a place completes one photo and not another.

Deadlock checking is off: requests are made once, so every instance ends in a state where all is done and nothing
is left to do.

Symmetry is used for workers, requests and (where the properties treat them alike) hashes, in safety runs only.

The type invariants of `UploadPipeline`, `VisionQueue`, `AstroJournal`, `Library` and `Derivatives` (`StoreTypeOK`,
`VisionTypeOK`, `TypeOK`, `LibraryTypeOK`, `AssetsTypeOK`) hold in the same instances and are left out of the
configurations; the first two and the last are proved (section 5).

### Fairness

The liveness runs assume weak fairness of each worker's step (the loop of `run_worker` never stops and a crashed
worker is restarted by its service manager), of time for a job nobody runs (`ExpireDead`), in the pipeline only of a
worker's own progress (`Progress`), in `PlateSolve` also of the commit of a delete that has begun, and of a provider
that ends the work it has, and in `VisionQueue` of a cleanup's end and of months passing. No fairness is assumed of
clients, crashes, slow runs, provider errors or purges. A lock waiter in the pipeline needs no strong fairness: the
holder's transaction ends, and with two workers nobody overtakes for ever. An exception that ends a run (`Abort`) is
possible at every stage and no part of `Progress`, so that a worker which waits for a lock that is never given back
waits for ever: `EveryJobEnds` fails when a stage ends without its locks (`BugLinkKeepsLock`). One crash or one run
that outlives the stale threshold is allowed in a behaviour, not both (`OneFault`). Without the provider's fairness
`EveryJobSettles` fails as the code intends: an unanswered job is requeued as transient for ever. `VisionJobEnds` has
an escape for the instance's last month: when its units are spent no month follows in which a job could run, which is
the bound's doing and not the code's.

## 5. The proofs

Each theorem holds for every number of jobs, files, workers, requests and faults.

`UploadJobsProofs`, from `UploadJobsAssumption`:

* `TypeCorrect`: `TypeOK`, strengthened by `BusyHasJob` (a worker that is not idle holds a job id), without which the
  updates `jobs[worker[w].job]` could not be typed.
* `TerminalIsFinalHolds`: the action property, case by case from the types: `MarkCompleted` and `MarkFailed` write only
  to PROCESSING rows, and claims and recoveries start from WAITING and PROCESSING.
* `ExclusiveRuns`: `DoubleRunIsCounted`, which is not inductive alone. Two workers can share a job only when one claims
  what another runs, and a claim takes a WAITING row; `RunIsClaimed` says such a row has been recovered and counted. The
  two are proved together; late failures may write a smaller `retry_count`, but never zero.
* `ReplayAgreementHolds`: from `UniqueKey` (the unique index on service and `client_file_id`) and `AnswerIsRow` (an
  answered request names an existing row with its own service and key).

`PlateSolveProofs`, from `PlateSolveAssumption`:

* `PlateTypeCorrect`: `PlateTypeOK`, strengthened by `BusyHasFile` (a busy worker has a file) and
  `UnfinishedHasNoRecord` (a request that is not done has made no record, and names a file and, when it deletes, a
  record that was made). Finiteness of `File` is needed for the creation order of new rows.
* `RecordsFollowJobHolds`: `RecordsFollowJob` is inductive over the types. `FollowFrame` covers the steps that write no
  status, `FollowWrite` the transactions that write a job and its active records together; the three racing steps
  either agree or put the file into `raced`.
* `SolutionIsOwnHolds` and `ResumesSavedWorkHolds`: from `OwnWork`. The ids in a row or a worker name submissions of
  that file (`IdsOf`), a row that is COMPLETED names a solved one, and while a worker owns its row the two agree; an
  owner about to upload has a row whose submission is gone (`Agrees`). What the provider knows only grows (`Grown`).
* `UploadsReservedHolds`: `nsubs <= RetryCount * used` is not inductive, since a reservation pays for attempts that are
  still to be made. `Covered` adds them: `Pending` is the set of worker and attempt pairs that may yet reach the
  provider, finite, and every reservation adds `RetryCount` of them and every upload takes at least one away.

`VisionQueueProofs`, from `VisionQueueAssumption`; all safety properties of `vision_queue` are proved:

* `VisionTypeCorrect`: `VisionTypeOK` with `BusyHasJob`.
* `QuotaHoldsAlways`: `used <= Limit` is inductive, the bound on calls is not. `Quota` counts the calls under way
  (`Calling`) with those made: a reservation adds one to both sides, a call moves one over, and a new month resets the
  units while at most one call per worker is under way.
* `CompletedIsKeptHolds`: from `SoleRun` (until a job is recovered at most one worker runs it, and its row says
  PROCESSING). Whoever writes a result therefore writes to a PROCESSING row, not to a completed one.
* `PaidOnceHolds`: `PaidFor` gives every row a budget of one unit when it is made, retried or recovered; a WAITING row
  and a claim (`Holding`) each hold one unspent unit and a reservation spends it. `RetriedRows` bounds the retries by
  the counted failures, which needs `SeenIsCurrent` (the count a failing worker read is still the row's), which in turn
  needs `SoleRun`. After a recovery it fails: a late failure may set the count back, and the theorem says so.

`UploadPipelineProofs`, from `UploadJobsAssumption` and `UploadPipelineAssumption` (among others, no worker is called
`None`, the value of a free lock):

* `ImplementsQueueHolds`: every stage leaves of rows, requests and workers a step of `UploadJobs` or a stutter
  (`QueueStep`), so that the four theorems of the queue hold in the pipeline and are used in what follows.
* `StoreTypeCorrect`: `StoreTypeOK`.
* `CompletedIsLinkedHolds`: `StageIsActive` and `StageIsLinked` say from which stages on the content is registered and
  linked, and `StoringKnows` that all runs which store one content agree whether it is a tombstone they restore;
  without the last, one run could take the row of another back.
* `DeclaredHashVerifiedHolds`: `HashCompared` (a run past the hash check has compared the hash of its row).
* `RegisteredOnDiskHolds` and `ContentKeptHolds` are proved under `SafeMove`: incoming and originals on one
  filesystem, or advisory locks and no crash. Outside it `store_copy_crash` refutes `ContentKept`. `SectionLocked`
  makes the section from the duplicate check to the commit exclusive under locks, and `DiskFollowsStages` ties every
  partial original to the copy under way, whose source is still there.
* `OneOriginalHolds`: under locks and without crashes and slow runs (`Orderly`, the premise of the property) a job is
  PROCESSING exactly while one worker runs it (`RunsAlone`), and an original nobody registered was left by a run that
  failed or is about to register it (`OriginalsExplained`).

`AstroJournalProofs`, from `StoreAssumption` and `TablesAssumption`:

* `StoreInOrder`: `StoreOK` says of every open transaction that its writes are one revision on from committed rows that
  it alone has locked (`WriteOK`, `LocksApart`), that its events announce its writes (`EventsOK`), and that what a
  create, an edit or a delete has validated still holds (`CreateOK`, `EditOK`); `GuardOK` that a Reset excludes
  whoever holds the shared lock. Every step is one of five kinds (`StepKind`: a transaction works, it commits, a Reset
  commits, a client reads a page, none of these), and the theorems below are proved of the kinds.
* `DeletionFreesSites`: an open transaction that buries an equipment writes or has locked every live site that names it
  (`FreesSites`); a site that is to name it shares the equipment's row until it commits.
* `MasterIsRevisioned`: a commit of master data is one step of `Revisioned` for each row written, all at once; every
  other step is a stutter.
* `EditsAreKnown`: `EditsOK`: no event of a live row lies beyond the row's revision, so a commit announces a new one.
* `FeedIsComplete`: `FeedOK`: ids are drawn in order, and what a client has read past it has received or was open.
  A page that is full ends at the greatest id in it, which needs a finite log (`LastExists`, `SeqOfSet`).
* `RecordsHaveHomes`, `LossesAreRetryable`, `MediaAreShared`: from `CaptureOK`. A file is kept (`Kept`) when it is a
  tombstone, linked, or restored and about to be linked; nothing ends that but its own tombstone. So every file that a
  record names, a delete will clean up, or a Reset has still to delete is kept, and one that lost its media too. A
  create has its file at home from `ensure_link` on unless it is `late`; a Reset has locked all that it deletes except
  what late records name; a cleanup with the media gone has the file locked and no live record refers to it.

`LibraryProofs`, from the assumptions of `Photos`, `CaptureDates`, `Tags` (no tag is also a name) and `Metadata`; the
steps of the other modules leave each invariant's variables alone or add and remove whole photos:

* `ProjectionCoherentHolds`: `DatesInv`: `synchronize` stores the projection of the inputs it is given; a session of the
  EXIF stage keeps its photo from being deleted, and the upload of a duplicate changes no input.
* `SourceYearOnceHolds`: `OnceInv`: a year that was applied is in the row until the photo goes, and plans are about
  years of the photo's folders.
* `DeletedTagsUnusedHolds`: `TagsInv`: a deletion or merge under way has locked its tag and has read every photo that is
  on it; two of them never share a tag.
* `RenameKeepsPhotosHolds`: a first commit of the catalog is `CatalogRename` or `CatalogMergeCommit` (`LinkOpened`,
  `FoldOpened`). In a rename every key a photo can show the tag by (`ShownReferenced`) is linked. A merge commits what it
  has read: `MergeKeeps` needs that every photo that has the source now had it then and that the source's keys are still
  those to link. `TagsInv` gives the first, since nobody else can put the source on a photo while it is locked, except
  by an assignment recorded as `stray`; `KeysInv` and `HeldTag` the second: the keys a merge has read include those of
  the source's name, and a tag that is held keeps its name and stays alive until its session ends. `LinksInv` and
  `RowsInv` say what overrides, names, relations and labels can be.
* `RevisionGrowsHolds`: `RevInv` and `CountsOn`: every writer counts on from the row it locks, the flush of an upload
  leaves the column out of its UPDATE, and the commit of a tag deletion or merge that writes less is `Overtakes`.
* `UserValueStandsHolds`: `MetaInv`: the latest history of a field the user has set is the user's, and the row of a live
  photo shows it, unless the field is `unsure`; what a stage has read of such a field is still so (`StageKnows`), and
  with the user's history in hand `upsert_fields` leaves the field alone or brings the value back.

`PlacesProofs`, from `PlacesAssumption`:

* `ReferencesLiveHolds` and `UserDecisionStandsHolds`: `PlacesInv`: photos that a session has locked are as it has read
  them, no two sessions lock one photo, a place that is written is the one the session checks again
  at the end, and an automatic session that nobody has overtaken has read no user's decision of a photo it writes.

`ReadersProofs`, from the assumptions above, `MediaAssumption` and `GalleryAssumption` (finitely many photos, and a
place has a display name, which is NOT NULL in its table):

* `AssetsMatchRowsHolds` and `AssetsTypeCorrect`: `AssetsInv` says for each photo what is on disk while work is under
  way. Of a photo that is there the files are those its row names and those a script has made and is about to name
  (`Unnamed`); of one that is not, what there is was made for an upload that has still to register it. A script replaces
  only a preview that the row names (`ReplacesNamed`). No step writes both sides, so the property alone is not inductive.
* `PagesExactHolds`: `PagerInv`: of the photos that no change moved the client has seen exactly those of its filter that
  the cursor does not go beyond. Three facts carry a page: the cursor's condition is the order of the rows
  (`BeyondCursor`), the order is strict and total (`PrecedesOrder`), and a page of a finite set of rows is an initial
  segment that ends in its last photo (`RowsEnd`, `PageRows`). They need dates and years that are numbers, which is an
  invariant of the library (`NumbersInv`), and a cursor that keeps the sort key, which `ProjectionCoherent` gives for
  every photo that is not torn (`CursorKept`).
* `OpensAsCountedHolds`: `LeafOpens` shows that the request behind a leaf finds the photos that were grouped into it, by
  the three cases of a leaf. A registered place is the same for all its photos only because no reference dangles
  (`PlacesInv`), and it has a name.

What stays with TLC: the liveness properties (fairness and ENABLED are outside the prover's reach); `ReadersAgree`, whose
totals are sums over sets, whose visits are runs of a sorted sequence and whose memories are built by a fold, all of
which need induction over data; the four runs that end in a counterexample; the type invariants of `AstroJournal` and
`Library`, of which the proofs use the parts they need.

## 6. What the properties say about the code

* The lease protocol of Plate Solve protects results: an owner check precedes every write, so that an old owner never
  puts its submission into the new owner's row, and a completed job always names a provider job solved from this file.
  The protection does not extend to uploads, which an expired lease may repeat; the quota bounds them.
* The quota counts units, and a unit may stand for `RetryCount` requests, because `BaseClient._request` repeats below
  the reservation. `UploadsReserved` states the real bound.
* Records can disagree with their job after one of three races, and only then. All three come from reading or
  committing the job outside the transaction that writes the record.
* The upload queue has no owner column; what keeps late workers harmless is that results are written only to
  PROCESSING rows and that a recovery counts a retry.
* The Vision queue checks no owner either, and writes results whatever the row has become: a job that was recovered while
  its worker lived may be reopened or failed by the late result. What holds is the cost (one unit per grant) and that
  results of jobs nobody recovered stay. The retry limit is exact only without recoveries.
* The Vision quota is strict in the database. Google may count one call per worker more in a month, for units reserved
  at the end of the month before.
* In AstroJournal a committed edit was always made to the revision its client had seen; only DELETE is outside the
  scheme (`record_delete`). A feed client can miss an event, but only one whose transaction was open while it read past
  the id; nothing in the protocol tells it.
* A record can end on a tombstoned file when its create had passed the checks before a cleanup or a reset; the window is
  the commit inside `ensure_link`. Files deleted by a cleanup or reset that then failed stay linked, so a retry finds them.
* The upload worker's matcher, duplicate uploads, and tag deletion and merging read without locks. Their effects are
  bounded: a place decision, a projection, a revision or an assignment can be overtaken by such a session, and by nothing
  else. The next writer that locks the file puts the projection right, the others stay.
* A user's metadata value survives deletion and a second upload. It is lost when the edit lands inside a running stage
  or when a restore is interrupted, and a backfill fills fields that the user has cleared.
* Keyset pagination is exact under concurrent changes: a client misses or repeats only photos that were moved while it
  paged, because the cursor's condition and the order of the rows are one relation, undated photos included. Cursors of
  version 1 are exact as long as each photo's year is its date's.
* A merge of tags keeps the photos of its source although it reads them without a lock, because assigning a tag that
  is new to the photo waits for the tag. What is left is the photo that had the tag before and gets it back while the
  merge runs: its relation stays on the merged tag and no entry shows it (`stray`).
* Two details of the library, where its documents differ from the code or are silent: `date_groups` lists groups of
  missing dates with the basis SOURCE_YEAR (cleanup_group_repository.py:63-68) that `date_group_photos` refuses to open
  (292-293; docs/API_REFERENCE.md:878 has them open). This is seen by reading, no run is about cleanup groups. And a photo
  is unclassified when any label of its hierarchy is missing, not only when it has no place
  (docs/MEMORYKEEPER_PLACES.md:29-32).
* Two replays that fill in the missing hash of one upload job at the same time are both answered 200 with different
  hashes (`BackfillHash` writes after an unlocked read), where README.md:29 promises a 409.

## 7. What is not modelled

* Folder watcher: a separate process whose only effect is requests to the upload API; the requests of `UploadJobs` are
  free to come as it would send them. Its event queue and hash cache are the next component to model.
* MemoryKeeper reset, beyond links and Vision rows: one transaction that clears the library's tables.
* Usage counting of geocoding and places lookups, caches and HTTP clients of Google, weather and catalogs; astronomy
  calculations: request and answer, without state that others depend on.
* The cleanup groups of places and dates: each is a query over one state; the place groups open on what they list by the
  same condition, the date groups see section 6.
* The delete of a MemoryKeeper photo that another service links too (PRESERVED_OTHER_SERVICE), as far as the library
  goes.
* Probing, decoding and encoding of media, HTTP ranges: external programs and pure functions of one request.
* `repair_missing_gps_metadata`, diagnosis scripts and the cleanup of performance-test data: run by hand, alone.
* HTTP routing, schemas, authentication, configuration, monitoring rows, schema synchronisation.

In the modelled parts, names, sizes, timestamps beyond the stale/expired predicates and log rows are abstracted away.
Database transactions are taken to be atomic and to see committed data (READ COMMITTED). Where the code reads
without a lock and writes later the two are separate steps, with the exceptions named in section 3: the catalog's own
reading of its entries, its rename up to the first commit and its work on labels and bare names (3.6), and the refresh
before a Vision result (3.4).
