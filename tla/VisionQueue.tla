------------------------------ MODULE VisionQueue ------------------------------
(***************************************************************************)
(* The Vision queue: the table common_vision_jobs, the upload runs that    *)
(* fill it, the Vision workers that spend the monthly units of Google      *)
(* Vision on it, the retry of failed jobs, and the two operations that     *)
(* take rows and files away: the MemoryKeeper reset and the cleanup of a   *)
(* file that AstroJournal alone uses.                                      *)
(*                                                                         *)
(* A step is one transaction, one change on disk or one call of Google.    *)
(* How a file is stored is the subject of UploadPipeline and is one step   *)
(* here.  The heartbeat that is to protect a live worker from the recovery *)
(* is left out: a worker sends none between its claim and its result, so   *)
(* that a claim older than STALE_SECONDS is never the one a heartbeat of   *)
(* the last LIVE_HEARTBEAT_SECONDS names.                                  *)
(***************************************************************************)
EXTENDS Integers, FiniteSets

CONSTANTS
    File,        \* rows of common_files
    Worker,      \* Vision worker processes
    Import,      \* upload runs, each of one file
    Bonus,       \* 1 when PriorityCalculator may give a bonus, 0 when it may give none
    Limit,       \* effective_limit(VISION)
    MaxRetry,    \* MAX_RETRY_COUNT
    MaxJobs,     \* bound: rows of the queue
    MaxMonth,    \* bound: months
    MaxFaults    \* bound: crashes, runs that outlive STALE_SECONDS, failed cleanups

ASSUME VisionQueueAssumption ==
    /\ Bonus \subseteq 0..1
    /\ Limit \in Nat /\ MaxRetry \in Nat \ {0}
    /\ MaxJobs \in Nat /\ MaxMonth \in Nat \ {0} /\ MaxFaults \in Nat
    /\ IsFiniteSet(Worker)

JobId == 1..MaxJobs
Month == 1..MaxMonth
NoJob == 0
Service == {"MemoryKeeper", "AstroJournal"}

Finished == {"COMPLETED", "FAILED"}
Status == {"ABSENT", "WAITING", "PROCESSING"} \cup Finished

(* A row of common_vision_jobs.  priority is 1 when PriorityCalculator     *)
(* gives a bonus.  error tells a lost file, which is never retried, from   *)
(* any other failure.                                                      *)
Row(f, p) == [status |-> "WAITING", file |-> f, priority |-> p, deleted |-> FALSE,
              retry_count |-> 0, error |-> "none"]
Rows == [status : Status, file : File, priority : 0..1, deleted : BOOLEAN,
         retry_count : Nat, error : {"none", "missing", "other"}]

(* A row of common_files, whether its assets are on disk, its service      *)
(* links, whether it has raw AI labels, and whether a cleanup holds it.    *)
FileRow == [live : BOOLEAN, assets : BOOLEAN, links : SUBSET Service,
            labels : BOOLEAN, locked : BOOLEAN]
NoFile == [live |-> FALSE, assets |-> FALSE, links |-> {}, labels |-> FALSE,
           locked |-> FALSE]

(* seen is the retry_count that a failing worker has read.                 *)
WorkerState == [pc : {"idle", "picked", "claimed", "calling", "saving", "completing",
                      "failing", "missing", "failed", "lost", "deferring"},
                job : JobId \cup {NoJob}, seen : Nat]
Idle == [pc |-> "idle", job |-> NoJob, seen |-> 0]

ImportState == [pc : {"new", "checking", "reusing", "creating", "recreating", "done"},
                file : File]

VARIABLES
    rows,     \* common_vision_jobs, by id
    stale,    \* rows whose claim is older than STALE_SECONDS
    files,    \* the files
    imports,  \* the upload runs
    worker,   \* the workers
    month,    \* the UTC month
    used,     \* used_unit of this month's row of common_api_usage
    calls,    \* calls Google counted this month
    cost,     \* history: units reserved for each row
    taken,    \* history: times each row was recovered
    retried,  \* history: times each row was retried
    faults    \* faults so far

usage == <<month, used, calls, cost>>
history == <<taken, retried>>
vars == <<rows, stale, files, imports, worker, usage, history, faults>>

Fault == faults < MaxFaults /\ faults' = faults + 1

(* Type invariant.                                                         *)
VisionTypeOK ==
    /\ rows \in [JobId -> Rows] /\ stale \subseteq JobId
    /\ files \in [File -> FileRow]
    /\ imports \in [Import -> ImportState]
    /\ worker \in [Worker -> WorkerState]
    /\ month \in Month
    /\ used \in Nat /\ calls \in Nat
    /\ cost \in [JobId -> Nat] /\ taken \in [JobId -> Nat] /\ retried \in [JobId -> Nat]
    /\ faults \in Nat

Init ==
    /\ \E f \in File :
          rows = [j \in JobId |-> [Row(f, 0) EXCEPT !.status = "ABSENT"]]
    /\ stale = {}
    /\ files = [f \in File |-> NoFile]
    /\ imports \in [Import -> {[pc |-> "new", file |-> f] : f \in File}]
    /\ worker = [w \in Worker |-> Idle]
    /\ month = 1
    /\ used = 0 /\ calls = 0
    /\ cost = [j \in JobId |-> 0] /\ taken = [j \in JobId |-> 0]
    /\ retried = [j \in JobId |-> 0]
    /\ faults = 0

Live(j) == rows[j].status # "ABSENT" /\ ~rows[j].deleted
Processing(f) == \E j \in JobId : /\ Live(j) /\ rows[j].file = f
                                  /\ rows[j].status = "PROCESSING"

(* A new status of a row clears its last_error.                            *)
Changed(j, status) == [rows[j] EXCEPT !.status = status, !.error = "none"]
SetStatus(j, status) == rows' = [rows EXCEPT ![j] = Changed(j, status)]

-----------------------------------------------------------------------------
(* The upload runs.                                                        *)

(* The pipeline stores or restores a file, or links one that is there; a   *)
(* link that MemoryKeeper did not have yet asks for labels too.  A row     *)
(* that refers to a file waits for a cleanup that holds it.                *)
Register(i) ==
    LET f == imports[i].file
        file == files[f]
    IN  /\ imports[i].pc = "new" /\ ~file.locked
        /\ \E s \in Service :
              /\ files' = [files EXCEPT ![f] =
                    [file EXCEPT !.live = TRUE, !.assets = file.assets \/ ~file.live,
                                 !.links = file.links \cup {s}]]
              /\ imports' = [imports EXCEPT ![i].pc =
                    IF ~file.live THEN "checking"
                    ELSE IF s = "MemoryKeeper" /\ s \notin file.links THEN "reusing"
                    ELSE "done"]
        /\ UNCHANGED <<rows, stale, worker, usage, history, faults>>

(* get_blocking_status: a row that keeps a new one from being made.        *)
Blocked(f) == \E j \in JobId : /\ Live(j) /\ rows[j].file = f
                               /\ rows[j].status \in {"WAITING", "PROCESSING", "COMPLETED"}

(* A video, and a HEIC picture without a preview, are not queued.          *)
Skip(i) ==
    /\ imports[i].pc \in {"checking", "reusing"}
    /\ imports' = [imports EXCEPT ![i].pc = "done"]
    /\ UNCHANGED <<rows, stale, files, worker, usage, history, faults>>

(* _enqueue_vision_job for a file just stored ...                          *)
CheckQueue(i) ==
    /\ imports[i].pc = "checking"
    /\ imports' = [imports EXCEPT ![i].pc =
          IF Blocked(imports[i].file) THEN "done" ELSE "creating"]
    /\ UNCHANGED <<rows, stale, files, worker, usage, history, faults>>

(* ... and _reuse_or_enqueue_vision for one that was there.                *)
CheckLabels(i) ==
    /\ imports[i].pc = "reusing"
    /\ imports' = [imports EXCEPT ![i].pc =
          IF Blocked(imports[i].file) \/ files[imports[i].file].labels
          THEN "done" ELSE "recreating"]
    /\ UNCHANGED <<rows, stale, files, worker, usage, history, faults>>

(* create inserts without looking again.                                   *)
Create(i, j) ==
    /\ imports[i].pc \in {"creating", "recreating"} /\ ~files[imports[i].file].locked
    /\ rows[j].status = "ABSENT" /\ \A k \in 1..(j - 1) : rows[k].status # "ABSENT"
    /\ \E p \in IF imports[i].pc = "creating" THEN Bonus ELSE {0} :
          rows' = [rows EXCEPT ![j] = Row(imports[i].file, p)]
    /\ imports' = [imports EXCEPT ![i].pc = "done"]
    /\ UNCHANGED <<stale, files, worker, usage, history, faults>>

-----------------------------------------------------------------------------
(* The workers.                                                            *)

Waiting == {j \in JobId : Live(j) /\ rows[j].status = "WAITING"}

(* Highest priority first.  Among equals the latest request comes first,   *)
(* and a retry makes a request the latest: any of them may be next.        *)
First(j) == j \in Waiting /\ \A k \in Waiting : rows[k].priority <= rows[j].priority

Go(w, pc) == worker' = [worker EXCEPT ![w] = [pc |-> pc, job |-> worker[w].job, seen |-> 0]]
Stop(w) == worker' = [worker EXCEPT ![w] = Idle]
JobFile(w) == rows[worker[w].job].file

(* get_next_waiting_job and can_use; when the units are spent the worker   *)
(* sleeps and the row waits.                                               *)
Pick(w, j) ==
    /\ worker[w].pc = "idle" /\ First(j)
    /\ used < Limit
    /\ worker' = [worker EXCEPT ![w] = [pc |-> "picked", job |-> j, seen |-> 0]]
    /\ UNCHANGED <<rows, stale, files, imports, usage, history, faults>>

(* Bug variant: the claim trusts what was read.                            *)
BugMarkProcessingBlind(w) ==
    /\ worker[w].pc = "picked"
    /\ SetStatus(worker[w].job, "PROCESSING")
    /\ stale' = stale \ {worker[w].job} /\ Go(w, "claimed")
    /\ UNCHANGED <<files, imports, usage, history, faults>>

(* mark_processing: one conditional UPDATE.                                *)
MarkProcessing(w) ==
    LET j == worker[w].job
    IN  /\ worker[w].pc = "picked"
        /\ IF j \in Waiting
           THEN /\ SetStatus(j, "PROCESSING")
                /\ Go(w, "claimed")
           ELSE Stop(w) /\ UNCHANGED rows
        /\ UNCHANGED <<stale, files, imports, usage, history, faults>>

(* process_vision_job before the reservation: the file is gone, is no      *)
(* image Vision takes, or Google is not configured.                        *)
RejectImage(w) ==
    /\ worker[w].pc = "claimed"
    /\ \/ Go(w, "failing")
       \/ ~files[JobFile(w)].assets /\ Go(w, "missing")
    /\ UNCHANGED <<rows, stale, files, imports, usage, history, faults>>

(* Bug variant: can_use is taken for the reservation.                      *)
BugReserveUnchecked(w) ==
    /\ worker[w].pc = "claimed" /\ files[JobFile(w)].assets
    /\ Go(w, "calling")
    /\ used' = used + 1
    /\ cost' = [cost EXCEPT ![worker[w].job] = @ + 1]
    /\ UNCHANGED <<rows, stale, files, imports, month, calls, history, faults>>

(* The image is read, then reserve_usage: one conditional UPDATE of this   *)
(* month's row.                                                            *)
Reserve(w) ==
    /\ worker[w].pc = "claimed" /\ files[JobFile(w)].assets
    /\ IF used < Limit
       THEN /\ Go(w, "calling")
            /\ used' = used + 1
            /\ cost' = [cost EXCEPT ![worker[w].job] = @ + 1]
       ELSE Go(w, "deferring") /\ UNCHANGED <<used, cost>>
    /\ UNCHANGED <<rows, stale, files, imports, month, calls, history, faults>>

(* label_detection, answered or not.                                       *)
Call(w) ==
    /\ worker[w].pc = "calling"
    /\ calls' = calls + 1
    /\ Go(w, "saving") \/ Go(w, "failing")
    /\ UNCHANGED <<rows, stale, files, imports, month, used, cost, history, faults>>

(* The labels are committed one by one; there may be none, and saving one  *)
(* may fail.  New ones refer to the file and wait for a cleanup.           *)
Save(w) ==
    LET f == JobFile(w)
    IN  /\ worker[w].pc = "saving" /\ (files[f].locked => files[f].labels)
        /\ files' = files \/ files' = [files EXCEPT ![f].labels = TRUE]
        /\ Go(w, "completing") \/ Go(w, "failing")
        /\ UNCHANGED <<rows, stale, imports, usage, history, faults>>

(* A run that failed reads its row again ...                               *)
ReadForFailure(w) ==
    /\ worker[w].pc \in {"failing", "missing"}
    /\ worker' = [worker EXCEPT ![w] =
          [pc |-> IF worker[w].pc = "missing" THEN "lost" ELSE "failed",
           job |-> worker[w].job, seen |-> rows[worker[w].job].retry_count]]
    /\ UNCHANGED <<rows, stale, files, imports, usage, history, faults>>

(* ... and mark_failed, mark_completed and mark_waiting write theirs       *)
(* whatever it has become.                                                 *)
MarkFailed(w) ==
    LET j == worker[w].job
    IN  /\ worker[w].pc \in {"failed", "lost"}
        /\ rows' = [rows EXCEPT ![j] =
              [rows[j] EXCEPT !.status = "FAILED", !.retry_count = worker[w].seen + 1,
                              !.error = IF worker[w].pc = "lost" THEN "missing" ELSE "other"]]
        /\ stale' = stale \ {j}
        /\ Stop(w)
        /\ UNCHANGED <<files, imports, usage, history, faults>>

MarkCompleted(w) ==
    LET j == worker[w].job
    IN  /\ worker[w].pc = "completing"
        /\ SetStatus(j, "COMPLETED")
        /\ stale' = stale \ {j}
        /\ Stop(w)
        /\ UNCHANGED <<files, imports, usage, history, faults>>

MarkWaiting(w) ==
    LET j == worker[w].job
    IN  /\ worker[w].pc = "deferring"
        /\ SetStatus(j, "WAITING")
        /\ stale' = stale \ {j}
        /\ Stop(w)
        /\ UNCHANGED <<files, imports, usage, history, faults>>

(* Bug variant: the recovery asks for started_at alone, which a result     *)
(* keeps.                                                                  *)
BugAbandonedAny == {j \in JobId : Live(j) /\ rows[j].status \in {"PROCESSING", "COMPLETED"}}

(* Bug variant: nothing is recovered but what a recovery left behind.      *)
BugAbandonedNone == {j \in stale : Live(j) /\ rows[j].status = "PROCESSING" /\ taken[j] > 0}

Abandoned == {j \in stale : Live(j) /\ rows[j].status = "PROCESSING"}

(* recover_stale_processing_jobs, at the start of a worker and in its loop.*)
RecoverStale(w) ==
    /\ worker[w].pc = "idle" /\ Abandoned # {}
    /\ rows' = [j \in JobId |-> IF j \in Abandoned
                                THEN Changed(j, "WAITING") ELSE rows[j]]
    /\ stale' = stale \ Abandoned
    /\ taken' = [j \in JobId |-> IF j \in Abandoned THEN taken[j] + 1 ELSE taken[j]]
    /\ UNCHANGED <<files, imports, worker, usage, retried, faults>>

-----------------------------------------------------------------------------
(* What users and administrators do.                                       *)

(* retry_failed and retry_job, of one row.                                 *)
Requeue(j) ==
    /\ Live(j) /\ rows[j].status = "FAILED"
    /\ files[rows[j].file].live /\ "MemoryKeeper" \in files[rows[j].file].links
    /\ rows[j].retry_count < MaxRetry /\ rows[j].error # "missing"
    /\ SetStatus(j, "WAITING")
    /\ retried' = [retried EXCEPT ![j] = @ + 1]
    /\ UNCHANGED <<stale, files, imports, worker, usage, taken, faults>>

(* MemoryKeeperResetService.execute: with every row locked, no upload at   *)
(* work and nothing processed for its own files, what is not completed of  *)
(* them is disabled and its links are removed.                             *)
Own(f) == files[f].links = {"MemoryKeeper"}
Reset ==
    /\ \A i \in Import : imports[i].pc \in {"new", "done"}
    /\ \A f \in File : Own(f) => ~Processing(f)
    /\ \E f \in File : "MemoryKeeper" \in files[f].links
    /\ rows' = [j \in JobId |-> IF Own(rows[j].file) /\ rows[j].status \in {"WAITING", "FAILED"}
                                THEN [rows[j] EXCEPT !.deleted = TRUE] ELSE rows[j]]
    /\ files' = [f \in File |-> [files[f] EXCEPT !.links = files[f].links \ {"MemoryKeeper"}]]
    /\ UNCHANGED <<stale, imports, worker, usage, history, faults>>

(* cleanup_for_reset of a file whose last observation record went: another *)
(* service keeps it ...                                                    *)
Unlink(f) ==
    /\ ~files[f].locked /\ files[f].links = Service
    /\ files' = [files EXCEPT ![f].links = @ \ {"AstroJournal"}]
    /\ UNCHANGED <<rows, stale, imports, worker, usage, history, faults>>

(* ... or no row of it is processed, and its assets are deleted under the  *)
(* file's lock ...                                                         *)
DeleteAssets(f) ==
    /\ files[f].live /\ ~files[f].locked /\ files[f].links \subseteq {"AstroJournal"}
    /\ ~Processing(f)
    /\ files' = [files EXCEPT ![f].assets = FALSE, ![f].locked = TRUE]
    /\ UNCHANGED <<rows, stale, imports, worker, usage, history, faults>>

(* ... then its labels and rows, whatever was claimed in between; or the   *)
(* transaction fails, and only the assets are gone.                        *)
CommitCleanup(f) ==
    /\ files[f].locked
    /\ files' = [files EXCEPT ![f] = NoFile]
    /\ rows' = [j \in JobId |-> IF rows[j].file = f /\ rows[j].status # "ABSENT"
                                THEN [rows[j] EXCEPT !.deleted = TRUE] ELSE rows[j]]
    /\ UNCHANGED <<stale, imports, worker, usage, history, faults>>

FailCleanup(f) ==
    /\ files[f].locked /\ Fault
    /\ files' = [files EXCEPT ![f].locked = FALSE]
    /\ UNCHANGED <<rows, stale, imports, worker, usage, history>>

-----------------------------------------------------------------------------
(* Time and crashes.                                                       *)

Runs(w, j) == worker[w].pc \notin {"idle", "picked"} /\ worker[w].job = j

(* A claim gets old under a worker that is still at it, or after one that  *)
(* died.                                                                   *)
Expire(j) ==
    /\ rows[j].status = "PROCESSING" /\ j \notin stale
    /\ stale' = stale \cup {j}
    /\ UNCHANGED <<rows, files, imports, worker, usage, history>>
ExpireSlow(j) == Expire(j) /\ (\E w \in Worker : Runs(w, j)) /\ Fault
ExpireDead(j) == Expire(j) /\ (\A w \in Worker : ~Runs(w, j)) /\ UNCHANGED faults

Crash(w) ==
    /\ worker[w].pc # "idle" /\ Fault
    /\ Stop(w)
    /\ UNCHANGED <<rows, stale, files, imports, usage, history>>

(* A month has a row of its own, made with no units used (_get_or_create,  *)
(* reserve_usage); the rows of past months are not written again.          *)
NewMonth ==
    /\ month < MaxMonth
    /\ month' = month + 1
    /\ used' = 0 /\ calls' = 0
    /\ UNCHANGED <<rows, stale, files, imports, worker, cost, history, faults>>

-----------------------------------------------------------------------------
WorkerStep(w) ==
    \/ \E j \in JobId : Pick(w, j)
    \/ MarkProcessing(w) \/ RejectImage(w) \/ Reserve(w) \/ Call(w) \/ Save(w)
    \/ ReadForFailure(w) \/ MarkFailed(w) \/ MarkCompleted(w) \/ MarkWaiting(w)
    \/ RecoverStale(w)

Cleanup(f) == CommitCleanup(f) \/ FailCleanup(f)

Next ==
    \/ \E w \in Worker : WorkerStep(w) \/ Crash(w)
    \/ \E i \in Import : \/ Register(i) \/ Skip(i) \/ CheckQueue(i) \/ CheckLabels(i)
                         \/ \E j \in JobId : Create(i, j)
    \/ \E f \in File : Unlink(f) \/ DeleteAssets(f) \/ Cleanup(f)
    \/ \E j \in JobId : Requeue(j) \/ ExpireSlow(j) \/ ExpireDead(j)
    \/ Reset \/ NewMonth

Spec == Init /\ [][Next]_vars

(* The workers run, a cleanup ends, abandoned claims grow old, and months  *)
(* pass.                                                                   *)
FairSpec ==
    /\ Spec
    /\ \A w \in Worker : WF_vars(WorkerStep(w))
    /\ \A f \in File : WF_vars(Cleanup(f))
    /\ \A j \in JobId : WF_vars(ExpireDead(j))
    /\ WF_vars(NewMonth)

-----------------------------------------------------------------------------
(* The monthly cap: a month's units never exceed the limit, whoever        *)
(* reserves at the same time, and Google sees at most one call of each     *)
(* worker more, for a unit reserved just before the month began            *)
(* (reserve_usage, VisionClient.analyze).                                  *)
QuotaHolds == used <= Limit /\ calls <= used + Cardinality(Worker)

(* What a job costs: one unit, one for every retry, and one for every      *)
(* recovery that took it from its worker; a deferral, a crash before the   *)
(* reservation and a late result buy nothing.  Until a recovery there are  *)
(* fewer than MAX_RETRY_COUNT retries: the count is of failures.  A late   *)
(* failure may set it back (_requeue, mark_waiting, mark_processing,       *)
(* mark_failed, recover_stale_processing_jobs).                            *)
PaidOnce ==
    \A j \in JobId : /\ cost[j] <= 1 + retried[j] + taken[j]
                     /\ taken[j] = 0 => retried[j] < MaxRetry

(* A result that nobody recovered stays: no other worker, import, retry or *)
(* MemoryKeeper reset reopens or disables a COMPLETED job; only a cleanup  *)
(* of its file does (mark_*, _requeue, execute).                           *)
CompletedIsKept ==
    [][\A j \in JobId : rows[j].status = "COMPLETED" /\ taken[j] = 0 =>
          /\ rows'[j].status = "COMPLETED"
          /\ rows'[j].deleted => rows[j].deleted \/ files[rows[j].file].locked]_vars

(* Every job ends or is disabled while there are units to come: spent      *)
(* units, crashes, recoveries and cleanups lose none                       *)
(* (process_next_vision_job, recover_stale_processing_jobs).               *)
VisionJobEnds ==
    \A j \in JobId :
        Live(j) ~> \/ ~Live(j) \/ rows[j].status \in Finished
                   \/ month = MaxMonth /\ used = Limit

===============================================================================
