------------------------------ MODULE UploadJobs ------------------------------
(***************************************************************************)
(* The upload queue of TC-Backend: the table common_upload_jobs, the       *)
(* endpoint POST /api/common/upload that fills it, and the upload workers  *)
(* that claim, recover, complete and fail its rows.                        *)
(*                                                                         *)
(* A step of this module is one database transaction (or one statement     *)
(* where another transaction may run between two of them).  What a worker  *)
(* does to the file while it runs a job is left to UploadPipeline, which   *)
(* extends this module; here a run ends by completing or by raising.       *)
(*                                                                         *)
(* Time is the predicate "started_at is older than stale_seconds":         *)
(* ExpireSlow and ExpireDead make it true of a job somebody still runs or  *)
(* nobody runs.  Recovery looks at nothing else: there is no owner column. *)
(***************************************************************************)
EXTENDS Integers, FiniteSets

CONSTANTS
    MaxJobs,     \* ids 1..MaxJobs: the primary key, in order of creation
    Worker,      \* upload worker processes
    Request,     \* upload requests of the clients, each made once
    Key, NoKey,  \* values of client_file_id, and its absence
    Hash, NoHash,\* values of client_content_sha256, and its absence
    Form,        \* the upload forms that clients send
    MaxCrashes,  \* bound: crashes of workers
    MaxSlow      \* bound: runs that outlive stale_seconds

JobId == 1..MaxJobs
NoJob == 0
Service == {"AstroJournal", "MemoryKeeper"}
Source == {"UPLOAD", "UPLOAD_MOBILE"}

(* A mobile source is accepted for MemoryKeeper only                       *)
(* (_validate_upload_source, _validate_service_name).                      *)
ValidForm == {f \in [service : Service, source : Source,
                     key : Key \cup {NoKey}, hash : Hash \cup {NoHash}] :
                 f.source = "UPLOAD_MOBILE" => f.service = "MemoryKeeper"}

ASSUME UploadJobsAssumption ==
    /\ MaxJobs \in Nat
    /\ MaxCrashes \in Nat /\ MaxSlow \in Nat
    /\ NoKey \notin Key /\ NoHash \notin Hash
    /\ Form \subseteq ValidForm

Terminal == {"COMPLETED", "FAILED"}
Status == {"ABSENT", "WAITING", "PROCESSING"} \cup Terminal

(* A row.  started is started_at: unset, recent, or older than the stale   *)
(* threshold.                                                              *)
Row == [status  : Status,
        service : Service,
        source  : Source,
        key     : Key \cup {NoKey},
        hash    : Hash \cup {NoHash},
        started : {"unset", "fresh", "stale"},
        retry   : Nat]

NoRow == [status |-> "ABSENT", service |-> "MemoryKeeper", source |-> "UPLOAD",
          key |-> NoKey, hash |-> NoHash, started |-> "unset", retry |-> 0]

VARIABLES
    jobs,     \* the table, a function of the id
    req,      \* the requests: where each is and what it was answered
    worker,   \* the workers: the job each runs, and where it is
    crashes,  \* crashes so far
    slow      \* expiries of jobs that somebody was running, so far

vars == <<jobs, req, worker, crashes, slow>>

ReqPhase == {"new", "saving", "backfill", "answered", "refused"}

ReqState == [pc      : ReqPhase,
             service : Service,
             source  : Source,
             key     : Key \cup {NoKey},
             hash    : Hash \cup {NoHash},
             job     : JobId \cup {NoJob}]

WorkerState == [pc   : {"idle", "claimed", "running", "failing", "marking"},
                job  : JobId \cup {NoJob},
                seen : Nat]

Idle == [pc |-> "idle", job |-> NoJob, seen |-> 0]

(* Type invariant.                                                         *)
TypeOK ==
    /\ jobs \in [JobId -> Row]
    /\ req \in [Request -> ReqState]
    /\ worker \in [Worker -> WorkerState]
    /\ crashes \in Nat
    /\ slow \in Nat

Init ==
    /\ jobs = [j \in JobId |-> NoRow]
    /\ req = [r \in Request |->
                 [pc |-> "new", service |-> "MemoryKeeper", source |-> "UPLOAD",
                  key |-> NoKey, hash |-> NoHash, job |-> NoJob]]
    /\ worker = [w \in Worker |-> Idle]
    /\ crashes = 0
    /\ slow = 0

-----------------------------------------------------------------------------
(* The upload endpoint.                                                    *)

Exists(j) == jobs[j].status # "ABSENT"

(* Bug variant: only jobs still waiting answer a replay.                   *)
BugSameKeyWaiting(s, k) == {j \in JobId : /\ jobs[j].status = "WAITING" /\ k # NoKey
                                          /\ jobs[j].service = s /\ jobs[j].key = k}

(* The rows the partial unique index lets a new (service, key) clash with. *)
SameKey(s, k) == {j \in JobId : /\ Exists(j) /\ k # NoKey
                                /\ jobs[j].service = s /\ jobs[j].key = k}

(* The reply to a repeated client_file_id that found row j.  A different   *)
(* source or a different hash is a conflict; a hash the row lacks is       *)
(* written by a later statement, without looking at the row again.         *)
IdempotentResponse(r, q, j) ==
    LET clash == \/ jobs[j].source # q.source
                 \/ /\ jobs[j].hash # NoHash /\ q.hash # NoHash
                    /\ jobs[j].hash # q.hash
        fills == q.hash # NoHash /\ jobs[j].hash = NoHash
    IN  req' = [req EXCEPT ![r] =
                  [q EXCEPT !.pc = IF clash THEN "refused"
                                   ELSE IF fills THEN "backfill"
                                   ELSE "answered",
                            !.job = IF clash THEN NoJob ELSE j]]

(* upload_file up to the idempotency lookup.  A mobile client that         *)
(* declares content MemoryKeeper already has is refused; which content it  *)
(* has is the business of UploadPipeline.                                  *)
Receive(r, f) ==
    LET q == [req[r] EXCEPT !.pc = "saving", !.service = f.service,
                            !.source = f.source, !.key = f.key, !.hash = f.hash]
    IN  /\ req[r].pc = "new"
        /\ \/ /\ SameKey(f.service, f.key) = {}
              /\ req' = [req EXCEPT ![r] = q]
           \/ \E j \in SameKey(f.service, f.key) : IdempotentResponse(r, q, j)
           \/ /\ SameKey(f.service, f.key) = {}
              /\ f.source = "UPLOAD_MOBILE" /\ f.hash # NoHash
              /\ req' = [req EXCEPT ![r] = [q EXCEPT !.pc = "refused"]]
        /\ UNCHANGED <<jobs, worker, crashes, slow>>

(* The early exits between the lookup and the insert: an unsupported file  *)
(* (415), no tool to probe it (503), a failed save (500).                  *)
Refuse(r) ==
    /\ req[r].pc = "saving"
    /\ req' = [req EXCEPT ![r].pc = "refused"]
    /\ UNCHANGED <<jobs, worker, crashes, slow>>

(* create_waiting_job: the row the insert adds.                            *)
NewRow(q) == [NoRow EXCEPT !.status = "WAITING", !.service = q.service,
                           !.source = q.source, !.key = q.key, !.hash = q.hash]

(* The insert succeeds.  Ids are handed out in order.                      *)
CreateWaitingJob(r, j) ==
    /\ req[r].pc = "saving"
    /\ SameKey(req[r].service, req[r].key) = {}
    /\ ~Exists(j)
    /\ \A i \in JobId : i < j => Exists(i)
    /\ jobs' = [jobs EXCEPT ![j] = NewRow(req[r])]
    /\ req' = [req EXCEPT ![r].pc = "answered", ![r].job = j]
    /\ UNCHANGED <<worker, crashes, slow>>

(* The insert loses against the unique index: the winner's row answers.    *)
LoseInsert(r) ==
    /\ req[r].pc = "saving"
    /\ \E j \in SameKey(req[r].service, req[r].key) :
          IdempotentResponse(r, req[r], j)
    /\ UNCHANGED <<jobs, worker, crashes, slow>>

(* set_client_content_sha256_if_missing: the session still holds the row   *)
(* as it was read, so the write is unconditional.                          *)
BackfillHash(r) ==
    /\ req[r].pc = "backfill"
    /\ jobs' = [jobs EXCEPT ![req[r].job].hash = req[r].hash]
    /\ req' = [req EXCEPT ![r].pc = "answered"]
    /\ UNCHANGED <<worker, crashes, slow>>

-----------------------------------------------------------------------------
(* The workers.                                                            *)

Rank(s) == IF s = "AstroJournal" THEN 0 ELSE 100

Waiting == {j \in JobId : jobs[j].status = "WAITING"}

(* _waiting_order_by: service priority, then age.                          *)
Before(i, j) ==
    \/ Rank(jobs[i].service) < Rank(jobs[j].service)
    \/ Rank(jobs[i].service) = Rank(jobs[j].service) /\ i < j

First(j) == j \in Waiting /\ \A i \in Waiting \ {j} : Before(j, i)

(* Bug variant: the claim is not written to the row.                       *)
BugClaimUnwritten(w, j) ==
    /\ worker[w].pc = "idle"
    /\ First(j)
    /\ worker' = [worker EXCEPT ![w] = [Idle EXCEPT !.pc = "claimed", !.job = j]]
    /\ UNCHANGED <<jobs, req, crashes, slow>>

(* claim_next_waiting_job: one short transaction.                          *)
Claim(w, j) ==
    /\ worker[w].pc = "idle"
    /\ First(j)
    /\ jobs' = [jobs EXCEPT ![j].status = "PROCESSING", ![j].started = "fresh"]
    /\ worker' = [worker EXCEPT ![w] = [Idle EXCEPT !.pc = "claimed", !.job = j]]
    /\ UNCHANGED <<req, crashes, slow>>

(* The processing session reads the row again and lets go of a job that is *)
(* no longer PROCESSING.                                                   *)
Start(w) ==
    /\ worker[w].pc = "claimed"
    /\ worker' = [worker EXCEPT ![w] =
                    IF jobs[worker[w].job].status = "PROCESSING"
                    THEN [@ EXCEPT !.pc = "running"] ELSE Idle]
    /\ UNCHANGED <<jobs, req, crashes, slow>>

(* mark_completed: guarded by the status, not by who claimed the row.  No  *)
(* row updated means an exception.                                         *)
MarkCompleted(w) ==
    LET j == worker[w].job
    IN  /\ worker[w].pc = "running"
        /\ IF jobs[j].status = "PROCESSING"
           THEN /\ jobs' = [jobs EXCEPT ![j].status = "COMPLETED"]
                /\ worker' = [worker EXCEPT ![w] = Idle]
           ELSE /\ worker' = [worker EXCEPT ![w].pc = "failing"]
                /\ UNCHANGED jobs
        /\ UNCHANGED <<req, crashes, slow>>

(* Processing raises.                                                      *)
Raise(w) ==
    /\ worker[w].pc = "running"
    /\ worker' = [worker EXCEPT ![w].pc = "failing"]
    /\ UNCHANGED <<jobs, req, crashes, slow>>

(* The handler rolls back and reads the row, retry_count included.         *)
ReadForFailure(w) ==
    /\ worker[w].pc = "failing"
    /\ worker' = [worker EXCEPT ![w].pc = "marking",
                                ![w].seen = jobs[worker[w].job].retry]
    /\ UNCHANGED <<jobs, req, crashes, slow>>

(* Bug variant: the status guard is dropped.                               *)
BugMarkFailedAlways(w) ==
    LET j == worker[w].job
    IN  /\ worker[w].pc = "marking"
        /\ jobs' = [jobs EXCEPT ![j].status = "FAILED", ![j].retry = worker[w].seen + 1]
        /\ worker' = [worker EXCEPT ![w] = Idle]
        /\ UNCHANGED <<req, crashes, slow>>

(* Bug variant: retry_count counts down.                                   *)
BugMarkFailedDown(w) ==
    LET j == worker[w].job
    IN  /\ worker[w].pc = "marking"
        /\ jobs' = IF jobs[j].status = "PROCESSING"
                   THEN [jobs EXCEPT ![j].status = "FAILED",
                                     ![j].retry = worker[w].seen - 1]
                   ELSE jobs
        /\ worker' = [worker EXCEPT ![w] = Idle]
        /\ UNCHANGED <<req, crashes, slow>>

(* mark_failed: conditional on the status, with the count read before.     *)
MarkFailed(w) ==
    LET j == worker[w].job
    IN  /\ worker[w].pc = "marking"
        /\ jobs' = IF jobs[j].status = "PROCESSING"
                   THEN [jobs EXCEPT ![j].status = "FAILED",
                                     ![j].retry = worker[w].seen + 1]
                   ELSE jobs
        /\ worker' = [worker EXCEPT ![w] = Idle]
        /\ UNCHANGED <<req, crashes, slow>>

(* Bug variant: looks for rows that were never started.                    *)
BugStaleUnset == {j \in JobId : jobs[j].status = "PROCESSING" /\ jobs[j].started = "unset"}

Stale == {j \in JobId : jobs[j].status = "PROCESSING" /\ jobs[j].started = "stale"}

(* recover_stale_processing_jobs, run by a worker between two jobs.        *)
RecoverStale(w) ==
    /\ worker[w].pc = "idle"
    /\ Stale # {}
    /\ jobs' = [j \in JobId |->
                  IF j \in Stale
                  THEN [jobs[j] EXCEPT !.status = "WAITING", !.started = "unset",
                                       !.retry = @ + 1]
                  ELSE jobs[j]]
    /\ UNCHANGED <<req, worker, crashes, slow>>

Runs(w, j) == worker[w].pc # "idle" /\ worker[w].job = j

Expirable(j) == jobs[j].status = "PROCESSING" /\ jobs[j].started = "fresh"

(* A run takes longer than stale_seconds.                                  *)
ExpireSlow(j) ==
    /\ Expirable(j)
    /\ \E w \in Worker : Runs(w, j)
    /\ slow < MaxSlow
    /\ slow' = slow + 1
    /\ jobs' = [jobs EXCEPT ![j].started = "stale"]
    /\ UNCHANGED <<req, worker, crashes>>

(* The row of a dead run grows old.                                        *)
ExpireDead(j) ==
    /\ Expirable(j)
    /\ ~ \E w \in Worker : Runs(w, j)
    /\ jobs' = [jobs EXCEPT ![j].started = "stale"]
    /\ UNCHANGED <<req, worker, crashes, slow>>

(* A worker process dies and its container is restarted.                   *)
Crash(w) ==
    /\ worker[w].pc # "idle"
    /\ crashes < MaxCrashes
    /\ crashes' = crashes + 1
    /\ worker' = [worker EXCEPT ![w] = Idle]
    /\ UNCHANGED <<jobs, req, slow>>

-----------------------------------------------------------------------------
Api == \E r \in Request :
          \/ \E f \in Form : Receive(r, f)
          \/ Refuse(r)
          \/ \E j \in JobId : CreateWaitingJob(r, j)
          \/ LoseInsert(r)
          \/ BackfillHash(r)

Work(w) == \/ \E j \in JobId : Claim(w, j)
           \/ Start(w) \/ MarkCompleted(w) \/ Raise(w)
           \/ ReadForFailure(w) \/ MarkFailed(w) \/ RecoverStale(w)

Time == \E j \in JobId : ExpireSlow(j) \/ ExpireDead(j)

Next == \/ Api
        \/ \E w \in Worker : Work(w) \/ Crash(w)
        \/ Time

Spec == Init /\ [][Next]_vars

-----------------------------------------------------------------------------
(* Two workers run the same job at the same time only after a stale        *)
(* recovery counted it: claiming alone never hands a job out twice.        *)
DoubleRunIsCounted ==
    \A j \in JobId : \A v, w \in Worker :
        (v # w /\ Runs(v, j) /\ Runs(w, j)) => jobs[j].retry > 0

(* One client_file_id of one service names one job to every client, also   *)
(* to the one whose insert lost the race.                                  *)
ReplayAgreement ==
    \A p, q \in Request :
        /\ req[p].pc = "answered" /\ req[q].pc = "answered"
        /\ req[p].key # NoKey /\ req[p].key = req[q].key
        /\ req[p].service = req[q].service
        => req[p].job = req[q].job

(* A worker that lost its job to a recovery cannot change how the job      *)
(* ended: COMPLETED and FAILED rows keep status and retry_count.           *)
TerminalIsFinal ==
    [][\A j \in JobId : jobs[j].status \in Terminal =>
          /\ jobs'[j].status = jobs[j].status
          /\ jobs'[j].retry = jobs[j].retry]_vars

(* Whatever crashes, is slow or is recovered, every job ends.              *)
EveryJobEnds ==
    \A j \in JobId : Exists(j) ~> jobs[j].status \in Terminal

===============================================================================
