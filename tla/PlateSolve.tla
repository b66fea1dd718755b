------------------------------ MODULE PlateSolve ------------------------------
(***************************************************************************)
(* The Plate Solve queue of AstroJournal: the table astro_plate_solve_jobs *)
(* (one row for a file), the observation records that repeat its status,   *)
(* the requests that create, retry and delete, and the workers that take a *)
(* job under a lease, upload the image to astrometry.net, poll the         *)
(* provider and write the result.                                          *)
(*                                                                         *)
(* A step is one transaction, one call of the provider, or one statement   *)
(* where other transactions may run between two of them.  Worker w owns    *)
(* the job of file f while the row says PROCESSING and names w; the row's  *)
(* worker_id and lease mean nothing in another status and are dropped.     *)
(* The provider is external: it is modelled from what its client reads.    *)
(***************************************************************************)
EXTENDS Integers, FiniteSets

CONSTANTS
    File,        \* files linked to AstroJournal
    NoFile,
    Worker,      \* plate solve worker processes
    NoWorker,    \* worker_id NULL
    Request,     \* API requests, each made once
    Limit,       \* PLATESOLVE_MONTHLY_LIMIT
    RetryCount,  \* API_CLIENT_RETRY_COUNT
    MaxSubs,     \* bound: submissions the provider numbers
    MaxFaults    \* bound: provider errors, timeouts and purges, crashes of
                 \* workers, and leases that run out under a live worker

ASSUME PlateSolveAssumption ==
    /\ NoWorker \notin Worker /\ NoFile \notin File
    /\ IsFiniteSet(File)
    /\ Limit \in Nat /\ RetryCount \in Nat \ {0}
    /\ MaxSubs \in Nat /\ MaxSubs >= Limit * RetryCount
    /\ MaxFaults \in Nat

SubId == 1..MaxSubs
None == 0                       \* no provider id

Settled == {"COMPLETED", "FAILED"}
Status == {"WAITING", "PROCESSING"} \cup Settled

(* A row.  born orders the rows by creation.                               *)
Job == [status : Status \cup {"ABSENT"}, owner : Worker \cup {NoWorker},
        lease : {"none", "live", "expired"}, sub : SubId \cup {None},
        pjob : SubId \cup {None}, attempts : Nat, born : Nat]

NoRow == [status |-> "ABSENT", owner |-> NoWorker, lease |-> "none",
          sub |-> None, pjob |-> None, attempts |-> 0, born |-> 0]

(* What the provider knows of an upload.  The job it opens for submission  *)
(* s is also called s.  whole: the request carried the image.              *)
Submission == [file : File, whole : BOOLEAN, gone : BOOLEAN,
               phase : {"queued", "running", "solved", "failed"}]

WorkerPhase == {"idle", "claimed", "loading", "reserving", "uploading",
                "recording", "polling", "asking", "opened", "solved",
                "requeueing", "failing"}

(* The local variables of process_next_plate_solve_job.  saved: the worker *)
(* resumes the ids it read at the claim.                                   *)
WorkerState == [pc : WorkerPhase, file : File \cup {NoFile}, sub : SubId \cup {None},
                pjob : SubId \cup {None}, saved : BOOLEAN,
                tries : 0..(RetryCount - 1)]

Idle == [pc |-> "idle", file |-> NoFile, sub |-> None, pjob |-> None,
         saved |-> FALSE, tries |-> 0]

(* A request.  rec is the status of the observation record it created.     *)
RequestState == [pc : {"new", "creating", "retrying", "deleting", "done"},
                 file : File \cup {NoFile}, seen : Status,
                 rec : Status \cup {"ABSENT", "DELETED"}, target : Request]

(* A request that is over and made no record.                              *)
Answered(r) == [pc |-> "done", file |-> NoFile, seen |-> "WAITING",
                rec |-> "ABSENT", target |-> r]

VARIABLES
    job,      \* the queue
    worker,   \* the workers
    req,      \* the requests and the records they made
    present,  \* the files that are neither deleted nor missing on disk
    subs,     \* the provider's submissions, by id
    nsubs,    \* how many there are
    used,     \* used_unit of this month's row of common_api_usage
    raced,    \* history: files whose records a race may have left behind
    faults    \* faults so far

provider == <<subs, nsubs>>
vars == <<job, worker, req, present, subs, nsubs, used, raced, faults>>

Fault == faults < MaxFaults /\ faults' = faults + 1

(* Type invariant.                                                         *)
PlateTypeOK ==
    /\ job \in [File -> Job]
    /\ worker \in [Worker -> WorkerState]
    /\ req \in [Request -> RequestState]
    /\ present \subseteq File
    /\ nsubs \in 0..MaxSubs
    /\ subs \in [1..nsubs -> Submission]
    /\ used \in Nat /\ raced \subseteq File
    /\ faults \in Nat

Init ==
    /\ job = [f \in File |-> NoRow]
    /\ worker = [w \in Worker |-> Idle]
    /\ req = [r \in Request |-> [Answered(r) EXCEPT !.pc = "new"]]
    /\ present = File
    /\ subs = <<>> /\ nsubs = 0
    /\ used = 0 /\ raced = {}
    /\ faults = 0

-----------------------------------------------------------------------------
(* The records of a file.                                                  *)

Active(r) == req[r].rec \in Status
ActiveOn(f) == {r \in Request : Active(r) /\ req[r].file = f}

(* A delete has updated the record and not committed: whoever wants the    *)
(* row FOR UPDATE waits.                                                   *)
Locked(f) == \E d \in Request : req[d].pc = "deleting" /\ req[d].file = f

(* _sync_observation_status, on the requests as the transaction has them.  *)
Sync(q, f, status) ==
    [r \in Request |-> IF r \in ActiveOn(f) THEN [q[r] EXCEPT !.rec = status]
                       ELSE q[r]]

(* The row after a transaction that ends the ownership.                    *)
Released(row, status) == [row EXCEPT !.status = status, !.owner = NoWorker,
                                     !.lease = "none"]

-----------------------------------------------------------------------------
(* The API.                                                                *)

Exists(f) == job[f].status # "ABSENT"

(* PlateSolveJobRepository.enqueue: the row a new job gets.                *)
WaitingRow == [NoRow EXCEPT !.status = "WAITING",
                            !.born = Cardinality({g \in File : Exists(g)})]

(* POST /api/astro/plate-solve: a job without a record.  A job that is     *)
(* there already is the answer.                                            *)
Submit(r, f) ==
    /\ req[r].pc = "new" /\ f \in present
    /\ job' = IF Exists(f) THEN job ELSE [job EXCEPT ![f] = WaitingRow]
    /\ req' = [req EXCEPT ![r] = Answered(r)]
    /\ UNCHANGED <<worker, present, provider, used, raced, faults>>

(* ObservationRecordService.create with a new job: both rows are inserted  *)
(* by one transaction.                                                     *)
CreateBoth(r, f) ==
    /\ req[r].pc = "new" /\ f \in present /\ ~Exists(f)
    /\ job' = [job EXCEPT ![f] = WaitingRow]
    /\ req' = [req EXCEPT ![r] = [@ EXCEPT !.pc = "done", !.file = f,
                                           !.rec = "WAITING"]]
    /\ UNCHANGED <<worker, present, provider, used, raced, faults>>

(* create on a file that has a job: its status is read without a lock ...  *)
CreateRead(r, f) ==
    /\ req[r].pc = "new" /\ f \in present /\ Exists(f)
    /\ req' = [req EXCEPT ![r] = [@ EXCEPT !.pc = "creating", !.file = f,
                                           !.seen = job[f].status]]
    /\ UNCHANGED <<job, worker, present, provider, used, raced, faults>>

(* ... and committed with the record.                                      *)
CreateCommit(r) ==
    LET f == req[r].file
    IN  /\ req[r].pc = "creating"
        /\ req' = [req EXCEPT ![r] = [@ EXCEPT !.pc = "done", !.rec = req[r].seen,
                                               !.seen = "WAITING"]]
        /\ raced' = IF job[f].status = req[r].seen THEN raced ELSE raced \cup {f}
        /\ UNCHANGED <<job, worker, present, provider, used, faults>>

(* POST .../retry finds the job FAILED ...                                 *)
RetryRead(r, f) ==
    /\ req[r].pc = "new"
    /\ job[f].status = "FAILED"
    /\ req' = [req EXCEPT ![r] = [@ EXCEPT !.pc = "retrying", !.file = f]]
    /\ UNCHANGED <<job, worker, present, provider, used, raced, faults>>

(* ... and writes WAITING, whatever the row has become.  The provider's    *)
(* ids stay.                                                               *)
RetryWrite(r) ==
    LET f == req[r].file
        q == [req EXCEPT ![r] = Answered(r)]
    IN  /\ req[r].pc = "retrying" /\ ~Locked(f)
        /\ job' = [job EXCEPT ![f] = Released(@, "WAITING")]
        /\ req' = Sync(q, f, "WAITING")
        /\ UNCHANGED <<worker, present, provider, used, raced, faults>>

(* soft_delete of the record of request t.  Unless it was the last active  *)
(* one of its file and the job is WAITING, that is all it does ...         *)
Delete(r, t) ==
    LET f == req[t].file
        fails == ActiveOn(f) = {t} /\ job[f].status = "WAITING"
    IN  /\ req[r].pc = "new" /\ Active(t)
        /\ \A d \in Request : req[d].pc = "deleting" => req[d].target # t
        /\ req' = IF fails
                  THEN [req EXCEPT ![r] = [@ EXCEPT !.pc = "deleting", !.file = f,
                                                    !.target = t]]
                  ELSE [req EXCEPT ![r] = Answered(r), ![t].rec = "DELETED"]
        /\ UNCHANGED <<job, worker, present, provider, used, raced, faults>>

(* ... otherwise it fails the job it saw waiting, in the same transaction. *)
DeleteCommit(r) ==
    LET f == req[r].file
        t == req[r].target
    IN  /\ req[r].pc = "deleting"
        /\ job' = [job EXCEPT ![f] = Released(@, "FAILED")]
        /\ req' = [req EXCEPT ![r] = Answered(r), ![t].rec = "DELETED"]
        /\ raced' = IF ActiveOn(f) = {t} THEN raced ELSE raced \cup {f}
        /\ UNCHANGED <<worker, present, provider, used, faults>>

(* The transaction after a delete: the file goes when nothing needs it.    *)
(* Other services that may still hold it are left open.                    *)
Cleanup(f) ==
    /\ f \in present
    /\ \E r \in Request : req[r].file = f /\ req[r].rec = "DELETED"
    /\ ActiveOn(f) = {}
    /\ job[f].status \notin {"WAITING", "PROCESSING"}
    /\ present' = present \ {f}
    /\ UNCHANGED <<job, worker, req, provider, used, raced, faults>>

-----------------------------------------------------------------------------
(* The workers.                                                            *)

Owns(w) == LET f == worker[w].file
           IN  f # NoFile /\ job[f].status = "PROCESSING" /\ job[f].owner = w

Go(w, pc) == worker' = [worker EXCEPT ![w].pc = pc]

(* The except clause: work the provider can be asked about again is queued *)
(* again when the error is transient, everything else fails.               *)
Raise(w, transient) ==
    Go(w, IF transient /\ (worker[w].sub # None \/ worker[w].pjob # None)
          THEN "requeueing" ELSE "failing")

(* Bug variant: a lease never runs out.                                    *)
BugClaimableWaiting(f) == job[f].status = "WAITING"

Claimable(f) == \/ job[f].status = "WAITING"
                \/ job[f].status = "PROCESSING" /\ job[f].lease = "expired"

(* Bug variant: the claim forgets the ids of the provider.                 *)
BugClaimForgets(w, f) ==
    /\ worker[w].pc = "idle"
    /\ Claimable(f)
    /\ job' = [job EXCEPT ![f] =
          [@ EXCEPT !.status = "PROCESSING", !.owner = w, !.lease = "live",
                    !.attempts = @ + 1]]
    /\ worker' = [worker EXCEPT ![w] = [Idle EXCEPT !.pc = "claimed", !.file = f]]
    /\ UNCHANGED <<req, present, provider, used, raced, faults>>

(* claim_next, first transaction: the oldest job that waits or whose lease *)
(* ran out.  A claim that starts over counts as an attempt.                *)
Claim(w, f) ==
    /\ worker[w].pc = "idle"
    /\ Claimable(f)
    /\ \A g \in File : Claimable(g) => job[f].born <= job[g].born
    /\ LET fresh == job[f].sub = None /\ job[f].pjob = None
       IN  /\ job' = [job EXCEPT ![f] =
                 [job[f] EXCEPT !.status = "PROCESSING", !.owner = w, !.lease = "live",
                                !.attempts = job[f].attempts + (IF fresh THEN 1 ELSE 0)]]
           /\ worker' = [worker EXCEPT ![w] =
                 [pc |-> "claimed", file |-> f, sub |-> job[f].sub,
                  pjob |-> job[f].pjob, saved |-> ~fresh, tries |-> 0]]
    /\ UNCHANGED <<req, present, provider, used, raced, faults>>

(* claim_next, second transaction: the records become PROCESSING, whatever *)
(* the job is by now.                                                      *)
SyncClaim(w) ==
    LET f == worker[w].file
    IN  /\ worker[w].pc = "claimed" /\ ~Locked(f)
        /\ req' = Sync(req, f, "PROCESSING")
        /\ raced' = IF job[f].status = "PROCESSING" \/ ActiveOn(f) = {}
                    THEN raced ELSE raced \cup {f}
        /\ Go(w, "loading")
        /\ UNCHANGED <<job, present, provider, used, faults>>

(* _load_work and the API key, which may be missing too.                   *)
LoadWork(w) ==
    /\ worker[w].pc = "loading"
    /\ \/ /\ worker[w].file \in present
          /\ Go(w, IF worker[w].saved THEN "polling" ELSE "reserving")
       \/ Raise(w, FALSE)
    /\ UNCHANGED <<job, req, present, provider, used, raced, faults>>

(* Bug variant: the limit is compared with the units before the call.      *)
BugReserveLate(w) ==
    /\ worker[w].pc = "reserving"
    /\ IF used <= Limit
       THEN used' = used + 1 /\ worker' = [worker EXCEPT ![w].pc = "uploading",
                                                         ![w].tries = 0]
       ELSE used' = used /\ Raise(w, FALSE)
    /\ UNCHANGED <<job, req, present, provider, raced, faults>>

(* _reserve_submit_usage: one conditional UPDATE.                          *)
Reserve(w) ==
    /\ worker[w].pc = "reserving"
    /\ IF used + 1 <= Limit
       THEN used' = used + 1 /\ worker' = [worker EXCEPT ![w].pc = "uploading",
                                                         ![w].tries = 0]
       ELSE used' = used /\ Raise(w, FALSE)
    /\ UNCHANGED <<job, req, present, provider, raced, faults>>

(* A submission that reaches the provider.  The client reads the file when *)
(* it builds the first request; a repeated one finds the handle at its end *)
(* and carries nothing.                                                    *)
Delivered(w) ==
    /\ nsubs < MaxSubs
    /\ nsubs' = nsubs + 1
    /\ subs' = [s \in 1..(nsubs + 1) |->
                   IF s <= nsubs THEN subs[s]
                   ELSE [file |-> worker[w].file, whole |-> worker[w].tries = 0,
                         gone |-> FALSE, phase |-> "queued"]]

(* AstrometryClient.submit: the upload is answered with its id.            *)
Upload(w) ==
    /\ worker[w].pc = "uploading" /\ worker[w].file \in present
    /\ Delivered(w)
    /\ worker' = [worker EXCEPT ![w] = [@ EXCEPT !.pc = "recording",
                                                 !.sub = nsubs', !.pjob = None]]
    /\ UNCHANGED <<job, req, present, used, raced, faults>>

(* Bug variant: the loop runs once too often.                              *)
BugUploadErrorLoop(w) ==
    /\ worker[w].pc = "uploading"
    /\ Fault
    /\ Delivered(w) \/ UNCHANGED provider
    /\ IF worker[w].tries < RetryCount
       THEN worker' = [worker EXCEPT ![w].tries = @ + 1]
       ELSE \E transient \in BOOLEAN : Raise(w, transient)
    /\ UNCHANGED <<job, req, present, used, raced>>

(* A request of submit fails, whether or not the provider got it, and      *)
(* _request repeats it until RetryCount.  The error that counts is the     *)
(* last one.                                                               *)
UploadError(w) ==
    /\ worker[w].pc = "uploading"
    /\ Fault
    /\ Delivered(w) \/ UNCHANGED provider
    /\ IF worker[w].tries + 1 < RetryCount
       THEN worker' = [worker EXCEPT ![w].tries = @ + 1]
       ELSE \E transient \in BOOLEAN : Raise(w, transient)
    /\ UNCHANGED <<job, req, present, used, raced>>

(* submit raises at once: an answer without an id, or a login that failed  *)
(* before anything was uploaded.                                           *)
UploadRefused(w) ==
    /\ worker[w].pc = "uploading"
    /\ Fault
    /\ \/ (Delivered(w) \/ UNCHANGED provider) /\ Raise(w, TRUE)
       \/ worker[w].tries = 0 /\ UNCHANGED provider /\ Raise(w, FALSE)
    /\ UNCHANGED <<job, req, present, used, raced>>

(* submit finds no file.                                                   *)
UploadMissing(w) ==
    /\ worker[w].pc = "uploading" /\ worker[w].file \notin present
    /\ Raise(w, FALSE)
    /\ UNCHANGED <<job, req, present, provider, used, raced, faults>>

(* _record_submission, or _record_replacement_submission when work that    *)
(* was saved is gone.                                                      *)
RecordSubmission(w) ==
    LET f == worker[w].file
    IN  /\ worker[w].pc = "recording"
        /\ IF Owns(w)
           THEN /\ job' = [job EXCEPT ![f] =
                      [job[f] EXCEPT !.sub = worker[w].sub, !.pjob = None,
                          !.attempts = job[f].attempts + (IF worker[w].saved THEN 1 ELSE 0)]]
                /\ worker' = [worker EXCEPT ![w].pc = "polling", ![w].saved = FALSE]
           ELSE Raise(w, FALSE) /\ job' = job
        /\ UNCHANGED <<req, present, provider, used, raced, faults>>

(* _touch_lease, at the head of every round of _poll_provider.             *)
TouchLease(w) ==
    LET f == worker[w].file
    IN  /\ worker[w].pc = "polling"
        /\ IF Owns(w)
           THEN job' = [job EXCEPT ![f].lease = "live"] /\ Go(w, "asking")
           ELSE job' = job /\ Raise(w, FALSE)
        /\ UNCHANGED <<req, present, provider, used, raced, faults>>

(* The submission or job the worker asks about.                            *)
Asked(w) == IF worker[w].pjob # None THEN worker[w].pjob ELSE worker[w].sub

(* Bug variant: whatever ended counts as solved.                           *)
BugAskEnded(w) ==
    LET s == subs[Asked(w)]
    IN  /\ worker[w].pc = "asking" /\ ~s.gone
        /\ IF worker[w].pjob = None
           THEN IF s.phase = "queued" THEN Go(w, "polling")
                ELSE worker' = [worker EXCEPT ![w].pc = "opened",
                                              ![w].pjob = worker[w].sub]
           ELSE Go(w, IF s.phase \in {"solved", "failed"} THEN "solved" ELSE "polling")
        /\ UNCHANGED <<job, req, present, provider, used, raced, faults>>

(* The answer of the provider: a job id to record, a result, a failure, or *)
(* another round.                                                          *)
Ask(w) ==
    LET s == subs[Asked(w)]
    IN  /\ worker[w].pc = "asking" /\ ~s.gone
        /\ IF worker[w].pjob = None
           THEN IF s.phase = "queued" THEN Go(w, "polling")
                ELSE worker' = [worker EXCEPT ![w].pc = "opened",
                                              ![w].pjob = worker[w].sub]
           ELSE CASE s.phase = "solved" -> Go(w, "solved")
                  [] s.phase = "failed" -> Raise(w, FALSE)
                  [] OTHER -> Go(w, "polling")
        /\ UNCHANGED <<job, req, present, provider, used, raced, faults>>

(* An answer of 404.  Saved work is replaced by a new submission; work of  *)
(* this run is not.                                                        *)
AskMissing(w) ==
    /\ worker[w].pc = "asking" /\ subs[Asked(w)].gone
    /\ IF worker[w].saved THEN Go(w, "reserving") ELSE Raise(w, FALSE)
    /\ UNCHANGED <<job, req, present, provider, used, raced, faults>>

(* No answer, a refusal, or the deadline of the poll.                      *)
AskError(w) ==
    /\ worker[w].pc = "asking"
    /\ Fault
    /\ \E transient \in BOOLEAN : Raise(w, transient)
    /\ UNCHANGED <<job, req, present, provider, used, raced>>

(* _record_provider_job.                                                   *)
RecordProviderJob(w) ==
    /\ worker[w].pc = "opened"
    /\ IF Owns(w)
       THEN /\ job' = [job EXCEPT ![worker[w].file].pjob = worker[w].pjob]
            /\ Go(w, "polling")
       ELSE Raise(w, FALSE) /\ job' = job
    /\ UNCHANGED <<req, present, provider, used, raced, faults>>

(* requeue_transient, complete and fail: the owner's last transaction      *)
(* writes the job and its records.  Whoever lost the lease changes nothing *)
(* and raises; complete raises into the except clause.                     *)
RequeueTransient(w) ==
    LET f == worker[w].file
    IN  /\ worker[w].pc = "requeueing"
        /\ IF Owns(w) THEN /\ ~Locked(f)
                           /\ job' = [job EXCEPT ![f] = Released(@, "WAITING")]
                           /\ req' = Sync(req, f, "WAITING")
                      ELSE UNCHANGED <<job, req>>
        /\ worker' = [worker EXCEPT ![w] = Idle]
        /\ UNCHANGED <<present, provider, used, raced, faults>>

(* Bug variant: the records are forgotten.                                 *)
BugFailSilently(w) ==
    LET f == worker[w].file
    IN  /\ worker[w].pc = "failing"
        /\ IF Owns(w) THEN job' = [job EXCEPT ![f] = Released(@, "FAILED")]
                      ELSE UNCHANGED job
        /\ worker' = [worker EXCEPT ![w] = Idle]
        /\ UNCHANGED <<req, present, provider, used, raced, faults>>

Fail(w) ==
    LET f == worker[w].file
    IN  /\ worker[w].pc = "failing"
        /\ IF Owns(w) THEN /\ ~Locked(f)
                           /\ job' = [job EXCEPT ![f] = Released(@, "FAILED")]
                           /\ req' = Sync(req, f, "FAILED")
                      ELSE UNCHANGED <<job, req>>
        /\ worker' = [worker EXCEPT ![w] = Idle]
        /\ UNCHANGED <<present, provider, used, raced, faults>>

Complete(w) ==
    LET f == worker[w].file
    IN  /\ worker[w].pc = "solved"
        /\ IF Owns(w) THEN /\ ~Locked(f)
                           /\ job' = [job EXCEPT ![f] = [Released(@, "COMPLETED")
                                         EXCEPT !.pjob = worker[w].pjob]]
                           /\ req' = Sync(req, f, "COMPLETED")
                           /\ worker' = [worker EXCEPT ![w] = Idle]
                      ELSE UNCHANGED <<job, req>> /\ Raise(w, FALSE)
        /\ UNCHANGED <<present, provider, used, raced, faults>>

-----------------------------------------------------------------------------
(* Time, crashes and the provider.                                         *)

Busy(w, f) == worker[w].pc # "idle" /\ worker[w].file = f

(* A worker dies; it starts again and remembers nothing.                   *)
Crash(w) ==
    /\ worker[w].pc # "idle" /\ Fault
    /\ worker' = [worker EXCEPT ![w] = Idle]
    /\ UNCHANGED <<job, req, present, provider, used, raced>>

(* A lease runs out under a worker that is still at it: nothing renews it  *)
(* while the image is uploaded.                                            *)
ExpireSlow(f) ==
    /\ job[f].lease = "live" /\ Fault
    /\ Busy(job[f].owner, f)
    /\ job' = [job EXCEPT ![f].lease = "expired"]
    /\ UNCHANGED <<worker, req, present, provider, used, raced>>

(* A lease nobody renews any more runs out.                                *)
ExpireDead(f) ==
    /\ job[f].lease = "live"
    /\ ~Busy(job[f].owner, f)
    /\ job' = [job EXCEPT ![f].lease = "expired"]
    /\ UNCHANGED <<worker, req, present, provider, used, raced, faults>>

Advance(s, phase) ==
    /\ subs' = [subs EXCEPT ![s].phase = phase]
    /\ UNCHANGED <<job, worker, req, present, nsubs, used, raced, faults>>

(* The provider opens a job for a submission ...                           *)
Open(s) == subs[s].phase = "queued" /\ Advance(s, "running")

(* ... and ends it.  What holds no image is not solved.                    *)
Solve(s) ==
    /\ subs[s].phase = "running"
    /\ \/ subs[s].whole /\ Advance(s, "solved")
       \/ Advance(s, "failed")

(* The provider forgets a submission and its job.                          *)
Purge(s) ==
    /\ ~subs[s].gone /\ Fault
    /\ subs' = [subs EXCEPT ![s].gone = TRUE]
    /\ UNCHANGED <<job, worker, req, present, nsubs, used, raced>>

-----------------------------------------------------------------------------
WorkerStep(w) ==
    \/ \E f \in File : Claim(w, f)
    \/ SyncClaim(w) \/ LoadWork(w) \/ Reserve(w)
    \/ Upload(w) \/ UploadError(w) \/ UploadRefused(w) \/ UploadMissing(w)
    \/ RecordSubmission(w)
    \/ TouchLease(w) \/ Ask(w) \/ AskMissing(w) \/ AskError(w)
    \/ RecordProviderJob(w)
    \/ RequeueTransient(w) \/ Fail(w) \/ Complete(w)

RequestStep(r) ==
    \/ \E f \in File : \/ Submit(r, f) \/ CreateBoth(r, f) \/ CreateRead(r, f)
                       \/ RetryRead(r, f)
    \/ CreateCommit(r) \/ RetryWrite(r) \/ DeleteCommit(r)
    \/ \E t \in Request : Delete(r, t)

ProviderStep(s) == Open(s) \/ Solve(s)

Next ==
    \/ \E w \in Worker : WorkerStep(w) \/ Crash(w)
    \/ \E r \in Request : RequestStep(r)
    \/ \E f \in File : Cleanup(f) \/ ExpireSlow(f) \/ ExpireDead(f)
    \/ \E s \in 1..nsubs : ProviderStep(s) \/ Purge(s)

Spec == Init /\ [][Next]_vars

(* Workers run and leases run out; a delete that has begun commits; the    *)
(* provider ends the work it has.                                          *)
FairSpec ==
    /\ Spec
    /\ \A w \in Worker : WF_vars(WorkerStep(w))
    /\ \A f \in File : WF_vars(ExpireDead(f))
    /\ \A r \in Request : WF_vars(DeleteCommit(r))
    /\ \A s \in SubId : WF_vars(s <= nsubs /\ ProviderStep(s))

-----------------------------------------------------------------------------
(* Submissions stay within the units reserved for them, times the number   *)
(* of times the client repeats a request, and the units within the monthly *)
(* limit, whoever uploads at the same time (_reserve_submit_usage,         *)
(* BaseClient._request).                                                   *)
UploadsReserved == nsubs <= RetryCount * used /\ used <= Limit

(* A solution belongs to its file: a COMPLETED job names a provider job    *)
(* that was solved from an upload of this file, through expired leases,    *)
(* replacements and late writers (record_*, mark_completed).               *)
SolutionIsOwn ==
    \A f \in File : job[f].status = "COMPLETED" =>
        /\ job[f].pjob \in 1..nsubs
        /\ subs[job[f].pjob].phase = "solved"
        /\ subs[job[f].pjob].file = f
        /\ subs[job[f].pjob].whole

(* The owner of a job uploads its image only when the row names no         *)
(* submission or the one it names is gone at the provider: a reclaimed or  *)
(* retried job resumes ("resumes polling without uploading the physical    *)
(* file again", docs/WORKER_GUIDE.md).                                     *)
ResumesSavedWork ==
    \A w \in Worker : Owns(w) /\ worker[w].pc \in {"reserving", "uploading"} =>
        LET s == job[worker[w].file].sub IN s # None => subs[s].gone

(* Once the job is not being processed, the records of its file show its   *)
(* status, unless one of three windows was hit: a record committed with a  *)
(* status the job had before (create), a PROCESSING that arrives after the *)
(* job moved on (the second transaction of claim_next), a job failed for a *)
(* record's deletion after another record took its place (soft_delete).    *)
RecordsFollowJob ==
    \A f \in File \ raced : job[f].status # "PROCESSING" =>
        \A r \in ActiveOn(f) : req[r].rec = job[f].status

(* Every job is solved or fails in the end: a crash, a lost lease or a     *)
(* transient error leaves none WAITING or PROCESSING for ever.             *)
EveryJobSettles ==
    \A f \in File : job[f].status \in {"WAITING", "PROCESSING"}
                        ~> job[f].status \in Settled
===============================================================================
