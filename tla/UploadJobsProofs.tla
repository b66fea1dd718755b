--------------------------- MODULE UploadJobsProofs ---------------------------
(***************************************************************************)
(* Proofs about the upload queue, for any number of jobs, workers,         *)
(* requests, keys, hashes, crashes and slow runs.                          *)
(***************************************************************************)
EXTENDS UploadJobs, TLAPS

(* The unique index: no two rows share a service and a client_file_id.     *)
UniqueKey ==
    \A i, j \in JobId :
        /\ Exists(i) /\ Exists(j)
        /\ jobs[i].key # NoKey /\ jobs[i].key = jobs[j].key
        /\ jobs[i].service = jobs[j].service
        => i = j

(* A request that names a job names one that exists and that has the       *)
(* service and key of the request; only a replay has a hash to fill in.    *)
AnswerIsRow ==
    \A r \in Request : req[r].pc \in {"backfill", "answered"} =>
        /\ req[r].job \in JobId
        /\ Exists(req[r].job)
        /\ jobs[req[r].job].key = req[r].key
        /\ jobs[req[r].job].service = req[r].service
        /\ req[r].pc = "backfill" => req[r].key # NoKey

(* A worker that is not idle holds a job id.                               *)
BusyHasJob == \A w \in Worker : worker[w].pc # "idle" => worker[w].job \in JobId

(* Lemma: the updates the actions make to a row keep it a row.             *)
LEMMA RowUpdates ==
  ASSUME NEW row \in Row, NEW st \in Status, NEW sta \in {"unset", "fresh", "stale"},
         NEW n \in Nat, NEW h \in Hash \cup {NoHash}
  PROVE  /\ [row EXCEPT !.status = st] \in Row
         /\ [row EXCEPT !.started = sta] \in Row
         /\ [row EXCEPT !.hash = h] \in Row
         /\ [row EXCEPT !.status = st, !.started = sta] \in Row
         /\ [row EXCEPT !.status = st, !.retry = n] \in Row
         /\ [row EXCEPT !.status = st, !.started = sta, !.retry = n] \in Row
BY DEF Row

(* Lemma: the states a worker moves to are worker states.                  *)
LEMMA WorkerUpdates ==
  ASSUME NEW x \in WorkerState, NEW j \in JobId, NEW n \in Nat,
         NEW pc \in {"claimed", "running", "failing", "marking"}
  PROVE  /\ Idle \in WorkerState
         /\ [Idle EXCEPT !.pc = pc, !.job = j] \in WorkerState
         /\ [x EXCEPT !.pc = pc] \in WorkerState
         /\ [x EXCEPT !.pc = pc, !.seen = n] \in WorkerState
BY DEF WorkerState, Idle

(* Lemma: the statuses the actions write.                                  *)
LEMMA StatusValues ==
  /\ "WAITING" \in Status /\ "PROCESSING" \in Status
  /\ "COMPLETED" \in Status /\ "FAILED" \in Status
BY DEF Status, Terminal

(* Lemma: Init and every step keep the types of the five variables.        *)
LEMMA TypeInductive ==
    /\ Init => TypeOK /\ BusyHasJob
    /\ TypeOK /\ BusyHasJob /\ [Next]_vars => TypeOK' /\ BusyHasJob'
<1> USE DEF TypeOK, BusyHasJob
<1>1. Init => TypeOK /\ BusyHasJob
  BY DEF Init, NoRow, Row, ReqState, ReqPhase, WorkerState, Idle, Status, Terminal,
         Service, Source, NoJob
<1>2. ASSUME TypeOK, BusyHasJob, [Next]_vars
      PROVE  TypeOK' /\ BusyHasJob'
  <2>1. ASSUME NEW r \in Request, NEW f \in Form, Receive(r, f)
        PROVE  TypeOK' /\ BusyHasJob'
    <3> DEFINE q == [req[r] EXCEPT !.pc = "saving", !.service = f.service,
                                   !.source = f.source, !.key = f.key, !.hash = f.hash]
    <3>0. req[r] \in ReqState /\ q \in ReqState
      BY <1>2, UploadJobsAssumption DEF ReqState, ReqPhase, ValidForm
    <3>1. CASE SameKey(f.service, f.key) = {} /\ req' = [req EXCEPT ![r] = q]
      BY <1>2, <2>1, <3>0, <3>1 DEF Receive
    <3>2. ASSUME NEW j \in SameKey(f.service, f.key), IdempotentResponse(r, q, j)
          PROVE  TypeOK' /\ BusyHasJob'
      BY <1>2, <2>1, <3>0, <3>2 DEF Receive, IdempotentResponse, SameKey, ReqState, ReqPhase
    <3>3. CASE req' = [req EXCEPT ![r] = [q EXCEPT !.pc = "refused"]]
      <4>1. [q EXCEPT !.pc = "refused"] \in ReqState
        BY <3>0 DEF ReqState, ReqPhase
      <4>2. QED BY <1>2, <2>1, <3>3, <4>1 DEF Receive
    <3>4. QED BY <2>1, <3>1, <3>2, <3>3 DEF Receive
  <2>2. ASSUME NEW r \in Request, Refuse(r) PROVE TypeOK' /\ BusyHasJob'
    BY <1>2, <2>2 DEF Refuse, ReqState, ReqPhase
  <2>3. ASSUME NEW r \in Request, NEW j \in JobId, CreateWaitingJob(r, j)
        PROVE  TypeOK' /\ BusyHasJob'
    <3>1. req[r] \in ReqState BY <1>2
    <3>2. NewRow(req[r]) \in Row
      BY <3>1 DEF NewRow, NoRow, Row, ReqState, Status, Terminal
    <3>3. [req[r] EXCEPT !.pc = "answered", !.job = j] \in ReqState
      BY <3>1 DEF ReqState, ReqPhase
    <3>4. jobs' \in [JobId -> Row]
      BY <1>2, <2>3, <3>2 DEF CreateWaitingJob
    <3>5. req' \in [Request -> ReqState]
      BY <1>2, <2>3, <3>3 DEF CreateWaitingJob
    <3>6. QED BY <1>2, <2>3, <3>4, <3>5 DEF CreateWaitingJob
  <2>4. ASSUME NEW r \in Request, LoseInsert(r) PROVE TypeOK' /\ BusyHasJob'
    <3>1. req[r] \in ReqState BY <1>2
    <3>2. PICK j \in SameKey(req[r].service, req[r].key) : IdempotentResponse(r, req[r], j)
      BY <2>4 DEF LoseInsert
    <3>3. req' \in [Request -> ReqState]
      BY <1>2, <3>1, <3>2 DEF IdempotentResponse, SameKey, ReqState, ReqPhase
    <3>4. QED BY <1>2, <2>4, <3>3 DEF LoseInsert
  <2>5. ASSUME NEW r \in Request, BackfillHash(r) PROVE TypeOK' /\ BusyHasJob'
    <3>1. jobs' \in [JobId -> Row]
      <4>1. req[r].hash \in Hash \cup {NoHash}
        BY <1>2 DEF ReqState
      <4>2. CASE req[r].job \in JobId
        <5>1. [jobs[req[r].job] EXCEPT !.hash = req[r].hash] \in Row
          BY <1>2, <4>1, <4>2 DEF Row
        <5>2. QED BY <1>2, <2>5, <4>2, <5>1 DEF BackfillHash
      <4>3. CASE req[r].job \notin JobId
        BY <1>2, <2>5, <4>3 DEF BackfillHash
      <4>4. QED BY <4>2, <4>3
    <3>2. req' \in [Request -> ReqState]
      BY <1>2, <2>5 DEF BackfillHash, ReqState, ReqPhase
    <3>3. QED BY <1>2, <2>5, <3>1, <3>2 DEF BackfillHash
  <2>6. ASSUME NEW w \in Worker, NEW j \in JobId, Claim(w, j)
        PROVE  TypeOK' /\ BusyHasJob'
    <3>1. [jobs[j] EXCEPT !.status = "PROCESSING", !.started = "fresh"] \in Row
      BY <1>2, RowUpdates, StatusValues
    <3>2. jobs' \in [JobId -> Row]
      BY <1>2, <2>6, <3>1 DEF Claim
    <3>3. [Idle EXCEPT !.pc = "claimed", !.job = j] \in WorkerState
      BY <1>2, WorkerUpdates
    <3>4. QED BY <1>2, <2>6, <3>2, <3>3 DEF Claim, Idle
  <2>7. ASSUME NEW w \in Worker, Start(w) PROVE TypeOK' /\ BusyHasJob'
    BY <1>2, <2>7 DEF Start, WorkerState, Idle
  <2>8. ASSUME NEW w \in Worker, MarkCompleted(w) PROVE TypeOK' /\ BusyHasJob'
    <3>1. worker[w].job \in JobId BY <1>2, <2>8 DEF MarkCompleted
    <3>2. [jobs[worker[w].job] EXCEPT !.status = "COMPLETED"] \in Row
      BY <1>2, <3>1, RowUpdates, StatusValues
    <3>3. jobs' \in [JobId -> Row]
      BY <1>2, <2>8, <3>1, <3>2 DEF MarkCompleted
    <3>4. worker' \in [Worker -> WorkerState]
      <4>1. Idle \in WorkerState /\ [worker[w] EXCEPT !.pc = "failing"] \in WorkerState
        BY <1>2, <3>1, WorkerUpdates, 0 \in Nat
      <4>2. QED BY <1>2, <2>8, <4>1 DEF MarkCompleted
    <3>5. BusyHasJob'
      <4>1. CASE worker' = [worker EXCEPT ![w] = Idle]
        BY <1>2, <4>1 DEF Idle
      <4>2. CASE worker' = [worker EXCEPT ![w].pc = "failing"]
        BY <1>2, <3>1, <4>2 DEF WorkerState
      <4>3. QED BY <2>8, <4>1, <4>2 DEF MarkCompleted
    <3>6. QED BY <1>2, <2>8, <3>3, <3>4, <3>5 DEF MarkCompleted
  <2>9. ASSUME NEW w \in Worker, Raise(w) PROVE TypeOK' /\ BusyHasJob'
    BY <1>2, <2>9 DEF Raise, WorkerState
  <2>10. ASSUME NEW w \in Worker, ReadForFailure(w) PROVE TypeOK' /\ BusyHasJob'
    <3>1. worker[w].job \in JobId BY <1>2, <2>10 DEF ReadForFailure
    <3>2. jobs[worker[w].job].retry \in Nat BY <1>2, <3>1 DEF Row
    <3>3. [worker[w] EXCEPT !.pc = "marking", !.seen = jobs[worker[w].job].retry]
             \in WorkerState
      BY <1>2, <3>2 DEF WorkerState
    <3>4. QED BY <1>2, <2>10, <3>1, <3>3 DEF ReadForFailure, WorkerState
  <2>11. ASSUME NEW w \in Worker, MarkFailed(w) PROVE TypeOK' /\ BusyHasJob'
    <3>1. worker[w].job \in JobId BY <1>2, <2>11 DEF MarkFailed
    <3>2. worker[w].seen + 1 \in Nat BY <1>2 DEF WorkerState
    <3>3. [jobs[worker[w].job] EXCEPT !.status = "FAILED",
                                       !.retry = worker[w].seen + 1] \in Row
      BY <1>2, <3>1, <3>2, RowUpdates, StatusValues
    <3>4. jobs' \in [JobId -> Row]
      BY <1>2, <2>11, <3>1, <3>3 DEF MarkFailed
    <3>5. worker' \in [Worker -> WorkerState] /\ BusyHasJob'
      BY <1>2, <2>11 DEF MarkFailed, WorkerState, Idle
    <3>6. QED BY <1>2, <2>11, <3>4, <3>5 DEF MarkFailed
  <2>12. ASSUME NEW w \in Worker, RecoverStale(w) PROVE TypeOK' /\ BusyHasJob'
    <3>1. ASSUME NEW j \in JobId
          PROVE  [jobs[j] EXCEPT !.status = "WAITING", !.started = "unset",
                                 !.retry = @ + 1] \in Row
      <4>1. jobs[j] \in Row /\ jobs[j].retry + 1 \in Nat BY <1>2 DEF Row
      <4>2. QED BY <4>1, RowUpdates, StatusValues
    <3>2. jobs' \in [JobId -> Row]
      BY <1>2, <2>12, <3>1 DEF RecoverStale
    <3>3. QED BY <1>2, <2>12, <3>2 DEF RecoverStale
  <2>13. ASSUME NEW w \in Worker, Crash(w) PROVE TypeOK' /\ BusyHasJob'
    BY <1>2, <2>13 DEF Crash, WorkerState, Idle
  <2>14. ASSUME NEW j \in JobId, ExpireSlow(j) PROVE TypeOK' /\ BusyHasJob'
    <3>1. [jobs[j] EXCEPT !.started = "stale"] \in Row BY <1>2, RowUpdates, StatusValues
    <3>2. QED BY <1>2, <2>14, <3>1 DEF ExpireSlow
  <2>15. ASSUME NEW j \in JobId, ExpireDead(j) PROVE TypeOK' /\ BusyHasJob'
    <3>1. [jobs[j] EXCEPT !.started = "stale"] \in Row BY <1>2, RowUpdates, StatusValues
    <3>2. QED BY <1>2, <2>15, <3>1 DEF ExpireDead
  <2>16. CASE UNCHANGED vars
    BY <1>2, <2>16 DEF vars
  <2>17. QED
    BY <1>2, <2>1, <2>2, <2>3, <2>4, <2>5, <2>6, <2>7, <2>8, <2>9, <2>10, <2>11,
       <2>12, <2>13, <2>14, <2>15, <2>16 DEF Next, Api, Work, Time
<1>3. QED BY <1>1, <1>2

(* Type correctness of the upload queue.                                   *)
THEOREM TypeCorrect == Spec => []TypeOK
<1>1. Init => TypeOK /\ BusyHasJob
  BY TypeInductive
<1>2. TypeOK /\ BusyHasJob /\ [Next]_vars => TypeOK' /\ BusyHasJob'
  BY TypeInductive
<1>3. QED BY <1>1, <1>2, PTL DEF Spec

(* Lemma: what the inductive steps below use of the types.                 *)
LEMMA BusyCorrect == Spec => [](TypeOK /\ BusyHasJob)
<1>1. Init => TypeOK /\ BusyHasJob
  BY TypeInductive
<1>2. TypeOK /\ BusyHasJob /\ [Next]_vars => TypeOK' /\ BusyHasJob'
  BY TypeInductive
<1>3. QED BY <1>1, <1>2, PTL DEF Spec

(* Lemma: a step of the API leaves the existing rows' status and           *)
(* retry_count alone, and the workers too.                                 *)
LEMMA ApiKeepsRuns ==
  ASSUME TypeOK, Api
  PROVE  /\ worker' = worker
         /\ \A j \in JobId : Exists(j) =>
               jobs'[j].status = jobs[j].status /\ jobs'[j].retry = jobs[j].retry
<1> USE DEF TypeOK
<1>1. ASSUME NEW r \in Request, NEW j \in JobId, CreateWaitingJob(r, j)
      PROVE  /\ worker' = worker
             /\ \A i \in JobId : Exists(i) => jobs'[i] = jobs[i]
  BY <1>1 DEF CreateWaitingJob, Exists
<1>2. ASSUME NEW r \in Request, BackfillHash(r)
      PROVE  /\ worker' = worker
             /\ \A j \in JobId : Exists(j) =>
                   jobs'[j].status = jobs[j].status /\ jobs'[j].retry = jobs[j].retry
  BY <1>2 DEF BackfillHash, Row
<1>3. ASSUME NEW r \in Request, NEW f \in Form, Receive(r, f)
      PROVE  worker' = worker /\ jobs' = jobs
  BY <1>3 DEF Receive
<1>4. ASSUME NEW r \in Request, Refuse(r) \/ LoseInsert(r)
      PROVE  worker' = worker /\ jobs' = jobs
  BY <1>4 DEF Refuse, LoseInsert
<1>5. QED BY <1>1, <1>2, <1>3, <1>4 DEF Api

(* Lemma: no step changes how a job ended.                                 *)
LEMMA TerminalKept ==
  ASSUME TypeOK, BusyHasJob, [Next]_vars
  PROVE  \A j \in JobId : jobs[j].status \in Terminal =>
            /\ jobs'[j].status = jobs[j].status
            /\ jobs'[j].retry = jobs[j].retry
<1> DEFINE Keeps == \A j \in JobId : jobs[j].status \in Terminal =>
                       /\ jobs'[j].status = jobs[j].status
                       /\ jobs'[j].retry = jobs[j].retry
<1> USE DEF TypeOK, Terminal
<1>1. CASE Api
  BY <1>1, ApiKeepsRuns DEF Exists
<1>2. ASSUME NEW w \in Worker, NEW j \in JobId, Claim(w, j) PROVE Keeps
  BY <1>2 DEF Claim, First, Waiting, Row
<1>3. ASSUME NEW w \in Worker, Start(w) \/ Raise(w) \/ ReadForFailure(w) \/ Crash(w)
      PROVE  Keeps
  BY <1>3 DEF Start, Raise, ReadForFailure, Crash
<1>4. ASSUME NEW w \in Worker, MarkCompleted(w) PROVE Keeps
  BY <1>4 DEF MarkCompleted, BusyHasJob, Row
<1>5. ASSUME NEW w \in Worker, MarkFailed(w) PROVE Keeps
  BY <1>5 DEF MarkFailed, BusyHasJob, Row
<1>6. ASSUME NEW w \in Worker, RecoverStale(w) PROVE Keeps
  BY <1>6 DEF RecoverStale, Stale, Row
<1>7. ASSUME NEW j \in JobId, ExpireSlow(j) \/ ExpireDead(j) PROVE Keeps
  BY <1>7 DEF ExpireSlow, ExpireDead, Expirable, Row
<1>8. CASE UNCHANGED vars
  BY <1>8 DEF vars
<1>9. QED
  BY <1>1, <1>2, <1>3, <1>4, <1>5, <1>6, <1>7, <1>8 DEF Next, Work, Time

(* How a job ended is never changed: whatever the interleaving of claims,  *)
(* recoveries and late finishers, COMPLETED and FAILED rows keep their     *)
(* status and retry_count (mark_completed and mark_failed update a row     *)
(* only while it is PROCESSING).                                           *)
THEOREM TerminalIsFinalHolds == Spec => TerminalIsFinal
<1> DEFINE Keeps == \A j \in JobId : jobs[j].status \in Terminal =>
                       /\ jobs'[j].status = jobs[j].status
                       /\ jobs'[j].retry = jobs[j].retry
<1>1. TypeOK /\ BusyHasJob /\ [Next]_vars => [Keeps]_vars
  BY TerminalKept
<1>2. QED BY <1>1, BusyCorrect, PTL DEF Spec, TerminalIsFinal

(* No worker runs a job that is WAITING and was never recovered, or one    *)
(* that does not exist: a claim is never undone behind its owner's back.   *)
RunIsClaimed ==
    \A j \in JobId : \A w \in Worker :
        Runs(w, j) => \/ jobs[j].status \in {"PROCESSING"} \cup Terminal
                      \/ jobs[j].status = "WAITING" /\ jobs[j].retry > 0

(* A job is run by two workers at once only after a counted recovery.      *)
(* Inductive together with RunIsClaimed: when a claim succeeds the row is  *)
(* WAITING, so another worker still on it was dispossessed before.         *)
THEOREM ExclusiveRuns == Spec => [](DoubleRunIsCounted /\ RunIsClaimed)
<1> DEFINE Inv == DoubleRunIsCounted /\ RunIsClaimed
<1>1. Init => Inv
  BY DEF Init, DoubleRunIsCounted, RunIsClaimed, Runs, Idle
<1>2. ASSUME TypeOK, BusyHasJob, Inv, [Next]_vars PROVE Inv'
  <2> USE <1>2 DEF TypeOK, DoubleRunIsCounted, RunIsClaimed, Runs, Terminal
  <2>1. CASE Api
    BY <2>1, ApiKeepsRuns DEF Exists
  <2>2. ASSUME NEW w \in Worker, NEW j \in JobId, Claim(w, j) PROVE Inv'
    <3>1. jobs[j].status = "WAITING"
      BY <2>2 DEF Claim, First, Waiting
    <3>2. /\ jobs'[j].status = "PROCESSING" /\ jobs'[j].retry = jobs[j].retry
          /\ \A i \in JobId \ {j} : jobs'[i] = jobs[i]
      BY <2>2 DEF Claim, Row
    <3>3. /\ worker'[w].job = j
          /\ \A v \in Worker \ {w} : worker'[v] = worker[v]
      BY <2>2 DEF Claim, WorkerState, Idle
    <3>4. QED BY <3>1, <3>2, <3>3
  <2>3. ASSUME NEW w \in Worker, Start(w) \/ Raise(w) \/ ReadForFailure(w) \/ Crash(w)
        PROVE  Inv'
    BY <2>3 DEF Start, Raise, ReadForFailure, Crash, Idle, WorkerState
  <2>4. ASSUME NEW w \in Worker, MarkCompleted(w) PROVE Inv'
    <3>1. \A v \in Worker, j \in JobId : Runs(v, j)' => Runs(v, j)
      BY <2>4 DEF MarkCompleted, Idle, WorkerState
    <3>2. \A j \in JobId : /\ jobs'[j].retry = jobs[j].retry
                           /\ jobs'[j].status \in {jobs[j].status, "COMPLETED"}
      BY <2>4 DEF MarkCompleted, BusyHasJob, Row
    <3>3. QED BY <3>1, <3>2
  <2>5. ASSUME NEW w \in Worker, MarkFailed(w) PROVE Inv'
    <3>1. \A v \in Worker, j \in JobId : Runs(v, j)' => Runs(v, j)
      BY <2>5 DEF MarkFailed, Idle, WorkerState
    <3>2. \A j \in JobId :
             \/ jobs'[j].retry = jobs[j].retry /\ jobs'[j].status = jobs[j].status
             \/ jobs'[j].retry = worker[w].seen + 1 /\ jobs'[j].status = "FAILED"
      BY <2>5 DEF MarkFailed, BusyHasJob, Row
    <3>3. worker[w].seen + 1 > 0
      BY DEF WorkerState
    <3>4. QED BY <3>1, <3>2, <3>3
  <2>6. ASSUME NEW w \in Worker, RecoverStale(w) PROVE Inv'
    <3>1. worker' = worker
      BY <2>6 DEF RecoverStale
    <3>2. \A j \in JobId :
             \/ jobs'[j] = jobs[j]
             \/ jobs'[j].retry > 0 /\ jobs'[j].status = "WAITING"
      <4> TAKE j \in JobId
      <4>1. jobs[j] \in Row /\ jobs[j].retry + 1 > 0
        BY DEF Row
      <4>2. CASE j \in Stale
        <5>1. jobs'[j] = [jobs[j] EXCEPT !.status = "WAITING", !.started = "unset",
                                         !.retry = @ + 1]
          BY <2>6, <4>2 DEF RecoverStale
        <5>2. QED BY <4>1, <5>1 DEF Row
      <4>3. CASE j \notin Stale
        BY <2>6, <4>3 DEF RecoverStale
      <4>4. QED BY <4>2, <4>3
    <3>3. QED BY <3>1, <3>2
  <2>7. ASSUME NEW j \in JobId, ExpireSlow(j) \/ ExpireDead(j) PROVE Inv'
    <3>1. worker' = worker
      BY <2>7 DEF ExpireSlow, ExpireDead
    <3>2. \A i \in JobId : jobs'[i].retry = jobs[i].retry /\ jobs'[i].status = jobs[i].status
      BY <2>7 DEF ExpireSlow, ExpireDead, Row
    <3>3. QED BY <3>1, <3>2
  <2>8. CASE UNCHANGED vars
    BY <2>8 DEF vars
  <2>9. QED
    BY <2>1, <2>2, <2>3, <2>4, <2>5, <2>6, <2>7, <2>8 DEF Next, Work, Time
<1>3. QED BY <1>1, <1>2, BusyCorrect, PTL DEF Spec

(* Lemma: outside the API no row appears or changes what it was made with, *)
(* and no request moves.                                                   *)
LEMMA WorkKeepsKeys ==
  ASSUME TypeOK, BusyHasJob, [Next]_vars, ~Api
  PROVE  /\ req' = req
         /\ \A j \in JobId : /\ jobs'[j].key = jobs[j].key
                             /\ jobs'[j].service = jobs[j].service
                             /\ jobs'[j].source = jobs[j].source
                             /\ jobs'[j].hash = jobs[j].hash
                             /\ Exists(j)' <=> Exists(j)
<1> DEFINE Same == /\ req' = req
                   /\ \A j \in JobId : /\ jobs'[j].key = jobs[j].key
                                       /\ jobs'[j].service = jobs[j].service
                                       /\ jobs'[j].source = jobs[j].source
                                       /\ jobs'[j].hash = jobs[j].hash
                                       /\ Exists(j)' <=> Exists(j)
<1> USE DEF TypeOK, Exists
<1>1. ASSUME NEW w \in Worker, NEW j \in JobId, Claim(w, j) PROVE Same
  BY <1>1 DEF Claim, First, Waiting, Row
<1>2. ASSUME NEW w \in Worker, Start(w) \/ Raise(w) \/ ReadForFailure(w) \/ Crash(w)
      PROVE  Same
  BY <1>2 DEF Start, Raise, ReadForFailure, Crash
<1>3. ASSUME NEW w \in Worker, MarkCompleted(w) PROVE Same
  BY <1>3 DEF MarkCompleted, BusyHasJob, Row
<1>4. ASSUME NEW w \in Worker, MarkFailed(w) PROVE Same
  BY <1>4 DEF MarkFailed, BusyHasJob, Row
<1>5. ASSUME NEW w \in Worker, RecoverStale(w) PROVE Same
  BY <1>5, ZenonT(40) DEF RecoverStale, Stale, Row
<1>6. ASSUME NEW j \in JobId, ExpireSlow(j) \/ ExpireDead(j) PROVE Same
  BY <1>6 DEF ExpireSlow, ExpireDead, Expirable, Row
<1>7. CASE UNCHANGED vars
  BY <1>7 DEF vars
<1>8. QED BY <1>1, <1>2, <1>3, <1>4, <1>5, <1>6, <1>7 DEF Next, Work, Time

(* Lemma: the unique index holds, and an answer names a row of its key.    *)
LEMMA AnswersAreRows == Spec => [](UniqueKey /\ AnswerIsRow)
<1> DEFINE Inv == UniqueKey /\ AnswerIsRow
<1>1. Init => Inv
  BY DEF Init, UniqueKey, AnswerIsRow, Exists, NoRow
<1>2. ASSUME TypeOK, BusyHasJob, Inv, [Next]_vars PROVE Inv'
  <2> USE <1>2 DEF TypeOK, UniqueKey, AnswerIsRow, Exists
  <2>1. ASSUME NEW r \in Request, NEW j \in JobId,
               CreateWaitingJob(r, j)
        PROVE  Inv'
    <3>1. /\ jobs'[j].status = "WAITING" /\ jobs'[j].key = req[r].key
          /\ jobs'[j].service = req[r].service
          /\ \A i \in JobId \ {j} : jobs'[i] = jobs[i]
      BY <2>1 DEF CreateWaitingJob, NewRow, NoRow
    <3>2. /\ req'[r].job = j /\ req'[r].key = req[r].key
          /\ req'[r].service = req[r].service
          /\ \A q \in Request \ {r} : req'[q] = req[q]
      BY <2>1 DEF CreateWaitingJob, ReqState
    <3>3. jobs[j].status = "ABSENT"
      BY <2>1 DEF CreateWaitingJob
    <3>4. \A i \in JobId : ~( /\ jobs[i].status # "ABSENT" /\ req[r].key # NoKey
                             /\ jobs[i].service = req[r].service
                             /\ jobs[i].key = req[r].key)
      BY <2>1 DEF CreateWaitingJob, SameKey
    <3>5. UniqueKey' BY <3>1, <3>3, <3>4
    <3>6. AnswerIsRow'
      <4>1. req'[r].pc = "answered" BY <2>1 DEF CreateWaitingJob, ReqState
      <4>2. ASSUME NEW q \in Request, req'[q].pc \in {"backfill", "answered"}, q # r
            PROVE  /\ req'[q] = req[q] /\ req[q].job # j
                   /\ jobs'[req[q].job] = jobs[req[q].job]
        BY <3>1, <3>2, <3>3, <4>2
      <4>3. QED BY <3>1, <3>2, <4>1, <4>2
    <3>7. QED BY <3>5, <3>6
  <2>2. ASSUME NEW r \in Request, NEW q \in ReqState, NEW j \in SameKey(q.service, q.key),
               IdempotentResponse(r, q, j), UNCHANGED jobs
        PROVE  Inv'
    <3>1. /\ j \in JobId /\ jobs[j].status # "ABSENT"
          /\ jobs[j].key = q.key /\ jobs[j].service = q.service /\ q.key # NoKey
      BY DEF SameKey
    <3>2. /\ req'[r].key = q.key /\ req'[r].service = q.service
          /\ req'[r].pc \in {"backfill", "answered"} => req'[r].job = j
          /\ \A p \in Request \ {r} : req'[p] = req[p]
      BY <2>2 DEF IdempotentResponse, ReqState
    <3>3. QED BY <2>2, <3>1, <3>2
  <2>3. ASSUME NEW r \in Request, NEW f \in Form, Receive(r, f)
        PROVE  Inv'
    <3> DEFINE q == [req[r] EXCEPT !.pc = "saving", !.service = f.service,
                                   !.source = f.source, !.key = f.key, !.hash = f.hash]
    <3>1. q \in ReqState /\ q.service = f.service /\ q.key = f.key /\ q.pc = "saving"
      <4>1. req[r] \in ReqState OBVIOUS
      <4>2. /\ f.service \in Service /\ f.source \in Source
            /\ f.key \in Key \cup {NoKey} /\ f.hash \in Hash \cup {NoHash}
        BY UploadJobsAssumption DEF ValidForm
      <4> HIDE <1>2 DEF TypeOK, UniqueKey, AnswerIsRow, Exists
      <4>3. QED BY <4>1, <4>2 DEF ReqState, ReqPhase
    <3>2. CASE SameKey(f.service, f.key) = {} /\ req' = [req EXCEPT ![r] = q]
      BY <2>3, <3>1, <3>2 DEF Receive
    <3> HIDE DEF q
    <3>3. ASSUME NEW j \in SameKey(f.service, f.key), IdempotentResponse(r, q, j) PROVE Inv'
      <4>1. j \in SameKey(q.service, q.key) BY <3>1
      <4>2. UNCHANGED jobs BY <2>3 DEF Receive
      <4>3. QED BY <2>2, <3>1, <3>3, <4>1, <4>2
    <3>4. CASE req' = [req EXCEPT ![r] = [q EXCEPT !.pc = "refused"]]
      <4>1. [q EXCEPT !.pc = "refused"].pc = "refused"
        BY <3>1 DEF ReqState
      <4>2. QED BY <2>3, <3>4, <4>1 DEF Receive
    <3>5. QED BY <2>3, <3>2, <3>3, <3>4 DEF Receive, q
  <2>4. ASSUME NEW r \in Request, Refuse(r) PROVE Inv'
    BY <2>4 DEF Refuse, ReqState
  <2>5. ASSUME NEW r \in Request, LoseInsert(r) PROVE Inv'
    <3>1. PICK j \in SameKey(req[r].service, req[r].key) : IdempotentResponse(r, req[r], j)
      BY <2>5 DEF LoseInsert
    <3>2. req[r] \in ReqState /\ UNCHANGED jobs
      BY <2>5 DEF LoseInsert
    <3>3. QED BY <2>2, <3>1, <3>2
  <2>6. ASSUME NEW r \in Request, BackfillHash(r) PROVE Inv'
    <3>1. /\ \A q \in Request : /\ req'[q].job = req[q].job
                                /\ req'[q].key = req[q].key
                                /\ req'[q].service = req[q].service
                                /\ req'[q].pc \in {"backfill", "answered"} =>
                                      req[q].pc \in {"backfill", "answered"}
                                /\ req'[q].pc = "backfill" => req[q].pc = "backfill"
      BY <2>6 DEF BackfillHash, ReqState
    <3>2. \A j \in JobId : /\ jobs'[j].status = jobs[j].status
                           /\ jobs'[j].key = jobs[j].key
                           /\ jobs'[j].service = jobs[j].service
      BY <2>6 DEF BackfillHash, Row
    <3>3. UniqueKey' BY <3>2
    <3>4. AnswerIsRow' BY <3>1, <3>2
    <3>5. QED BY <3>3, <3>4
  <2>7. CASE ~Api
    <3>1. /\ req' = req
          /\ \A j \in JobId : /\ jobs'[j].key = jobs[j].key
                              /\ jobs'[j].service = jobs[j].service
                              /\ jobs'[j].status # "ABSENT" <=> jobs[j].status # "ABSENT"
      BY <2>7, WorkKeepsKeys
    <3>2. ASSUME NEW i \in JobId, NEW j \in JobId, Exists(i)', Exists(j)',
                 jobs'[i].key # NoKey, jobs'[i].key = jobs'[j].key,
                 jobs'[i].service = jobs'[j].service
          PROVE  i = j
      <4>1. jobs[i].status # "ABSENT" /\ jobs[j].status # "ABSENT"
        BY <3>1, <3>2
      <4>2. /\ jobs[i].key # NoKey /\ jobs[i].key = jobs[j].key
            /\ jobs[i].service = jobs[j].service
        BY <3>1, <3>2
      <4>3. QED BY <4>1, <4>2
    <3>3. UniqueKey' BY <3>2
    <3>4. AnswerIsRow' BY <3>1
    <3>5. QED BY <3>3, <3>4
  <2>8. QED BY <2>1, <2>3, <2>4, <2>5, <2>6, <2>7 DEF Api
<1>3. QED BY <1>1, <1>2, BusyCorrect, PTL DEF Spec

(* Every client that repeats a client_file_id is given the same job, the   *)
(* loser of a concurrent insert included.  Inductive with the unique index *)
(* (UniqueKey) and the fact that an answer names a row of its own key.     *)
THEOREM ReplayAgreementHolds == Spec => []ReplayAgreement
<1>1. UniqueKey /\ AnswerIsRow /\ TypeOK => ReplayAgreement
  BY DEF UniqueKey, AnswerIsRow, ReplayAgreement
<1>2. QED BY <1>1, AnswersAreRows, BusyCorrect, PTL

===============================================================================
