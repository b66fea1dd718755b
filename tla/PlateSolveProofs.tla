--------------------------- MODULE PlateSolveProofs ---------------------------
(***************************************************************************)
(* Proofs about the Plate Solve queue, for any number of files, workers,   *)
(* requests, submissions and faults: first what the queue's rows promise,  *)
(* then what a worker's round trip to the provider promises, whose         *)
(* solution a file carries and which uploads have been paid for.           *)
(***************************************************************************)
EXTENDS PlateSolve, FiniteSetTheorems, TLAPS

(* A worker that is not idle works on a file; an idle one has forgotten    *)
(* everything.                                                             *)
BusyHasFile ==
    \A w \in Worker : IF worker[w].pc = "idle" THEN worker[w] = Idle
                      ELSE worker[w].file \in File

(* A request has made no record before it is done; a record, and a request *)
(* that waits to write, has a file; the record a request deletes was made  *)
(* by one that is done.                                                    *)
Made(q, r) == q[r].pc = "done" /\ q[r].file \in File

RequestOK(q, r) ==
    /\ q[r].pc # "done" => q[r].rec = "ABSENT"
    /\ q[r].pc \in {"creating", "retrying", "deleting"} => q[r].file \in File
    /\ q[r].rec # "ABSENT" => q[r].file \in File
    /\ q[r].pc = "deleting" => Made(q, q[r].target)

UnfinishedHasNoRecord == \A r \in Request : RequestOK(req, r)

Typed == PlateTypeOK /\ BusyHasFile /\ UnfinishedHasNoRecord

(* Lemma: the updates of a row.                                            *)
LEMMA RowUpdates ==
  ASSUME NEW row \in Job, NEW st \in Status, NEW p \in SubId \cup {None},
         NEW l \in {"none", "live", "expired"}
  PROVE  /\ Released(row, st) \in Job
         /\ [row EXCEPT !.lease = l] \in Job
         /\ [row EXCEPT !.pjob = p] \in Job
  <1>1. Released(row, st) \in Job BY DEF Job, Released
  <1>2. [row EXCEPT !.lease = l] \in Job BY DEF Job
  <1>3. [row EXCEPT !.pjob = p] \in Job BY DEF Job
  <1>4. QED BY <1>1, <1>2, <1>3

(* Lemma: a released row.                                                  *)
LEMMA ReleasedRow ==
  ASSUME NEW row \in Job, NEW st \in Status
  PROVE  Released(row, st) \in Job /\ Released(row, st).status = st
  BY DEF Job, Released

(* Lemma: writing the lease or the provider's job keeps every status.      *)
LEMMA StatusKept ==
  ASSUME job \in [File -> Job], NEW f \in File, NEW p, NEW l,
         job' = [job EXCEPT ![f].lease = l] \/ job' = [job EXCEPT ![f].pjob = p]
  PROVE  \A i \in File : job'[i].status = job[i].status
  <1>1. CASE job' = [job EXCEPT ![f].lease = l] BY <1>1 DEF Job
  <1>2. CASE job' = [job EXCEPT ![f].pjob = p] BY <1>2 DEF Job
  <1>3. QED BY <1>1, <1>2

(* Lemma: the states a worker moves to.                                    *)
LEMMA WorkerUpdates ==
  ASSUME NEW x \in WorkerState, NEW pc \in WorkerPhase, NEW s \in SubId \cup {None},
         NEW p \in SubId \cup {None}, NEW f \in File, NEW b \in BOOLEAN
  PROVE  /\ [x EXCEPT !.pc = pc, !.tries = 0] \in WorkerState
         /\ [x EXCEPT !.pc = pc, !.sub = s, !.pjob = p] \in WorkerState
         /\ [x EXCEPT !.pc = pc, !.saved = b] \in WorkerState
         /\ [x EXCEPT !.pc = pc, !.pjob = p] \in WorkerState
         /\ [pc |-> pc, file |-> f, sub |-> s, pjob |-> p, saved |-> b, tries |-> 0]
              \in WorkerState
         /\ x.sub \in SubId \cup {None} /\ x.pjob \in SubId \cup {None}
  <1> DEFINE T == 0..(RetryCount - 1)
  <1>1. 0 \in T BY PlateSolveAssumption
  <1> HIDE DEF T
  <1>2. WorkerState = [pc : WorkerPhase, file : File \cup {NoFile},
                       sub : SubId \cup {None}, pjob : SubId \cup {None},
                       saved : BOOLEAN, tries : T]
    BY DEF WorkerState, T
  <1>3. [x EXCEPT !.pc = pc, !.tries = 0] \in WorkerState BY <1>1, <1>2
  <1>4. [x EXCEPT !.pc = pc, !.sub = s, !.pjob = p] \in WorkerState BY <1>2
  <1>5. [x EXCEPT !.pc = pc, !.saved = b] \in WorkerState BY <1>2
  <1>6. [x EXCEPT !.pc = pc, !.pjob = p] \in WorkerState BY <1>2
  <1>7. [pc |-> pc, file |-> f, sub |-> s, pjob |-> p, saved |-> b, tries |-> 0]
              \in WorkerState
    BY <1>1, <1>2
  <1>8. x.sub \in SubId \cup {None} /\ x.pjob \in SubId \cup {None} BY <1>2
  <1>9. QED BY <1>3, <1>4, <1>5, <1>6, <1>7, <1>8

(* Lemma: a worker moves on.                                               *)
LEMMA WorkerGoes ==
  ASSUME NEW x \in WorkerState, NEW pc \in WorkerPhase
  PROVE  [x EXCEPT !.pc = pc] \in WorkerState
  BY DEF WorkerState

(* Lemma: the idle worker and the repeated upload.                         *)
LEMMA WorkerStates ==
  /\ Idle \in WorkerState
  /\ \A x \in WorkerState : x.tries + 1 < RetryCount =>
        [x EXCEPT !.tries = @ + 1] \in WorkerState
  BY PlateSolveAssumption DEF WorkerState, WorkerPhase, Idle, None

(* Lemma: the names the actions use.                                       *)
LEMMA Names ==
  /\ {"WAITING", "PROCESSING", "COMPLETED", "FAILED"} = Status
  /\ "ABSENT" \notin Status /\ "DELETED" \notin Status
  /\ WorkerPhase = {"idle", "claimed", "loading", "reserving", "uploading",
                    "recording", "polling", "asking", "opened", "solved",
                    "requeueing", "failing"}
  BY DEF Status, Settled, WorkerPhase

(* Lemma: raising moves one worker to one of two places.                   *)
LEMMA RaiseMoves ==
  ASSUME NEW w \in Worker, NEW b \in BOOLEAN, Raise(w, b), Typed,
         worker[w].pc # "idle"
  PROVE  /\ worker' \in [Worker -> WorkerState]
         /\ worker' = [worker EXCEPT ![w].pc = worker'[w].pc]
         /\ worker'[w].pc \in {"requeueing", "failing"}
         /\ BusyHasFile'
  <1>1. worker[w] \in WorkerState BY DEF Typed, PlateTypeOK
  <1>2. PICK pc \in {"requeueing", "failing"} : worker' = [worker EXCEPT ![w].pc = pc]
    BY DEF Raise, Go
  <1>3. [worker[w] EXCEPT !.pc = pc] \in WorkerState
    BY <1>1, WorkerGoes, Names
  <1>4. worker' \in [Worker -> WorkerState]
    BY <1>2, <1>3 DEF Typed, PlateTypeOK
  <1>5. worker'[w].pc = pc
    BY <1>1, <1>2 DEF Typed, PlateTypeOK, WorkerState
  <1>6. BusyHasFile'
    BY <1>1, <1>2, <1>5 DEF Typed, PlateTypeOK, BusyHasFile, WorkerState
  <1>7. QED BY <1>2, <1>4, <1>5, <1>6

(* Lemma: a synchronisation writes the status of the active records and    *)
(* nothing else.                                                           *)
LEMMA SyncWrites ==
  ASSUME NEW q \in [Request -> RequestState], NEW f \in File, NEW st \in Status
  PROVE  /\ Sync(q, f, st) \in [Request -> RequestState]
         /\ \A r \in Request :
              /\ Sync(q, f, st)[r].pc = q[r].pc
              /\ Sync(q, f, st)[r].file = q[r].file
              /\ Sync(q, f, st)[r].target = q[r].target
              /\ r \in ActiveOn(f) => Sync(q, f, st)[r].rec = st
              /\ r \notin ActiveOn(f) => Sync(q, f, st)[r] = q[r]
  <1>1. \A r \in Request : [q[r] EXCEPT !.rec = st] \in RequestState
    BY DEF RequestState
  <1>2. \A r \in Request : Sync(q, f, st)[r] =
            IF r \in ActiveOn(f) THEN [q[r] EXCEPT !.rec = st] ELSE q[r]
    BY DEF Sync
  <1>3. Sync(q, f, st) \in [Request -> RequestState]
    BY <1>1 DEF Sync
  <1>4. \A r \in Request : q[r] \in RequestState OBVIOUS
  <1>5. ASSUME NEW r \in Request
        PROVE  /\ Sync(q, f, st)[r].pc = q[r].pc
               /\ Sync(q, f, st)[r].file = q[r].file
               /\ Sync(q, f, st)[r].target = q[r].target
               /\ r \in ActiveOn(f) => Sync(q, f, st)[r].rec = st
               /\ r \notin ActiveOn(f) => Sync(q, f, st)[r] = q[r]
    BY <1>2, <1>4 DEF RequestState
  <1>6. QED BY <1>3, <1>5

(* Lemma: the synchronisation a transaction makes on the records as they   *)
(* are keeps the requests well formed.                                     *)
LEMMA SyncTyped ==
  ASSUME Typed, NEW f \in File, NEW st \in Status, req' = Sync(req, f, st)
  PROVE  req' \in [Request -> RequestState] /\ UnfinishedHasNoRecord'
  <1>1. req \in [Request -> RequestState] BY DEF Typed, PlateTypeOK
  <1>2. req' \in [Request -> RequestState] BY <1>1, SyncWrites
  <1>3. ASSUME NEW r \in Request PROVE RequestOK(req', r)
    <2>0. req[r].target \in Request BY <1>1 DEF RequestState
    <2>1. /\ req'[r].pc = req[r].pc /\ req'[r].file = req[r].file
          /\ req'[r].target = req[r].target
          /\ Made(req, req[r].target) => Made(req', req'[r].target)
      BY <1>1, <2>0, SyncWrites DEF Made
    <2>2. RequestOK(req, r) BY DEF Typed, UnfinishedHasNoRecord
    <2>3. CASE r \in ActiveOn(f)
      BY <2>1, <2>2, <2>3, Names DEF ActiveOn, Active, RequestOK
    <2>4. CASE r \notin ActiveOn(f)
      <3>1. req'[r] = req[r] BY <1>1, <2>4, SyncWrites
      <3>2. QED BY <2>1, <2>2, <3>1 DEF RequestOK
    <2>5. QED BY <2>3, <2>4
  <1>4. QED BY <1>2, <1>3 DEF UnfinishedHasNoRecord

(* Lemma: a new row is a row.                                              *)
LEMMA WaitingRowTyped == WaitingRow \in Job
  <1> DEFINE n == Cardinality({g \in File : Exists(g)})
  <1>1. n \in Nat
    BY PlateSolveAssumption, FS_Subset, FS_CardinalityType
  <1>2. WaitingRow = [NoRow EXCEPT !.status = "WAITING", !.born = n]
    BY DEF WaitingRow
  <1> HIDE DEF n
  <1>3. NoRow \in Job BY DEF NoRow, Job
  <1>4. QED BY <1>1, <1>2, <1>3, Names DEF Job

(* Lemma: one request changes, the others stay.                            *)
LEMMA OneRequest ==
  ASSUME Typed, NEW r \in Request, NEW x \in RequestState, req' = [req EXCEPT ![r] = x],
         req[r].pc # "done",
         x.pc # "done" => x.rec = "ABSENT",
         x.pc \in {"creating", "retrying", "deleting"} => x.file \in File,
         x.rec # "ABSENT" => x.file \in File,
         x.pc = "deleting" => Made(req, x.target)
  PROVE  req' \in [Request -> RequestState] /\ UnfinishedHasNoRecord'
  <1>1. req \in [Request -> RequestState] BY DEF Typed, PlateTypeOK
  <1>2. req' \in [Request -> RequestState] BY <1>1
  <1>3. \A i \in Request : req[i].target \in Request /\ x.target \in Request
    BY <1>1 DEF RequestState
  <1>4. ASSUME NEW i \in Request PROVE RequestOK(req', i)
    <2>1. RequestOK(req, i) BY DEF Typed, UnfinishedHasNoRecord
    <2>2. \A k \in Request : Made(req, k) => Made(req', k)
      BY <1>1 DEF Made
    <2>3. CASE i = r
      <3>1. req'[i] = x BY <1>1, <2>3
      <3>2. QED BY <1>3, <2>2, <3>1 DEF RequestOK
    <2>4. CASE i # r
      <3>1. req'[i] = req[i] BY <1>1, <2>4
      <3>2. QED BY <1>3, <2>1, <2>2, <3>1 DEF RequestOK
    <2>5. QED BY <2>3, <2>4
  <1>5. QED BY <1>2, <1>4 DEF UnfinishedHasNoRecord

(* Lemma: what the requests do to the types.                               *)
LEMMA RequestStepTyped ==
  ASSUME Typed, NEW r \in Request, RequestStep(r)
  PROVE  Typed'
  <1>0. /\ req[r] \in RequestState /\ job \in [File -> Job]
        /\ req \in [Request -> RequestState]
    BY DEF Typed, PlateTypeOK
  <1>a. /\ Answered(r) \in RequestState /\ Answered(r).pc = "done"
        /\ Answered(r).rec = "ABSENT"
    BY DEF Answered, RequestState, Status
  <1>b. \A f \in File, st \in Status : [job EXCEPT ![f] = Released(@, st)] \in [File -> Job]
    BY <1>0, ZenonT(40) DEF Released, Job
  <1>c. ASSUME UNCHANGED <<worker, present, provider, used, faults>>,
               job' \in [File -> Job], raced' \subseteq File,
               req' \in [Request -> RequestState], UnfinishedHasNoRecord'
        PROVE  Typed'
    BY <1>c DEF Typed, PlateTypeOK, BusyHasFile, provider
  <1>d. ASSUME NEW t \in Request, req[t].pc = "done", req[r].pc # "done",
               req' = [req EXCEPT ![r] = Answered(r), ![t].rec = "DELETED"],
               req[t].file \in File
        PROVE  req' \in [Request -> RequestState] /\ UnfinishedHasNoRecord'
    <2>1. [req[t] EXCEPT !.rec = "DELETED"] \in RequestState BY <1>0 DEF RequestState
    <2>2. req' \in [Request -> RequestState] BY <1>0, <1>a, <1>d, <2>1
    <2>3. \A i \in Request : req[i].target \in Request BY <1>0 DEF RequestState
    <2>5. /\ req'[t] = [req[t] EXCEPT !.rec = "DELETED"] /\ req'[r] = Answered(r)
          /\ \A i \in Request \ {r, t} : req'[i] = req[i]
      BY <1>0, <1>d
    <2>6. req'[t].file = req[t].file /\ req'[t].pc = "done"
      <3>1. ASSUME NEW x \in RequestState
            PROVE  /\ [x EXCEPT !.rec = "DELETED"].file = x.file
                   /\ [x EXCEPT !.rec = "DELETED"].pc = x.pc
        BY DEF RequestState
      <3>2. QED BY <1>0, <1>d, <2>5, <3>1
    <2>4. \A k \in Request : Made(req, k) => Made(req', k)
      BY <1>d, <2>5, <2>6 DEF Made
    <2>7. ASSUME NEW i \in Request PROVE RequestOK(req', i)
      <3>1. RequestOK(req, i) BY DEF Typed, UnfinishedHasNoRecord
      <3>2. CASE i = r BY <1>a, <2>5, <3>2 DEF RequestOK
      <3>3. CASE i = t BY <1>d, <2>6, <3>3 DEF RequestOK
      <3>4. CASE i \notin {r, t} BY <2>3, <2>4, <2>5, <3>1, <3>4 DEF RequestOK
      <3>5. QED BY <3>2, <3>3, <3>4
    <2>8. QED BY <2>2, <2>7 DEF UnfinishedHasNoRecord
  <1>1. ASSUME NEW f \in File, Submit(r, f) PROVE Typed'
    <2>1. job' \in [File -> Job] BY <1>0, <1>1, WaitingRowTyped DEF Submit
    <2>2. req' \in [Request -> RequestState] /\ UnfinishedHasNoRecord'
      BY <1>1, <1>a, OneRequest DEF Submit
    <2>3. QED BY <1>1, <1>c, <2>1, <2>2 DEF Submit, Typed, PlateTypeOK
  <1>2. ASSUME NEW f \in File, CreateBoth(r, f) PROVE Typed'
    <2>1. job' \in [File -> Job] BY <1>0, <1>2, WaitingRowTyped DEF CreateBoth
    <2> DEFINE x == [req[r] EXCEPT !.pc = "done", !.file = f, !.rec = "WAITING"]
    <2>2. x \in RequestState /\ x.pc = "done" /\ x.file = f /\ req[r].pc # "done"
      BY <1>0, <1>2, Names DEF RequestState, CreateBoth
    <2>3. req' = [req EXCEPT ![r] = x] BY <1>2 DEF CreateBoth
    <2> HIDE DEF x
    <2>4. req' \in [Request -> RequestState] /\ UnfinishedHasNoRecord'
      BY <2>2, <2>3, OneRequest
    <2>5. QED BY <1>2, <1>c, <2>1, <2>4 DEF CreateBoth, Typed, PlateTypeOK
  <1>3. ASSUME NEW f \in File, CreateRead(r, f) PROVE Typed'
    <2> DEFINE x == [req[r] EXCEPT !.pc = "creating", !.file = f, !.seen = job[f].status]
    <2>1. job[f].status \in Status
      BY <1>0, <1>3 DEF CreateRead, Exists, Job
    <2>2. x \in RequestState /\ x.pc = "creating" /\ x.file = f /\ x.rec = req[r].rec
      BY <1>0, <2>1 DEF RequestState
    <2>3. req' = [req EXCEPT ![r] = x] /\ req[r].rec = "ABSENT" /\ req[r].pc # "done"
      BY <1>3 DEF CreateRead, Typed, UnfinishedHasNoRecord, RequestOK
    <2> HIDE DEF x
    <2>4. req' \in [Request -> RequestState] /\ UnfinishedHasNoRecord'
      BY <2>2, <2>3, OneRequest
    <2>5. QED BY <1>3, <1>c, <1>0, <2>4 DEF CreateRead, Typed, PlateTypeOK
  <1>4. ASSUME NEW f \in File, RetryRead(r, f) PROVE Typed'
    <2> DEFINE x == [req[r] EXCEPT !.pc = "retrying", !.file = f]
    <2>2. x \in RequestState /\ x.pc = "retrying" /\ x.file = f /\ x.rec = req[r].rec
      BY <1>0 DEF RequestState
    <2>3. req' = [req EXCEPT ![r] = x] /\ req[r].rec = "ABSENT" /\ req[r].pc # "done"
      BY <1>4 DEF RetryRead, Typed, UnfinishedHasNoRecord, RequestOK
    <2> HIDE DEF x
    <2>4. req' \in [Request -> RequestState] /\ UnfinishedHasNoRecord'
      BY <2>2, <2>3, OneRequest
    <2>5. QED BY <1>4, <1>c, <1>0, <2>4 DEF RetryRead, Typed, PlateTypeOK
  <1>5. ASSUME CreateCommit(r) PROVE Typed'
    <2> DEFINE x == [req[r] EXCEPT !.pc = "done", !.rec = req[r].seen, !.seen = "WAITING"]
    <2>1. req[r].file \in File
      BY <1>5 DEF CreateCommit, Typed, UnfinishedHasNoRecord, RequestOK
    <2>2. x \in RequestState /\ x.pc = "done" /\ x.file \in File /\ req[r].pc # "done"
      BY <1>0, <1>5, <2>1, Names DEF RequestState, CreateCommit
    <2>3. req' = [req EXCEPT ![r] = x] BY <1>5 DEF CreateCommit
    <2> HIDE DEF x
    <2>4. req' \in [Request -> RequestState] /\ UnfinishedHasNoRecord'
      BY <2>2, <2>3, OneRequest
    <2>5. raced' \subseteq File
      BY <1>5, <2>1 DEF CreateCommit, Typed, PlateTypeOK
    <2>6. QED BY <1>5, <1>c, <1>0, <2>4, <2>5 DEF CreateCommit
  <1>6. ASSUME RetryWrite(r) PROVE Typed'
    <2> DEFINE f == req[r].file  q == [req EXCEPT ![r] = Answered(r)]
    <2>1. f \in File BY <1>6 DEF RetryWrite, Typed, UnfinishedHasNoRecord, RequestOK
    <2>2. q \in [Request -> RequestState] BY <1>0, <1>a
    <2>3. req' = Sync(q, f, "WAITING") /\ job' = [job EXCEPT ![f] = Released(@, "WAITING")]
      BY <1>6 DEF RetryWrite
    <2>4. r \notin ActiveOn(f)
      BY <1>6, Names DEF RetryWrite, ActiveOn, Active, Typed, UnfinishedHasNoRecord, RequestOK
    <2>5. \A i \in Request \ {r} : q[i] = req[i] BY <1>0
    <2>6. q[r] = Answered(r) BY <1>0
    <2> HIDE DEF q, f
    <2>7. req' \in [Request -> RequestState] BY <2>1, <2>2, <2>3, Names, SyncWrites
    <2>8. ASSUME NEW i \in Request PROVE RequestOK(req', i)
      <3>0. RequestOK(req, i) BY DEF Typed, UnfinishedHasNoRecord
      <3>t. req[i].target \in Request BY <1>0 DEF RequestState
      <3>d. ASSUME NEW k \in Request, Made(req, k) PROVE Made(req', k)
        <4>1. k # r BY <1>6, <3>d DEF RetryWrite, Made
        <4>2. req'[k].pc = q[k].pc /\ req'[k].file = q[k].file
          BY <2>1, <2>2, <2>3, Names, SyncWrites
        <4>3. QED BY <2>5, <3>d, <4>1, <4>2 DEF Made
      <3>1. CASE i = r
        <4>1. req'[i] = Answered(r) BY <2>1, <2>2, <2>3, <2>4, <2>6, <3>1, Names, SyncWrites
        <4>2. QED BY <4>1, <1>a DEF RequestOK
      <3>2. CASE i # r /\ i \notin ActiveOn(f)
        <4>1. req'[i] = req[i] BY <2>1, <2>2, <2>3, <2>5, <3>2, Names, SyncWrites
        <4>2. QED BY <4>1, <3>0, <3>t, <3>d DEF RequestOK
      <3>3. CASE i # r /\ i \in ActiveOn(f)
        <4>1. req'[i].pc = req[i].pc /\ req'[i].file = req[i].file
          BY <2>1, <2>2, <2>3, <2>5, <3>3, Names, SyncWrites
        <4>2. req[i].pc = "done" /\ req[i].file = f
          BY <3>0, <3>3, Names DEF ActiveOn, Active, RequestOK
        <4>3. QED BY <2>1, <4>1, <4>2 DEF RequestOK
      <3>4. QED BY <3>1, <3>2, <3>3
    <2>9. job' \in [File -> Job] BY <1>b, <2>1, <2>3, Names
    <2>10. QED BY <1>6, <1>c, <2>7, <2>8, <2>9
               DEF RetryWrite, UnfinishedHasNoRecord, Typed, PlateTypeOK
  <1>7. ASSUME NEW t \in Request, Delete(r, t) PROVE Typed'
    <2> DEFINE f == req[t].file
               x == [req[r] EXCEPT !.pc = "deleting", !.file = f, !.target = t]
    <2>0. req[t] \in RequestState /\ req[r].pc = "new" /\ req[t].rec \in Status
      BY <1>0, <1>7 DEF Delete, Active
    <2>1. CASE req' = [req EXCEPT ![r] = x] /\ job[f].status = "WAITING"
      <3>2. f \in File BY <2>0, Names DEF Typed, UnfinishedHasNoRecord, RequestOK
      <3>3. x \in RequestState /\ x.pc = "deleting" /\ x.file = f /\ x.rec = req[r].rec
            /\ x.target = t
        BY <1>0, <3>2 DEF RequestState
      <3>4. req[r].rec = "ABSENT" /\ Made(req, t)
        BY <2>0, Names DEF Typed, UnfinishedHasNoRecord, RequestOK, Made
      <3> HIDE DEF x, f
      <3>5. req' \in [Request -> RequestState] /\ UnfinishedHasNoRecord'
        BY <2>0, <2>1, <3>2, <3>3, <3>4, OneRequest
      <3>6. QED BY <1>7, <1>c, <1>0, <3>5 DEF Delete, Typed, PlateTypeOK
    <2>2. CASE req' = [req EXCEPT ![r] = Answered(r), ![t].rec = "DELETED"]
      <3>1. req[t].pc = "done" /\ req[t].file \in File
        BY <2>0, Names DEF Typed, UnfinishedHasNoRecord, RequestOK
      <3>2. req' \in [Request -> RequestState] /\ UnfinishedHasNoRecord'
        BY <1>a, <2>0, <2>2, <3>1, <1>d
      <3>3. QED BY <1>7, <1>c, <1>0, <3>2 DEF Delete, Typed, PlateTypeOK
    <2>3. QED BY <1>7, <2>1, <2>2 DEF Delete
  <1>8. ASSUME DeleteCommit(r) PROVE Typed'
    <2> DEFINE f == req[r].file  t == req[r].target
    <2>0. f \in File /\ t \in Request /\ Made(req, t) /\ req[r].pc # "done"
      BY <1>0, <1>8 DEF DeleteCommit, Typed, UnfinishedHasNoRecord, RequestOK, RequestState
    <2>1. req' = [req EXCEPT ![r] = Answered(r), ![t].rec = "DELETED"] BY <1>8 DEF DeleteCommit
    <2>2. job' \in [File -> Job] BY <1>8, <1>b, <2>0, Names DEF DeleteCommit
    <2>3. raced' \subseteq File BY <1>8, <2>0 DEF DeleteCommit, Typed, PlateTypeOK
    <2>5. req' \in [Request -> RequestState] /\ UnfinishedHasNoRecord'
      BY <2>0, <2>1, <1>d DEF Made
    <2>6. QED BY <1>8, <1>c, <2>2, <2>3, <2>5 DEF DeleteCommit
  <1>9. QED
    BY <1>1, <1>2, <1>3, <1>4, <1>5, <1>6, <1>7, <1>8 DEF RequestStep

(* Lemma: one worker moves on with a file.                                 *)
LEMMA OneWorker ==
  ASSUME Typed, NEW w \in Worker, NEW x \in WorkerState, worker' = [worker EXCEPT ![w] = x],
         x.pc # "idle", x.file \in File
  PROVE  worker' \in [Worker -> WorkerState] /\ BusyHasFile'
  <1>1. worker \in [Worker -> WorkerState] BY DEF Typed, PlateTypeOK
  <1>2. worker' \in [Worker -> WorkerState] BY <1>1
  <1>3. Idle.pc = "idle" BY DEF Idle
  <1>4. ASSUME NEW v \in Worker
        PROVE  IF worker'[v].pc = "idle" THEN worker'[v] = Idle
               ELSE worker'[v].file \in File
    <2>1. CASE v = w BY <1>1, <1>3, <2>1
    <2>2. CASE v # w
      <3>1. worker'[v] = worker[v] BY <1>1, <2>2
      <3>2. QED BY <3>1 DEF Typed, BusyHasFile
    <2>3. QED BY <2>1, <2>2
  <1>5. QED BY <1>2, <1>4 DEF BusyHasFile

(* Lemma: a worker goes idle.                                              *)
LEMMA IdleTyped ==
  ASSUME Typed, NEW w \in Worker, worker' = [worker EXCEPT ![w] = Idle]
  PROVE  worker' \in [Worker -> WorkerState] /\ BusyHasFile'
  <1>1. worker \in [Worker -> WorkerState] BY DEF Typed, PlateTypeOK
  <1>2. worker' \in [Worker -> WorkerState] BY <1>1, WorkerStates
  <1>3. Idle.pc = "idle" BY DEF Idle
  <1>4. ASSUME NEW v \in Worker
        PROVE  IF worker'[v].pc = "idle" THEN worker'[v] = Idle
               ELSE worker'[v].file \in File
    <2>1. CASE v = w BY <1>1, <1>3, <2>1
    <2>2. CASE v # w
      <3>1. worker'[v] = worker[v] BY <1>1, <2>2
      <3>2. QED BY <3>1 DEF Typed, BusyHasFile
    <2>3. QED BY <2>1, <2>2
  <1>5. QED BY <1>2, <1>4 DEF BusyHasFile

(* Lemma: a worker that is not idle goes to another place.                 *)
LEMMA GoTyped ==
  ASSUME Typed, NEW w \in Worker, NEW pc \in WorkerPhase \ {"idle"}, Go(w, pc),
         worker[w].pc # "idle"
  PROVE  worker' \in [Worker -> WorkerState] /\ BusyHasFile'
  <1> DEFINE x == [worker[w] EXCEPT !.pc = pc]
  <1>1. worker[w] \in WorkerState BY DEF Typed, PlateTypeOK
  <1>2. x \in WorkerState /\ x.pc = pc /\ x.file = worker[w].file
    BY <1>1 DEF WorkerState
  <1>3. worker[w].file \in File BY DEF Typed, BusyHasFile
  <1>4. worker' = [worker EXCEPT ![w] = x] BY DEF Go
  <1> HIDE DEF x
  <1>5. QED BY <1>2, <1>3, <1>4, OneWorker

(* Lemma: what a delivered upload does to the provider.                    *)
LEMMA DeliveredTyped ==
  ASSUME Typed, NEW w \in Worker, Delivered(w), worker[w].pc # "idle"
  PROVE  nsubs' \in 0..MaxSubs /\ subs' \in [1..nsubs' -> Submission] /\ nsubs' \in SubId
  <1>1. nsubs \in 0..MaxSubs /\ subs \in [1..nsubs -> Submission] /\ MaxSubs \in Nat
    BY PlateSolveAssumption DEF Typed, PlateTypeOK
  <1>2. nsubs' = nsubs + 1 /\ nsubs' \in 0..MaxSubs /\ nsubs' \in SubId
    BY <1>1 DEF Delivered, SubId
  <1> DEFINE n == [file |-> worker[w].file, whole |-> worker[w].tries = 0,
                   gone |-> FALSE, phase |-> "queued"]
  <1>3. n \in Submission
    BY DEF Typed, BusyHasFile, Submission
  <1>4. subs' = [s \in 1..(nsubs + 1) |-> IF s <= nsubs THEN subs[s] ELSE n]
    BY DEF Delivered
  <1> HIDE DEF n
  <1>5. \A s \in 1..(nsubs + 1) : s <= nsubs => subs[s] \in Submission
    BY <1>1
  <1>6. QED BY <1>2, <1>3, <1>4, <1>5
(* Lemma: what the workers do to the types.                                *)
LEMMA WorkerStepTyped ==
  ASSUME Typed, NEW w \in Worker, WorkerStep(w)
  PROVE  Typed'
  <1> DEFINE f == worker[w].file  x == worker[w]
  <1>0. /\ job \in [File -> Job] /\ x \in WorkerState
        /\ worker \in [Worker -> WorkerState]
        /\ used \in Nat /\ faults \in Nat /\ raced \subseteq File
        /\ nsubs \in 0..MaxSubs /\ subs \in [1..nsubs -> Submission]
        /\ req \in [Request -> RequestState] /\ UnfinishedHasNoRecord
    BY DEF Typed, PlateTypeOK
  <1>x. /\ x.sub \in SubId \cup {None} /\ x.pjob \in SubId \cup {None}
        /\ x.pc # "idle" => f \in File
    BY <1>0 DEF WorkerState, Typed, BusyHasFile
  <1>b. ASSUME NEW g \in File, NEW st \in Status
        PROVE  [job EXCEPT ![g] = Released(@, st)] \in [File -> Job]
    <2>1. Released(job[g], st) \in Job BY <1>0, RowUpdates DEF None
    <2>2. QED BY <1>0, <2>1
  <1>i. ASSUME worker' = [worker EXCEPT ![w] = Idle]
        PROVE  worker' \in [Worker -> WorkerState] /\ BusyHasFile'
    BY <1>i, IdleTyped
  <1>r. ASSUME NEW b \in BOOLEAN, Raise(w, b), x.pc # "idle"
        PROVE  worker' \in [Worker -> WorkerState] /\ BusyHasFile'
    BY <1>r, RaiseMoves
  <1>u. UNCHANGED req => req' \in [Request -> RequestState] /\ UnfinishedHasNoRecord'
    BY <1>0 DEF UnfinishedHasNoRecord
  <1>c. ASSUME job' \in [File -> Job], worker' \in [Worker -> WorkerState], BusyHasFile',
               req' \in [Request -> RequestState], UnfinishedHasNoRecord',
               present' = present, nsubs' \in 0..MaxSubs,
               subs' \in [1..nsubs' -> Submission],
               used' \in Nat, raced' \subseteq File, faults' \in Nat
        PROVE  Typed'
    BY <1>c DEF Typed, PlateTypeOK
  <1>n. ASSUME UNCHANGED provider
        PROVE  nsubs' \in 0..MaxSubs /\ subs' \in [1..nsubs' -> Submission]
    BY <1>0, <1>n DEF provider
  <1>1. ASSUME NEW g \in File, Claim(w, g) PROVE Typed'
    <2> DEFINE fresh == job[g].sub = None /\ job[g].pjob = None
               n == job[g].attempts + (IF fresh THEN 1 ELSE 0)
               y == [pc |-> "claimed", file |-> g, sub |-> job[g].sub,
                     pjob |-> job[g].pjob, saved |-> ~fresh, tries |-> 0]
    <2>1. /\ job[g] \in Job /\ n \in Nat /\ job[g].sub \in SubId \cup {None}
          /\ job[g].pjob \in SubId \cup {None}
      BY <1>0 DEF Job
    <2>2. y \in WorkerState /\ y.pc = "claimed" /\ y.file = g
      <3>1. (~fresh) \in BOOLEAN OBVIOUS
      <3>2. QED BY <1>0, <2>1, <3>1, Names, WorkerUpdates
    <2>3. worker' = [worker EXCEPT ![w] = y] BY <1>1 DEF Claim
    <2>4. job' = [job EXCEPT ![g] = [job[g] EXCEPT !.status = "PROCESSING", !.owner = w,
                                       !.lease = "live", !.attempts = n]]
      BY <1>1 DEF Claim
    <2> HIDE DEF y, n
    <2>5. [job[g] EXCEPT !.status = "PROCESSING", !.owner = w,
                         !.lease = "live", !.attempts = n] \in Job
      BY <2>1, Names DEF Job
    <2>6. job' \in [File -> Job] BY <1>0, <2>4, <2>5
    <2>7. worker' \in [Worker -> WorkerState] /\ BusyHasFile'
      BY <2>2, <2>3, OneWorker
    <2>8. QED BY <1>1, <1>0, <1>c, <1>n, <1>u, <2>6, <2>7 DEF Claim
  <1>2. CASE SyncClaim(w)
    <2>1. x.pc = "claimed" /\ f \in File BY <1>2, <1>x DEF SyncClaim
    <2>2. worker' \in [Worker -> WorkerState] /\ BusyHasFile'
      BY <1>2, <2>1, Names, GoTyped DEF SyncClaim
    <2>3. req' \in [Request -> RequestState] /\ UnfinishedHasNoRecord'
      BY <1>2, <2>1, Names, SyncTyped DEF SyncClaim
    <2>4. raced' \subseteq File BY <1>0, <1>2, <2>1 DEF SyncClaim
    <2>5. QED BY <1>2, <1>0, <1>c, <1>n, <2>2, <2>3, <2>4 DEF SyncClaim
  <1>3. CASE LoadWork(w)
    <2>1. x.pc # "idle" BY <1>3 DEF LoadWork
    <2>2. worker' \in [Worker -> WorkerState] /\ BusyHasFile'
      BY <1>3, <1>r, <2>1, Names, GoTyped DEF LoadWork
    <2>3. QED BY <1>3, <1>0, <1>c, <1>n, <1>u, <2>2 DEF LoadWork
  <1>4. CASE Reserve(w)
    <2> DEFINE y == [x EXCEPT !.pc = "uploading", !.tries = 0]
    <2>1. x.pc # "idle" /\ f \in File BY <1>4, <1>x DEF Reserve
    <2>2. y \in WorkerState BY <1>0, <1>x, <2>1, Names, WorkerUpdates
    <2>3. y.pc = "uploading" /\ y.file = f BY <1>0 DEF WorkerState
    <2>4. CASE used + 1 <= Limit
      <3>1. worker' = [worker EXCEPT ![w] = y]
        BY <1>0, <1>4, <2>4 DEF Reserve
      <3> HIDE DEF y
      <3>2. worker' \in [Worker -> WorkerState] /\ BusyHasFile'
        BY <2>1, <2>2, <2>3, <3>1, OneWorker
      <3>3. used' \in Nat BY <1>0, <1>4, <2>4 DEF Reserve
      <3>4. QED BY <1>4, <1>0, <1>c, <1>n, <1>u, <3>2, <3>3 DEF Reserve
    <2>5. CASE ~(used + 1 <= Limit)
      <3>1. worker' \in [Worker -> WorkerState] /\ BusyHasFile' /\ used' = used
        BY <1>4, <1>r, <2>1, <2>5 DEF Reserve
      <3>2. QED BY <1>4, <1>0, <1>c, <1>n, <1>u, <3>1 DEF Reserve
    <2>6. QED BY <2>4, <2>5
  <1>5. CASE Upload(w)
    <2> DEFINE y == [x EXCEPT !.pc = "recording", !.sub = nsubs', !.pjob = None]
    <2>1. x.pc # "idle" /\ f \in File BY <1>5, <1>x DEF Upload
    <2>2. /\ nsubs' \in 0..MaxSubs /\ subs' \in [1..nsubs' -> Submission]
          /\ nsubs' \in SubId
      BY <1>5, <2>1, DeliveredTyped DEF Upload
    <2>3. y \in WorkerState BY <1>0, <2>1, <2>2, Names, WorkerUpdates
    <2>4. y.pc = "recording" /\ y.file = f BY <1>0 DEF WorkerState
    <2>5. worker' = [worker EXCEPT ![w] = y] BY <1>5 DEF Upload
    <2> HIDE DEF y
    <2>6. worker' \in [Worker -> WorkerState] /\ BusyHasFile'
      BY <2>1, <2>3, <2>4, <2>5, OneWorker
    <2>7. QED BY <1>5, <1>0, <1>c, <1>u, <2>2, <2>6 DEF Upload
  <1>6. CASE UploadError(w)
    <2>1. x.pc # "idle" /\ f \in File BY <1>6, <1>x DEF UploadError
    <2>2. nsubs' \in 0..MaxSubs /\ subs' \in [1..nsubs' -> Submission]
      BY <1>6, <1>n, <2>1, DeliveredTyped DEF UploadError
    <2>3. worker' \in [Worker -> WorkerState] /\ BusyHasFile'
      <3>1. CASE x.tries + 1 < RetryCount
        <4> DEFINE y == [x EXCEPT !.tries = @ + 1]
        <4>1. y \in WorkerState BY <1>0, <3>1, WorkerStates
        <4>2. y.pc = x.pc /\ y.file = f BY <1>0 DEF WorkerState
        <4>3. worker' = [worker EXCEPT ![w] = y] BY <1>0, <1>6, <3>1 DEF UploadError
        <4> HIDE DEF y
        <4>4. QED BY <2>1, <4>1, <4>2, <4>3, OneWorker
      <3>2. CASE ~(x.tries + 1 < RetryCount)
        BY <1>6, <1>r, <2>1, <3>2 DEF UploadError
      <3>3. QED BY <3>1, <3>2
    <2>4. faults' \in Nat BY <1>0, <1>6 DEF UploadError, Fault
    <2>5. QED BY <1>6, <1>0, <1>c, <1>u, <2>2, <2>3, <2>4 DEF UploadError
  <1>a. CASE UploadRefused(w)
    <2>1. x.pc # "idle" /\ f \in File BY <1>a, <1>x DEF UploadRefused
    <2>2. nsubs' \in 0..MaxSubs /\ subs' \in [1..nsubs' -> Submission]
      BY <1>a, <1>n, <2>1, DeliveredTyped DEF UploadRefused
    <2>3. worker' \in [Worker -> WorkerState] /\ BusyHasFile'
      BY <1>a, <1>r, <2>1 DEF UploadRefused
    <2>4. faults' \in Nat BY <1>0, <1>a DEF UploadRefused, Fault
    <2>5. QED BY <1>a, <1>0, <1>c, <1>u, <2>2, <2>3, <2>4 DEF UploadRefused
  <1>7. CASE UploadMissing(w)
    <2>1. worker' \in [Worker -> WorkerState] /\ BusyHasFile'
      BY <1>7, <1>r DEF UploadMissing
    <2>2. QED BY <1>7, <1>0, <1>c, <1>n, <1>u, <2>1 DEF UploadMissing
  <1>8. CASE RecordSubmission(w)
    <2>1. x.pc = "recording" /\ f \in File BY <1>8, <1>x DEF RecordSubmission
    <2>2. CASE Owns(w)
      <3> DEFINE n == job[f].attempts + (IF x.saved THEN 1 ELSE 0)
                 row == [job[f] EXCEPT !.sub = x.sub, !.pjob = None, !.attempts = n]
                 y == [x EXCEPT !.pc = "polling", !.saved = FALSE]
      <3>1. job[f] \in Job /\ n \in Nat BY <1>0, <2>1 DEF Job
      <3>2. job' = [job EXCEPT ![f] = row]
        BY <1>8, <2>2 DEF RecordSubmission
      <3>3. worker' = [worker EXCEPT ![w] = y]
        BY <1>0, <1>8, <2>2 DEF RecordSubmission
      <3> HIDE DEF n
      <3>4. row \in Job BY <1>x, <3>1 DEF Job
      <3>5. y \in WorkerState /\ y.pc = "polling" /\ y.file = f
        BY <1>0, Names DEF WorkerState
      <3> HIDE DEF row, y
      <3>6. job' \in [File -> Job] BY <1>0, <2>1, <3>2, <3>4
      <3>7. worker' \in [Worker -> WorkerState] /\ BusyHasFile'
        BY <2>1, <3>3, <3>5, OneWorker
      <3>8. QED BY <1>8, <1>0, <1>c, <1>n, <1>u, <3>6, <3>7 DEF RecordSubmission
    <2>3. CASE ~Owns(w)
      <3>1. worker' \in [Worker -> WorkerState] /\ BusyHasFile' /\ job' = job
        BY <1>8, <1>r, <2>1, <2>3 DEF RecordSubmission
      <3>2. QED BY <1>8, <1>0, <1>c, <1>n, <1>u, <3>1 DEF RecordSubmission
    <2>4. QED BY <2>2, <2>3
  <1>9. CASE TouchLease(w)
    <2>1. x.pc # "idle" /\ f \in File BY <1>9, <1>x DEF TouchLease
    <2>2. [job[f] EXCEPT !.lease = "live"] \in Job BY <1>0, <1>x, <2>1, Names, RowUpdates
    <2>3. job' \in [File -> Job]
      <3>1. [job EXCEPT ![f].lease = "live"] \in [File -> Job] BY <1>0, <2>2
      <3>2. QED BY <1>9, <1>0, <3>1 DEF TouchLease
    <2>4. worker' \in [Worker -> WorkerState] /\ BusyHasFile'
      BY <1>9, <1>r, <2>1, Names, GoTyped DEF TouchLease
    <2>5. QED BY <1>9, <1>0, <1>c, <1>n, <1>u, <2>3, <2>4 DEF TouchLease
  <1>10. CASE Ask(w)
    <2>1. x.pc # "idle" /\ f \in File BY <1>10, <1>x DEF Ask
    <2> DEFINE y == [x EXCEPT !.pc = "opened", !.pjob = x.sub]
    <2>2. y \in WorkerState /\ y.pc = "opened" /\ y.file = f
      BY <1>0, <1>x, Names DEF WorkerState
    <2>3. \/ Raise(w, FALSE) \/ Go(w, "polling") \/ Go(w, "solved")
          \/ worker' = [worker EXCEPT ![w] = y]
      BY <1>0, <1>10 DEF Ask
    <2> HIDE DEF y
    <2>4. worker' \in [Worker -> WorkerState] /\ BusyHasFile'
      BY <1>r, <2>1, <2>2, <2>3, Names, GoTyped, OneWorker
    <2>5. QED BY <1>10, <1>0, <1>c, <1>n, <1>u, <2>4 DEF Ask
  <1>11. CASE AskMissing(w)
    <2>1. worker' \in [Worker -> WorkerState] /\ BusyHasFile'
      BY <1>11, <1>r, Names, GoTyped DEF AskMissing
    <2>2. QED BY <1>11, <1>0, <1>c, <1>n, <1>u, <2>1 DEF AskMissing
  <1>12. CASE AskError(w)
    <2>1. worker' \in [Worker -> WorkerState] /\ BusyHasFile'
      BY <1>12, <1>r DEF AskError
    <2>2. faults' \in Nat BY <1>0, <1>12 DEF AskError, Fault
    <2>3. QED BY <1>12, <1>0, <1>c, <1>n, <1>u, <2>1, <2>2 DEF AskError
  <1>13. CASE RecordProviderJob(w)
    <2>1. x.pc # "idle" /\ f \in File BY <1>13, <1>x DEF RecordProviderJob
    <2>2. [job[f] EXCEPT !.pjob = x.pjob] \in Job BY <1>0, <1>x, <2>1, Names, RowUpdates
    <2>3. job' \in [File -> Job]
      <3>1. [job EXCEPT ![f].pjob = x.pjob] \in [File -> Job] BY <1>0, <2>2
      <3>2. QED BY <1>13, <1>0, <3>1 DEF RecordProviderJob
    <2>4. worker' \in [Worker -> WorkerState] /\ BusyHasFile'
      BY <1>13, <1>r, <2>1, Names, GoTyped DEF RecordProviderJob
    <2>5. QED BY <1>13, <1>0, <1>c, <1>n, <1>u, <2>3, <2>4 DEF RecordProviderJob
  <1>14. CASE RequeueTransient(w)
    <2>1. f \in File BY <1>14, <1>x DEF RequeueTransient
    <2>2. job' \in [File -> Job]
      BY <1>14, <1>0, <1>b, <2>1, Names DEF RequeueTransient
    <2>3. req' \in [Request -> RequestState] /\ UnfinishedHasNoRecord'
      BY <1>14, <1>u, <2>1, Names, SyncTyped DEF RequeueTransient
    <2>4. QED BY <1>14, <1>0, <1>c, <1>n, <1>i, <2>2, <2>3 DEF RequeueTransient
  <1>15. CASE Fail(w)
    <2>1. f \in File BY <1>15, <1>x DEF Fail
    <2>2. job' \in [File -> Job]
      BY <1>15, <1>0, <1>b, <2>1, Names DEF Fail
    <2>3. req' \in [Request -> RequestState] /\ UnfinishedHasNoRecord'
      BY <1>15, <1>u, <2>1, Names, SyncTyped DEF Fail
    <2>4. QED BY <1>15, <1>0, <1>c, <1>n, <1>i, <2>2, <2>3 DEF Fail
  <1>16. CASE Complete(w)
    <2>1. x.pc # "idle" /\ f \in File BY <1>16, <1>x DEF Complete
    <2> DEFINE row == [Released(job[f], "COMPLETED") EXCEPT !.pjob = x.pjob]
    <2>2. row \in Job
      <3>1. Released(job[f], "COMPLETED") \in Job BY <1>0, <1>x, <2>1, Names, RowUpdates
      <3>2. QED BY <1>x, <3>1, Names, RowUpdates
    <2>3. Owns(w) => job' = [job EXCEPT ![f] = row]
      BY <1>16, <1>0, <2>1 DEF Complete
    <2>4. ~Owns(w) => job' = job BY <1>16 DEF Complete
    <2> HIDE DEF row
    <2>5. job' \in [File -> Job] BY <1>0, <2>1, <2>2, <2>3, <2>4
    <2>6. req' \in [Request -> RequestState] /\ UnfinishedHasNoRecord'
      BY <1>16, <1>u, <2>1, Names, SyncTyped DEF Complete
    <2>7. worker' \in [Worker -> WorkerState] /\ BusyHasFile'
      BY <1>16, <1>i, <1>r, <2>1 DEF Complete
    <2>8. QED BY <1>16, <1>0, <1>c, <1>n, <2>5, <2>6, <2>7 DEF Complete
  <1>17. QED
    BY <1>1, <1>2, <1>3, <1>4, <1>5, <1>6, <1>7, <1>8, <1>9, <1>10, <1>11, <1>12, <1>a,
       <1>13, <1>14, <1>15, <1>16 DEF WorkerStep

(* Lemma: what the environment does to the types.                          *)
LEMMA EnvironmentTyped ==
  ASSUME Typed,
         \/ \E w \in Worker : Crash(w)
         \/ \E f \in File : Cleanup(f) \/ ExpireSlow(f) \/ ExpireDead(f)
         \/ \E s \in 1..nsubs : ProviderStep(s) \/ Purge(s)
  PROVE  Typed'
  <1>0. /\ job \in [File -> Job] /\ worker \in [Worker -> WorkerState]
        /\ faults \in Nat /\ nsubs \in 0..MaxSubs /\ subs \in [1..nsubs -> Submission]
        /\ present \subseteq File
    BY DEF Typed, PlateTypeOK
  <1>1. ASSUME NEW w \in Worker, Crash(w) PROVE Typed'
    <2>2. worker' \in [Worker -> WorkerState] /\ BusyHasFile'
      BY <1>1, IdleTyped DEF Crash
    <2>3. QED
      BY <1>0, <1>1, <2>2
         DEF Crash, Fault, Typed, PlateTypeOK, UnfinishedHasNoRecord, provider
  <1>2. ASSUME NEW f \in File, Cleanup(f) PROVE Typed'
    BY <1>0, <1>2
       DEF Cleanup, Typed, PlateTypeOK, UnfinishedHasNoRecord, BusyHasFile, provider
  <1>3. ASSUME NEW f \in File, ExpireSlow(f) \/ ExpireDead(f) PROVE Typed'
    <2>1. [job[f] EXCEPT !.lease = "expired"] \in Job
      BY <1>0 DEF Job
    <2>2. job' = [job EXCEPT ![f] = [job[f] EXCEPT !.lease = "expired"]]
      BY <1>3 DEF ExpireSlow, ExpireDead
    <2>3. job' \in [File -> Job] BY <1>0, <2>1, <2>2
    <2>4. faults' \in Nat BY <1>0, <1>3 DEF ExpireSlow, ExpireDead, Fault
    <2>5. UNCHANGED <<worker, req, present, subs, nsubs, used, raced>>
      BY <1>3 DEF ExpireSlow, ExpireDead, provider
    <2>6. QED
      BY <1>0, <2>3, <2>4, <2>5
         DEF Typed, PlateTypeOK, UnfinishedHasNoRecord, BusyHasFile
  <1>4. ASSUME NEW s \in 1..nsubs, ProviderStep(s) \/ Purge(s) PROVE Typed'
    <2>1. subs[s] \in Submission BY <1>0
    <2>2. /\ \A p \in {"running", "solved", "failed"} :
                [subs[s] EXCEPT !.phase = p] \in Submission
          /\ [subs[s] EXCEPT !.gone = TRUE] \in Submission
      BY <2>1 DEF Submission
    <2>3. \/ \E p \in {"running", "solved", "failed"} :
                subs' = [subs EXCEPT ![s] = [subs[s] EXCEPT !.phase = p]]
          \/ subs' = [subs EXCEPT ![s] = [subs[s] EXCEPT !.gone = TRUE]]
      BY <1>4 DEF ProviderStep, Open, Solve, Advance, Purge
    <2>4. subs' \in [1..nsubs -> Submission] BY <1>0, <2>2, <2>3
    <2>5. faults' \in Nat
      BY <1>0, <1>4 DEF ProviderStep, Open, Solve, Advance, Purge, Fault
    <2>6. UNCHANGED <<job, worker, req, present, nsubs, used, raced>>
      BY <1>4 DEF ProviderStep, Open, Solve, Advance, Purge
    <2>7. QED
      BY <1>0, <2>4, <2>5, <2>6
         DEF Typed, PlateTypeOK, UnfinishedHasNoRecord, BusyHasFile
  <1>5. QED BY <1>1, <1>2, <1>3, <1>4

(* Lemma: Init and every step keep the types.                              *)
LEMMA TypeInductive ==
    /\ Init => Typed
    /\ Typed /\ [Next]_vars => Typed'
<1>1. ASSUME Init PROVE Typed
  <2>1. NoRow \in Job BY DEF NoRow, Job
  <2>2. \A r \in Request : [Answered(r) EXCEPT !.pc = "new"] \in RequestState
    BY Names DEF Answered, RequestState
  <2>3. PlateTypeOK
    BY <1>1, <2>1, <2>2, WorkerStates, PlateSolveAssumption DEF Init, PlateTypeOK
  <2>4. BusyHasFile BY <1>1 DEF Init, BusyHasFile, Idle
  <2>5. UnfinishedHasNoRecord
    BY <1>1 DEF Init, UnfinishedHasNoRecord, RequestOK, Answered
  <2>6. QED BY <2>3, <2>4, <2>5 DEF Typed
<1>2. ASSUME Typed, [Next]_vars PROVE Typed'
  <2>1. CASE Next
    BY <1>2, <2>1, WorkerStepTyped, RequestStepTyped, EnvironmentTyped DEF Next
  <2>2. CASE UNCHANGED vars
    BY <1>2, <2>2
       DEF vars, Typed, PlateTypeOK, BusyHasFile, UnfinishedHasNoRecord
  <2>3. QED BY <1>2, <2>1, <2>2
<1>3. QED BY <1>1, <1>2

(* Theorem: the queue, the workers, the requests and the provider keep     *)
(* their types; in particular a client never repeats an upload more than   *)
(* RetryCount times.                                                       *)
THEOREM PlateTypeCorrect == Spec => []PlateTypeOK
<1>1. Typed => PlateTypeOK BY DEF Typed
<1>2. QED BY <1>1, TypeInductive, PTL DEF Spec
-----------------------------------------------------------------------------
(* Lemma: a step that keeps the status of every job and every record, and  *)
(* forgets no race, keeps the agreement.                                   *)
LEMMA FollowFrame ==
  ASSUME RecordsFollowJob, raced \subseteq raced',
         \A f \in File : job'[f].status = job[f].status \/ job'[f].status = "PROCESSING",
         \A r \in Request : \/ req'[r].rec = req[r].rec /\ req'[r].file = req[r].file
                            \/ req'[r].rec \notin Status
  PROVE  RecordsFollowJob'
  BY DEF RecordsFollowJob, ActiveOn, Active

(* Lemma: a transaction that writes a status to a job and its active       *)
(* records keeps the agreement.                                            *)
LEMMA FollowWrite ==
  ASSUME RecordsFollowJob, raced' = raced, NEW f \in File, NEW st \in Status,
         job'[f].status = st, \A g \in File \ {f} : job'[g] = job[g],
         \A r \in Request : r \in ActiveOn(f) =>
             req'[r].rec = st /\ req'[r].file = req[r].file,
         \A r \in Request : r \notin ActiveOn(f) =>
             req'[r] = req[r] \/ req'[r].rec \notin Status
  PROVE  RecordsFollowJob'
  <1>1. ASSUME NEW g \in File, g \notin raced', job'[g].status # "PROCESSING",
               NEW r \in Request, req'[r].rec \in Status, req'[r].file = g
        PROVE  req'[r].rec = job'[g].status
    <2>1. CASE r \in ActiveOn(f)
      <3>1. g = f BY <1>1, <2>1 DEF ActiveOn
      <3>2. QED BY <2>1, <3>1
    <2>2. CASE r \notin ActiveOn(f)
      <3>1. req'[r] = req[r] BY <1>1, <2>2
      <3>2. g # f BY <1>1, <2>2, <3>1 DEF ActiveOn, Active
      <3>3. QED BY <1>1, <3>1, <3>2 DEF RecordsFollowJob, ActiveOn, Active
    <2>3. QED BY <2>1, <2>2
  <1>2. QED BY <1>1 DEF RecordsFollowJob, ActiveOn, Active

(* Lemma: a deleted record is not active.                                  *)
LEMMA DeletedStatus ==
  ASSUME NEW z \in RequestState
  PROVE  [z EXCEPT !.rec = "DELETED"].rec \notin Status
  BY Names DEF RequestState

(* Lemma: every step keeps the agreement.                                  *)
LEMMA FollowInductive ==
  ASSUME Typed, Typed', RecordsFollowJob, [Next]_vars
  PROVE  RecordsFollowJob'
  <1>0. /\ job \in [File -> Job] /\ req \in [Request -> RequestState]
        /\ worker \in [Worker -> WorkerState]
    BY DEF Typed, PlateTypeOK
  <1>a. \A f \in File : job[f] \in Job BY <1>0
  <1>u. ASSUME UNCHANGED req, raced' = raced,
               \A f \in File : job'[f].status = job[f].status
                               \/ job'[f].status = "PROCESSING"
        PROVE  RecordsFollowJob'
    BY <1>u, FollowFrame
  <1>x. \A w \in Worker : worker[w].pc # "idle" => worker[w].file \in File
    BY DEF Typed, BusyHasFile
  <1>1. ASSUME NEW w \in Worker, WorkerStep(w) PROVE RecordsFollowJob'
    <2> DEFINE f == worker[w].file
    <2>r. ASSUME NEW st \in Status, NEW row \in Job, row.status = st, f \in File,
                 raced' = raced, job' = [job EXCEPT ![f] = row], req' = Sync(req, f, st)
          PROVE  RecordsFollowJob'
      <3> HIDE DEF f
      <3>1. job'[f].status = st /\ \A g \in File \ {f} : job'[g] = job[g]
        BY <1>0, <2>r
      <3>2. \A r \in Request :
               /\ r \in ActiveOn(f) => req'[r].rec = st /\ req'[r].file = req[r].file
               /\ r \notin ActiveOn(f) => req'[r] = req[r]
        BY <1>0, <2>r, SyncWrites
      <3>3. QED BY <2>r, <3>1, <3>2, FollowWrite
    <2>s. ASSUME NEW g \in File, NEW st \in Status
          PROVE  Released(job[g], st) \in Job /\ Released(job[g], st).status = st
      <3>1. job[g] \in Job BY <1>a
      <3>2. QED BY <3>1, ReleasedRow
    <2>1. ASSUME NEW g \in File, Claim(w, g) PROVE RecordsFollowJob'
      <3>1. \A i \in File : job'[i].status \in {job[i].status, "PROCESSING"}
        BY <1>0, <1>a, <2>1 DEF Claim, Job
      <3>2. QED BY <1>u, <2>1, <3>1 DEF Claim
    <2>2. CASE SyncClaim(w)
      <3>1. f \in File /\ req' = Sync(req, f, "PROCESSING") /\ job' = job
        BY <1>x, <2>2 DEF SyncClaim
      <3>2. raced' = (IF job[f].status = "PROCESSING" \/ ActiveOn(f) = {}
                      THEN raced ELSE raced \cup {f})
        BY <2>2 DEF SyncClaim
      <3>3. \A r \in Request :
               /\ req'[r].file = req[r].file
               /\ r \notin ActiveOn(f) => req'[r] = req[r]
        BY <1>0, <3>1, Names, SyncWrites
      <3>4. ASSUME NEW g \in File, g \notin raced', job'[g].status # "PROCESSING",
                   NEW r \in Request, req'[r].rec \in Status, req'[r].file = g
            PROVE  req'[r].rec = job'[g].status
        <4>1. CASE r \in ActiveOn(f)
          <5>1. g = f BY <3>3, <3>4, <4>1 DEF ActiveOn
          <5>2. QED BY <3>1, <3>2, <3>4, <4>1, <5>1
        <4>2. CASE r \notin ActiveOn(f)
          <5>1. req'[r] = req[r] /\ g \notin raced BY <3>2, <3>3, <3>4, <4>2
          <5>2. QED BY <3>1, <3>4, <5>1 DEF RecordsFollowJob, ActiveOn, Active
        <4>3. QED BY <4>1, <4>2
      <3>5. QED BY <3>4 DEF RecordsFollowJob, ActiveOn, Active
    <2>3. CASE LoadWork(w) \/ Reserve(w) \/ Upload(w) \/ UploadError(w)
               \/ UploadRefused(w) \/ UploadMissing(w)
               \/ Ask(w) \/ AskMissing(w) \/ AskError(w)
      <3>1. UNCHANGED <<job, req, raced>>
        BY <2>3 DEF LoadWork, Reserve, Upload, UploadError, UploadRefused, UploadMissing, Ask,
                    AskMissing, AskError
      <3>2. QED BY <1>u, <3>1
    <2>4. CASE RecordSubmission(w)
      <3>1. f \in File BY <1>x, <2>4 DEF RecordSubmission
      <3>2. \A i \in File : job'[i].status = job[i].status
        <4> DEFINE n == job[f].attempts + (IF worker[w].saved THEN 1 ELSE 0)
        <4>1. \/ job' = job
              \/ job' = [job EXCEPT ![f] = [job[f] EXCEPT !.sub = worker[w].sub,
                                                          !.pjob = None, !.attempts = n]]
          BY <2>4 DEF RecordSubmission
        <4>2. ASSUME NEW z \in Job, NEW a, NEW b, NEW c
              PROVE  [z EXCEPT !.sub = a, !.pjob = b, !.attempts = c].status = z.status
          BY DEF Job
        <4>3. job[f] \in Job BY <1>a, <3>1
        <4>4. [job[f] EXCEPT !.sub = worker[w].sub, !.pjob = None, !.attempts = n].status
                = job[f].status
          BY <4>2, <4>3
        <4> HIDE DEF n, f
        <4>5. QED BY <1>0, <3>1, <4>1, <4>4
      <3>3. QED BY <1>u, <2>4, <3>2 DEF RecordSubmission
    <2>5. CASE TouchLease(w)
      <3>1. f \in File BY <1>x, <2>5 DEF TouchLease
      <3>2. \A i \in File : job'[i].status = job[i].status
        BY <1>0, <2>5, <3>1, StatusKept DEF TouchLease
      <3>3. QED BY <1>u, <2>5, <3>2 DEF TouchLease
    <2>6. CASE RecordProviderJob(w)
      <3>1. f \in File BY <1>x, <2>6 DEF RecordProviderJob
      <3>2. \A i \in File : job'[i].status = job[i].status
        BY <1>0, <2>6, <3>1, StatusKept DEF RecordProviderJob
      <3>3. QED BY <1>u, <2>6, <3>2 DEF RecordProviderJob
    <2>7. CASE RequeueTransient(w)
      <3>1. f \in File /\ raced' = raced BY <1>x, <2>7 DEF RequeueTransient
      <3>2. CASE Owns(w)
        BY <2>7, <2>r, <2>s, <3>1, <3>2, Names DEF RequeueTransient
      <3>3. CASE ~Owns(w) BY <1>u, <2>7, <3>1, <3>3 DEF RequeueTransient
      <3>4. QED BY <3>2, <3>3
    <2>8. CASE Fail(w)
      <3>1. f \in File /\ raced' = raced BY <1>x, <2>8 DEF Fail
      <3>2. CASE Owns(w) BY <2>8, <2>r, <2>s, <3>1, <3>2, Names DEF Fail
      <3>3. CASE ~Owns(w) BY <1>u, <2>8, <3>1, <3>3 DEF Fail
      <3>4. QED BY <3>2, <3>3
    <2>9. CASE Complete(w)
      <3>1. f \in File /\ raced' = raced BY <1>x, <2>9 DEF Complete
      <3>2. CASE Owns(w)
        <4> DEFINE rel == Released(job[f], "COMPLETED")
                   row == [rel EXCEPT !.pjob = worker[w].pjob]
        <4>1. rel \in Job /\ rel.status = "COMPLETED" BY <2>s, <3>1, Names
        <4>2. worker[w].pjob \in SubId \cup {None} BY <1>0 DEF WorkerState
        <4>3. job' = [job EXCEPT ![f] = row] /\ req' = Sync(req, f, "COMPLETED")
          BY <2>9, <3>2 DEF Complete
        <4> HIDE DEF rel
        <4>4. row \in Job /\ row.status = "COMPLETED" BY <4>1, <4>2 DEF Job
        <4> HIDE DEF row
        <4>5. QED BY <2>r, <3>1, <4>3, <4>4, Names
      <3>3. CASE ~Owns(w) BY <1>u, <2>9, <3>1, <3>3 DEF Complete
      <3>4. QED BY <3>2, <3>3
    <2>10. QED
      BY <1>1, <2>1, <2>2, <2>3, <2>4, <2>5, <2>6, <2>7, <2>8, <2>9 DEF WorkerStep
  <1>2. ASSUME NEW r \in Request, RequestStep(r) PROVE RecordsFollowJob'
    <2>f. ASSUME raced \subseteq raced', job' = job,
                 \A i \in Request : \/ req'[i].rec = req[i].rec /\ req'[i].file = req[i].file
                                    \/ req'[i].rec \notin Status
          PROVE  RecordsFollowJob'
      BY <2>f, FollowFrame
    <2>a. Answered(r).rec = "ABSENT" /\ Answered(r).rec \notin Status
      BY Names DEF Answered
    <2>n. req[r].pc # "done" => req[r].rec = "ABSENT"
      BY DEF Typed, UnfinishedHasNoRecord, RequestOK
    <2>w. ASSUME NEW f \in File, ~Exists(f), f \notin raced
          PROVE  ActiveOn(f) = {}
      BY <2>w, Names DEF Exists, RecordsFollowJob, ActiveOn, Active
    <2>v. WaitingRow.status = "WAITING" BY DEF WaitingRow, NoRow
    <2>1. ASSUME NEW f \in File, Submit(r, f) PROVE RecordsFollowJob'
      <3>1. raced' = raced /\ req[r].pc = "new" /\ req' = [req EXCEPT ![r] = Answered(r)]
        BY <2>1 DEF Submit
      <3>2. \A i \in Request : req'[i] = req[i] \/ req'[i].rec \notin Status
        BY <1>0, <2>a, <3>1
      <3>3. \A g \in File : job'[g] = job[g] \/ (g = f /\ ~Exists(f))
        <4>1. CASE Exists(f) BY <2>1, <4>1 DEF Submit
        <4>2. CASE ~Exists(f)
          <5>1. job' = [job EXCEPT ![f] = WaitingRow] BY <2>1, <4>2 DEF Submit
          <5>2. QED BY <1>0, <4>2, <5>1
        <4>3. QED BY <4>1, <4>2
      <3>4. QED BY <2>w, <3>1, <3>2, <3>3 DEF RecordsFollowJob, ActiveOn, Active
    <2>2. ASSUME NEW f \in File, CreateBoth(r, f) PROVE RecordsFollowJob'
      <3>1. /\ raced' = raced /\ ~Exists(f) /\ job' = [job EXCEPT ![f] = WaitingRow]
            /\ req' = [req EXCEPT ![r] = [req[r] EXCEPT !.pc = "done", !.file = f,
                                                        !.rec = "WAITING"]]
        BY <2>2 DEF CreateBoth
      <3>2. job'[f].status = "WAITING" /\ \A g \in File \ {f} : job'[g] = job[g]
        BY <1>0, <2>v, <3>1
      <3>3. /\ req'[r].file = f /\ req'[r].rec = "WAITING"
            /\ \A i \in Request \ {r} : req'[i] = req[i]
        <4>1. ASSUME NEW z \in RequestState
              PROVE  LET y == [z EXCEPT !.pc = "done", !.file = f, !.rec = "WAITING"]
                     IN  y.file = f /\ y.rec = "WAITING"
          BY DEF RequestState
        <4>2. QED BY <1>0, <3>1, <4>1
      <3>4. QED BY <2>w, <3>1, <3>2, <3>3 DEF RecordsFollowJob, ActiveOn, Active
    <2>3. ASSUME NEW f \in File, CreateRead(r, f) \/ RetryRead(r, f) PROVE RecordsFollowJob'
      <3>1. /\ job' = job /\ raced' = raced /\ req[r].pc = "new"
            /\ \/ req' = [req EXCEPT ![r] = [req[r] EXCEPT !.pc = "creating", !.file = f,
                                                           !.seen = job[f].status]]
               \/ req' = [req EXCEPT ![r] = [req[r] EXCEPT !.pc = "retrying", !.file = f]]
        BY <2>3 DEF CreateRead, RetryRead
      <3>2. ASSUME NEW z \in RequestState, NEW st
            PROVE  /\ [z EXCEPT !.pc = "creating", !.file = f, !.seen = st].rec = z.rec
                   /\ [z EXCEPT !.pc = "retrying", !.file = f].rec = z.rec
        BY DEF RequestState
      <3>a. req[r] \in RequestState BY <1>0
      <3>b. /\ [req[r] EXCEPT !.pc = "creating", !.file = f, !.seen = job[f].status].rec
                  = req[r].rec
            /\ [req[r] EXCEPT !.pc = "retrying", !.file = f].rec = req[r].rec
        BY <3>a, <3>2
      <3>3. req'[r].rec = req[r].rec /\ \A i \in Request \ {r} : req'[i] = req[i]
        BY <1>0, <3>1, <3>b
      <3>4. req'[r].rec \notin Status BY <2>n, <3>1, <3>3, Names
      <3>5. QED BY <2>f, <3>1, <3>3, <3>4
    <2>4. CASE CreateCommit(r)
      <3> DEFINE f == req[r].file
      <3>1. /\ job' = job /\ req[r].pc = "creating"
            /\ raced' = (IF job[f].status = req[r].seen THEN raced ELSE raced \cup {f})
            /\ req' = [req EXCEPT ![r] = [req[r] EXCEPT !.pc = "done", !.rec = req[r].seen,
                                                        !.seen = "WAITING"]]
        BY <2>4 DEF CreateCommit
      <3>2. ASSUME NEW z \in RequestState
            PROVE  LET y == [z EXCEPT !.pc = "done", !.rec = z.seen, !.seen = "WAITING"]
                   IN  y.rec = z.seen /\ y.file = z.file
        BY DEF RequestState
      <3>3. /\ req'[r].rec = req[r].seen /\ req'[r].file = f
            /\ \A i \in Request \ {r} : req'[i] = req[i]
        BY <1>0, <3>1, <3>2
      <3>4. QED BY <3>1, <3>3 DEF RecordsFollowJob, ActiveOn, Active
    <2>5. CASE RetryWrite(r)
      <3> DEFINE f == req[r].file  q == [req EXCEPT ![r] = Answered(r)]
                 row == Released(job[f], "WAITING")
      <3>1. f \in File /\ req[r].rec = "ABSENT"
        BY <2>5, <2>n DEF RetryWrite, Typed, UnfinishedHasNoRecord, RequestOK
      <3>2. /\ raced' = raced /\ job' = [job EXCEPT ![f] = row]
            /\ req' = Sync(q, f, "WAITING")
        BY <2>5 DEF RetryWrite
      <3>3. row \in Job /\ row.status = "WAITING"
        BY <1>a, <3>1, Names, ReleasedRow
      <3>4. q \in [Request -> RequestState]
        <4>1. Answered(r) \in RequestState BY Names DEF Answered, RequestState
        <4>2. QED BY <1>0, <4>1
      <3>5. \A i \in Request : q[i] = req[i] \/ (q[i].rec = "ABSENT" /\ req[i].rec = "ABSENT")
        <4>1. q[r] = Answered(r) /\ \A i \in Request \ {r} : q[i] = req[i] BY <1>0
        <4> HIDE DEF q
        <4>2. QED BY <2>a, <3>1, <4>1
      <3> HIDE DEF q, row, f
      <3>6. job'[f].status = "WAITING" /\ \A g \in File \ {f} : job'[g] = job[g]
        BY <1>0, <3>1, <3>2, <3>3
      <3>7. \A i \in Request :
               /\ req'[i].file = q[i].file
               /\ i \in ActiveOn(f) => req'[i].rec = "WAITING"
               /\ i \notin ActiveOn(f) => req'[i] = q[i]
        BY <3>1, <3>2, <3>4, Names, SyncWrites
      <3>8. \A i \in Request : i \in ActiveOn(f) => q[i] = req[i]
        BY <3>5, Names DEF ActiveOn, Active
      <3>9. \A i \in Request : i \notin ActiveOn(f) =>
               req'[i] = req[i] \/ req'[i].rec \notin Status
        BY <3>5, <3>7, Names
      <3>10. QED BY <3>1, <3>2, <3>6, <3>7, <3>8, <3>9, Names, FollowWrite
    <2>6. ASSUME NEW t \in Request, Delete(r, t) PROVE RecordsFollowJob'
      <3> DEFINE x == [req[r] EXCEPT !.pc = "deleting", !.file = req[t].file, !.target = t]
      <3>1. /\ job' = job /\ raced' = raced /\ req[r].pc = "new"
            /\ \/ req' = [req EXCEPT ![r] = x]
               \/ req' = [req EXCEPT ![r] = Answered(r), ![t].rec = "DELETED"]
        BY <2>6 DEF Delete
      <3>2. CASE req' = [req EXCEPT ![r] = x]
        <4>1. x.rec = req[r].rec BY <1>0 DEF RequestState
        <4> HIDE DEF x
        <4>2. req'[r].rec \notin Status /\ \A i \in Request \ {r} : req'[i] = req[i]
          BY <1>0, <2>n, <3>1, <3>2, <4>1, Names
        <4>3. QED BY <2>f, <3>1, <4>2
      <3>3. CASE req' = [req EXCEPT ![r] = Answered(r), ![t].rec = "DELETED"]
        <4>1. \A i \in Request : req'[i] = req[i] \/ req'[i].rec \notin Status
          BY <1>0, <2>a, <3>3, Names, DeletedStatus
        <4>2. QED BY <2>f, <3>1, <4>1
      <3>4. QED BY <3>1, <3>2, <3>3
    <2>7. CASE DeleteCommit(r)
      <3> DEFINE f == req[r].file  t == req[r].target
      <3>1. /\ raced' = (IF ActiveOn(f) = {t} THEN raced ELSE raced \cup {f})
            /\ job' = [job EXCEPT ![f] = Released(@, "FAILED")]
            /\ req' = [req EXCEPT ![r] = Answered(r), ![t].rec = "DELETED"]
        BY <2>7 DEF DeleteCommit
      <3>2. f \in File /\ t \in Request
        BY <1>0, <2>7 DEF DeleteCommit, Typed, UnfinishedHasNoRecord, RequestOK, RequestState
      <3>3. \A i \in Request : \/ req'[i] = req[i] /\ i # t
                               \/ req'[i].rec \notin Status
        BY <1>0, <2>a, <3>1, <3>2, Names, DeletedStatus
      <3>4. \A g \in File \ {f} : job'[g] = job[g] BY <1>0, <3>1
      <3> HIDE DEF f, t
      <3>5. ASSUME NEW g \in File, g \notin raced', job'[g].status # "PROCESSING",
                   NEW i \in Request, req'[i].rec \in Status, req'[i].file = g
            PROVE  req'[i].rec = job'[g].status
        <4>1. req'[i] = req[i] /\ i # t BY <3>3, <3>5
        <4>2. i \in ActiveOn(g) BY <3>5, <4>1 DEF ActiveOn, Active
        <4>3. g # f /\ g \notin raced BY <3>1, <3>5, <4>1, <4>2
        <4>4. QED BY <3>4, <3>5, <4>1, <4>2, <4>3 DEF RecordsFollowJob
      <3>6. QED BY <3>5 DEF RecordsFollowJob, ActiveOn, Active
    <2>8. QED
      BY <1>2, <2>1, <2>2, <2>3, <2>4, <2>5, <2>6, <2>7 DEF RequestStep
  <1>3. CASE \/ \E w \in Worker : Crash(w)
             \/ \E f \in File : Cleanup(f)
             \/ \E s \in 1..nsubs : ProviderStep(s) \/ Purge(s)
             \/ UNCHANGED vars
    <2>1. UNCHANGED <<job, req, raced>>
      BY <1>3 DEF Crash, Cleanup, ProviderStep, Open, Solve, Advance, Purge, vars
    <2>2. QED BY <1>u, <2>1
  <1>4. ASSUME NEW f \in File, ExpireSlow(f) \/ ExpireDead(f) PROVE RecordsFollowJob'
    <2>1. \A i \in File : job'[i].status = job[i].status
      BY <1>0, <1>4, StatusKept DEF ExpireSlow, ExpireDead
    <2>2. QED BY <1>u, <1>4, <2>1 DEF ExpireSlow, ExpireDead
  <1>5. QED BY <1>1, <1>2, <1>3, <1>4 DEF Next

(* Theorem: the records of a file show the status of its job whenever the  *)
(* job is not being processed, but for the three windows that are recorded *)
(* in raced; no crash, lost lease, replacement, retry or deletion opens    *)
(* another one.                                                            *)
THEOREM RecordsFollowJobHolds == Spec => []RecordsFollowJob
<1>1. Init => RecordsFollowJob
  BY Names DEF Init, RecordsFollowJob, ActiveOn, Active, Answered
<1>2. Typed /\ RecordsFollowJob /\ [Next]_vars => RecordsFollowJob'
  BY TypeInductive, FollowInductive
<1>3. QED BY <1>1, <1>2, TypeInductive, PTL DEF Spec


(***************************************************************************)
(* What the ids of the provider mean.                                      *)
(***************************************************************************)

(* Submission s was uploaded from file f.                                  *)
FromFile(s, f) == s \in 1..nsubs /\ subs[s].file = f

(* The provider's job p ended with a solution.                             *)
SolvedBy(p) == p \in 1..nsubs /\ subs[p].phase = "solved"

(* A pair of ids as a row or a worker keeps it: a submission of the file   *)
(* and the job the provider opened for it, or neither.                     *)
IdsOf(f, x) == /\ x.sub # None => FromFile(x.sub, f)
               /\ x.pjob \in {None, x.sub}

(* What a row says.                                                        *)
RowOK(f) == /\ IdsOf(f, job[f])
            /\ job[f].status = "COMPLETED" => SolvedBy(job[f].pjob)

(* What a worker knows: it asks about a submission it has, it found saved  *)
(* work where saved says so, and solved is what the provider answered.     *)
WorkerOK(x) ==
    /\ IdsOf(x.file, x)
    /\ x.saved => x.sub # None
    /\ x.pc \in {"claimed", "loading"} /\ ~x.saved => x.sub = None
    /\ x.pc \in {"recording", "polling", "asking", "opened", "solved"} => x.sub # None
    /\ x.pc = "solved" => SolvedBy(x.pjob)

(* The row still names the submission its owner works with; what the owner *)
(* uploads replaces nothing the provider still has.                        *)
Agrees(w) ==
    LET s == job[worker[w].file].sub
    IN  Owns(w) =>
          /\ worker[w].pc \in {"claimed", "loading", "polling", "asking", "opened", "solved"}
               => s = worker[w].sub
          /\ worker[w].pc \in {"reserving", "uploading"} /\ s # None => subs[s].gone

OwnWork ==
    /\ \A s \in 1..nsubs : subs[s].phase = "solved" => subs[s].whole
    /\ \A f \in File : RowOK(f)
    /\ \A w \in Worker : worker[w].pc # "idle" => WorkerOK(worker[w]) /\ Agrees(w)

(* The uploads that are still covered by a reservation: worker w may send  *)
(* attempt i.                                                              *)
Pending == {p \in Worker \X (0..(RetryCount - 1)) :
               worker[p[1]].pc = "uploading" /\ worker[p[1]].tries <= p[2]}

(* Every submission and every upload to come has its unit.                 *)
Covered == /\ IsFiniteSet(Pending)
           /\ nsubs + Cardinality(Pending) <= RetryCount * used
           /\ used <= Limit


-----------------------------------------------------------------------------
(* What the provider knows only grows: a submission keeps its file, stays  *)
(* gone and stays solved.                                                  *)
Grown ==
    /\ nsubs \in Nat /\ nsubs' \in Nat /\ nsubs <= nsubs'
    /\ \A s \in 1..nsubs :
          /\ subs'[s].file = subs[s].file
          /\ subs[s].gone => subs'[s].gone
          /\ subs[s].phase = "solved" => subs'[s].phase = "solved"

(* Lemma: an upload that reaches the provider is a new submission of the   *)
(* worker's file; the others stay.                                         *)
LEMMA DeliveredAdds ==
  ASSUME Typed, NEW w \in Worker, Delivered(w)
  PROVE  /\ Grown /\ nsubs' = nsubs + 1
         /\ \A s \in 1..nsubs : subs'[s] = subs[s]
         /\ subs'[nsubs'].file = worker[w].file /\ subs'[nsubs'].phase = "queued"
<1>1. nsubs \in Nat BY PlateSolveAssumption DEF Typed, PlateTypeOK
<1> DEFINE n == [file |-> worker[w].file, whole |-> worker[w].tries = 0,
                 gone |-> FALSE, phase |-> "queued"]
<1>2. /\ nsubs' = nsubs + 1
      /\ subs' = [s \in 1..(nsubs + 1) |-> IF s <= nsubs THEN subs[s] ELSE n]
  BY DEF Delivered
<1>3. n.file = worker[w].file /\ n.phase = "queued" OBVIOUS
<1> HIDE DEF n
<1>4. /\ \A s \in 1..nsubs : subs'[s] = subs[s]
      /\ subs'[nsubs'] = n
  BY <1>1, <1>2
<1>5. QED BY <1>1, <1>2, <1>3, <1>4 DEF Grown

(* Lemma: the provider's own steps.                                        *)
LEMMA ProviderChanges ==
  ASSUME Typed, NEW s \in 1..nsubs, ProviderStep(s) \/ Purge(s)
  PROVE  /\ Grown /\ UNCHANGED <<job, worker, req, present, nsubs, used>>
         /\ \A t \in 1..nsubs : /\ subs'[t].whole = subs[t].whole
                                /\ subs'[t].phase = "solved" =>
                                      subs[t].phase = "solved" \/ subs[t].whole
<1>0. /\ nsubs \in Nat /\ subs \in [1..nsubs -> Submission] /\ subs[s] \in Submission
  BY PlateSolveAssumption DEF Typed, PlateTypeOK
<1>1. UNCHANGED <<job, worker, req, present, nsubs, used>>
  BY DEF ProviderStep, Open, Solve, Advance, Purge
<1>2. \/ /\ subs[s].phase \in {"queued", "running"}
         /\ \E p \in {"running", "failed", "solved"} :
               /\ subs' = [subs EXCEPT ![s] = [subs[s] EXCEPT !.phase = p]]
               /\ p = "solved" => subs[s].whole
      \/ subs' = [subs EXCEPT ![s] = [subs[s] EXCEPT !.gone = TRUE]]
  BY DEF ProviderStep, Open, Solve, Advance, Purge
<1>3. ASSUME NEW x \in Submission, NEW p
      PROVE  LET y == [x EXCEPT !.phase = p]
                 z == [x EXCEPT !.gone = TRUE]
             IN  /\ y.file = x.file /\ y.gone = x.gone /\ y.whole = x.whole /\ y.phase = p
                 /\ z.file = x.file /\ z.gone /\ z.whole = x.whole /\ z.phase = x.phase
  BY DEF Submission
<1>4. \A t \in 1..nsubs : t # s => subs'[t] = subs[t] BY <1>0, <1>2
<1>5. /\ subs'[s].file = subs[s].file /\ subs'[s].whole = subs[s].whole
      /\ subs[s].gone => subs'[s].gone
      /\ subs[s].phase = "solved" => subs'[s].phase = "solved"
      /\ subs'[s].phase = "solved" => subs[s].phase = "solved" \/ subs[s].whole
  <2>1. CASE subs' = [subs EXCEPT ![s] = [subs[s] EXCEPT !.gone = TRUE]]
    <3>1. subs'[s] = [subs[s] EXCEPT !.gone = TRUE] BY <1>0, <2>1
    <3>2. QED BY <1>0, <1>3, <3>1
  <2>2. ASSUME subs[s].phase \in {"queued", "running"}, NEW p \in {"running", "failed", "solved"},
               subs' = [subs EXCEPT ![s] = [subs[s] EXCEPT !.phase = p]],
               p = "solved" => subs[s].whole
        PROVE  /\ subs'[s].file = subs[s].file /\ subs'[s].whole = subs[s].whole
               /\ subs[s].gone => subs'[s].gone
               /\ subs[s].phase # "solved"
               /\ subs'[s].phase = "solved" => subs[s].whole
    <3>1. subs'[s] = [subs[s] EXCEPT !.phase = p] BY <1>0, <2>2
    <3>2. QED BY <1>0, <1>3, <2>2, <3>1
  <2>3. QED BY <1>2, <2>1, <2>2
<1>6. Grown BY <1>0, <1>1, <1>4, <1>5 DEF Grown
<1>7. QED BY <1>1, <1>4, <1>5, <1>6

(* Lemma: ids that named a submission of a file still do.                  *)
LEMMA IdsKept ==
  ASSUME Grown, NEW f, NEW x, IdsOf(f, x)
  PROVE  IdsOf(f, x)'
  BY DEF IdsOf, FromFile, Grown

LEMMA SolvedKept ==
  ASSUME Grown, NEW p, SolvedBy(p)
  PROVE  SolvedBy(p)'
  BY DEF SolvedBy, Grown

(* Worker v owns the row of file f.                                        *)
OwnerOf(f, v) == job[f].status = "PROCESSING" /\ job[f].owner = v

(* A step that leaves the ids of a row alone, completes nothing and gives  *)
(* the row to nobody.                                                      *)
RowKept(f) ==
    /\ job'[f].sub = job[f].sub /\ job'[f].pjob = job[f].pjob
    /\ job'[f].status = "COMPLETED" => job[f].status = "COMPLETED"
    /\ \A v \in Worker : OwnerOf(f, v)' => OwnerOf(f, v)

(* Lemma: what a worker that does not move knows stays true ...            *)
LEMMA WorkerKept ==
  ASSUME Grown, NEW x, WorkerOK(x)
  PROVE  WorkerOK(x)'
  BY IdsKept, SolvedKept DEF WorkerOK

(* Lemma: ... and so does its agreement with the row.                      *)
LEMMA AgreementKept ==
  ASSUME Typed, OwnWork, Grown, NEW v \in Worker, worker[v].pc # "idle",
         worker'[v] = worker[v],
         LET f == worker[v].file IN RowKept(f) \/ ~OwnerOf(f, v)'
  PROVE  Agrees(v)'
<1> DEFINE f == worker[v].file
<1>1. f \in File BY DEF Typed, BusyHasFile
<1>2. CASE ~OwnerOf(f, v)' BY <1>2 DEF Agrees, Owns, OwnerOf
<1>3. CASE RowKept(f)
  <2>1. Agrees(v) /\ RowOK(f) BY <1>1 DEF OwnWork
  <2>2. Owns(v)' => Owns(v) BY <1>3 DEF RowKept, OwnerOf, Owns
  <2>3. job'[f].sub = job[f].sub BY <1>3 DEF RowKept
  <2>4. job[f].sub # None /\ subs[job[f].sub].gone => subs'[job[f].sub].gone
    BY <2>1 DEF RowOK, IdsOf, FromFile, Grown
  <2> HIDE DEF f
  <2>5. QED BY <2>1, <2>2, <2>3, <2>4 DEF Agrees, f
<1>4. QED BY <1>2, <1>3

(* Lemma: a row that keeps its ids is right afterwards.                    *)
LEMMA RowStays ==
  ASSUME OwnWork, Grown, NEW f \in File, RowKept(f)
  PROVE  RowOK(f)'
<1>1. RowOK(f) BY DEF OwnWork
<1>2. job'[f].sub = job[f].sub /\ job'[f].pjob = job[f].pjob
  BY DEF RowKept
<1>3. IdsOf(f, job[f])' BY <1>1, <1>2 DEF RowOK, IdsOf, FromFile, Grown
<1>4. job'[f].status = "COMPLETED" => SolvedBy(job[f].pjob)'
  BY <1>1, <1>2, SolvedKept DEF RowOK, RowKept
<1>5. QED BY <1>3, <1>4 DEF RowOK

WholeOK == \A s \in 1..nsubs : subs[s].phase = "solved" => subs[s].whole

(* Lemma: a step in which no worker moves and every row is kept.           *)
LEMMA NobodyMoves ==
  ASSUME Typed, OwnWork, Grown, WholeOK', \A f \in File : RowKept(f), worker' = worker
  PROVE  OwnWork'
<1>1. \A f \in File : RowOK(f)' BY RowStays
<1>2. ASSUME NEW v \in Worker, worker'[v].pc # "idle"
      PROVE  WorkerOK(worker[v])' /\ Agrees(v)'
  <2>1. worker[v].file \in File BY <1>2 DEF Typed, BusyHasFile
  <2>2. Agrees(v)' BY <1>2, <2>1, AgreementKept
  <2>3. WorkerOK(worker[v]) BY <1>2 DEF OwnWork
  <2>4. WorkerOK(worker[v])' BY <2>3, WorkerKept
  <2>5. QED BY <2>2, <2>4
<1>3. QED BY <1>1, <1>2 DEF OwnWork, WholeOK

(* Lemma: a step of worker w that leaves every other worker alone and      *)
(* writes only rows that no other worker owns afterwards.                  *)
LEMMA OneMoves ==
  ASSUME Typed, OwnWork, Grown, WholeOK', NEW w \in Worker,
         \A v \in Worker \ {w} : worker'[v] = worker[v],
         \A f \in File : \/ RowKept(f)
                         \/ RowOK(f)' /\ \A v \in Worker \ {w} : ~OwnerOf(f, v)',
         worker'[w].pc # "idle" => WorkerOK(worker[w])' /\ Agrees(w)'
  PROVE  OwnWork'
<1>1. \A f \in File : RowOK(f)' BY RowStays
<1>2. ASSUME NEW v \in Worker \ {w}, worker'[v].pc # "idle"
      PROVE  WorkerOK(worker[v])' /\ Agrees(v)'
  <2>0. worker[v].pc # "idle" /\ worker'[v] = worker[v] BY <1>2
  <2>1. worker[v].file \in File BY <2>0 DEF Typed, BusyHasFile
  <2>2. \A f \in File : RowKept(f) \/ ~OwnerOf(f, v)' OBVIOUS
  <2>3. Agrees(v)' BY <2>0, <2>1, <2>2, AgreementKept
  <2>4. WorkerOK(worker[v]) BY <2>0 DEF OwnWork
  <2>5. WorkerOK(worker[v])' BY <2>0, <2>4, WorkerKept
  <2>6. QED BY <2>3, <2>5
<1>3. QED BY <1>1, <1>2 DEF OwnWork, WholeOK

(* Lemma: what a worker knows after it went to another place ...           *)
LEMMA Moved ==
  ASSUME Typed, NEW w \in Worker, NEW pc, Go(w, pc)
  PROVE  /\ worker'[w].pc = pc /\ worker'[w].file = worker[w].file
         /\ worker'[w].sub = worker[w].sub /\ worker'[w].pjob = worker[w].pjob
         /\ worker'[w].saved = worker[w].saved /\ worker'[w].tries = worker[w].tries
         /\ \A v \in Worker \ {w} : worker'[v] = worker[v]
<1>1. /\ worker \in [Worker -> WorkerState]
      /\ worker' = [worker EXCEPT ![w] = [worker[w] EXCEPT !.pc = pc]]
  BY DEF Typed, PlateTypeOK, Go
<1>2. ASSUME NEW x \in WorkerState
      PROVE  LET y == [x EXCEPT !.pc = pc]
             IN  /\ y.pc = pc /\ y.file = x.file /\ y.sub = x.sub /\ y.pjob = x.pjob
                 /\ y.saved = x.saved /\ y.tries = x.tries
  BY DEF WorkerState
<1>3. worker'[w] = [worker[w] EXCEPT !.pc = pc] BY <1>1
<1>4. \A v \in Worker \ {w} : worker'[v] = worker[v] BY <1>1
<1>5. worker[w] \in WorkerState BY <1>1
<1>6. QED BY <1>2, <1>3, <1>4, <1>5

(* Lemma: ... and after it raised.                                         *)
LEMMA RaisedTo ==
  ASSUME NEW w \in Worker, NEW b \in BOOLEAN, Raise(w, b)
  PROVE  \E pc \in {"requeueing", "failing"} : Go(w, pc)
BY DEF Raise

(* Lemma: a worker that goes to another place knows what it knew; where it *)
(* goes must be a place its knowledge is enough for.                       *)
LEMMA MoveKeeps ==
  ASSUME Typed, OwnWork, Grown, WholeOK', NEW w \in Worker, NEW pc, Go(w, pc),
         worker[w].pc # "idle",
         \A f \in File : \/ RowKept(f)
                         \/ /\ RowOK(f)' /\ \A v \in Worker \ {w} : ~OwnerOf(f, v)'
                            /\ OwnerOf(f, w) /\ job'[f].sub = job[f].sub,
         \/ pc \in {"requeueing", "failing"}
         \/ pc = "loading" /\ worker[w].pc = "claimed"
         \/ pc = "polling" /\ worker[w].pc \in {"loading", "asking", "opened"}
            /\ (worker[w].pc = "loading" => worker[w].saved)
         \/ pc = "asking" /\ worker[w].pc = "polling"
         \/ pc = "reserving" /\ worker[w].pc = "loading" /\ ~worker[w].saved
         \/ pc = "reserving" /\ worker[w].pc = "asking" /\ subs[Asked(w)].gone
         \/ pc = "solved" /\ worker[w].pc = "asking" /\ SolvedBy(worker[w].pjob)
  PROVE  OwnWork'
<1> DEFINE x == worker[w]  f == x.file
<1>1. f \in File /\ WorkerOK(x) /\ Agrees(w) BY DEF OwnWork, Typed, BusyHasFile
<1>2. /\ worker'[w].pc = pc /\ worker'[w].file = f
      /\ worker'[w].sub = x.sub /\ worker'[w].pjob = x.pjob
      /\ worker'[w].saved = x.saved
      /\ \A v \in Worker \ {w} : worker'[v] = worker[v]
  BY Moved
<1>3. /\ RowOK(f) /\ job'[f].sub = job[f].sub
      /\ job'[f].status = "PROCESSING" /\ job'[f].owner = w => OwnerOf(f, w)
  BY <1>1 DEF OwnWork, RowKept, OwnerOf
<1>5. IdsOf(worker[w].file, worker[w])'
  <2>1. /\ x.sub # None => x.sub \in 1..nsubs' /\ subs'[x.sub].file = f
        /\ x.pjob \in {None, x.sub}
    BY <1>1 DEF WorkerOK, IdsOf, FromFile, Grown
  <2>2. QED BY <1>2, <2>1 DEF IdsOf, FromFile
<1>6. WorkerOK(worker[w])'
  <2>2. SolvedBy(x.pjob) => SolvedBy(worker[w].pjob)' BY <1>2 DEF SolvedBy, Grown
  <2>3. QED BY <1>1, <1>2, <1>5, <2>2 DEF WorkerOK
<1>7. Agrees(w)'
  <2>1. Owns(w)' => Owns(w)
    BY <1>2, <1>3 DEF OwnerOf, Owns
  <2>2. job'[f].sub = job[f].sub BY <1>3
  <2>3. job[f].sub # None /\ subs[job[f].sub].gone => subs'[job[f].sub].gone
    BY <1>3 DEF RowOK, IdsOf, FromFile, Grown
  <2>4. x.pc = "asking" => Asked(w) = x.sub
    BY <1>1 DEF WorkerOK, IdsOf, Asked
  <2>5. ASSUME Owns(w), pc = "reserving", job[f].sub # None PROVE subs[job[f].sub].gone
    <3>1. job[f].sub = x.sub BY <1>1, <2>5, Names DEF Agrees
    <3>2. x.pc = "asking" BY <1>1, <2>5, <3>1 DEF WorkerOK
    <3>3. QED BY <2>4, <2>5, <3>1, <3>2
  <2>6. ASSUME Owns(w), pc \in {"loading", "polling", "asking", "opened", "solved"}
        PROVE  job[f].sub = x.sub
    BY <1>1, <2>6 DEF Agrees
  <2> HIDE DEF x, f
  <2>7. QED BY <1>2, <2>1, <2>2, <2>3, <2>5, <2>6 DEF Agrees
<1>8. QED BY <1>2, <1>6, <1>7, OneMoves

(* Lemma: ... and nothing at all is needed to become idle.                 *)
LEMMA IdleKeeps ==
  ASSUME Typed, OwnWork, Grown, WholeOK', NEW w \in Worker,
         worker' = [worker EXCEPT ![w] = Idle],
         \A f \in File : \/ RowKept(f)
                         \/ RowOK(f)' /\ \A v \in Worker \ {w} : ~OwnerOf(f, v)'
  PROVE  OwnWork'
<1>1. worker'[w].pc = "idle" /\ \A v \in Worker \ {w} : worker'[v] = worker[v]
  BY DEF Typed, PlateTypeOK, Idle
<1>2. QED BY <1>1, OneMoves

(* Lemma: nothing happens at the provider.                                 *)
LEMMA NothingGrows ==
  ASSUME Typed, OwnWork, UNCHANGED provider
  PROVE  Grown /\ WholeOK'
BY PlateSolveAssumption DEF Typed, PlateTypeOK, Grown, OwnWork, WholeOK, provider

(* Lemma: the rows an action leaves alone.                                 *)
LEMMA SameRows ==
  ASSUME job' = job
  PROVE  \A f \in File : RowKept(f)
BY DEF RowKept, OwnerOf

(* Lemma: a released row keeps its ids and has no owner.                   *)
LEMMA ReleaseKeeps ==
  ASSUME Typed, NEW g \in File, NEW st \in {"WAITING", "FAILED"},
         job' = [job EXCEPT ![g] = Released(@, st)]
  PROVE  \A f \in File : RowKept(f)
<1>1. job \in [File -> Job] /\ job[g] \in Job BY DEF Typed, PlateTypeOK
<1>2. ASSUME NEW x \in Job
      PROVE  LET y == Released(x, st)
             IN  y.sub = x.sub /\ y.pjob = x.pjob /\ y.status = st
  BY DEF Job, Released
<1>3. /\ job'[g].sub = job[g].sub /\ job'[g].pjob = job[g].pjob /\ job'[g].status = st
      /\ \A f \in File \ {g} : job'[f] = job[f]
  BY <1>1, <1>2
<1>4. QED BY <1>3 DEF RowKept, OwnerOf

(* Lemma: writing the lease changes nothing of it.                         *)
LEMMA LeaseKeeps ==
  ASSUME Typed, NEW g \in File, NEW l, job' = [job EXCEPT ![g].lease = l]
  PROVE  \A f \in File : RowKept(f)
<1>1. job \in [File -> Job] /\ job[g] \in Job BY DEF Typed, PlateTypeOK
<1>2. ASSUME NEW x \in Job
      PROVE  LET y == [x EXCEPT !.lease = l]
             IN  y.sub = x.sub /\ y.pjob = x.pjob /\ y.status = x.status /\ y.owner = x.owner
  BY DEF Job
<1>3. /\ job'[g].sub = job[g].sub /\ job'[g].pjob = job[g].pjob
      /\ job'[g].status = job[g].status /\ job'[g].owner = job[g].owner
      /\ \A f \in File \ {g} : job'[f] = job[f]
  BY <1>1, <1>2
<1>4. QED BY <1>3 DEF RowKept, OwnerOf

(* Lemma: an upload that reaches the provider solves nothing.              *)
LEMMA DeliveredGrows ==
  ASSUME Typed, OwnWork, NEW w \in Worker, Delivered(w) \/ UNCHANGED provider
  PROVE  Grown /\ WholeOK'
<1>1. CASE UNCHANGED provider BY <1>1, NothingGrows
<1>2. CASE Delivered(w)
  <2>1. /\ Grown /\ nsubs' = nsubs + 1 /\ subs'[nsubs'].phase = "queued"
        /\ \A s \in 1..nsubs : subs'[s] = subs[s]
    BY <1>2, DeliveredAdds
  <2>2. ASSUME NEW s \in 1..nsubs', subs'[s].phase = "solved" PROVE subs'[s].whole
    <3>1. s # nsubs' BY <2>1, <2>2
    <3>2. s \in 1..nsubs BY <2>1, <3>1 DEF Grown
    <3>3. QED BY <2>1, <2>2, <3>2 DEF OwnWork
  <2>3. QED BY <2>1, <2>2 DEF WholeOK
<1>3. QED BY <1>1, <1>2

(* Lemma: a worker that starts or repeats an upload.                       *)
LEMMA UploadingKeeps ==
  ASSUME Typed, OwnWork, Grown, WholeOK', job' = job, NEW w \in Worker,
         worker[w].pc \in {"reserving", "uploading"}, worker'[w].pc = "uploading",
         worker'[w].file = worker[w].file, worker'[w].sub = worker[w].sub,
         worker'[w].pjob = worker[w].pjob, worker'[w].saved = worker[w].saved,
         \A v \in Worker \ {w} : worker'[v] = worker[v]
  PROVE  OwnWork'
<1> DEFINE x == worker[w]  f == x.file
<1>1. f \in File /\ WorkerOK(x) /\ Agrees(w) BY DEF OwnWork, Typed, BusyHasFile
<1>2. RowOK(f) BY <1>1 DEF OwnWork
<1>3. IdsOf(worker[w].file, worker[w])'
  BY <1>1 DEF WorkerOK, IdsOf, FromFile, Grown
<1>4. WorkerOK(worker[w])' BY <1>1, <1>3 DEF WorkerOK
<1>5. Agrees(w)'
  <2>1. job[f].sub # None /\ subs[job[f].sub].gone => subs'[job[f].sub].gone
    BY <1>2 DEF RowOK, IdsOf, FromFile, Grown
  <2>2. Owns(w)' => Owns(w) BY DEF Owns
  <2>3. QED BY <1>1, <2>1, <2>2 DEF Agrees
<1>6. QED BY <1>4, <1>5, SameRows, OneMoves

(* Lemma: a worker that raises.                                            *)
LEMMA RaiseKeeps ==
  ASSUME Typed, OwnWork, Grown, WholeOK', job' = job, NEW w \in Worker,
         worker[w].pc # "idle", NEW b \in BOOLEAN, Raise(w, b)
  PROVE  OwnWork'
BY SameRows, RaisedTo, MoveKeeps

(* Lemma: the claim.                                                       *)
LEMMA ClaimKeeps ==
  ASSUME Typed, OwnWork, NEW w \in Worker, NEW g \in File, Claim(w, g)
  PROVE  OwnWork'
<1>0. /\ job \in [File -> Job] /\ worker \in [Worker -> WorkerState]
      /\ job[g] \in Job /\ RowOK(g)
  BY DEF Typed, PlateTypeOK, OwnWork
<1>1. Grown /\ WholeOK' /\ UNCHANGED provider BY NothingGrows DEF Claim
<1> DEFINE fresh == job[g].sub = None /\ job[g].pjob = None
           n == job[g].attempts + (IF fresh THEN 1 ELSE 0)
           y == [pc |-> "claimed", file |-> g, sub |-> job[g].sub,
                 pjob |-> job[g].pjob, saved |-> ~fresh, tries |-> 0]
           row == [job[g] EXCEPT !.status = "PROCESSING", !.owner = w,
                                 !.lease = "live", !.attempts = n]
<1>2. worker' = [worker EXCEPT ![w] = y] /\ job' = [job EXCEPT ![g] = row]
  BY DEF Claim
<1>3. /\ row.status = "PROCESSING" /\ row.owner = w
      /\ row.sub = job[g].sub /\ row.pjob = job[g].pjob
  <2> HIDE DEF n
  <2>1. QED BY <1>0 DEF Job
<1>4. /\ y.pc = "claimed" /\ y.file = g /\ y.sub = job[g].sub /\ y.pjob = job[g].pjob
      /\ y.saved = ~fresh
  OBVIOUS
<1> HIDE DEF row, y
<1>5. /\ worker'[w] = y /\ \A v \in Worker \ {w} : worker'[v] = worker[v]
      /\ job'[g] = row /\ \A f \in File \ {g} : job'[f] = job[f]
  BY <1>0, <1>2
<1>6. subs' = subs /\ nsubs' = nsubs BY <1>1 DEF provider
<1>7. RowOK(g)' BY <1>0, <1>3, <1>5, <1>6 DEF RowOK, IdsOf, FromFile
<1>8. \A v \in Worker \ {w} : ~OwnerOf(g, v)' BY <1>3, <1>5 DEF OwnerOf
<1>9. IdsOf(worker[w].file, worker[w])'
  BY <1>0, <1>4, <1>5, <1>6 DEF RowOK, IdsOf, FromFile
<1>10. WorkerOK(worker[w])'
  BY <1>0, <1>4, <1>5, <1>9, Names DEF WorkerOK, RowOK, IdsOf
<1>11. Agrees(w)' BY <1>3, <1>4, <1>5 DEF Agrees
<1>12. \A f \in File \ {g} : RowKept(f) BY <1>5 DEF RowKept, OwnerOf
<1>13. \A f \in File : RowKept(f) \/ (RowOK(f)' /\ \A v \in Worker \ {w} : ~OwnerOf(f, v)')
  BY <1>7, <1>8, <1>12
<1>14. QED BY <1>1, <1>5, <1>10, <1>11, <1>13, OneMoves

(* Lemma: the owner records the submission it made.                        *)
LEMMA RecordSubmissionKeeps ==
  ASSUME Typed, OwnWork, NEW w \in Worker, RecordSubmission(w)
  PROVE  OwnWork'
<1> DEFINE x == worker[w]  f == x.file
<1>0. /\ job \in [File -> Job] /\ worker \in [Worker -> WorkerState] /\ x \in WorkerState
      /\ x.pc = "recording" /\ f \in File /\ job[f] \in Job /\ WorkerOK(x)
  BY DEF Typed, PlateTypeOK, OwnWork, BusyHasFile, RecordSubmission
<1>1. Grown /\ WholeOK' /\ UNCHANGED provider BY NothingGrows DEF RecordSubmission
<1>2. CASE ~Owns(w)
  BY <1>0, <1>1, <1>2, RaiseKeeps DEF RecordSubmission
<1>3. CASE Owns(w)
  <2> DEFINE n == job[f].attempts + (IF x.saved THEN 1 ELSE 0)
             row == [job[f] EXCEPT !.sub = x.sub, !.pjob = None, !.attempts = n]
             y == [x EXCEPT !.pc = "polling", !.saved = FALSE]
  <2>1. job' = [job EXCEPT ![f] = row] /\ worker' = [worker EXCEPT ![w] = y]
    BY <1>0, <1>3 DEF RecordSubmission
  <2>2. /\ row.sub = x.sub /\ row.pjob = None
        /\ row.status = job[f].status /\ row.owner = job[f].owner
    <3> HIDE DEF n
    <3>1. QED BY <1>0 DEF Job
  <2>3. /\ y.pc = "polling" /\ y.saved = FALSE /\ y.file = f /\ y.sub = x.sub
        /\ y.pjob = x.pjob
    BY <1>0 DEF WorkerState
  <2>4. /\ IdsOf(f, x) /\ x.sub # None
    BY <1>0 DEF WorkerOK
  <2>5. job[f].status = "PROCESSING" /\ job[f].owner = w BY <1>3 DEF Owns
  <2>6. x.sub \in 1..nsubs' /\ subs'[x.sub].file = f /\ x.pjob \in {None, x.sub}
    BY <1>1, <2>4 DEF IdsOf, FromFile, provider
  <2> HIDE DEF row, y, f
  <2>7. /\ worker'[w] = y /\ \A v \in Worker \ {w} : worker'[v] = worker[v]
        /\ job'[f] = row /\ \A g \in File \ {f} : job'[g] = job[g]
    BY <1>0, <2>1
  <2>8. ASSUME NEW g \in File
        PROVE  RowKept(g) \/ (RowOK(g)' /\ \A v \in Worker \ {w} : ~OwnerOf(g, v)')
    <3>1. CASE g = f
      BY <2>2, <2>5, <2>6, <2>7, <3>1 DEF RowOK, IdsOf, FromFile, OwnerOf
    <3>2. CASE g # f BY <2>7, <3>2 DEF RowKept, OwnerOf
    <3>3. QED BY <3>1, <3>2
  <2>9. WorkerOK(worker[w])' BY <2>3, <2>4, <2>6, <2>7 DEF WorkerOK, IdsOf, FromFile
  <2>10. Agrees(w)' BY <2>2, <2>3, <2>7 DEF Agrees
  <2>11. QED BY <1>1, <2>7, <2>8, <2>9, <2>10, OneMoves
<1>4. QED BY <1>2, <1>3

(* Lemma: the owner records the job the provider opened.                   *)
LEMMA RecordProviderJobKeeps ==
  ASSUME Typed, OwnWork, NEW w \in Worker, RecordProviderJob(w)
  PROVE  OwnWork'
<1> DEFINE x == worker[w]  f == x.file  row == [job[f] EXCEPT !.pjob = x.pjob]
<1>0. /\ job \in [File -> Job] /\ x.pc = "opened" /\ f \in File /\ job[f] \in Job
      /\ WorkerOK(x) /\ Agrees(w)
  BY DEF Typed, PlateTypeOK, OwnWork, BusyHasFile, RecordProviderJob
<1>1. Grown /\ WholeOK' /\ UNCHANGED provider BY NothingGrows DEF RecordProviderJob
<1>2. CASE ~Owns(w)
  BY <1>0, <1>1, <1>2, RaiseKeeps DEF RecordProviderJob
<1>3. CASE Owns(w)
  <2>1. job' = [job EXCEPT ![f] = row] /\ Go(w, "polling")
    BY <1>3 DEF RecordProviderJob
  <2>2. /\ row.sub = job[f].sub /\ row.pjob = x.pjob
        /\ row.status = job[f].status /\ row.owner = job[f].owner
    BY <1>0 DEF Job
  <2>3. job[f].sub = x.sub BY <1>0, <1>3 DEF Agrees
  <2>4. IdsOf(f, x) /\ x.sub # None BY <1>0 DEF WorkerOK
  <2>5. job[f].status = "PROCESSING" /\ job[f].owner = w BY <1>3 DEF Owns
  <2>6. x.sub \in 1..nsubs' /\ subs'[x.sub].file = f /\ x.pjob \in {None, x.sub}
    BY <1>1, <2>4 DEF IdsOf, FromFile, provider
  <2> HIDE DEF row, f
  <2>7. job'[f] = row /\ \A g \in File \ {f} : job'[g] = job[g] BY <1>0, <2>1
  <2>8. ASSUME NEW g \in File
        PROVE  \/ RowKept(g)
               \/ /\ RowOK(g)' /\ \A v \in Worker \ {w} : ~OwnerOf(g, v)'
                  /\ OwnerOf(g, w) /\ job'[g].sub = job[g].sub
    <3>1. CASE g = f
      BY <2>2, <2>3, <2>5, <2>6, <2>7, <3>1 DEF RowOK, IdsOf, FromFile, OwnerOf
    <3>2. CASE g # f BY <2>7, <3>2 DEF RowKept, OwnerOf
    <3>3. QED BY <3>1, <3>2
  <2>9. QED BY <1>0, <1>1, <2>1, <2>8, MoveKeeps
<1>4. QED BY <1>2, <1>3

(* Lemma: the owner completes the job.                                     *)
LEMMA CompleteKeeps ==
  ASSUME Typed, OwnWork, NEW w \in Worker, Complete(w)
  PROVE  OwnWork'
<1> DEFINE x == worker[w]  f == x.file  rel == Released(job[f], "COMPLETED")
           row == [rel EXCEPT !.pjob = x.pjob]
<1>0. /\ job \in [File -> Job] /\ x.pc = "solved" /\ f \in File /\ job[f] \in Job
      /\ WorkerOK(x) /\ Agrees(w)
  BY DEF Typed, PlateTypeOK, OwnWork, BusyHasFile, Complete
<1>1. Grown /\ WholeOK' /\ UNCHANGED provider BY NothingGrows DEF Complete
<1>2. CASE ~Owns(w)
  BY <1>0, <1>1, <1>2, RaiseKeeps DEF Complete
<1>3. CASE Owns(w)
  <2>1. job' = [job EXCEPT ![f] = row] /\ worker' = [worker EXCEPT ![w] = Idle]
    BY <1>3 DEF Complete
  <2>a. rel.sub = job[f].sub /\ rel.status = "COMPLETED" /\ rel \in Job
    BY <1>0, Names DEF Released, Job
  <2> HIDE DEF rel
  <2>2. row.sub = job[f].sub /\ row.pjob = x.pjob /\ row.status = "COMPLETED"
    BY <2>a DEF Job
  <2>3. job[f].sub = x.sub BY <1>0, <1>3 DEF Agrees
  <2>4. IdsOf(f, x) /\ SolvedBy(x.pjob) /\ x.sub # None BY <1>0 DEF WorkerOK
  <2>5. /\ x.sub \in 1..nsubs' /\ subs'[x.sub].file = f /\ x.pjob \in {None, x.sub}
        /\ x.pjob \in 1..nsubs' /\ subs'[x.pjob].phase = "solved"
    BY <1>1, <2>4 DEF IdsOf, FromFile, SolvedBy, provider
  <2> HIDE DEF row, f
  <2>6. job'[f] = row /\ \A g \in File \ {f} : job'[g] = job[g] BY <1>0, <2>1
  <2>7. ASSUME NEW g \in File
        PROVE  RowKept(g) \/ (RowOK(g)' /\ \A v \in Worker \ {w} : ~OwnerOf(g, v)')
    <3>1. CASE g = f
      BY <2>2, <2>3, <2>5, <2>6, <3>1 DEF RowOK, IdsOf, FromFile, SolvedBy, OwnerOf
    <3>2. CASE g # f BY <2>6, <3>2 DEF RowKept, OwnerOf
    <3>3. QED BY <3>1, <3>2
  <2>8. QED BY <1>1, <2>1, <2>7, IdleKeeps
<1>4. QED BY <1>2, <1>3

(* Lemma: the answers of the provider.                                     *)
LEMMA AskKeeps ==
  ASSUME Typed, OwnWork, NEW w \in Worker, Ask(w)
  PROVE  OwnWork'
<1> DEFINE x == worker[w]  f == x.file  s == subs[Asked(w)]
           y == [x EXCEPT !.pc = "opened", !.pjob = x.sub]
<1>0. /\ worker \in [Worker -> WorkerState] /\ x \in WorkerState /\ x.pc = "asking"
      /\ f \in File /\ WorkerOK(x) /\ Agrees(w) /\ job' = job
  BY DEF Typed, PlateTypeOK, OwnWork, BusyHasFile, Ask
<1>1. Grown /\ WholeOK' /\ UNCHANGED provider BY NothingGrows DEF Ask
<1>2. \/ Raise(w, FALSE) \/ Go(w, "polling")
      \/ x.pjob # None /\ s.phase = "solved" /\ Go(w, "solved")
      \/ worker' = [worker EXCEPT ![w] = y]
  BY <1>0 DEF Ask
<1>3. CASE Raise(w, FALSE) BY <1>0, <1>1, <1>3, RaiseKeeps
<1>4. CASE Go(w, "polling") BY <1>0, <1>1, <1>4, SameRows, MoveKeeps
<1>5. CASE x.pjob # None /\ s.phase = "solved" /\ Go(w, "solved")
  <2>1. SolvedBy(x.pjob) BY <1>0, <1>5 DEF WorkerOK, IdsOf, FromFile, SolvedBy, Asked
  <2>2. QED BY <1>0, <1>1, <1>5, <2>1, SameRows, MoveKeeps
<1>6. CASE worker' = [worker EXCEPT ![w] = y]
  <2>1. /\ y.pc = "opened" /\ y.file = f /\ y.sub = x.sub /\ y.pjob = x.sub
        /\ y.saved = x.saved
    BY <1>0 DEF WorkerState
  <2> HIDE DEF y
  <2>2. worker'[w] = y /\ \A v \in Worker \ {w} : worker'[v] = worker[v]
    BY <1>0, <1>6
  <2>3. WorkerOK(worker[w])'
    BY <1>0, <1>1, <2>1, <2>2 DEF WorkerOK, IdsOf, FromFile, provider
  <2>4. Agrees(w)'
    <3>1. Owns(w)' => Owns(w) /\ job'[worker'[w].file].sub = job[f].sub
      BY <1>0, <2>1, <2>2 DEF Owns
    <3>2. Owns(w) => job[f].sub = x.sub BY <1>0 DEF Agrees
    <3>3. QED BY <2>1, <2>2, <3>1, <3>2 DEF Agrees
  <2>5. QED BY <1>0, <1>1, <2>2, <2>3, <2>4, SameRows, OneMoves
<1>7. QED BY <1>2, <1>3, <1>4, <1>5, <1>6

(* Lemma: the steps of a worker keep its work its own.                     *)
LEMMA WorkerStepOwn ==
  ASSUME Typed, OwnWork, NEW w \in Worker, WorkerStep(w)
  PROVE  OwnWork'
<1> DEFINE x == worker[w]  f == x.file
<1>0. /\ job \in [File -> Job] /\ worker \in [Worker -> WorkerState] /\ x \in WorkerState
      /\ x.pc # "idle" => f \in File /\ WorkerOK(x)
  BY DEF Typed, PlateTypeOK, OwnWork, BusyHasFile
<1>n. UNCHANGED provider => Grown /\ WholeOK' BY NothingGrows
<1>r. ASSUME NEW b \in BOOLEAN, Raise(w, b), Grown, WholeOK', job' = job, x.pc # "idle"
      PROVE  OwnWork'
  BY <1>r, RaiseKeeps
<1>g. ASSUME NEW pc, Go(w, pc), Grown, WholeOK', \A g \in File : RowKept(g),
             \/ pc = "loading" /\ x.pc = "claimed"
             \/ pc = "polling" /\ x.pc = "loading" /\ x.saved
             \/ pc = "asking" /\ x.pc = "polling"
             \/ pc = "reserving" /\ x.pc = "loading" /\ ~x.saved
             \/ pc = "reserving" /\ x.pc = "asking" /\ subs[Asked(w)].gone
      PROVE  OwnWork'
  BY <1>g, MoveKeeps
<1>1. ASSUME NEW g \in File, Claim(w, g) PROVE OwnWork'
  BY <1>1, ClaimKeeps
<1>2. CASE SyncClaim(w)
  BY <1>2, <1>n, <1>g, SameRows DEF SyncClaim
<1>3. CASE LoadWork(w)
  <2>1. x.saved \in BOOLEAN BY <1>0 DEF WorkerState
  <2>2. QED BY <1>3, <1>n, <1>g, <1>r, <2>1, SameRows DEF LoadWork
<1>4. CASE Reserve(w)
  <2>1. CASE used + 1 <= Limit
    <3> DEFINE y == [x EXCEPT !.pc = "uploading", !.tries = 0]
    <3>1. worker' = [worker EXCEPT ![w] = y] BY <1>0, <1>4, <2>1 DEF Reserve
    <3>2. /\ y.pc = "uploading" /\ y.file = f /\ y.sub = x.sub /\ y.pjob = x.pjob
          /\ y.saved = x.saved
      BY <1>0 DEF WorkerState
    <3> HIDE DEF y
    <3>3. worker'[w] = y /\ \A v \in Worker \ {w} : worker'[v] = worker[v]
      BY <1>0, <3>1
    <3>4. QED BY <1>4, <1>n, <3>2, <3>3, UploadingKeeps DEF Reserve
  <2>2. CASE ~(used + 1 <= Limit)
    BY <1>4, <1>n, <1>r, <2>2 DEF Reserve
  <2>3. QED BY <2>1, <2>2
<1>5. CASE Upload(w)
  <2> DEFINE y == [x EXCEPT !.pc = "recording", !.sub = nsubs', !.pjob = None]
  <2>1. /\ Grown /\ nsubs' = nsubs + 1 /\ subs'[nsubs'].file = f
    BY <1>5, DeliveredAdds DEF Upload
  <2>2. WholeOK' BY <1>5, DeliveredGrows DEF Upload
  <2>3. worker' = [worker EXCEPT ![w] = y] /\ job' = job /\ x.pc = "uploading"
    BY <1>5 DEF Upload
  <2>4. y.pc = "recording" /\ y.file = f /\ y.sub = nsubs' /\ y.pjob = None
    BY <1>0 DEF WorkerState
  <2> HIDE DEF y
  <2>5. worker'[w] = y /\ \A v \in Worker \ {w} : worker'[v] = worker[v]
    BY <1>0, <2>3
  <2>6. nsubs' \in 1..nsubs' /\ nsubs' # None BY <2>1 DEF Grown, None
  <2>7. WorkerOK(worker[w])'
    BY <2>1, <2>4, <2>5, <2>6 DEF WorkerOK, IdsOf, FromFile
  <2>8. Agrees(w)' BY <2>4, <2>5 DEF Agrees
  <2>9. QED BY <2>1, <2>2, <2>3, <2>5, <2>7, <2>8, SameRows, OneMoves
<1>6. CASE UploadError(w)
  <2>1. Grown /\ WholeOK' BY <1>6, DeliveredGrows DEF UploadError
  <2>2. CASE x.tries + 1 < RetryCount
    <3> DEFINE y == [x EXCEPT !.tries = @ + 1]
    <3>1. worker' = [worker EXCEPT ![w] = y] BY <1>0, <1>6, <2>2 DEF UploadError
    <3>2. /\ y.pc = x.pc /\ y.file = f /\ y.sub = x.sub /\ y.pjob = x.pjob
          /\ y.saved = x.saved
      BY <1>0 DEF WorkerState
    <3> HIDE DEF y
    <3>3. worker'[w] = y /\ \A v \in Worker \ {w} : worker'[v] = worker[v]
      BY <1>0, <3>1
    <3>4. QED BY <1>6, <2>1, <3>2, <3>3, UploadingKeeps DEF UploadError
  <2>3. CASE ~(x.tries + 1 < RetryCount)
    BY <1>6, <1>r, <2>1, <2>3 DEF UploadError
  <2>4. QED BY <2>2, <2>3
<1>7. CASE UploadRefused(w)
  <2>1. Grown /\ WholeOK' BY <1>7, DeliveredGrows DEF UploadRefused
  <2>2. QED BY <1>7, <1>r, <2>1 DEF UploadRefused
<1>8. CASE UploadMissing(w) BY <1>8, <1>n, <1>r DEF UploadMissing
<1>9. CASE RecordSubmission(w) BY <1>9, RecordSubmissionKeeps
<1>10. CASE TouchLease(w)
  <2>1. x.pc = "polling" /\ f \in File /\ Grown /\ WholeOK'
    BY <1>0, <1>10, <1>n DEF TouchLease
  <2>2. CASE Owns(w)
    <3>1. job' = [job EXCEPT ![f].lease = "live"] /\ Go(w, "asking")
      BY <1>10, <2>2 DEF TouchLease
    <3>2. \A g \in File : RowKept(g) BY <2>1, <3>1, LeaseKeeps
    <3>3. QED BY <1>g, <2>1, <3>1, <3>2
  <2>3. CASE ~Owns(w) BY <1>10, <1>r, <2>1, <2>3 DEF TouchLease
  <2>4. QED BY <2>2, <2>3
<1>11. CASE Ask(w) BY <1>11, AskKeeps
<1>12. CASE AskMissing(w) BY <1>12, <1>n, <1>g, <1>r, SameRows DEF AskMissing
<1>13. CASE AskError(w) BY <1>13, <1>n, <1>r DEF AskError
<1>14. CASE RecordProviderJob(w) BY <1>14, RecordProviderJobKeeps
<1>15. CASE RequeueTransient(w)
  <2>1. f \in File /\ Grown /\ WholeOK' BY <1>0, <1>15, <1>n DEF RequeueTransient
  <2>2. \A g \in File : RowKept(g)
    BY <1>15, <2>1, SameRows, ReleaseKeeps DEF RequeueTransient
  <2>3. QED BY <1>15, <2>1, <2>2, IdleKeeps DEF RequeueTransient
<1>16. CASE Fail(w)
  <2>1. f \in File /\ Grown /\ WholeOK' BY <1>0, <1>16, <1>n DEF Fail
  <2>2. \A g \in File : RowKept(g) BY <1>16, <2>1, SameRows, ReleaseKeeps DEF Fail
  <2>3. QED BY <1>16, <2>1, <2>2, IdleKeeps DEF Fail
<1>17. CASE Complete(w) BY <1>17, CompleteKeeps
<1>18. QED
  BY <1>1, <1>2, <1>3, <1>4, <1>5, <1>6, <1>7, <1>8, <1>9, <1>10, <1>11, <1>12, <1>13,
     <1>14, <1>15, <1>16, <1>17 DEF WorkerStep

(* Lemma: so do the requests: a new row has no ids, and a retry keeps the  *)
(* ones it finds.                                                          *)
LEMMA RequestStepOwn ==
  ASSUME Typed, OwnWork, NEW r \in Request, RequestStep(r)
  PROVE  OwnWork'
<1>0. job \in [File -> Job] /\ RequestOK(req, r)
  BY DEF Typed, PlateTypeOK, UnfinishedHasNoRecord
<1>1. Grown /\ WholeOK' /\ worker' = worker
  BY NothingGrows
     DEF RequestStep, Submit, CreateBoth, CreateRead, RetryRead, CreateCommit, RetryWrite,
         DeleteCommit, Delete
<1>w. ASSUME NEW g \in File, ~Exists(g), job' = [job EXCEPT ![g] = WaitingRow]
      PROVE  OwnWork'
  <2>1. /\ WaitingRow.sub = None /\ WaitingRow.pjob = None /\ WaitingRow.status = "WAITING"
    BY DEF WaitingRow, NoRow
  <2>2. job'[g] = WaitingRow /\ \A h \in File \ {g} : job'[h] = job[h] BY <1>0, <1>w
  <2>3. RowOK(g)' /\ \A v \in Worker : ~OwnerOf(g, v)'
    BY <2>1, <2>2 DEF RowOK, IdsOf, OwnerOf, None
  <2>4. \A h \in File \ {g} : RowKept(h) BY <2>2 DEF RowKept, OwnerOf
  <2>5. \A h \in File : RowOK(h)' BY <1>1, <2>3, <2>4, RowStays
  <2>6. \A h \in File, v \in Worker : RowKept(h) \/ ~OwnerOf(h, v)' BY <2>3, <2>4
  <2>7. ASSUME NEW v \in Worker, worker'[v].pc # "idle"
        PROVE  WorkerOK(worker[v])' /\ Agrees(v)'
    <3>1. worker[v].pc # "idle" /\ worker'[v] = worker[v] BY <1>1, <2>7
    <3>2. worker[v].file \in File /\ WorkerOK(worker[v])
      BY <3>1 DEF Typed, BusyHasFile, OwnWork
    <3>3. Agrees(v)' BY <1>1, <2>6, <3>1, <3>2, AgreementKept
    <3>4. WorkerOK(worker[v])' BY <1>1, <3>1, <3>2, WorkerKept
    <3>5. QED BY <3>3, <3>4
  <2>8. QED BY <1>1, <2>5, <2>7 DEF OwnWork, WholeOK
<1>s. job' = job => OwnWork' BY <1>1, SameRows, NobodyMoves
<1>2. ASSUME NEW g \in File,
             Submit(r, g) \/ CreateBoth(r, g) \/ CreateRead(r, g) \/ RetryRead(r, g)
      PROVE  OwnWork'
  BY <1>2, <1>w, <1>s DEF Submit, CreateBoth, CreateRead, RetryRead
<1>3. CASE CreateCommit(r) \/ \E t \in Request : Delete(r, t)
  BY <1>3, <1>s DEF CreateCommit, Delete
<1>4. CASE RetryWrite(r)
  <2>1. req[r].file \in File BY <1>0, <1>4 DEF RetryWrite, RequestOK
  <2>2. QED BY <1>1, <1>4, <2>1, ReleaseKeeps, NobodyMoves DEF RetryWrite
<1>5. CASE DeleteCommit(r)
  <2>1. req[r].file \in File BY <1>0, <1>5 DEF DeleteCommit, RequestOK
  <2>2. QED BY <1>1, <1>5, <2>1, ReleaseKeeps, NobodyMoves DEF DeleteCommit
<1>6. QED BY <1>2, <1>3, <1>4, <1>5 DEF RequestStep

(* Lemma: every step keeps the workers' and the rows' ids right.           *)
LEMMA OwnWorkInductive ==
    /\ Init => OwnWork
    /\ Typed /\ OwnWork /\ [Next]_vars => OwnWork'
<1>1. ASSUME Init PROVE OwnWork
  <2>1. \A f \in File : job[f] = NoRow BY <1>1 DEF Init
  <2>2. \A f \in File : RowOK(f) BY <2>1 DEF RowOK, IdsOf, NoRow
  <2>3. \A w \in Worker : worker[w].pc = "idle" BY <1>1 DEF Init, Idle
  <2>4. 1..nsubs = {} BY <1>1 DEF Init
  <2>5. QED BY <2>2, <2>3, <2>4 DEF OwnWork
<1>2. ASSUME Typed, OwnWork, [Next]_vars PROVE OwnWork'
  <2>0. job \in [File -> Job] BY <1>2 DEF Typed, PlateTypeOK
  <2>1. ASSUME NEW w \in Worker, WorkerStep(w) PROVE OwnWork'
    BY <1>2, <2>1, WorkerStepOwn
  <2>2. ASSUME NEW w \in Worker, Crash(w) PROVE OwnWork'
    <3>1. Grown /\ WholeOK' BY <1>2, <2>2, NothingGrows DEF Crash
    <3>2. \A f \in File : RowKept(f) BY <2>2, SameRows DEF Crash
    <3>3. QED BY <1>2, <2>2, <3>1, <3>2, IdleKeeps DEF Crash
  <2>3. ASSUME NEW r \in Request, RequestStep(r) PROVE OwnWork'
    BY <1>2, <2>3, RequestStepOwn
  <2>4. ASSUME NEW f \in File, Cleanup(f) \/ ExpireSlow(f) \/ ExpireDead(f) PROVE OwnWork'
    <3>1. Grown /\ WholeOK' /\ worker' = worker
      BY <1>2, <2>4, NothingGrows DEF Cleanup, ExpireSlow, ExpireDead
    <3>2. job' = job \/ job' = [job EXCEPT ![f].lease = "expired"]
      BY <2>4 DEF Cleanup, ExpireSlow, ExpireDead
    <3>3. \A g \in File : RowKept(g) BY <1>2, <3>2, SameRows, LeaseKeeps
    <3>4. QED BY <1>2, <3>1, <3>3, NobodyMoves
  <2>5. ASSUME NEW s \in 1..nsubs, ProviderStep(s) \/ Purge(s) PROVE OwnWork'
    <3>1. /\ Grown /\ job' = job /\ worker' = worker /\ nsubs' = nsubs
          /\ \A t \in 1..nsubs : /\ subs'[t].whole = subs[t].whole
                                 /\ subs'[t].phase = "solved" =>
                                       subs[t].phase = "solved" \/ subs[t].whole
      BY <1>2, <2>5, ProviderChanges
    <3>2. WholeOK' BY <1>2, <3>1 DEF OwnWork, WholeOK
    <3>3. QED BY <1>2, <3>1, <3>2, SameRows, NobodyMoves
  <2>6. CASE UNCHANGED vars
    <3>1. Grown /\ WholeOK' /\ job' = job /\ worker' = worker
      BY <1>2, <2>6, NothingGrows DEF vars, provider
    <3>2. QED BY <1>2, <3>1, SameRows, NobodyMoves
  <2>7. QED BY <1>2, <2>1, <2>2, <2>3, <2>4, <2>5, <2>6 DEF Next
<1>3. QED BY <1>1, <1>2

(* Theorem: a COMPLETED job names a provider job that was solved from a    *)
(* whole upload of its own file, whoever lost the lease, replaced a        *)
(* submission or wrote late (record_*, mark_completed).                    *)
THEOREM SolutionIsOwnHolds == Spec => []SolutionIsOwn
<1>1. OwnWork => SolutionIsOwn
  BY DEF OwnWork, SolutionIsOwn, RowOK, IdsOf, FromFile, SolvedBy, None
<1>2. QED BY <1>1, TypeInductive, OwnWorkInductive, PTL DEF Spec

(* Theorem: the owner of a job uploads its image only when the row names   *)
(* no submission or one that is gone at the provider, through reclaims,    *)
(* retries and replacements (claim_next, process_next_plate_solve_job).    *)
THEOREM ResumesSavedWorkHolds == Spec => []ResumesSavedWork
<1>1. OwnWork => ResumesSavedWork
  BY DEF OwnWork, ResumesSavedWork, Agrees
<1>2. QED BY <1>1, TypeInductive, OwnWorkInductive, PTL DEF Spec

-----------------------------------------------------------------------------
(* Lemma: the attempts one worker may make.                                *)
LEMMA AttemptsCount ==
  ASSUME NEW w
  PROVE  /\ IsFiniteSet({w} \X (0..(RetryCount - 1)))
         /\ Cardinality({w} \X (0..(RetryCount - 1))) = RetryCount
<1>1. /\ IsFiniteSet(0..(RetryCount - 1))
      /\ Cardinality(0..(RetryCount - 1)) = RetryCount
  BY PlateSolveAssumption, FS_Interval
<1>2. IsFiniteSet({w}) /\ Cardinality({w}) = 1 BY FS_Singleton
<1> DEFINE T == 0..(RetryCount - 1)
<1> HIDE DEF T
<1>3. /\ IsFiniteSet({w} \X T)
      /\ Cardinality({w} \X T) = Cardinality({w}) * Cardinality(T)
  BY <1>1, <1>2, FS_Product DEF T
<1>4. Cardinality({w}) * Cardinality(T) = RetryCount
  BY <1>1, <1>2, PlateSolveAssumption DEF T
<1>5. QED BY <1>3, <1>4 DEF T

(* Lemma: fewer attempts remain, or as many.                               *)
LEMMA FewerPending ==
  ASSUME Typed, Covered, Pending' \subseteq Pending, nsubs' = nsubs, used' = used
  PROVE  Covered'
<1>1. IsFiniteSet(Pending') /\ Cardinality(Pending') <= Cardinality(Pending)
  BY FS_Subset DEF Covered
<1>2. Cardinality(Pending) \in Nat /\ Cardinality(Pending') \in Nat
  BY <1>1, FS_CardinalityType DEF Covered
<1>3. nsubs \in Int BY PlateSolveAssumption DEF Typed, PlateTypeOK
<1> DEFINE b == RetryCount * used
<1>4. b \in Int BY PlateSolveAssumption DEF Typed, PlateTypeOK
<1>5. nsubs + Cardinality(Pending) <= b /\ used <= Limit BY DEF Covered
<1>6. nsubs' + Cardinality(Pending') <= b
  <2> HIDE DEF b
  <2>1. QED BY <1>1, <1>2, <1>3, <1>4, <1>5
<1>7. QED BY <1>1, <1>5, <1>6 DEF Covered

(* Lemma: an attempt is used up by the upload it makes.                    *)
LEMMA AttemptUsed ==
  ASSUME Typed, Covered, NEW w \in Worker, worker[w].pc = "uploading",
         Pending' \subseteq Pending \ {<<w, worker[w].tries>>},
         nsubs' \in {nsubs, nsubs + 1}, used' = used
  PROVE  Covered'
<1> DEFINE p == <<w, worker[w].tries>>
<1>1. worker[w].tries \in 0..(RetryCount - 1)
  BY DEF Typed, PlateTypeOK, WorkerState
<1>2. p \in Pending BY <1>1, PlateSolveAssumption DEF Pending
<1> HIDE DEF p
<1>3. /\ IsFiniteSet(Pending \ {p}) /\ Cardinality(Pending \ {p}) = Cardinality(Pending) - 1
      /\ Cardinality(Pending) \in Nat
  BY <1>2, FS_RemoveElement, FS_CardinalityType DEF Covered
<1>4. /\ IsFiniteSet(Pending') /\ Cardinality(Pending') <= Cardinality(Pending) - 1
      /\ Cardinality(Pending') \in Nat
  <2>1. Pending' \in SUBSET (Pending \ {p}) BY DEF p
  <2>2. QED BY <1>3, <2>1, FS_Subset, FS_CardinalityType
<1>5. nsubs \in Int BY PlateSolveAssumption DEF Typed, PlateTypeOK
<1> DEFINE b == RetryCount * used
<1>6. b \in Int BY PlateSolveAssumption DEF Typed, PlateTypeOK
<1>7. nsubs + Cardinality(Pending) <= b /\ used <= Limit BY DEF Covered
<1>8. nsubs' + Cardinality(Pending') <= b
  <2> HIDE DEF b
  <2>1. QED BY <1>3, <1>4, <1>5, <1>6, <1>7
<1>9. QED BY <1>4, <1>7, <1>8 DEF Covered

(* Lemma: a worker that does not upload afterwards has no attempt left;    *)
(* the others keep theirs.                                                 *)
LEMMA StopsUploading ==
  ASSUME NEW w \in Worker, worker'[w].pc # "uploading",
         \A v \in Worker \ {w} : worker'[v] = worker[v]
  PROVE  Pending' \subseteq Pending \ ({w} \X (0..(RetryCount - 1)))
<1>1. ASSUME NEW p \in Worker \X (0..(RetryCount - 1)), worker'[p[1]].pc = "uploading",
             worker'[p[1]].tries <= p[2]
      PROVE  p \in Pending /\ p \notin {w} \X (0..(RetryCount - 1))
  <2>1. p[1] \in Worker /\ p[1] # w BY <1>1
  <2>2. worker'[p[1]] = worker[p[1]] BY <2>1
  <2>3. p \in Pending BY <1>1, <2>2 DEF Pending
  <2>4. QED BY <2>1, <2>3
<1>2. QED BY <1>1 DEF Pending

(* Lemma: every step of a worker keeps the uploads covered.                *)
LEMMA WorkerStepCovered ==
  ASSUME Typed, Covered, NEW w \in Worker, WorkerStep(w) \/ Crash(w)
  PROVE  Covered'
<1> DEFINE x == worker[w]
<1>0. /\ worker \in [Worker -> WorkerState] /\ x \in WorkerState /\ nsubs \in Nat
      /\ used \in Nat /\ RetryCount \in Nat \ {0} /\ x.tries \in 0..(RetryCount - 1)
  BY PlateSolveAssumption DEF Typed, PlateTypeOK, WorkerState
<1>i. Idle.pc # "uploading" BY DEF Idle
<1>g. ASSUME NEW pc, pc # "uploading", Go(w, pc)
      PROVE  worker'[w].pc # "uploading" /\ \A v \in Worker \ {w} : worker'[v] = worker[v]
  BY <1>g, Moved
<1>r. ASSUME NEW b \in BOOLEAN, Raise(w, b)
      PROVE  worker'[w].pc # "uploading" /\ \A v \in Worker \ {w} : worker'[v] = worker[v]
  BY <1>r, <1>g, RaisedTo
<1>s. ASSUME worker'[w].pc # "uploading", \A v \in Worker \ {w} : worker'[v] = worker[v],
             nsubs' = nsubs, used' = used
      PROVE  Covered'
  BY <1>s, StopsUploading, FewerPending
<1>u. ASSUME worker'[w].pc # "uploading", \A v \in Worker \ {w} : worker'[v] = worker[v],
             x.pc = "uploading", Delivered(w) \/ UNCHANGED provider, used' = used
      PROVE  Covered'
  <2>1. <<w, x.tries>> \in {w} \X (0..(RetryCount - 1)) BY <1>0
  <2>2. Pending' \subseteq Pending \ {<<w, x.tries>>} BY <1>u, <2>1, StopsUploading
  <2>3. nsubs' \in {nsubs, nsubs + 1} BY <1>u DEF Delivered, provider
  <2>4. QED BY <1>u, <2>2, <2>3, AttemptUsed
<1>m. ASSUME NEW y, y.pc # "uploading", worker' = [worker EXCEPT ![w] = y]
      PROVE  worker'[w].pc # "uploading" /\ \A v \in Worker \ {w} : worker'[v] = worker[v]
  BY <1>0, <1>m
<1>1. CASE Reserve(w) /\ used + 1 <= Limit
  <2> DEFINE y == [x EXCEPT !.pc = "uploading", !.tries = 0]
             T == {w} \X (0..(RetryCount - 1))
  <2>1. worker' = [worker EXCEPT ![w] = y] BY <1>0, <1>1 DEF Reserve
  <2>2. y.pc = "uploading" /\ y.tries = 0 BY <1>0 DEF WorkerState
  <2> HIDE DEF y
  <2>3. worker'[w] = y /\ \A v \in Worker \ {w} : worker'[v] = worker[v] BY <1>0, <2>1
  <2>4. Pending' \subseteq Pending \cup T
    <3>1. ASSUME NEW p \in Worker \X (0..(RetryCount - 1)), worker'[p[1]].pc = "uploading",
                 worker'[p[1]].tries <= p[2], p \notin T
          PROVE  p \in Pending
      <4>1. p[1] \in Worker /\ p[1] # w BY <3>1
      <4>2. worker'[p[1]] = worker[p[1]] BY <2>3, <4>1
      <4>3. QED BY <3>1, <4>2 DEF Pending
    <3>2. QED BY <3>1 DEF Pending
  <2>5. IsFiniteSet(T) /\ Cardinality(T) = RetryCount BY AttemptsCount
  <2> HIDE DEF T
  <2>6. /\ IsFiniteSet(Pending) /\ IsFiniteSet(Pending \cup T)
        /\ Cardinality(Pending \cup T)
             = Cardinality(Pending) + Cardinality(T) - Cardinality(Pending \cap T)
    BY <2>5, FS_Union DEF Covered
  <2>7. IsFiniteSet(Pending \cap T) BY <2>6, FS_Intersection
  <2>8. /\ Cardinality(Pending \cap T) \in Nat /\ Cardinality(Pending) \in Nat
        /\ Cardinality(Pending \cup T) \in Nat
    BY <2>6, <2>7, FS_CardinalityType
  <2>9. /\ IsFiniteSet(Pending') /\ Cardinality(Pending') \in Nat
        /\ Cardinality(Pending') <= Cardinality(Pending \cup T)
    BY <2>4, <2>6, FS_Subset, FS_CardinalityType
  <2>10. Cardinality(Pending') <= Cardinality(Pending) + RetryCount
    BY <1>0, <2>5, <2>6, <2>8, <2>9
  <2>11. used' = used + 1 /\ nsubs' = nsubs BY <1>1 DEF Reserve, provider
  <2>12. RetryCount * used' = RetryCount * used + RetryCount /\ RetryCount * used \in Nat
    BY <1>0, <2>11
  <2>13. nsubs + Cardinality(Pending) <= RetryCount * used BY DEF Covered
  <2> DEFINE b == RetryCount * used  c == RetryCount * used'
  <2>14. nsubs' + Cardinality(Pending') <= c
    <3>1. c = b + RetryCount /\ b \in Nat /\ nsubs + Cardinality(Pending) <= b
      BY <2>12, <2>13
    <3> HIDE DEF b, c
    <3>2. QED BY <1>0, <2>8, <2>9, <2>10, <2>11, <3>1
  <2>15. QED BY <1>1, <2>9, <2>11, <2>14 DEF Covered
<1>2. CASE Reserve(w) /\ ~(used + 1 <= Limit)
  BY <1>2, <1>r, <1>s DEF Reserve, provider
<1>3. CASE Upload(w)
  <2> DEFINE y == [x EXCEPT !.pc = "recording", !.sub = nsubs', !.pjob = None]
  <2>1. worker' = [worker EXCEPT ![w] = y] BY <1>3 DEF Upload
  <2>2. y.pc # "uploading" BY <1>0 DEF WorkerState
  <2> HIDE DEF y
  <2>3. QED BY <1>3, <1>m, <1>u, <2>1, <2>2 DEF Upload
<1>4. CASE UploadError(w) /\ x.tries + 1 < RetryCount
  <2> DEFINE y == [x EXCEPT !.tries = @ + 1]
  <2>1. worker' = [worker EXCEPT ![w] = y] BY <1>0, <1>4 DEF UploadError
  <2>2. y.pc = x.pc /\ y.tries = x.tries + 1 BY <1>0 DEF WorkerState
  <2> HIDE DEF y
  <2>3. worker'[w] = y /\ \A v \in Worker \ {w} : worker'[v] = worker[v] BY <1>0, <2>1
  <2>4. x.pc = "uploading" /\ used' = used /\ nsubs' \in {nsubs, nsubs + 1}
    BY <1>4 DEF UploadError, Delivered, provider
  <2>5. ASSUME NEW p \in Worker \X (0..(RetryCount - 1)), worker'[p[1]].pc = "uploading",
               worker'[p[1]].tries <= p[2]
        PROVE  p \in Pending /\ p # <<w, x.tries>>
    <3>1. CASE p[1] = w
      <4>1. x.tries + 1 <= p[2] /\ p[2] \in 0..(RetryCount - 1) BY <2>2, <2>3, <2>5, <3>1
      <4>2. x.tries <= p[2] /\ p[2] # x.tries BY <1>0, <4>1
      <4>3. QED BY <2>4, <2>5, <3>1, <4>2 DEF Pending
    <3>2. CASE p[1] # w
      <4>1. worker'[p[1]] = worker[p[1]] BY <2>3, <2>5, <3>2
      <4>2. QED BY <2>5, <3>2, <4>1 DEF Pending
    <3>3. QED BY <3>1, <3>2
  <2>6. Pending' \subseteq Pending \ {<<w, x.tries>>} BY <2>5 DEF Pending
  <2>7. QED BY <2>4, <2>6, AttemptUsed
<1>5. CASE UploadError(w) /\ ~(x.tries + 1 < RetryCount)
  BY <1>5, <1>r, <1>u DEF UploadError
<1>6. CASE UploadRefused(w) BY <1>6, <1>r, <1>u DEF UploadRefused
<1>7. ASSUME NEW g \in File, Claim(w, g) PROVE Covered'
  <2> DEFINE y == [pc |-> "claimed", file |-> g, sub |-> job[g].sub,
                   pjob |-> job[g].pjob,
                   saved |-> ~(job[g].sub = None /\ job[g].pjob = None), tries |-> 0]
  <2>1. worker' = [worker EXCEPT ![w] = y] /\ y.pc # "uploading" BY <1>7 DEF Claim
  <2> HIDE DEF y
  <2>2. QED BY <1>7, <1>m, <1>s, <2>1 DEF Claim, provider
<1>8. CASE SyncClaim(w) BY <1>8, <1>g, <1>s DEF SyncClaim, provider
<1>9. CASE LoadWork(w) BY <1>9, <1>g, <1>r, <1>s DEF LoadWork, provider
<1>10. CASE UploadMissing(w) BY <1>10, <1>r, <1>s DEF UploadMissing, provider
<1>11. CASE RecordSubmission(w)
  <2> DEFINE y == [x EXCEPT !.pc = "polling", !.saved = FALSE]
  <2>1. y.pc # "uploading" BY <1>0 DEF WorkerState
  <2>2. worker' = [worker EXCEPT ![w] = y] \/ Raise(w, FALSE)
    BY <1>0, <1>11 DEF RecordSubmission
  <2> HIDE DEF y
  <2>3. QED BY <1>11, <1>m, <1>r, <1>s, <2>1, <2>2 DEF RecordSubmission, provider
<1>12. CASE TouchLease(w) BY <1>12, <1>g, <1>r, <1>s DEF TouchLease, provider
<1>13. CASE Ask(w)
  <2> DEFINE y == [x EXCEPT !.pc = "opened", !.pjob = x.sub]
  <2>1. y.pc # "uploading" BY <1>0 DEF WorkerState
  <2>2. \/ Raise(w, FALSE) \/ Go(w, "polling") \/ Go(w, "solved")
        \/ worker' = [worker EXCEPT ![w] = y]
    BY <1>0, <1>13 DEF Ask
  <2> HIDE DEF y
  <2>3. QED BY <1>13, <1>g, <1>m, <1>r, <1>s, <2>1, <2>2 DEF Ask, provider
<1>14. CASE AskMissing(w) BY <1>14, <1>g, <1>r, <1>s DEF AskMissing, provider
<1>15. CASE AskError(w) BY <1>15, <1>r, <1>s DEF AskError, provider
<1>16. CASE RecordProviderJob(w)
  BY <1>16, <1>g, <1>r, <1>s DEF RecordProviderJob, provider
<1>17. CASE RequeueTransient(w) \/ Fail(w) \/ Crash(w)
  BY <1>17, <1>i, <1>m, <1>s DEF RequeueTransient, Fail, Crash, provider
<1>18. CASE Complete(w) BY <1>18, <1>i, <1>m, <1>r, <1>s DEF Complete, provider
<1>19. QED
  BY <1>1, <1>2, <1>3, <1>4, <1>5, <1>6, <1>7, <1>8, <1>9, <1>10, <1>11, <1>12, <1>13,
     <1>14, <1>15, <1>16, <1>17, <1>18 DEF WorkerStep

(* Lemma: every step keeps the uploads covered.                            *)
LEMMA CoveredInductive ==
    /\ Init => Covered
    /\ Typed /\ Covered /\ [Next]_vars => Covered'
<1>1. ASSUME Init PROVE Covered
  <2>1. Pending = {} BY <1>1 DEF Init, Pending, Idle
  <2>2. nsubs = 0 /\ used = 0 /\ Limit \in Nat /\ RetryCount * 0 = 0
    BY <1>1, PlateSolveAssumption DEF Init
  <2>3. QED BY <2>1, <2>2, FS_EmptySet DEF Covered
<1>2. ASSUME Typed, Covered, [Next]_vars PROVE Covered'
  <2>1. ASSUME NEW w \in Worker, WorkerStep(w) \/ Crash(w) PROVE Covered'
    BY <1>2, <2>1, WorkerStepCovered
  <2>2. ASSUME UNCHANGED <<worker, nsubs, used>> PROVE Covered'
    <3>1. Pending' = Pending BY <2>2 DEF Pending
    <3>2. QED BY <2>2, <3>1, <1>2, FewerPending
  <2>3. ASSUME NEW r \in Request, RequestStep(r) PROVE Covered'
    BY <2>2, <2>3
       DEF RequestStep, Submit, CreateBoth, CreateRead, RetryRead, CreateCommit, RetryWrite,
           DeleteCommit, Delete, provider
  <2>4. ASSUME NEW f \in File, Cleanup(f) \/ ExpireSlow(f) \/ ExpireDead(f) PROVE Covered'
    BY <2>2, <2>4 DEF Cleanup, ExpireSlow, ExpireDead, provider
  <2>5. ASSUME NEW s \in 1..nsubs, ProviderStep(s) \/ Purge(s) PROVE Covered'
    BY <2>2, <2>5 DEF ProviderStep, Open, Solve, Advance, Purge
  <2>6. CASE UNCHANGED vars BY <2>2, <2>6 DEF vars
  <2>7. QED BY <1>2, <2>1, <2>3, <2>4, <2>5, <2>6 DEF Next
<1>3. QED BY <1>1, <1>2

(* Theorem: no more submissions reach the provider than the units reserved *)
(* allow, each for RetryCount requests, and never more units than the      *)
(* month's limit, however many workers upload at once                      *)
(* (_reserve_submit_usage, BaseClient._request).                           *)
THEOREM UploadsReservedHolds == Spec => []UploadsReserved
<1>1. Typed /\ Covered => UploadsReserved
  <2>1. ASSUME Typed, Covered PROVE UploadsReserved
    <3>1. Cardinality(Pending) \in Nat BY <2>1, FS_CardinalityType DEF Covered
    <3>2. nsubs \in Int /\ RetryCount * used \in Int
      BY <2>1, PlateSolveAssumption DEF Typed, PlateTypeOK
    <3>3. nsubs + Cardinality(Pending) <= RetryCount * used /\ used <= Limit
      BY <2>1 DEF Covered
    <3> DEFINE b == RetryCount * used
    <3>4. nsubs <= b
      <4>1. b \in Int /\ nsubs + Cardinality(Pending) <= b BY <3>2, <3>3
      <4> HIDE DEF b
      <4>2. QED BY <3>1, <3>2, <4>1
    <3>5. QED BY <3>3, <3>4 DEF UploadsReserved
  <2>2. QED BY <2>1
<1>2. QED BY <1>1, TypeInductive, CoveredInductive, PTL DEF Spec

===============================================================================
