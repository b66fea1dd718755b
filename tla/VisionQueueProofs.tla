--------------------------- MODULE VisionQueueProofs ---------------------------
(***************************************************************************)
(* Proofs about the Vision queue, for any number of files, workers,        *)
(* imports, jobs, units, months, retries and faults.                       *)
(***************************************************************************)
EXTENDS VisionQueue, FiniteSetTheorems, TLAPS

(* A worker that is not idle holds a job id.                               *)
BusyHasJob == \A w \in Worker : worker[w].pc # "idle" => worker[w].job \in JobId

Typed == VisionTypeOK /\ BusyHasJob

(* Lemma: the updates the actions make to a row keep it a row.             *)
LEMMA RowUpdates ==
  ASSUME NEW row \in Rows, NEW st \in Status, NEW n \in Nat,
         NEW e \in {"none", "missing", "other"}
  PROVE  /\ [row EXCEPT !.status = st, !.error = e] \in Rows
         /\ [row EXCEPT !.status = st, !.retry_count = n, !.error = e] \in Rows
         /\ [row EXCEPT !.deleted = TRUE] \in Rows
BY DEF Rows

(* Lemma: the updates the actions make to a file keep it a file.           *)
LEMMA FileUpdates ==
  ASSUME NEW file \in FileRow, NEW l \in SUBSET Service, NEW b \in BOOLEAN
  PROVE  /\ [file EXCEPT !.live = TRUE, !.assets = b, !.links = l] \in FileRow
         /\ [file EXCEPT !.links = l] \in FileRow
         /\ [file EXCEPT !.labels = TRUE] \in FileRow
         /\ [file EXCEPT !.assets = FALSE, !.locked = TRUE] \in FileRow
         /\ [file EXCEPT !.locked = FALSE] \in FileRow
         /\ NoFile \in FileRow
         /\ file.links \in SUBSET Service
         /\ file.live \in BOOLEAN /\ file.assets \in BOOLEAN
BY DEF FileRow, NoFile

(* Lemma: the states a worker moves to are worker states.                  *)
LEMMA WorkerUpdates ==
  ASSUME NEW j \in JobId,
         NEW n \in Nat,
         NEW pc \in {"picked", "claimed", "calling", "saving", "completing", "failing",
                     "missing", "failed", "lost", "deferring"}
  PROVE  /\ Idle \in WorkerState /\ Idle.pc = "idle"
         /\ [pc |-> pc, job |-> j, seen |-> n] \in WorkerState
BY DEF WorkerState, Idle

(* Lemma: the statuses the actions write.                                  *)
LEMMA StatusValues ==
  /\ "WAITING" \in Status /\ "PROCESSING" \in Status
  /\ "COMPLETED" \in Status /\ "FAILED" \in Status
BY DEF Status, Finished

(* Lemma: a changed row is a row.                                          *)
LEMMA ChangedIsRow ==
  ASSUME Typed, NEW j \in JobId, NEW st \in Status
  PROVE  Changed(j, st) \in Rows
BY RowUpdates DEF Typed, VisionTypeOK, Changed

(* Lemma: a move of a worker keeps the workers' types.                     *)
LEMMA GoTyped ==
  ASSUME Typed, NEW w \in Worker, worker[w].pc # "idle",
         NEW pc \in {"picked", "claimed", "calling", "saving", "completing", "failing",
                     "missing", "deferring"},
         Go(w, pc)
  PROVE  worker' \in [Worker -> WorkerState] /\ BusyHasJob'
<1>1. worker[w].job \in JobId /\ worker \in [Worker -> WorkerState]
  BY DEF Typed, VisionTypeOK, BusyHasJob
<1>2. [pc |-> pc, job |-> worker[w].job, seen |-> 0] \in WorkerState
  BY <1>1, WorkerUpdates
<1>3. QED BY <1>1, <1>2 DEF Go, Typed, BusyHasJob

(* Lemma: and so does a worker that stops.                                 *)
LEMMA StopTyped ==
  ASSUME Typed, NEW w \in Worker, Stop(w)
  PROVE  worker' \in [Worker -> WorkerState] /\ BusyHasJob'
<1>1. worker \in [Worker -> WorkerState] /\ Idle \in WorkerState /\ Idle.pc = "idle"
  BY DEF Typed, VisionTypeOK, Idle, WorkerState
<1>2. QED BY <1>1 DEF Stop, Typed, BusyHasJob

(* Lemma: every step of a worker keeps the types.                          *)
LEMMA WorkerTyped ==
  ASSUME Typed, NEW w \in Worker, WorkerStep(w) \/ Crash(w)
  PROVE  Typed'
<1> USE DEF Typed
<1>1. ASSUME NEW j \in JobId, Pick(w, j) PROVE Typed'
  <2>1. [pc |-> "picked", job |-> j, seen |-> 0] \in WorkerState BY WorkerUpdates
  <2>2. worker' \in [Worker -> WorkerState] BY <1>1, <2>1 DEF Pick, VisionTypeOK
  <2>3. BusyHasJob' BY <1>1, <2>1 DEF Pick, VisionTypeOK, BusyHasJob
  <2>4. QED BY <1>1, <2>2, <2>3 DEF Pick, VisionTypeOK, usage, history
<1>2. CASE MarkProcessing(w)
  <2>1. worker[w].job \in JobId BY <1>2 DEF MarkProcessing, BusyHasJob
  <2>2. worker' \in [Worker -> WorkerState] /\ BusyHasJob'
    BY <1>2, GoTyped, StopTyped DEF MarkProcessing
  <2>3. Changed(worker[w].job, "PROCESSING") \in Rows BY <2>1, ChangedIsRow, StatusValues
  <2>4. rows' \in [JobId -> Rows] BY <1>2, <2>1, <2>3 DEF MarkProcessing, SetStatus, VisionTypeOK
  <2>5. QED BY <1>2, <2>2, <2>4 DEF MarkProcessing, VisionTypeOK, usage, history
<1>3. CASE RejectImage(w)
  <2>1. worker' \in [Worker -> WorkerState] /\ BusyHasJob'
    BY <1>3, GoTyped DEF RejectImage
  <2>2. QED BY <1>3, <2>1 DEF RejectImage, VisionTypeOK, usage, history
<1>4. CASE Reserve(w)
  <2>1. worker[w].job \in JobId BY <1>4 DEF Reserve, BusyHasJob
  <2>2. worker' \in [Worker -> WorkerState] /\ BusyHasJob'
    BY <1>4, GoTyped DEF Reserve
  <2>3. cost' \in [JobId -> Nat] /\ used' \in Nat
    BY <1>4, <2>1 DEF Reserve, VisionTypeOK
  <2>4. QED BY <1>4, <2>2, <2>3 DEF Reserve, VisionTypeOK, history
<1>5. CASE Call(w)
  <2>1. worker' \in [Worker -> WorkerState] /\ BusyHasJob'
    BY <1>5, GoTyped DEF Call
  <2>2. calls' \in Nat BY <1>5 DEF Call, VisionTypeOK
  <2>3. QED BY <1>5, <2>1, <2>2 DEF Call, VisionTypeOK, history
<1>6. CASE Save(w)
  <2>1. worker' \in [Worker -> WorkerState] /\ BusyHasJob'
    BY <1>6, GoTyped DEF Save
  <2>2. worker[w].job \in JobId BY <1>6 DEF Save, BusyHasJob
  <2>3. files' \in [File -> FileRow]
    <3>1. JobFile(w) \in File BY <2>2 DEF JobFile, VisionTypeOK, Rows
    <3>2. [files[JobFile(w)] EXCEPT !.labels = TRUE] \in FileRow
      BY <3>1, FileUpdates, {} \in SUBSET Service, TRUE \in BOOLEAN DEF VisionTypeOK
    <3>3. files' = files \/ files' = [files EXCEPT ![JobFile(w)] = [files[JobFile(w)] EXCEPT !.labels = TRUE]]
      BY <1>6, <3>1 DEF Save, VisionTypeOK
    <3>4. QED BY <3>1, <3>2, <3>3 DEF VisionTypeOK
  <2>4. QED BY <1>6, <2>1, <2>3 DEF Save, VisionTypeOK, usage, history
<1>7. CASE MarkFailed(w)
  <2>1. worker[w].job \in JobId BY <1>7 DEF MarkFailed, BusyHasJob
  <2>2. worker' \in [Worker -> WorkerState] /\ BusyHasJob'
    BY <1>7, StopTyped DEF MarkFailed
  <2> DEFINE e == IF worker[w].pc = "lost" THEN "missing" ELSE "other"
             j == worker[w].job
             n == worker[w].seen + 1
             new == [rows[j] EXCEPT !.status = "FAILED", !.retry_count = n, !.error = e]
  <2>3. new \in Rows
    <3>1. rows[j] \in Rows BY <2>1 DEF VisionTypeOK
    <3>2. e \in {"none", "missing", "other"} OBVIOUS
    <3>3. n \in Nat BY DEF VisionTypeOK, WorkerState
    <3> HIDE DEF e, j, n
    <3>4. QED BY <3>1, <3>2, <3>3, RowUpdates, StatusValues
  <2>4. rows' = [rows EXCEPT ![j] = new] BY <1>7 DEF MarkFailed
  <2>5. rows' \in [JobId -> Rows]
    <3> HIDE DEF new
    <3>1. QED BY <2>1, <2>3, <2>4 DEF VisionTypeOK
  <2>6. QED BY <1>7, <2>2, <2>5 DEF MarkFailed, VisionTypeOK, usage, history
<1>8. CASE MarkCompleted(w)
  <2>1. worker[w].job \in JobId BY <1>8 DEF MarkCompleted, BusyHasJob
  <2>2. worker' \in [Worker -> WorkerState] /\ BusyHasJob'
    BY <1>8, StopTyped DEF MarkCompleted
  <2>3. Changed(worker[w].job, "COMPLETED") \in Rows BY <2>1, ChangedIsRow, StatusValues
  <2>4. rows' \in [JobId -> Rows] BY <1>8, <2>1, <2>3 DEF MarkCompleted, SetStatus, VisionTypeOK
  <2>5. QED BY <1>8, <2>2, <2>4 DEF MarkCompleted, VisionTypeOK, usage, history
<1>9. CASE MarkWaiting(w)
  <2>1. worker[w].job \in JobId BY <1>9 DEF MarkWaiting, BusyHasJob
  <2>2. worker' \in [Worker -> WorkerState] /\ BusyHasJob'
    BY <1>9, StopTyped DEF MarkWaiting
  <2>3. Changed(worker[w].job, "WAITING") \in Rows BY <2>1, ChangedIsRow, StatusValues
  <2>4. rows' \in [JobId -> Rows] BY <1>9, <2>1, <2>3 DEF MarkWaiting, SetStatus, VisionTypeOK
  <2>5. QED BY <1>9, <2>2, <2>4 DEF MarkWaiting, VisionTypeOK, usage, history
<1>10. CASE RecoverStale(w)
  <2>1. \A j \in JobId : Changed(j, "WAITING") \in Rows BY ChangedIsRow, StatusValues
  <2>2. rows' \in [JobId -> Rows] BY <1>10, <2>1 DEF RecoverStale, VisionTypeOK
  <2>3. taken' \in [JobId -> Nat] BY <1>10 DEF RecoverStale, VisionTypeOK
  <2>4. BusyHasJob' BY <1>10 DEF RecoverStale, BusyHasJob
  <2>5. QED BY <1>10, <2>2, <2>3, <2>4 DEF RecoverStale, VisionTypeOK, usage
<1>11. CASE Crash(w)
  <2>1. worker' \in [Worker -> WorkerState] /\ BusyHasJob'
    BY <1>11, StopTyped DEF Crash
  <2>2. QED BY <1>11, <2>1 DEF Crash, Fault, VisionTypeOK, usage, history
<1>12. CASE ReadForFailure(w)
  <2>1. worker[w].job \in JobId BY <1>12 DEF ReadForFailure, BusyHasJob
  <2> DEFINE pc == IF worker[w].pc = "missing" THEN "lost" ELSE "failed"
             next == [pc |-> pc, job |-> worker[w].job, seen |-> rows[worker[w].job].retry_count]
  <2>2. worker' = [worker EXCEPT ![w] = next] BY <1>12 DEF ReadForFailure
  <2>3. rows[worker[w].job].retry_count \in Nat BY <2>1 DEF VisionTypeOK, Rows
  <2>4. next \in WorkerState /\ next.job \in JobId
    <3>1. pc \in {"lost", "failed"} OBVIOUS
    <3> HIDE DEF pc
    <3>2. QED BY <2>1, <2>3, <3>1, WorkerUpdates
  <2> HIDE DEF next
  <2>5. worker' \in [Worker -> WorkerState] /\ BusyHasJob'
    BY <2>2, <2>4 DEF VisionTypeOK, BusyHasJob
  <2>6. QED BY <1>12, <2>5 DEF ReadForFailure, VisionTypeOK, usage, history
<1>13. QED
  BY <1>1, <1>2, <1>3, <1>4, <1>5, <1>6, <1>7, <1>8, <1>9, <1>10, <1>11, <1>12 DEF WorkerStep

(* Lemma: a new row is a row, whichever class it gets.                     *)
LEMMA NewRow ==
  ASSUME NEW f \in File, NEW p \in Bonus \cup {0}
  PROVE  Row(f, p) \in Rows
<1>1. p \in 0..1 BY VisionQueueAssumption
<1>2. "WAITING" \in Status BY StatusValues
<1>3. QED BY <1>1, <1>2 DEF Row, Rows

(* Lemma: an import that moves on keeps the imports' types.                *)
LEMMA ImportTyped ==
  ASSUME Typed, NEW i \in Import,
         NEW pc \in {"new", "checking", "reusing", "creating", "recreating", "done"},
         imports' = [imports EXCEPT ![i].pc = pc]
  PROVE  imports' \in [Import -> ImportState]
BY DEF Typed, VisionTypeOK, ImportState

(* Lemma: every step of an import keeps the types.                         *)
LEMMA ImportsTyped ==
  ASSUME Typed, NEW i \in Import,
         \/ Register(i) \/ Skip(i) \/ CheckQueue(i) \/ CheckLabels(i)
         \/ \E j \in JobId : Create(i, j)
  PROVE  Typed'
<1> USE DEF Typed
<1>0. imports[i].file \in File BY DEF VisionTypeOK, ImportState
<1>1. CASE Register(i)
  <2> DEFINE f == imports[i].file
             file == files[f]
  <2>1. PICK s \in Service :
           /\ files' = [files EXCEPT ![f] =
                 [file EXCEPT !.live = TRUE, !.assets = file.assets \/ ~file.live,
                              !.links = file.links \cup {s}]]
           /\ imports' = [imports EXCEPT ![i].pc =
                 IF ~file.live THEN "checking"
                 ELSE IF s = "MemoryKeeper" /\ s \notin file.links THEN "reusing"
                 ELSE "done"]
    BY <1>1 DEF Register
  <2>2. file \in FileRow BY <1>0 DEF VisionTypeOK
  <2>3. files' \in [File -> FileRow]
    <3>1. file.links \cup {s} \in SUBSET Service BY <2>2 DEF FileRow
    <3>2. (file.assets \/ ~file.live) \in BOOLEAN OBVIOUS
    <3> HIDE DEF file
    <3>3. [file EXCEPT !.live = TRUE, !.assets = file.assets \/ ~file.live,
                       !.links = file.links \cup {s}] \in FileRow
      BY <2>2, <3>1, <3>2, FileUpdates
    <3> HIDE DEF f
    <3>4. QED BY <2>1, <3>3 DEF VisionTypeOK
  <2>4. imports' \in [Import -> ImportState]
    BY <2>1, ImportTyped
  <2>5. QED BY <1>1, <2>3, <2>4 DEF Register, VisionTypeOK, BusyHasJob, usage, history
<1>2. CASE Skip(i)
  <2>1. imports' \in [Import -> ImportState] BY <1>2, ImportTyped DEF Skip
  <2>2. QED BY <1>2, <2>1 DEF Skip, VisionTypeOK, BusyHasJob, usage, history
<1>3. CASE CheckQueue(i)
  <2>1. imports' \in [Import -> ImportState] BY <1>3, ImportTyped DEF CheckQueue
  <2>2. QED BY <1>3, <2>1 DEF CheckQueue, VisionTypeOK, BusyHasJob, usage, history
<1>4. CASE CheckLabels(i)
  <2>1. imports' \in [Import -> ImportState] BY <1>4, ImportTyped DEF CheckLabels
  <2>2. QED BY <1>4, <2>1 DEF CheckLabels, VisionTypeOK, BusyHasJob, usage, history
<1>5. ASSUME NEW j \in JobId, Create(i, j) PROVE Typed'
  <2>1. imports' \in [Import -> ImportState] BY <1>5, ImportTyped DEF Create
  <2>2. PICK p \in Bonus \cup {0} : rows' = [rows EXCEPT ![j] = Row(imports[i].file, p)]
    BY <1>5 DEF Create
  <2>3. rows' \in [JobId -> Rows] BY <1>0, <2>2, NewRow DEF VisionTypeOK
  <2>4. QED BY <1>5, <2>1, <2>3 DEF Create, VisionTypeOK, BusyHasJob, usage, history
<1>6. QED BY <1>1, <1>2, <1>3, <1>4, <1>5

(* Lemma: every other step keeps the types.                                *)
LEMMA OthersTyped ==
  ASSUME Typed,
         \/ \E f \in File : Unlink(f) \/ DeleteAssets(f) \/ Cleanup(f)
         \/ \E j \in JobId : Requeue(j) \/ ExpireSlow(j) \/ ExpireDead(j)
         \/ Reset \/ NewMonth \/ UNCHANGED vars
  PROVE  Typed'
<1> USE DEF Typed
<1>0. \A j \in JobId : [rows[j] EXCEPT !.deleted = TRUE] \in Rows
  BY RowUpdates, StatusValues DEF VisionTypeOK
<1>1. ASSUME NEW f \in File, Unlink(f) PROVE Typed'
  <2>1. files[f] \in FileRow BY DEF VisionTypeOK
  <2>2. files' = [files EXCEPT ![f] = [files[f] EXCEPT !.links = files[f].links \ {"AstroJournal"}]]
    BY <1>1 DEF Unlink, VisionTypeOK
  <2>3. files[f].links \ {"AstroJournal"} \in SUBSET Service BY <2>1 DEF FileRow
  <2>4. [files[f] EXCEPT !.links = files[f].links \ {"AstroJournal"}] \in FileRow
    BY <2>1, <2>3, FileUpdates
  <2>5. files' \in [File -> FileRow] BY <2>2, <2>4 DEF VisionTypeOK
  <2>6. QED BY <1>1, <2>5 DEF Unlink, VisionTypeOK, BusyHasJob, usage, history
<1>2. ASSUME NEW f \in File, DeleteAssets(f) PROVE Typed'
  <2>1. files[f] \in FileRow BY DEF VisionTypeOK
  <2>2. files' = [files EXCEPT ![f] = [files[f] EXCEPT !.assets = FALSE, !.locked = TRUE]]
    BY <1>2 DEF DeleteAssets, VisionTypeOK
  <2>3. [files[f] EXCEPT !.assets = FALSE, !.locked = TRUE] \in FileRow
    BY <2>1 DEF FileRow
  <2>5. files' \in [File -> FileRow] BY <2>2, <2>3 DEF VisionTypeOK
  <2>6. QED BY <1>2, <2>5 DEF DeleteAssets, VisionTypeOK, BusyHasJob, usage, history
<1>3. ASSUME NEW f \in File, CommitCleanup(f) PROVE Typed'
  <2>1. NoFile \in FileRow BY DEF NoFile, FileRow
  <2>2. files' \in [File -> FileRow] BY <1>3, <2>1 DEF CommitCleanup, VisionTypeOK
  <2>3. rows' \in [JobId -> Rows] BY <1>0, <1>3 DEF CommitCleanup, VisionTypeOK
  <2>4. QED BY <1>3, <2>2, <2>3 DEF CommitCleanup, VisionTypeOK, BusyHasJob, usage, history
<1>4. ASSUME NEW f \in File, FailCleanup(f) PROVE Typed'
  <2>1. files' \in [File -> FileRow] BY <1>4 DEF FailCleanup, VisionTypeOK, FileRow
  <2>2. QED BY <1>4, <2>1 DEF FailCleanup, Fault, VisionTypeOK, BusyHasJob, usage, history
<1>5. ASSUME NEW j \in JobId, Requeue(j) PROVE Typed'
  <2>1. Changed(j, "WAITING") \in Rows BY ChangedIsRow, StatusValues
  <2>2. rows' \in [JobId -> Rows] BY <1>5, <2>1 DEF Requeue, SetStatus, VisionTypeOK
  <2>3. retried' \in [JobId -> Nat] BY <1>5 DEF Requeue, VisionTypeOK
  <2>4. QED BY <1>5, <2>2, <2>3 DEF Requeue, VisionTypeOK, BusyHasJob, usage
<1>6. ASSUME NEW j \in JobId, ExpireSlow(j) \/ ExpireDead(j) PROVE Typed'
  BY <1>6 DEF ExpireSlow, ExpireDead, Expire, Fault, VisionTypeOK, BusyHasJob, usage, history
<1>7. CASE Reset
  <2>1. rows' \in [JobId -> Rows] BY <1>0, <1>7 DEF Reset, VisionTypeOK
  <2>2. ASSUME NEW f \in File
        PROVE  [files[f] EXCEPT !.links = files[f].links \ {"MemoryKeeper"}] \in FileRow
    BY DEF VisionTypeOK, FileRow
  <2>3. files' \in [File -> FileRow] BY <1>7, <2>2 DEF Reset
  <2>4. QED BY <1>7, <2>1, <2>3 DEF Reset, VisionTypeOK, BusyHasJob, usage, history
<1>8. CASE NewMonth
  BY <1>8, VisionQueueAssumption DEF NewMonth, VisionTypeOK, BusyHasJob, Month, history
<1>9. CASE UNCHANGED vars
  BY <1>9 DEF vars, VisionTypeOK, BusyHasJob, usage, history
<1>10. QED BY <1>1, <1>2, <1>3, <1>4, <1>5, <1>6, <1>7, <1>8, <1>9 DEF Cleanup

(* Lemma: Init and every step keep the types.                              *)
LEMMA TypedInductive ==
    /\ Init => Typed
    /\ Typed /\ [Next]_vars => Typed'
<1>1. Init => Typed
  <2> SUFFICES ASSUME Init PROVE Typed OBVIOUS
  <2>1. PICK f \in File : rows = [j \in JobId |-> [Row(f, 0) EXCEPT !.status = "ABSENT"]]
    BY DEF Init
  <2>2. [Row(f, 0) EXCEPT !.status = "ABSENT"] \in Rows
    <3>1. Row(f, 0) \in Rows BY NewRow
    <3>2. "ABSENT" \in Status BY DEF Status
    <3> QED BY <3>1, <3>2 DEF Rows
  <2>3. rows \in [JobId -> Rows] BY <2>1, <2>2
  <2>4. imports \in [Import -> ImportState] BY DEF Init, ImportState
  <2>5. files \in [File -> FileRow] BY DEF Init, NoFile, FileRow
  <2>6. worker \in [Worker -> WorkerState] /\ BusyHasJob
    BY DEF Init, Idle, WorkerState, BusyHasJob
  <2>7. month \in Month BY VisionQueueAssumption DEF Init, Month
  <2>8. QED BY <2>3, <2>4, <2>5, <2>6, <2>7 DEF Init, Typed, VisionTypeOK
<1>2. Typed /\ [Next]_vars => Typed'
  BY WorkerTyped, ImportsTyped, OthersTyped DEF Next
<1>3. QED BY <1>1, <1>2

(* Type correctness of the Vision queue.                                   *)
THEOREM VisionTypeCorrect == Spec => []VisionTypeOK
<1>1. Init => Typed BY TypedInductive
<1>2. Typed /\ [Next]_vars => Typed' BY TypedInductive
<1>3. Typed => VisionTypeOK BY DEF Typed
<1>4. QED BY <1>1, <1>2, <1>3, PTL DEF Spec

(* Lemma: the types as a fact of the specification.                        *)
LEMMA TypedHolds == Spec => []Typed
<1>1. Init => Typed BY TypedInductive
<1>2. Typed /\ [Next]_vars => Typed' BY TypedInductive
<1>3. QED BY <1>1, <1>2, PTL DEF Spec

-----------------------------------------------------------------------------
(* The monthly cap.  Each call under way has its unit, from this month or  *)
(* from the one before.                                                    *)

Calling == {w \in Worker : worker[w].pc = "calling"}

Quota == used <= Limit /\ calls + Cardinality(Calling) <= used + Cardinality(Worker)

(* Lemma: sets of workers are finite.                                      *)
LEMMA WorkerSets ==
  ASSUME NEW S \in SUBSET Worker
  PROVE  /\ IsFiniteSet(S) /\ Cardinality(S) \in Nat /\ Cardinality(Worker) \in Nat
         /\ Cardinality(S) <= Cardinality(Worker)
<1>1. IsFiniteSet(Worker) BY VisionQueueAssumption
<1>2. IsFiniteSet(S) /\ Cardinality(S) <= Cardinality(Worker) BY <1>1, FS_Subset
<1>3. QED BY <1>1, <1>2, FS_CardinalityType

(* Lemma: one worker more, one less, and fewer.                            *)
LEMMA CountWorkers ==
  ASSUME NEW S \in SUBSET Worker, NEW T \in SUBSET Worker, NEW w \in Worker
  PROVE  /\ w \notin S /\ T = S \cup {w} => Cardinality(T) = Cardinality(S) + 1
         /\ w \in S /\ T = S \ {w} => Cardinality(T) = Cardinality(S) - 1
         /\ T \subseteq S => Cardinality(T) <= Cardinality(S)
<1>1. IsFiniteSet(S) BY WorkerSets
<1>2. T \subseteq S => Cardinality(T) <= Cardinality(S) BY <1>1, FS_Subset
<1>3. QED BY <1>1, <1>2, FS_AddElement, FS_RemoveElement

(* Lemma: what a step does to the calls under way.                         *)
LEMMA CallingSteps ==
  ASSUME Typed, [Next]_vars
  PROVE  \/ /\ used < Limit /\ used' = used + 1 /\ calls' = calls
            /\ \E w \in Worker : w \notin Calling /\ Calling' = Calling \cup {w}
         \/ /\ used' = used /\ calls' = calls + 1
            /\ \E w \in Worker : w \in Calling /\ Calling' = Calling \ {w}
         \/ used' = 0 /\ calls' = 0 /\ Calling' = Calling
         \/ used' = used /\ calls' = calls /\ Calling' \subseteq Calling
<1> DEFINE Goal == \/ /\ used < Limit /\ used' = used + 1 /\ calls' = calls
                      /\ \E w \in Worker : w \notin Calling /\ Calling' = Calling \cup {w}
                   \/ /\ used' = used /\ calls' = calls + 1
                      /\ \E w \in Worker : w \in Calling /\ Calling' = Calling \ {w}
                   \/ used' = 0 /\ calls' = 0 /\ Calling' = Calling
                   \/ used' = used /\ calls' = calls /\ Calling' \subseteq Calling
<1>0. worker \in [Worker -> WorkerState] BY DEF Typed, VisionTypeOK
<1>1. ASSUME NEW w \in Worker, WorkerStep(w) \/ Crash(w) PROVE Goal
  <2>1. CASE \E j \in JobId : Pick(w, j)
    BY <1>0, <2>1 DEF Pick, Calling, usage
  <2>2. CASE MarkProcessing(w)
    BY <1>0, <2>2 DEF MarkProcessing, Go, Stop, Idle, Calling, usage
  <2>3. CASE RejectImage(w)
    BY <1>0, <2>3 DEF RejectImage, Go, Calling, usage
  <2>4. CASE Reserve(w)
    <3>1. CASE used < Limit
      <4>1. w \notin Calling /\ Calling' = Calling \cup {w}
        BY <1>0, <2>4, <3>1 DEF Reserve, Go, Calling
      <4>2. QED BY <2>4, <3>1, <4>1 DEF Reserve
    <3>2. CASE ~(used < Limit)
      BY <1>0, <2>4, <3>2 DEF Reserve, Go, Calling
    <3>3. QED BY <3>1, <3>2
  <2>5. CASE Call(w)
    <3>1. w \in Calling /\ Calling' = Calling \ {w}
      BY <1>0, <2>5 DEF Call, Go, Calling
    <3>2. QED BY <2>5, <3>1 DEF Call
  <2>6. CASE Save(w)
    BY <1>0, <2>6 DEF Save, Go, Calling, usage
  <2>7. CASE MarkFailed(w) \/ MarkCompleted(w) \/ MarkWaiting(w) \/ Crash(w)
    <3>1. Stop(w) /\ UNCHANGED usage
      BY <2>7 DEF MarkFailed, MarkCompleted, MarkWaiting, Crash
    <3>2. QED BY <1>0, <3>1 DEF Stop, Idle, Calling, usage
  <2>8. CASE RecoverStale(w)
    BY <2>8 DEF RecoverStale, Calling, usage
  <2>9. CASE ReadForFailure(w)
    BY <1>0, <2>9 DEF ReadForFailure, Calling, usage
  <2>10. QED BY <1>1, <2>1, <2>2, <2>3, <2>4, <2>5, <2>6, <2>7, <2>8, <2>9 DEF WorkerStep
<1>2. CASE NewMonth
  BY <1>2 DEF NewMonth, Calling
<1>3. CASE UNCHANGED <<worker, usage>>
  BY <1>3 DEF Calling, usage
<1>4. \/ \E w \in Worker : WorkerStep(w) \/ Crash(w)
      \/ NewMonth
      \/ UNCHANGED <<worker, usage>>
  BY DEF Next, vars, Register, Skip, CheckQueue, CheckLabels, Create, Unlink, DeleteAssets,
         Cleanup, CommitCleanup, FailCleanup, Requeue, ExpireSlow, ExpireDead, Expire, Reset
<1>5. QED BY <1>1, <1>2, <1>3, <1>4

(* The cap holds, for any number of workers and whatever month a call ends *)
(* up in.                                                                  *)
THEOREM QuotaHoldsAlways == Spec => []QuotaHolds
<1>1. Init => Quota
  <2> SUFFICES ASSUME Init PROVE Quota OBVIOUS
  <2>1. Calling \in SUBSET Worker BY DEF Calling
  <2>2. used = 0 /\ calls = 0 BY DEF Init
  <2>3. QED BY <2>1, <2>2, WorkerSets, VisionQueueAssumption DEF Quota
<1>2. Typed /\ Quota /\ [Next]_vars => Quota'
  <2> SUFFICES ASSUME Typed, Quota, [Next]_vars PROVE Quota' OBVIOUS
  <2>0. Calling \in SUBSET Worker /\ Calling' \in SUBSET Worker BY DEF Calling
  <2>1. used \in Nat /\ calls \in Nat /\ Limit \in Nat
    BY VisionQueueAssumption DEF Typed, VisionTypeOK
  <2>2. Cardinality(Calling) \in Nat /\ Cardinality(Calling') \in Nat
        /\ Cardinality(Worker) \in Nat /\ Cardinality(Calling') <= Cardinality(Worker)
    BY <2>0, WorkerSets
  <2>3. CASE /\ used < Limit /\ used' = used + 1 /\ calls' = calls
             /\ \E w \in Worker : w \notin Calling /\ Calling' = Calling \cup {w}
    <3>1. Cardinality(Calling') = Cardinality(Calling) + 1 BY <2>0, <2>3, CountWorkers
    <3>2. QED BY <2>1, <2>2, <2>3, <3>1 DEF Quota
  <2>4. CASE /\ used' = used /\ calls' = calls + 1
             /\ \E w \in Worker : w \in Calling /\ Calling' = Calling \ {w}
    <3>1. Cardinality(Calling') = Cardinality(Calling) - 1 BY <2>0, <2>4, CountWorkers
    <3>2. QED BY <2>1, <2>2, <2>4, <3>1 DEF Quota
  <2>5. CASE used' = 0 /\ calls' = 0 /\ Calling' = Calling
    BY <2>1, <2>2, <2>5 DEF Quota
  <2>6. CASE used' = used /\ calls' = calls /\ Calling' \subseteq Calling
    <3>1. Cardinality(Calling') <= Cardinality(Calling)
      <4>1. IsFiniteSet(Calling) BY <2>0, WorkerSets
      <4>2. QED BY <2>6, <4>1, FS_Subset
    <3>2. QED BY <2>1, <2>2, <2>6, <3>1 DEF Quota
  <2>7. QED BY <2>3, <2>4, <2>5, <2>6, CallingSteps
<1>3. Typed /\ Quota => QuotaHolds
  <2> SUFFICES ASSUME Typed, Quota PROVE QuotaHolds OBVIOUS
  <2>1. Calling \in SUBSET Worker BY DEF Calling
  <2>2. Cardinality(Calling) \in Nat /\ Cardinality(Worker) \in Nat BY <2>1, WorkerSets
  <2>3. used \in Nat /\ calls \in Nat BY DEF Typed, VisionTypeOK
  <2>4. QED BY <2>2, <2>3 DEF Quota, QuotaHolds
<1>4. QED BY <1>1, <1>2, <1>3, TypedHolds, PTL DEF Spec

-----------------------------------------------------------------------------
(* Results stay.  Until a job is recovered one worker at most runs it, and *)
(* its row says so: whoever ends a run writes to a row nobody else ended.  *)

SoleRun ==
    \A j \in JobId : taken[j] = 0 =>
        /\ \A w \in Worker : Runs(w, j) => rows[j].status = "PROCESSING"
        /\ \A w, v \in Worker : Runs(w, j) /\ Runs(v, j) => w = v

(* The workers that have claimed a job and not reserved a unit for it.     *)
Holding(j) == {w \in Worker : worker[w].job = j /\ worker[w].pc \in {"claimed", "deferring"}}

(* Lemma: steps that leave the statuses alone and start no run.            *)
LEMMA SoleFrame ==
  ASSUME Typed, SoleRun, taken' = taken,
         \A j \in JobId : rows'[j].status = rows[j].status,
         \A w \in Worker, j \in JobId : Runs(w, j)' => Runs(w, j)
  PROVE  SoleRun'
BY DEF SoleRun

(* Lemma: what a row is after its status changes.                          *)
LEMMA ChangedStatus ==
  ASSUME Typed, NEW j \in JobId, NEW st \in Status, SetStatus(j, st)
  PROVE  /\ rows'[j].status = st /\ rows'[j].deleted = rows[j].deleted
         /\ rows'[j].retry_count = rows[j].retry_count
         /\ \A k \in JobId \ {j} : rows'[k] = rows[k]
<1>1. rows \in [JobId -> Rows] /\ rows[j] \in Rows BY DEF Typed, VisionTypeOK
<1>2. Changed(j, st).status = st /\ Changed(j, st).deleted = rows[j].deleted
      /\ Changed(j, st).retry_count = rows[j].retry_count
  BY <1>1 DEF Changed, Rows
<1>3. QED BY <1>1, <1>2 DEF SetStatus

(* Lemma: what a failure leaves in its row.                                *)
LEMMA FailedStatus ==
  ASSUME Typed, NEW w \in Worker, MarkFailed(w)
  PROVE  /\ worker[w].job \in JobId
         /\ rows'[worker[w].job].status = "FAILED"
         /\ rows'[worker[w].job].deleted = rows[worker[w].job].deleted
         /\ rows'[worker[w].job].retry_count = worker[w].seen + 1
         /\ \A k \in JobId \ {worker[w].job} : rows'[k] = rows[k]
<1>1. worker[w].job \in JobId BY DEF MarkFailed, Typed, BusyHasJob
<1>2. rows \in [JobId -> Rows] /\ rows[worker[w].job] \in Rows
  BY <1>1 DEF Typed, VisionTypeOK
<1> DEFINE new == [rows[worker[w].job] EXCEPT !.status = "FAILED",
                        !.retry_count = worker[w].seen + 1,
                        !.error = IF worker[w].pc = "lost" THEN "missing" ELSE "other"]
<1>3. rows' = [rows EXCEPT ![worker[w].job] = new] BY DEF MarkFailed
<1>4. new.status = "FAILED" /\ new.deleted = rows[worker[w].job].deleted
      /\ new.retry_count = worker[w].seen + 1
  BY <1>2 DEF Rows
<1> HIDE DEF new
<1>5. QED BY <1>1, <1>2, <1>3, <1>4

(* Lemma: a row that is disabled or left alone keeps its status.           *)
LEMMA DisabledStatus ==
  ASSUME Typed, Reset \/ \E f \in File : CommitCleanup(f)
  PROVE  \A j \in JobId : /\ rows'[j].status = rows[j].status
                          /\ rows'[j].retry_count = rows[j].retry_count
<1>1. \A j \in JobId : /\ [rows[j] EXCEPT !.deleted = TRUE].status = rows[j].status
                       /\ [rows[j] EXCEPT !.deleted = TRUE].retry_count = rows[j].retry_count
  BY DEF Typed, VisionTypeOK, Rows
<1>2. QED BY <1>1 DEF Reset, CommitCleanup

(* Lemma: what a recovery leaves in the rows.                              *)
LEMMA RecoveredStatus ==
  ASSUME Typed, NEW w \in Worker, RecoverStale(w)
  PROVE  \A j \in JobId :
            \/ /\ rows[j].status = "PROCESSING" /\ rows'[j].status = "WAITING"
               /\ rows'[j].retry_count = rows[j].retry_count /\ taken'[j] = taken[j] + 1
            \/ rows'[j] = rows[j] /\ taken'[j] = taken[j]
<1>1. \A j \in JobId : /\ Changed(j, "WAITING").status = "WAITING"
                       /\ Changed(j, "WAITING").retry_count = rows[j].retry_count
  BY DEF Typed, VisionTypeOK, Rows, Changed
<1> HIDE DEF Changed
<1>2. QED BY <1>1 DEF RecoverStale, Abandoned

(* Lemma: whoever ends a run of a job ran it.                              *)
LEMMA EndersRun ==
  ASSUME Typed, NEW w \in Worker, MarkFailed(w) \/ MarkCompleted(w) \/ MarkWaiting(w)
  PROVE  /\ worker[w].job \in JobId /\ Runs(w, worker[w].job)
         /\ \A v \in Worker, j \in JobId : Runs(v, j)' => Runs(v, j) /\ v # w
         /\ \A j \in JobId \ {worker[w].job} : rows'[j] = rows[j]
<1>1. worker[w].job \in JobId /\ Runs(w, worker[w].job)
  BY DEF MarkFailed, MarkCompleted, MarkWaiting, Typed, BusyHasJob, Runs
<1>2. Stop(w) BY DEF MarkFailed, MarkCompleted, MarkWaiting
<1>3. \A v \in Worker, j \in JobId : Runs(v, j)' => Runs(v, j) /\ v # w
  BY <1>2 DEF Stop, Idle, Runs, Typed, VisionTypeOK
<1>4. CASE MarkFailed(w) BY <1>1, <1>3, <1>4, FailedStatus
<1>5. CASE MarkCompleted(w)
  BY <1>1, <1>3, <1>5, ChangedStatus, StatusValues DEF MarkCompleted
<1>6. CASE MarkWaiting(w)
  BY <1>1, <1>3, <1>6, ChangedStatus, StatusValues DEF MarkWaiting
<1>7. QED BY <1>4, <1>5, <1>6

(* Lemma: the steps that leave statuses, runs and costs alone.             *)
LEMMA QuietSteps ==
  ASSUME Typed, [Next]_vars
  PROVE  \/ \E w \in Worker : \/ MarkProcessing(w) \/ MarkFailed(w) \/ MarkCompleted(w)
                              \/ MarkWaiting(w) \/ RecoverStale(w) \/ Reserve(w)
         \/ \E i \in Import, j \in JobId : Create(i, j)
         \/ \E j \in JobId : Requeue(j)
         \/ /\ UNCHANGED <<taken, retried, cost>>
            /\ \A j \in JobId : /\ rows'[j].status = rows[j].status
                                /\ rows'[j].retry_count = rows[j].retry_count
            /\ \A w \in Worker, j \in JobId : Runs(w, j)' => Runs(w, j)
            /\ \A j \in JobId : Holding(j)' \subseteq Holding(j)
<1> DEFINE Loud == \/ \E w \in Worker : \/ MarkProcessing(w) \/ MarkFailed(w) \/ MarkCompleted(w)
                                        \/ MarkWaiting(w) \/ RecoverStale(w) \/ Reserve(w)
                   \/ \E i \in Import, j \in JobId : Create(i, j)
                   \/ \E j \in JobId : Requeue(j)
           Quiet == /\ UNCHANGED <<taken, retried, cost>>
                    /\ \A j \in JobId : /\ rows'[j].status = rows[j].status
                                        /\ rows'[j].retry_count = rows[j].retry_count
                    /\ \A w \in Worker, j \in JobId : Runs(w, j)' => Runs(w, j)
                    /\ \A j \in JobId : Holding(j)' \subseteq Holding(j)
<1>0. worker \in [Worker -> WorkerState] BY DEF Typed, VisionTypeOK
<1>1. ASSUME NEW w \in Worker, NEW j \in JobId, Pick(w, j) PROVE Quiet
  BY <1>0, <1>1 DEF Pick, Runs, Holding, history, usage
<1>2. ASSUME NEW w \in Worker, RejectImage(w) \/ Call(w) \/ Save(w) PROVE Quiet
  <2>1. rows' = rows /\ UNCHANGED <<taken, retried, cost>>
    BY <1>2 DEF RejectImage, Call, Save, history, usage
  <2>2. /\ worker[w].pc \notin {"idle", "picked"}
        /\ \E pc \in {"failing", "missing", "saving", "completing"} : Go(w, pc)
    BY <1>2 DEF RejectImage, Call, Save
  <2>3. QED BY <1>0, <2>1, <2>2 DEF Go, Runs, Holding
<1>3. ASSUME NEW w \in Worker, Crash(w) \/ ReadForFailure(w) PROVE Quiet
  <2>1. rows' = rows /\ UNCHANGED <<taken, retried, cost>>
    BY <1>3 DEF Crash, ReadForFailure, history, usage
  <2>2. CASE Crash(w)
    BY <1>0, <2>1, <2>2 DEF Crash, Stop, Idle, Runs, Holding
  <2>3. CASE ReadForFailure(w)
    BY <1>0, <2>1, <2>3 DEF ReadForFailure, Runs, Holding
  <2>4. QED BY <1>3, <2>2, <2>3
<1>4. ASSUME Reset \/ \E f \in File : CommitCleanup(f) PROVE Quiet
  <2>1. worker' = worker /\ UNCHANGED <<taken, retried, cost>>
    BY <1>4 DEF Reset, CommitCleanup, history, usage
  <2>2. QED BY <1>4, <2>1, DisabledStatus DEF Runs, Holding
<1>5. ASSUME UNCHANGED <<rows, worker, taken, retried, cost>> PROVE Quiet
  BY <1>5 DEF Runs, Holding
<1>6. \/ Loud
      \/ \E w \in Worker : \E j \in JobId : Pick(w, j)
      \/ \E w \in Worker : RejectImage(w) \/ Call(w) \/ Save(w)
      \/ \E w \in Worker : Crash(w) \/ ReadForFailure(w)
      \/ Reset \/ (\E f \in File : CommitCleanup(f))
      \/ UNCHANGED <<rows, worker, taken, retried, cost>>
  BY DEF Next, WorkerStep, vars, history, usage, Register, Skip, CheckQueue, CheckLabels,
         Unlink, DeleteAssets, Cleanup, FailCleanup, ExpireSlow, ExpireDead, Expire, NewMonth
<1> HIDE DEF Quiet, Loud
<1>7. (\E w \in Worker : \E j \in JobId : Pick(w, j)) => Quiet BY <1>1
<1>8. (\E w \in Worker : RejectImage(w) \/ Call(w) \/ Save(w)) => Quiet BY <1>2
<1>9. (\E w \in Worker : Crash(w) \/ ReadForFailure(w)) => Quiet BY <1>3
<1>10. Loud \/ Quiet BY <1>4, <1>5, <1>6, <1>7, <1>8, <1>9
<1>11. QED BY <1>10 DEF Loud, Quiet

(* Lemma: SoleRun is inductive.                                            *)
LEMMA SoleInductive ==
  ASSUME Typed, SoleRun, [Next]_vars
  PROVE  SoleRun'
<1>0. worker \in [Worker -> WorkerState] /\ rows \in [JobId -> Rows] /\ taken \in [JobId -> Nat]
  BY DEF Typed, VisionTypeOK
<1>1. ASSUME NEW w \in Worker, MarkProcessing(w) PROVE SoleRun'
  <2>1. worker[w].job \in JobId BY <1>1 DEF MarkProcessing, Typed, BusyHasJob
  <2>2. taken' = taken BY <1>1 DEF MarkProcessing, history
  <2>3. CASE worker[w].job \in Waiting
    <3>1. SetStatus(worker[w].job, "PROCESSING") /\ Go(w, "claimed")
      BY <1>1, <2>3 DEF MarkProcessing
    <3>2. rows[worker[w].job].status = "WAITING" BY <2>3 DEF Waiting
    <3>3. /\ rows'[worker[w].job].status = "PROCESSING"
          /\ \A k \in JobId \ {worker[w].job} : rows'[k] = rows[k]
      BY <2>1, <3>1, ChangedStatus, StatusValues
    <3>4. \A v \in Worker, j \in JobId :
             Runs(v, j)' => Runs(v, j) \/ (v = w /\ j = worker[w].job)
      BY <1>0, <3>1 DEF Go, Runs
    <3>5. QED BY <2>1, <2>2, <3>2, <3>3, <3>4 DEF SoleRun
  <2>4. CASE worker[w].job \notin Waiting
    <3>1. Stop(w) /\ rows' = rows BY <1>1, <2>4 DEF MarkProcessing
    <3>2. QED BY <1>0, <2>2, <3>1, SoleFrame DEF Stop, Idle, Runs
  <2>5. QED BY <2>3, <2>4
<1>2. ASSUME NEW w \in Worker, MarkFailed(w) \/ MarkCompleted(w) \/ MarkWaiting(w)
      PROVE  SoleRun'
  <2>1. taken' = taken BY <1>2 DEF MarkFailed, MarkCompleted, MarkWaiting, history
  <2>2. QED BY <1>2, <2>1, EndersRun DEF SoleRun
<1>3. ASSUME NEW w \in Worker, RecoverStale(w) PROVE SoleRun'
  <2>1. worker' = worker BY <1>3 DEF RecoverStale
  <2>2. \A j \in JobId : taken'[j] = 0 => taken[j] = 0 /\ rows'[j] = rows[j]
    BY <1>0, <1>3, RecoveredStatus
  <2>3. QED BY <2>1, <2>2 DEF SoleRun, Runs
<1>4. ASSUME NEW i \in Import, NEW j \in JobId, Create(i, j) PROVE SoleRun'
  <2>1. worker' = worker /\ taken' = taken /\ rows[j].status = "ABSENT"
    BY <1>4 DEF Create, history
  <2>2. \A k \in JobId \ {j} : rows'[k] = rows[k] BY <1>0, <1>4 DEF Create
  <2>3. QED BY <2>1, <2>2 DEF SoleRun, Runs
<1>5. ASSUME NEW j \in JobId, Requeue(j) PROVE SoleRun'
  <2>1. worker' = worker /\ taken' = taken /\ rows[j].status = "FAILED"
    BY <1>5 DEF Requeue
  <2>2. \A k \in JobId \ {j} : rows'[k] = rows[k]
    BY <1>5, ChangedStatus, StatusValues DEF Requeue
  <2>3. QED BY <2>1, <2>2 DEF SoleRun, Runs
<1>6. ASSUME NEW w \in Worker, Reserve(w) PROVE SoleRun'
  <2>1. rows' = rows /\ taken' = taken BY <1>6 DEF Reserve, history
  <2>2. worker[w].pc = "claimed" /\ \E pc : Go(w, pc) BY <1>6 DEF Reserve
  <2>3. \A v \in Worker, j \in JobId : Runs(v, j)' => Runs(v, j)
    BY <1>0, <2>2 DEF Go, Runs
  <2>4. QED BY <2>1, <2>3, SoleFrame
<1>7. CASE /\ taken' = taken
           /\ \A j \in JobId : rows'[j].status = rows[j].status
           /\ \A w \in Worker, j \in JobId : Runs(w, j)' => Runs(w, j)
  BY <1>7, SoleFrame
<1>8. QED BY <1>1, <1>2, <1>3, <1>4, <1>5, <1>6, <1>7, QuietSteps

(* Lemma: SoleRun holds.                                                   *)
LEMMA SoleHolds == Spec => []SoleRun
<1>1. Init => SoleRun BY DEF Init, SoleRun, Runs, Idle
<1>2. Typed /\ SoleRun /\ [Next]_vars => SoleRun' BY SoleInductive
<1>3. QED BY <1>1, <1>2, TypedHolds, PTL DEF Spec

(* Lemma: what a step may do to the mark of a completed row.               *)
LEMMA CompletedMark ==
  ASSUME Typed, [Next]_vars, NEW j \in JobId, rows[j].status = "COMPLETED", taken[j] = 0,
         rows'[j].status = "COMPLETED", rows'[j].deleted
  PROVE  rows[j].deleted \/ files[rows[j].file].locked
<1>0. rows \in [JobId -> Rows] BY DEF Typed, VisionTypeOK
<1>1. CASE \E k \in JobId, st \in Status : SetStatus(k, st)
  BY <1>1, ChangedStatus
<1>2. CASE \E w \in Worker : MarkFailed(w)
  BY <1>2, FailedStatus
<1>3. CASE \E w \in Worker : RecoverStale(w)
  BY <1>3, RecoveredStatus
<1>4. CASE \E i \in Import, k \in JobId : Create(i, k)
  BY <1>0, <1>4 DEF Create
<1>5. CASE Reset
  BY <1>0, <1>5 DEF Reset
<1>6. CASE \E f \in File : CommitCleanup(f)
  BY <1>0, <1>6 DEF CommitCleanup
<1>7. CASE rows' = rows
  BY <1>7
<1>8. \/ \E k \in JobId, st \in Status : SetStatus(k, st)
      \/ \E w \in Worker : MarkFailed(w) \/ RecoverStale(w)
      \/ \E i \in Import, k \in JobId : Create(i, k)
      \/ Reset \/ (\E f \in File : CommitCleanup(f))
      \/ rows' = rows
  <2>1. ASSUME NEW w \in Worker, WorkerStep(w) \/ Crash(w)
        PROVE  \/ \E k \in JobId, st \in Status : SetStatus(k, st)
               \/ MarkFailed(w) \/ RecoverStale(w)
               \/ rows' = rows
    <3>1. CASE MarkProcessing(w) \/ MarkCompleted(w) \/ MarkWaiting(w)
      <4>1. worker[w].job \in JobId
        BY <3>1 DEF MarkProcessing, MarkCompleted, MarkWaiting, Typed, BusyHasJob
      <4>2. QED BY <3>1, <4>1, StatusValues DEF MarkProcessing, MarkCompleted, MarkWaiting
    <3>2. QED
      BY <2>1, <3>1 DEF WorkerStep, Crash, Pick, RejectImage, Reserve, Call, Save, ReadForFailure
  <2>2. ASSUME NEW k \in JobId, Requeue(k) PROVE \E st \in Status : SetStatus(k, st)
    BY <2>2, StatusValues DEF Requeue
  <2>3. QED BY <2>1, <2>2 DEF Next, vars, Register, Skip, CheckQueue, CheckLabels, Unlink,
         DeleteAssets, Cleanup, FailCleanup, ExpireSlow, ExpireDead, Expire, NewMonth
<1>9. QED BY <1>1, <1>2, <1>3, <1>4, <1>5, <1>6, <1>7, <1>8

(* Lemma: a completed row that was never recovered stays completed.        *)
LEMMA CompletedStatus ==
  ASSUME Typed, SoleRun, [Next]_vars, NEW j \in JobId,
         rows[j].status = "COMPLETED", taken[j] = 0
  PROVE  rows'[j].status = "COMPLETED"
<1>0. rows \in [JobId -> Rows] BY DEF Typed, VisionTypeOK
<1>1. ASSUME NEW w \in Worker, MarkProcessing(w) PROVE rows'[j] = rows[j]
  <2>1. worker[w].job \in JobId BY <1>1 DEF MarkProcessing, Typed, BusyHasJob
  <2>2. CASE worker[w].job \in Waiting
    BY <1>1, <2>1, <2>2, ChangedStatus, StatusValues DEF MarkProcessing, Waiting
  <2>3. QED BY <1>1, <2>2 DEF MarkProcessing
<1>2. ASSUME NEW w \in Worker, MarkFailed(w) \/ MarkCompleted(w) \/ MarkWaiting(w)
      PROVE  rows'[j] = rows[j]
  BY <1>2, EndersRun DEF SoleRun
<1>3. ASSUME NEW w \in Worker, RecoverStale(w) PROVE rows'[j] = rows[j]
  BY <1>3, RecoveredStatus
<1>4. ASSUME NEW i \in Import, NEW k \in JobId, Create(i, k) PROVE rows'[j] = rows[j]
  BY <1>0, <1>4 DEF Create
<1>5. ASSUME NEW k \in JobId, Requeue(k) PROVE rows'[j] = rows[j]
  BY <1>5, ChangedStatus, StatusValues DEF Requeue
<1>6. ASSUME NEW w \in Worker, Reserve(w) PROVE rows'[j] = rows[j]
  BY <1>6 DEF Reserve
<1>7. QED BY <1>1, <1>2, <1>3, <1>4, <1>5, <1>6, QuietSteps

(* A completed job that was never recovered from its worker stays as it    *)
(* is, for any number of workers, imports and resets.                      *)
THEOREM CompletedIsKeptHolds == Spec => CompletedIsKept
<1>1. Typed /\ SoleRun /\ [Next]_vars =>
        [\A j \in JobId : rows[j].status = "COMPLETED" /\ taken[j] = 0 =>
            /\ rows'[j].status = "COMPLETED"
            /\ rows'[j].deleted => rows[j].deleted \/ files[rows[j].file].locked]_vars
  <2> SUFFICES ASSUME Typed, SoleRun, [Next]_vars, NEW j \in JobId,
                      rows[j].status = "COMPLETED", taken[j] = 0
               PROVE  /\ rows'[j].status = "COMPLETED"
                      /\ rows'[j].deleted => rows[j].deleted \/ files[rows[j].file].locked
    OBVIOUS
  <2>1. rows'[j].status = "COMPLETED" BY CompletedStatus
  <2>2. QED BY <2>1, CompletedMark
<1>2. QED BY <1>1, TypedHolds, SoleHolds, PTL DEF Spec, CompletedIsKept

-----------------------------------------------------------------------------
(* What a job costs.  A unit is granted when a row is made, retried or     *)
(* recovered; a waiting row and a claim each still hold one, and only a    *)
(* reservation spends it.                                                  *)

Unspent(j) == IF rows[j].status = "WAITING" THEN 1 ELSE 0
Granted(j) == (IF rows[j].status = "ABSENT" THEN 0 ELSE 1) + retried[j] + taken[j]
PaidFor(j) == cost[j] + Cardinality(Holding(j)) + Unspent(j) <= Granted(j)
Paid == \A j \in JobId : PaidFor(j)

(* Until a recovery, what a failing worker read is still the count, ...    *)
Failing(w, j) == worker[w].job = j /\ worker[w].pc \in {"failed", "lost"}
SeenIsCurrent ==
    \A w \in Worker, j \in JobId :
        taken[j] = 0 /\ Failing(w, j) => worker[w].seen = rows[j].retry_count

(* ... and the retries of a row are the failures before its last one, or   *)
(* fewer.                                                                  *)
RetriedRows ==
    \A j \in JobId : taken[j] = 0 =>
        /\ retried[j] < MaxRetry /\ retried[j] <= rows[j].retry_count
        /\ rows[j].status = "FAILED" => retried[j] < rows[j].retry_count
        /\ rows[j].status = "ABSENT" => retried[j] = 0

(* Lemma: the counters are numbers.                                        *)
LEMMA Counted ==
  ASSUME Typed, NEW j \in JobId
  PROVE  /\ cost[j] \in Nat /\ taken[j] \in Nat /\ retried[j] \in Nat
         /\ rows[j].retry_count \in Nat
         /\ Holding(j) \in SUBSET Worker /\ Cardinality(Holding(j)) \in Nat
<1>1. Holding(j) \in SUBSET Worker BY DEF Holding
<1>2. rows[j] \in Rows BY DEF Typed, VisionTypeOK
<1>3. rows[j].retry_count \in Nat BY <1>2 DEF Rows
<1>4. QED BY <1>1, <1>3, WorkerSets DEF Typed, VisionTypeOK

(* Lemma: only a worker that reads its row comes to fail it.               *)
LEMMA FailingSteps ==
  ASSUME Typed, [Next]_vars, NEW v \in Worker, NEW j \in JobId, Failing(v, j)'
  PROVE  worker'[v] = worker[v] \/ ReadForFailure(v)
<1>0. worker \in [Worker -> WorkerState] BY DEF Typed, VisionTypeOK
<1>1. ASSUME NEW w \in Worker, Stop(w) PROVE worker'[v] = worker[v]
  BY <1>0, <1>1 DEF Stop, Idle, Failing
<1>2. ASSUME NEW w \in Worker,
             NEW pc \in {"claimed", "calling", "saving", "completing", "failing", "missing",
                         "deferring"},
             Go(w, pc)
      PROVE  worker'[v] = worker[v]
  BY <1>0, <1>2 DEF Go, Failing
<1>3. ASSUME NEW w \in Worker, NEW k \in JobId, Pick(w, k) PROVE worker'[v] = worker[v]
  BY <1>0, <1>3 DEF Pick, Failing
<1>4. ASSUME NEW w \in Worker, ReadForFailure(w)
      PROVE  worker'[v] = worker[v] \/ ReadForFailure(v)
  BY <1>0, <1>4 DEF ReadForFailure
<1>5. ASSUME NEW w \in Worker, WorkerStep(w) \/ Crash(w)
      PROVE  worker'[v] = worker[v] \/ ReadForFailure(v)
  <2>1. \/ Stop(w) \/ ReadForFailure(w) \/ (\E k \in JobId : Pick(w, k)) \/ worker' = worker
        \/ \E pc \in {"claimed", "calling", "saving", "completing", "failing", "missing",
                      "deferring"} : Go(w, pc)
    BY <1>5 DEF WorkerStep, Crash, MarkProcessing, RejectImage, Reserve, Call, Save,
                MarkFailed, MarkCompleted, MarkWaiting, RecoverStale
  <2>2. QED BY <1>1, <1>2, <1>3, <1>4, <2>1
<1>6. CASE worker' = worker BY <1>6
<1>7. (\E w \in Worker : WorkerStep(w) \/ Crash(w)) \/ worker' = worker
  BY DEF Next, vars, Register, Skip, CheckQueue, CheckLabels, Create, Unlink, DeleteAssets,
         Cleanup, CommitCleanup, FailCleanup, Requeue, ExpireSlow, ExpireDead, Expire, Reset,
         NewMonth
<1>8. QED BY <1>5, <1>6, <1>7

(* Lemma: only failures and new rows change the count, and no step undoes  *)
(* a recovery.                                                             *)
LEMMA CountSteps ==
  ASSUME Typed, [Next]_vars, NEW j \in JobId, taken'[j] = 0
  PROVE  /\ taken[j] = 0
         /\ \/ rows'[j].retry_count = rows[j].retry_count
            \/ rows[j].status = "ABSENT"
            \/ \E w \in Worker : MarkFailed(w) /\ worker[w].job = j
<1> DEFINE Goal == /\ taken[j] = 0
                   /\ \/ rows'[j].retry_count = rows[j].retry_count
                      \/ rows[j].status = "ABSENT"
                      \/ \E w \in Worker : MarkFailed(w) /\ worker[w].job = j
<1>0. rows \in [JobId -> Rows] /\ taken \in [JobId -> Nat] BY DEF Typed, VisionTypeOK
<1>1. ASSUME NEW w \in Worker, MarkProcessing(w) \/ MarkCompleted(w) \/ MarkWaiting(w)
      PROVE  Goal
  <2>1. worker[w].job \in JobId /\ taken' = taken
    BY <1>1 DEF MarkProcessing, MarkCompleted, MarkWaiting, Typed, BusyHasJob, history
  <2>2. rows' = rows \/ \E st \in Status : SetStatus(worker[w].job, st)
    BY <1>1, StatusValues DEF MarkProcessing, MarkCompleted, MarkWaiting
  <2>3. rows'[j].retry_count = rows[j].retry_count
    BY <2>1, <2>2, ChangedStatus
  <2>4. QED BY <2>1, <2>3
<1>2. ASSUME NEW w \in Worker, MarkFailed(w) PROVE Goal
  <2>1. taken' = taken BY <1>2 DEF MarkFailed, history
  <2>2. QED BY <1>2, <2>1, FailedStatus
<1>3. ASSUME NEW w \in Worker, RecoverStale(w) PROVE Goal
  BY <1>0, <1>3, RecoveredStatus
<1>4. ASSUME NEW i \in Import, NEW k \in JobId, Create(i, k) PROVE Goal
  BY <1>0, <1>4 DEF Create, history
<1>5. ASSUME NEW k \in JobId, Requeue(k) PROVE Goal
  <2>1. taken' = taken BY <1>5 DEF Requeue
  <2>2. rows'[j].retry_count = rows[j].retry_count
    BY <1>5, ChangedStatus, StatusValues DEF Requeue
  <2>3. QED BY <2>1, <2>2
<1>6. ASSUME NEW w \in Worker, Reserve(w) PROVE Goal
  BY <1>6 DEF Reserve, history
<1>7. ASSUME taken' = taken, \A k \in JobId : rows'[k].retry_count = rows[k].retry_count
      PROVE  Goal
  BY <1>7
<1> HIDE DEF Goal
<1>8. Goal BY <1>1, <1>2, <1>3, <1>4, <1>5, <1>6, <1>7, QuietSteps
<1>9. QED BY <1>8 DEF Goal

(* Lemma: SeenIsCurrent is inductive, since a job nobody recovered has one *)
(* worker.                                                                 *)
LEMMA SeenInductive ==
  ASSUME Typed, SoleRun, SeenIsCurrent, [Next]_vars
  PROVE  SeenIsCurrent'
<1> SUFFICES ASSUME NEW v \in Worker, NEW j \in JobId, taken'[j] = 0, Failing(v, j)'
             PROVE  worker'[v].seen = rows'[j].retry_count
  BY DEF SeenIsCurrent
<1>0. worker \in [Worker -> WorkerState] BY DEF Typed, VisionTypeOK
<1>1. CASE ReadForFailure(v)
  BY <1>0, <1>1 DEF ReadForFailure, Failing
<1>2. CASE worker'[v] = worker[v]
  <2>1. Failing(v, j) /\ Runs(v, j) BY <1>2 DEF Failing, Runs
  <2>2. taken[j] = 0 BY CountSteps
  <2>3. rows[j].status = "PROCESSING" /\ worker[v].seen = rows[j].retry_count
    BY <2>1, <2>2 DEF SoleRun, SeenIsCurrent
  <2>4. ASSUME NEW w \in Worker, MarkFailed(w), worker[w].job = j PROVE FALSE
    <3>1. Runs(w, j) BY <2>4, EndersRun
    <3>2. w = v BY <2>1, <2>2, <3>1 DEF SoleRun
    <3>3. worker'[v].pc = "idle" BY <1>0, <2>4, <3>2 DEF MarkFailed, Stop, Idle
    <3>4. QED BY <1>2, <2>1, <3>3 DEF Failing
  <2>5. rows'[j].retry_count = rows[j].retry_count BY <2>3, <2>4, CountSteps
  <2>6. QED BY <1>2, <2>3, <2>5
<1>3. QED BY <1>1, <1>2, FailingSteps

(* Lemma: RetriedRows is inductive.                                        *)
LEMMA RetriedInductive ==
  ASSUME Typed, SeenIsCurrent, RetriedRows, [Next]_vars
  PROVE  RetriedRows'
<1>0. /\ rows \in [JobId -> Rows] /\ retried \in [JobId -> Nat] /\ MaxRetry \in Nat
      /\ \A j \in JobId : rows[j].retry_count \in Nat
  BY VisionQueueAssumption, Counted DEF Typed, VisionTypeOK
<1>00. taken \in [JobId -> Nat] BY DEF Typed, VisionTypeOK
<1>1. ASSUME NEW k \in JobId, NEW st \in {"WAITING", "PROCESSING", "COMPLETED"},
             SetStatus(k, st), retried' = retried, taken' = taken
      PROVE  RetriedRows'
  <2>1. st \in Status BY StatusValues
  <2>2. /\ rows'[k].status = st /\ rows'[k].retry_count = rows[k].retry_count
        /\ \A j \in JobId \ {k} : rows'[j] = rows[j]
    BY <1>1, <2>1, ChangedStatus
  <2>3. QED BY <1>1, <2>2 DEF RetriedRows
<1>2. ASSUME NEW w \in Worker, MarkProcessing(w) \/ MarkCompleted(w) \/ MarkWaiting(w)
      PROVE  RetriedRows'
  <2>1. worker[w].job \in JobId /\ retried' = retried /\ taken' = taken
    BY <1>2 DEF MarkProcessing, MarkCompleted, MarkWaiting, Typed, BusyHasJob, history
  <2>2. \/ rows' = rows
        \/ \E st \in {"WAITING", "PROCESSING", "COMPLETED"} : SetStatus(worker[w].job, st)
    BY <1>2 DEF MarkProcessing, MarkCompleted, MarkWaiting
  <2>3. CASE rows' = rows BY <2>1, <2>3 DEF RetriedRows
  <2>4. QED BY <1>1, <2>1, <2>2, <2>3
<1>3. ASSUME NEW w \in Worker, MarkFailed(w) PROVE RetriedRows'
  <2>1. /\ retried' = retried /\ taken' = taken
        /\ worker[w].job \in JobId /\ Failing(w, worker[w].job)
    BY <1>3, FailedStatus DEF MarkFailed, Failing, history
  <2>2. taken[worker[w].job] = 0 => worker[w].seen = rows[worker[w].job].retry_count
    BY <2>1 DEF SeenIsCurrent
  <2>3. /\ rows'[worker[w].job].status = "FAILED"
        /\ rows'[worker[w].job].retry_count = worker[w].seen + 1
        /\ \A j \in JobId \ {worker[w].job} : rows'[j] = rows[j]
    BY <1>3, FailedStatus
  <2>4. QED BY <1>0, <2>1, <2>2, <2>3 DEF RetriedRows
<1>4. ASSUME NEW w \in Worker, RecoverStale(w) PROVE RetriedRows'
  <2>1. retried' = retried BY <1>4 DEF RecoverStale
  <2>2. \A j \in JobId : taken'[j] = 0 => taken[j] = 0 /\ rows'[j] = rows[j]
    BY <1>00, <1>4, RecoveredStatus
  <2>3. QED BY <2>1, <2>2 DEF RetriedRows
<1>5. ASSUME NEW i \in Import, NEW k \in JobId, Create(i, k) PROVE RetriedRows'
  <2>1. retried' = retried /\ taken' = taken /\ rows[k].status = "ABSENT"
    BY <1>5 DEF Create, history
  <2>2. /\ rows'[k].status = "WAITING" /\ rows'[k].retry_count = 0
        /\ \A j \in JobId \ {k} : rows'[j] = rows[j]
    BY <1>0, <1>5 DEF Create, Row
  <2>3. QED BY <1>0, <2>1, <2>2 DEF RetriedRows
<1>6. ASSUME NEW k \in JobId, Requeue(k) PROVE RetriedRows'
  <2>1. /\ rows'[k].status = "WAITING" /\ rows'[k].retry_count = rows[k].retry_count
        /\ \A j \in JobId \ {k} : rows'[j] = rows[j]
    BY <1>6, ChangedStatus, StatusValues DEF Requeue
  <2>2. /\ rows[k].status = "FAILED" /\ rows[k].retry_count < MaxRetry /\ taken' = taken
        /\ retried'[k] = retried[k] + 1
        /\ \A j \in JobId \ {k} : retried'[j] = retried[j]
    BY <1>0, <1>6 DEF Requeue
  <2>3. QED BY <1>0, <2>1, <2>2 DEF RetriedRows
<1>7. ASSUME NEW w \in Worker, Reserve(w) PROVE RetriedRows'
  BY <1>7 DEF Reserve, RetriedRows, history
<1>8. ASSUME retried' = retried, taken' = taken,
             \A j \in JobId : /\ rows'[j].status = rows[j].status
                              /\ rows'[j].retry_count = rows[j].retry_count
      PROVE  RetriedRows'
  BY <1>8 DEF RetriedRows
<1>9. QED BY <1>2, <1>3, <1>4, <1>5, <1>6, <1>7, <1>8, QuietSteps

(* Lemma: a job of which a step counts no more than before stays paid for. *)
LEMMA PaidFrame ==
  ASSUME Typed, NEW j \in JobId, PaidFor(j), Holding(j)' \subseteq Holding(j),
         cost'[j] = cost[j], retried'[j] = retried[j], taken'[j] = taken[j],
         \/ rows'[j].status = rows[j].status
         \/ rows'[j].status \notin {"WAITING", "ABSENT"}
  PROVE  PaidFor(j)'
<1>1. /\ Holding(j) \in SUBSET Worker /\ Holding(j)' \in SUBSET Worker
      /\ IsFiniteSet(Holding(j))
  BY WorkerSets DEF Holding
<1>2. Cardinality(Holding(j)') <= Cardinality(Holding(j)) /\ Cardinality(Holding(j)') \in Nat
  BY <1>1, WorkerSets, FS_Subset
<1>3. QED BY <1>2, Counted DEF PaidFor, Unspent, Granted

(* Lemma: Paid is inductive.                                               *)
LEMMA PaidInductive ==
  ASSUME Typed, Paid, [Next]_vars, NEW j \in JobId
  PROVE  PaidFor(j)'
<1>0. /\ worker \in [Worker -> WorkerState] /\ rows \in [JobId -> Rows]
      /\ cost \in [JobId -> Nat] /\ retried \in [JobId -> Nat] /\ taken \in [JobId -> Nat]
      /\ PaidFor(j)
  BY DEF Typed, VisionTypeOK, Paid
<1>00. Holding(j) \in SUBSET Worker /\ Holding(j)' \in SUBSET Worker
  BY DEF Holding
<1>1. ASSUME NEW w \in Worker, MarkProcessing(w) PROVE PaidFor(j)'
  <2>1. /\ worker[w].job \in JobId /\ worker[w].pc = "picked"
        /\ UNCHANGED <<taken, retried, cost>>
    BY <1>1 DEF MarkProcessing, Typed, BusyHasJob, history, usage
  <2>2. CASE worker[w].job \in Waiting
    <3>1. SetStatus(worker[w].job, "PROCESSING") /\ Go(w, "claimed")
      BY <1>1, <2>2 DEF MarkProcessing
    <3>2. /\ rows'[worker[w].job].status = "PROCESSING"
          /\ \A k \in JobId \ {worker[w].job} : rows'[k] = rows[k]
      BY <2>1, <3>1, ChangedStatus, StatusValues
    <3>3. CASE j = worker[w].job
      <4>1. w \notin Holding(j) /\ Holding(j)' = Holding(j) \cup {w}
        BY <1>0, <2>1, <3>1, <3>3 DEF Go, Holding
      <4>2. Cardinality(Holding(j)') = Cardinality(Holding(j)) + 1
        BY <1>00, <4>1, CountWorkers
      <4>3. rows[j].status = "WAITING" BY <2>2, <3>3 DEF Waiting
      <4>4. QED BY <1>0, <2>1, <3>2, <3>3, <4>2, <4>3, Counted DEF PaidFor, Unspent, Granted
    <3>4. CASE j # worker[w].job
      <4>1. Holding(j)' \subseteq Holding(j) BY <1>0, <3>1, <3>4 DEF Go, Holding
      <4>2. QED BY <1>0, <2>1, <3>2, <3>4, <4>1, PaidFrame
    <3>5. QED BY <3>3, <3>4
  <2>3. CASE worker[w].job \notin Waiting
    <3>1. Stop(w) /\ rows' = rows BY <1>1, <2>3 DEF MarkProcessing
    <3>2. Holding(j)' \subseteq Holding(j) BY <1>0, <3>1 DEF Stop, Idle, Holding
    <3>3. QED BY <1>0, <2>1, <3>1, <3>2, PaidFrame
  <2>4. QED BY <2>2, <2>3
<1>2. ASSUME NEW w \in Worker, MarkFailed(w) \/ MarkCompleted(w) PROVE PaidFor(j)'
  <2>1. Stop(w) /\ UNCHANGED <<taken, retried, cost>>
    BY <1>2 DEF MarkFailed, MarkCompleted, history, usage
  <2>2. Holding(j)' \subseteq Holding(j) BY <1>0, <2>1 DEF Stop, Idle, Holding
  <2>3. worker[w].job \in JobId BY <1>2, EndersRun
  <2>4. rows'[worker[w].job].status \in {"FAILED", "COMPLETED"}
    <3>1. CASE MarkFailed(w) BY <3>1, FailedStatus
    <3>2. CASE MarkCompleted(w)
      BY <2>3, <3>2, ChangedStatus, StatusValues DEF MarkCompleted
    <3>3. QED BY <1>2, <3>1, <3>2
  <2>5. j # worker[w].job => rows'[j] = rows[j] BY <1>2, EndersRun
  <2>6. QED BY <1>0, <2>1, <2>2, <2>4, <2>5, PaidFrame
<1>3. ASSUME NEW w \in Worker, MarkWaiting(w) PROVE PaidFor(j)'
  <2>1. Stop(w) /\ worker[w].pc = "deferring" /\ UNCHANGED <<taken, retried, cost>>
    BY <1>3 DEF MarkWaiting, history, usage
  <2>2. CASE j = worker[w].job
    <3>1. w \in Holding(j) /\ Holding(j)' = Holding(j) \ {w}
      BY <1>0, <2>1, <2>2 DEF Stop, Idle, Holding, NoJob, JobId
    <3>2. Cardinality(Holding(j)') = Cardinality(Holding(j)) - 1
      BY <1>00, <3>1, CountWorkers
    <3>3. rows'[j].status = "WAITING"
      BY <1>3, <2>2, ChangedStatus, StatusValues DEF MarkWaiting
    <3>4. QED BY <1>0, <2>1, <3>2, <3>3, Counted DEF PaidFor, Unspent, Granted
  <2>3. CASE j # worker[w].job
    <3>1. Holding(j)' \subseteq Holding(j) BY <1>0, <2>1 DEF Stop, Idle, Holding
    <3>2. rows'[j] = rows[j] BY <1>3, <2>3, EndersRun
    <3>3. QED BY <1>0, <2>1, <3>1, <3>2, PaidFrame
  <2>4. QED BY <2>2, <2>3
<1>4. ASSUME NEW w \in Worker, RecoverStale(w) PROVE PaidFor(j)'
  <2>1. Holding(j)' = Holding(j) /\ UNCHANGED <<retried, cost>>
    BY <1>4 DEF RecoverStale, Holding, usage
  <2>2. CASE /\ rows[j].status = "PROCESSING" /\ rows'[j].status = "WAITING"
             /\ taken'[j] = taken[j] + 1
    BY <1>0, <2>1, <2>2, Counted DEF PaidFor, Unspent, Granted
  <2>3. CASE rows'[j] = rows[j] /\ taken'[j] = taken[j]
    BY <1>0, <2>1, <2>3, PaidFrame
  <2>4. QED BY <1>4, <2>2, <2>3, RecoveredStatus
<1>5. ASSUME NEW i \in Import, NEW k \in JobId, Create(i, k) PROVE PaidFor(j)'
  <2>1. Holding(j)' = Holding(j) /\ UNCHANGED <<taken, retried, cost>>
    BY <1>5 DEF Create, Holding, history, usage
  <2>2. CASE j = k
    <3>1. rows[j].status = "ABSENT" /\ rows'[j].status = "WAITING"
      BY <1>0, <1>5, <2>2 DEF Create, Row
    <3>2. QED BY <1>0, <2>1, <3>1, Counted DEF PaidFor, Unspent, Granted
  <2>3. CASE j # k
    <3>1. rows'[j] = rows[j] BY <1>0, <1>5, <2>3 DEF Create
    <3>2. QED BY <1>0, <2>1, <3>1, PaidFrame
  <2>4. QED BY <2>2, <2>3
<1>6. ASSUME NEW k \in JobId, Requeue(k) PROVE PaidFor(j)'
  <2>1. Holding(j)' = Holding(j) /\ UNCHANGED <<taken, cost>>
    BY <1>6 DEF Requeue, Holding, usage
  <2>2. /\ rows[k].status = "FAILED" /\ rows'[k].status = "WAITING"
        /\ \A l \in JobId \ {k} : rows'[l] = rows[l]
    BY <1>6, ChangedStatus, StatusValues DEF Requeue
  <2>3. CASE j = k
    <3>1. retried'[j] = retried[j] + 1 BY <1>0, <1>6, <2>3 DEF Requeue
    <3>2. QED BY <1>0, <2>1, <2>2, <2>3, <3>1, Counted DEF PaidFor, Unspent, Granted
  <2>4. CASE j # k
    <3>1. retried'[j] = retried[j] BY <1>0, <1>6, <2>4 DEF Requeue
    <3>2. QED BY <1>0, <2>1, <2>2, <2>4, <3>1, PaidFrame
  <2>5. QED BY <2>3, <2>4
<1>7. ASSUME NEW w \in Worker, Reserve(w) PROVE PaidFor(j)'
  <2>1. worker[w].pc = "claimed" /\ UNCHANGED <<rows, taken, retried>>
    BY <1>7 DEF Reserve, history
  <2>2. CASE used < Limit
    <3>1. Go(w, "calling") /\ cost' = [cost EXCEPT ![worker[w].job] = @ + 1]
      BY <1>7, <2>2 DEF Reserve
    <3>2. CASE j = worker[w].job
      <4>1. w \in Holding(j) /\ Holding(j)' = Holding(j) \ {w}
        BY <1>0, <2>1, <3>1, <3>2 DEF Go, Holding
      <4>2. Cardinality(Holding(j)') = Cardinality(Holding(j)) - 1
        BY <1>00, <4>1, CountWorkers
      <4>3. cost'[j] = cost[j] + 1 BY <1>0, <3>1, <3>2
      <4>4. QED BY <1>0, <2>1, <4>2, <4>3, Counted DEF PaidFor, Unspent, Granted
    <3>3. CASE j # worker[w].job
      <4>1. Holding(j)' \subseteq Holding(j) BY <1>0, <3>1 DEF Go, Holding
      <4>2. cost'[j] = cost[j] BY <1>0, <3>1, <3>3
      <4>3. QED BY <1>0, <2>1, <4>1, <4>2, PaidFrame
    <3>4. QED BY <3>2, <3>3
  <2>3. CASE ~(used < Limit)
    <3>1. Go(w, "deferring") /\ cost' = cost BY <1>7, <2>3 DEF Reserve
    <3>2. Holding(j)' \subseteq Holding(j) BY <1>0, <2>1, <3>1 DEF Go, Holding
    <3>3. QED BY <1>0, <2>1, <3>1, <3>2, PaidFrame
  <2>4. QED BY <2>2, <2>3
<1>8. CASE /\ UNCHANGED <<taken, retried, cost>>
           /\ \A k \in JobId : rows'[k].status = rows[k].status
           /\ \A k \in JobId : Holding(k)' \subseteq Holding(k)
  BY <1>0, <1>8, PaidFrame
<1> HIDE DEF PaidFor
<1>9. QED BY <1>1, <1>2, <1>3, <1>4, <1>5, <1>6, <1>7, <1>8, QuietSteps

(* A job costs what it was granted, and until it is recovered it is        *)
(* retried less than MAX_RETRY_COUNT times, for any number of workers and  *)
(* crashes.                                                                *)
THEOREM PaidOnceHolds == Spec => []PaidOnce
<1>1. Init => Paid /\ SeenIsCurrent /\ RetriedRows
  <2> SUFFICES ASSUME Init, NEW j \in JobId
               PROVE  /\ PaidFor(j)
                      /\ retried[j] < MaxRetry /\ retried[j] <= rows[j].retry_count
                      /\ rows[j].status = "ABSENT" /\ retried[j] = 0
                      /\ \A w \in Worker : ~Failing(w, j)
    BY DEF Paid, SeenIsCurrent, RetriedRows
  <2>1. Holding(j) = {} BY DEF Init, Holding, Idle
  <2>2. Cardinality(Holding(j)) = 0 BY <2>1, FS_EmptySet
  <2>3. /\ cost[j] = 0 /\ retried[j] = 0 /\ taken[j] = 0
        /\ rows[j].status = "ABSENT" /\ rows[j].retry_count = 0
    BY DEF Init, Row
  <2>4. \A w \in Worker : ~Failing(w, j) BY DEF Init, Idle, Failing
  <2>5. QED BY <2>2, <2>3, <2>4, VisionQueueAssumption DEF PaidFor, Unspent, Granted
<1>2. Typed /\ SoleRun /\ Paid /\ SeenIsCurrent /\ RetriedRows /\ [Next]_vars =>
        Paid' /\ SeenIsCurrent' /\ RetriedRows'
  BY PaidInductive, SeenInductive, RetriedInductive DEF Paid
<1>3. Typed /\ Paid /\ RetriedRows => PaidOnce
  <2> SUFFICES ASSUME Typed, Paid, RetriedRows, NEW j \in JobId
               PROVE  /\ cost[j] <= 1 + retried[j] + taken[j]
                      /\ taken[j] = 0 => retried[j] < MaxRetry
    BY DEF PaidOnce
  <2>1. PaidFor(j) BY DEF Paid
  <2>2. QED BY <2>1, Counted DEF PaidFor, Unspent, Granted, RetriedRows
<1>4. QED BY <1>1, <1>2, <1>3, TypedHolds, SoleHolds, PTL DEF Spec

===============================================================================
