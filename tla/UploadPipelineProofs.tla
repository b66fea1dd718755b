------------------------- MODULE UploadPipelineProofs -------------------------
(***************************************************************************)
(* Proofs about the upload pipeline, for any number of workers, requests,  *)
(* jobs, contents, crashes and slow runs, and any set of deployments.      *)
(***************************************************************************)
EXTENDS UploadPipeline, UploadJobsProofs

Storing == {"move", "copy", "insert"}

In(w, S) == worker[w].pc = "running" /\ ctx[w].stage \in S

(* From the duplicate check on, the stages that do not store the file are  *)
(* reached only with its row active, those after the link only with the    *)
(* link in place.                                                          *)
StageIsActive ==
    \A w \in Worker :
        In(w, {"duplicate", "drop", "link", "exif", "queue", "enqueue", "finish"}) =>
            Active(Sha(w))

StageIsLinked ==
    \A w \in Worker : In(w, {"drop", "exif", "queue", "enqueue", "finish"}) =>
        Linked(Sha(w), jobs[Job(w)].service)

(* A run that stores knows whether its content was a tombstone, and all    *)
(* that store the same content agree.                                      *)
StoringKnows ==
    /\ \A w \in Worker : In(w, Storing) =>
          files[Sha(w)].state # IF ctx[w].restore THEN "none" ELSE "deleted"
    /\ \A v, w \in Worker : In(v, Storing) /\ In(w, Storing) /\ Sha(v) = Sha(w) =>
          ctx[v].restore = ctx[w].restore

(* With advisory locks, the section from the duplicate check to the commit *)
(* is exclusive, and the content is not registered before it ends.         *)
SectionLocked ==
    setting.locking => \A w \in Worker :
        /\ In(w, {"duplicate"} \cup Storing) => lock[Sha(w)] = w
        /\ In(w, Storing) => ~Active(Sha(w))

(* The deployments on which no original is lost: incoming and original on  *)
(* one filesystem, or advisory locks and no crash.                         *)
SafeMove == setting.cross => setting.locking /\ crashes = 0

(* A partial original is the target of a copy under way, whose source is   *)
(* still there; what is about to be registered is whole, unless another    *)
(* run has registered the content.                                         *)
DiskFollowsStages ==
    /\ \A w \in Worker : In(w, {"copy"}) =>
          /\ setting.cross
          /\ disk[Sha(w)][PlaceOf(Job(w))] = "partial"
          /\ Job(w) \in incoming \cup mismatched
    /\ \A c \in Content, p \in Place : disk[c][p] = "partial" =>
          \E w \in Worker : In(w, {"copy"}) /\ Sha(w) = c /\ PlaceOf(Job(w)) = p
    /\ \A w \in Worker : In(w, {"insert"}) =>
          \/ disk[Sha(w)][PlaceOf(Job(w))] = "whole"
          \/ ~ctx[w].restore /\ Active(Sha(w))

(* A row without client_file_id has the hash it was inserted with, and a   *)
(* run that is past HashPlugin has compared it.                            *)
HashCompared ==
    \A w \in Worker :
        worker[w].pc = "running" /\ Mobile(Job(w)) /\ jobs[Job(w)].key = NoKey =>
            \/ ctx[w].stage = "read" /\ ctx[w].hash = jobs[Job(w)].hash
            \/ ctx[w].stage # "read" /\ jobs[Job(w)].hash \in {NoHash, Sha(w)}

(* Without crashes and slow runs, a job is PROCESSING exactly while one    *)
(* worker runs it.                                                         *)
Orderly == setting.locking /\ crashes = 0 /\ slow = 0

RunsAlone ==
    /\ \A j \in JobId : jobs[j].status = "PROCESSING" =>
          jobs[j].started # "stale" /\ \E w \in Worker : Runs(w, j)
    /\ \A w \in Worker, j \in JobId : Runs(w, j) => jobs[j].status = "PROCESSING"
    /\ \A v, w \in Worker, j \in JobId : Runs(v, j) /\ Runs(w, j) => v = w

(* An original other than the registered one was left by a job of its      *)
(* content that has failed, is failing, or is about to register it.        *)
LeftBy(j) ==
    \/ jobs[j].status = "FAILED"
    \/ \E w \in Worker :
          /\ Runs(w, j)
          /\ worker[w].pc \in {"failing", "marking"} \/ In(w, {"copy", "insert"})

OriginalsExplained ==
    \A c \in Content, p \in Place : disk[c][p] # "absent" =>
        \/ Active(c) /\ p = files[c].place
        \/ \E j \in JobId : Exists(j) /\ content[j] = c /\ PlaceOf(j) = p /\ LeftBy(j)

(* Lemma: every step of the pipeline is a step of the queue, or none.      *)
LEMMA QueueStep ==
  ASSUME [StoreNext]_allVars
  PROVE  [Next]_vars
<1>1. CASE StoreApi
  BY <1>1 DEF StoreApi, ReceiveUpload, SaveAndCreate, OtherApi, Next, Api
<1>2. ASSUME NEW w \in Worker, CrashRun(w) PROVE Next
  BY <1>2 DEF CrashRun, Next
<1>3. ASSUME NEW w \in Worker, Process(w) PROVE [Next]_vars
  <2>1. CASE StartRun(w) BY <2>1 DEF StartRun, Next, Work
  <2>2. CASE \/ RejectWrongHash(w) \/ MissingIncoming(w) \/ RejectDuplicate(w)
             \/ RejectLinked(w) \/ Abort(w)
    <3>1. Raise(w)
      BY <2>2 DEF RejectWrongHash, MissingIncoming, RejectDuplicate, RejectLinked, Abort, Fail
    <3>2. QED BY <3>1 DEF Next, Work
  <2>3. CASE \/ ReadIncoming(w) \/ CheckDuplicate(w) \/ LinkDuplicate(w) \/ DropIncoming(w)
             \/ MoveToStorage(w) \/ FinishCopy(w) \/ InsertFile(w)
             \/ CommitMetadata(w) \/ CheckVision(w) \/ EnqueueVision(w)
    BY <2>3 DEF ReadIncoming, CheckDuplicate, LinkDuplicate, DropIncoming, MoveToStorage,
                FinishCopy, InsertFile, CommitMetadata, CheckVision, EnqueueVision
  <2>4. CASE LoseFileInsert(w) \/ LinkStored(w)
    <3>1. Raise(w) \/ UNCHANGED vars BY <2>4 DEF LoseFileInsert, LinkStored, Fail
    <3>2. QED BY <3>1 DEF Next, Work
  <2>5. CASE FinishRun(w) BY <2>5 DEF FinishRun, Next, Work
  <2>6. CASE QueueOnly(w) BY <2>6 DEF QueueOnly, Next, Work
  <2>7. QED BY <1>3, <2>1, <2>2, <2>3, <2>4, <2>5, <2>6 DEF Process, Progress
<1>4. CASE StoreTime BY <1>4 DEF StoreTime, Next
<1>5. CASE UNCHANGED allVars BY <1>5 DEF allVars
<1>6. QED BY <1>1, <1>2, <1>3, <1>4, <1>5 DEF StoreNext

(* Lemma: the instance of the queue is the queue that is extended.         *)
LEMMA SameQueue == (Init => Queue!Init) /\ ([Next]_vars => [Queue!Next]_(Queue!vars))
<1>1. Init => Queue!Init
  BY DEF Init, Queue!Init, NoRow, Queue!NoRow, NoJob, Queue!NoJob, Idle, Queue!Idle,
         JobId, Queue!JobId
<1>2. ASSUME Next PROVE Queue!Next
  <2>1. Api => Queue!Api
    BY DEF Api, Queue!Api, Receive, Queue!Receive, Refuse, Queue!Refuse,
           CreateWaitingJob, Queue!CreateWaitingJob, LoseInsert, Queue!LoseInsert,
           BackfillHash, Queue!BackfillHash, JobId, Queue!JobId, SameKey, Queue!SameKey,
           IdempotentResponse, Queue!IdempotentResponse, Exists, Queue!Exists,
           NewRow, Queue!NewRow, NoRow, Queue!NoRow, NoJob, Queue!NoJob
  <2>2. ASSUME NEW w \in Worker, Work(w) PROVE Queue!Work(w)
    BY <2>2 DEF Work, Queue!Work, Claim, Queue!Claim, First, Queue!First, Waiting,
           Queue!Waiting, Before, Queue!Before, Rank, Queue!Rank, Start, Queue!Start,
           MarkCompleted, Queue!MarkCompleted, Raise, Queue!Raise, ReadForFailure,
           Queue!ReadForFailure, MarkFailed, Queue!MarkFailed, RecoverStale,
           Queue!RecoverStale, Stale, Queue!Stale, JobId, Queue!JobId, Idle, Queue!Idle,
           NoJob, Queue!NoJob
  <2>3. ASSUME NEW w \in Worker, Crash(w) PROVE Queue!Crash(w)
    BY <2>3 DEF Crash, Queue!Crash, Idle, Queue!Idle, NoJob, Queue!NoJob
  <2>4. Time => Queue!Time
    BY DEF Time, Queue!Time, ExpireSlow, Queue!ExpireSlow, ExpireDead, Queue!ExpireDead,
           Expirable, Queue!Expirable, Runs, Queue!Runs, JobId, Queue!JobId
  <2>5. QED BY <1>2, <2>1, <2>2, <2>3, <2>4 DEF Next, Queue!Next
<1>3. QED BY <1>1, <1>2 DEF vars, Queue!vars

(* Theorem: the pipeline implements the queue.  Whatever a stage does to   *)
(* files, links and locks, the rows, requests and workers it leaves behind *)
(* are those of a step of UploadJobs, so that what is proved of the queue  *)
(* holds in the pipeline.                                                  *)
THEOREM ImplementsQueueHolds == StoreSpec => ImplementsQueue
<1>1. StoreInit => Queue!Init BY SameQueue DEF StoreInit
<1>2. [StoreNext]_allVars => [Queue!Next]_(Queue!vars) BY QueueStep, SameQueue
<1>3. QED BY <1>1, <1>2, PTL DEF StoreSpec, ImplementsQueue, Queue!Spec

(* Lemma: a behaviour of the pipeline is one of the queue.                 *)
LEMMA StoreIsQueue == StoreSpec => Spec
<1>1. StoreInit => Init BY DEF StoreInit
<1>2. [StoreNext]_allVars => [Next]_vars BY QueueStep
<1>3. QED BY <1>1, <1>2, PTL DEF StoreSpec, Spec

-----------------------------------------------------------------------------
(* What the steps do to a worker's context and to the tables.              *)

(* The rows of the queue are typed, a busy worker has a job that exists,   *)
(* and an answer names a row of its key.                                   *)
Base == StoreTypeOK /\ BusyHasJob /\ RunIsClaimed /\ AnswerIsRow

CtxTo(w, st) == /\ ctx'[w].stage = st /\ ctx'[w].hash = ctx[w].hash
                /\ \A v \in Worker \ {w} : ctx'[v] = ctx[v]

(* Lemma: the ways a worker's context changes.                             *)
LEMMA CtxSteps ==
  ASSUME ctx \in [Worker -> Ctx], NEW w \in Worker, NEW st \in Stage, NEW b \in BOOLEAN
  PROVE  /\ ctx' = [ctx EXCEPT ![w].stage = st] =>
               ctx' \in [Worker -> Ctx] /\ CtxTo(w, st) /\ ctx'[w].restore = ctx[w].restore
         /\ ctx' = [ctx EXCEPT ![w].stage = st, ![w].restore = b] =>
               ctx' \in [Worker -> Ctx] /\ CtxTo(w, st) /\ ctx'[w].restore = b
         /\ ctx' = [ctx EXCEPT ![w].stage = st, ![w].created = b] =>
               ctx' \in [Worker -> Ctx] /\ CtxTo(w, st)
         /\ ctx' = [ctx EXCEPT ![w].stop = b, ![w].stage = st] =>
               ctx' \in [Worker -> Ctx] /\ CtxTo(w, st)
<1> DEFINE x == ctx[w]
<1>0. x \in Ctx OBVIOUS
<1> HIDE DEF x
<1>1. /\ [x EXCEPT !.stage = st] \in Ctx
      /\ [x EXCEPT !.stage = st].stage = st
      /\ [x EXCEPT !.stage = st].hash = x.hash
      /\ [x EXCEPT !.stage = st].restore = x.restore
  BY <1>0 DEF Ctx
<1>2. /\ [x EXCEPT !.stage = st, !.restore = b] \in Ctx
      /\ [x EXCEPT !.stage = st, !.restore = b].stage = st
      /\ [x EXCEPT !.stage = st, !.restore = b].hash = x.hash
      /\ [x EXCEPT !.stage = st, !.restore = b].restore = b
  BY <1>0 DEF Ctx
<1>3. /\ [x EXCEPT !.stage = st, !.created = b] \in Ctx
      /\ [x EXCEPT !.stage = st, !.created = b].stage = st
      /\ [x EXCEPT !.stage = st, !.created = b].hash = x.hash
  BY <1>0 DEF Ctx
<1>4. /\ [x EXCEPT !.stop = b, !.stage = st] \in Ctx
      /\ [x EXCEPT !.stop = b, !.stage = st].stage = st
      /\ [x EXCEPT !.stop = b, !.stage = st].hash = x.hash
  BY <1>0 DEF Ctx
<1>5. ASSUME NEW y \in Ctx, ctx' = [ctx EXCEPT ![w] = y]
      PROVE  ctx' \in [Worker -> Ctx] /\ ctx'[w] = y /\ \A v \in Worker \ {w} : ctx'[v] = ctx[v]
  BY <1>5
<1>6. ASSUME ctx' = [ctx EXCEPT ![w].stage = st]
      PROVE  ctx' \in [Worker -> Ctx] /\ CtxTo(w, st) /\ ctx'[w].restore = ctx[w].restore
  BY <1>1, <1>5, <1>6 DEF CtxTo, x
<1>7. ASSUME ctx' = [ctx EXCEPT ![w].stage = st, ![w].restore = b]
      PROVE  ctx' \in [Worker -> Ctx] /\ CtxTo(w, st) /\ ctx'[w].restore = b
  BY <1>2, <1>5, <1>7 DEF CtxTo, x
<1>8. ASSUME ctx' = [ctx EXCEPT ![w].stage = st, ![w].created = b]
      PROVE  ctx' \in [Worker -> Ctx] /\ CtxTo(w, st)
  BY <1>3, <1>5, <1>8 DEF CtxTo, x
<1>9. ASSUME ctx' = [ctx EXCEPT ![w].stop = b, ![w].stage = st]
      PROVE  ctx' \in [Worker -> Ctx] /\ CtxTo(w, st)
  BY <1>4, <1>5, <1>9 DEF CtxTo, x
<1>10. QED BY <1>6, <1>7, <1>8, <1>9

(* Lemma: a context that is taken up or given up.                          *)
LEMMA CtxResets ==
  ASSUME ctx \in [Worker -> Ctx], NEW w \in Worker, NEW h \in Hash \cup {NoHash}
  PROVE  /\ NoCtx \in Ctx /\ [NoCtx EXCEPT !.stage = "read", !.hash = h] \in Ctx
         /\ [NoCtx EXCEPT !.stage = "read", !.hash = h].stage = "read"
         /\ [NoCtx EXCEPT !.stage = "read", !.hash = h].hash = h
         /\ \A y \in Ctx : ctx' = [ctx EXCEPT ![w] = y] =>
               /\ ctx' \in [Worker -> Ctx] /\ ctx'[w] = y
               /\ \A v \in Worker \ {w} : ctx'[v] = ctx[v]
BY ZenonT(40) DEF Ctx, NoCtx, Stage

(* Lemma: giving the locks back.                                           *)
LEMMA UnlockedType ==
  ASSUME lock \in [Content -> Worker \cup {None}], NEW w \in Worker
  PROVE  /\ Unlocked(w) \in [Content -> Worker \cup {None}]
         /\ \A c \in Content : lock[c] # w => Unlocked(w)[c] = lock[c]
BY DEF Unlocked

(* Lemma: a change of one place on disk.                                   *)
LEMMA DiskUpdate ==
  ASSUME disk \in [Content -> [Place -> {"absent", "partial", "whole"}]],
         NEW c \in Content, NEW p \in Place, NEW x \in {"absent", "partial", "whole"}
  PROVE  /\ [disk EXCEPT ![c][p] = x] \in [Content -> [Place -> {"absent", "partial", "whole"}]]
         /\ [disk EXCEPT ![c][p] = x][c][p] = x
         /\ \A d \in Content, q \in Place :
               <<d, q>> # <<c, p>> => [disk EXCEPT ![c][p] = x][d][q] = disk[d][q]
OBVIOUS

(* Lemma: the job, content and place of a worker that is busy.             *)
LEMMA WorkerOperands ==
  ASSUME StoreTypeOK, BusyHasJob, NEW w \in Worker, worker[w].pc # "idle"
  PROVE  /\ Job(w) \in JobId /\ Sha(w) \in Content
         /\ PlaceOf(Job(w)) \in Place /\ jobs[Job(w)].service \in Service
         /\ jobs[Job(w)].hash \in Hash \cup {NoHash}
BY DEF StoreTypeOK, TypeOK, BusyHasJob, Job, Sha, PlaceOf, Place, Row

(* Lemma: the types of the store's variables.                              *)
LEMMA StoreTypeInductive ==
    /\ StoreInit => StoreTypeOK /\ BusyHasJob
    /\ StoreTypeOK /\ BusyHasJob /\ [StoreNext]_allVars => StoreTypeOK' /\ BusyHasJob'
<1>1. ASSUME StoreInit PROVE StoreTypeOK /\ BusyHasJob
  <2>1. TypeOK /\ BusyHasJob BY <1>1, TypeInductive DEF StoreInit
  <2>2. PICK known \in [Content -> {"none", "linked", "reset", "deleted"}] :
          LET alive == {c \in Content : known[c] \in {"linked", "reset"}}
          IN  /\ files = [c \in Content |->
                            [state |-> IF c \in alive THEN "active" ELSE
                                       IF known[c] = "none" THEN "none" ELSE "deleted",
                             place |-> "original"]]
              /\ disk = [c \in Content |-> [p \in Place |->
                           IF c \in alive /\ p = "original" THEN "whole" ELSE "absent"]]
              /\ links = {<<c, "MemoryKeeper">> : c \in {x \in Content : known[x] = "linked"}}
              /\ meta = alive
              /\ vision \in {v \in [Content -> 0..1] : \A c \in Content :
                               /\ c \notin alive => v[c] = 0
                               /\ known[c] = "linked" => v[c] = 1}
    BY <1>1 DEF StoreInit
  <2>3. files \in [Content -> FileRow] BY <2>2 DEF FileRow, Place
  <2>4. disk \in [Content -> [Place -> {"absent", "partial", "whole"}]] BY <2>2
  <2>5. links \subseteq Content \X Service BY <2>2 DEF Service
  <2>6. meta \subseteq Content /\ vision \in [Content -> Nat] BY <2>2
  <2>7. /\ setting \in Setting /\ content \in [JobId -> Content] /\ incoming \subseteq JobId
        /\ lock \in [Content -> Worker \cup {None}] /\ mismatched \subseteq JobId
    BY <1>1 DEF StoreInit
  <2>8. ctx \in [Worker -> Ctx] BY <1>1 DEF StoreInit, NoCtx, Ctx, Stage
  <2>9. QED BY <2>1, <2>3, <2>4, <2>5, <2>6, <2>7, <2>8 DEF StoreTypeOK
<1>2. ASSUME StoreTypeOK, BusyHasJob, [StoreNext]_allVars PROVE StoreTypeOK' /\ BusyHasJob'
  <2> DEFINE Disk == [Content -> [Place -> {"absent", "partial", "whole"}]]
             Locks == [Content -> Worker \cup {None}]
             Goal == /\ setting' \in Setting /\ content' \in [JobId -> Content]
                     /\ incoming' \subseteq JobId /\ disk' \in Disk
                     /\ files' \in [Content -> FileRow] /\ links' \subseteq Content \X Service
                     /\ meta' \subseteq Content /\ vision' \in [Content -> Nat]
                     /\ lock' \in Locks /\ ctx' \in [Worker -> Ctx]
                     /\ mismatched' \subseteq JobId
  <2>0. TypeOK' /\ BusyHasJob' BY <1>2, QueueStep, TypeInductive DEF StoreTypeOK
  <2>1. TypeOK /\ BusyHasJob BY <1>2 DEF StoreTypeOK
  <2>2. /\ setting \in Setting /\ content \in [JobId -> Content]
        /\ incoming \subseteq JobId /\ disk \in Disk
        /\ files \in [Content -> FileRow] /\ links \subseteq Content \X Service
        /\ meta \subseteq Content /\ vision \in [Content -> Nat]
        /\ lock \in Locks /\ ctx \in [Worker -> Ctx] /\ mismatched \subseteq JobId
    BY <1>2 DEF StoreTypeOK
  <2> SUFFICES Goal BY <2>0 DEF StoreTypeOK
  <2>3. CASE UNCHANGED storeVars BY <2>2, <2>3 DEF storeVars
  <2>4. ASSUME NEW r \in Request, NEW j \in JobId, SaveAndCreate(r, j) PROVE Goal
    BY <2>2, <2>4 DEF SaveAndCreate
  <2>5. ASSUME NEW w \in Worker, Process(w) \/ CrashRun(w), ~QueueOnly(w) PROVE Goal
    <3>1. worker[w].pc # "idle"
      BY <2>5 DEF Process, Progress, StartRun, Start, ReadIncoming, RejectWrongHash, MissingIncoming,
                  CheckDuplicate, RejectDuplicate, LinkDuplicate, RejectLinked, DropIncoming,
                  MoveToStorage, FinishCopy, InsertFile, LoseFileInsert, LinkStored,
                  CommitMetadata, CheckVision, EnqueueVision, FinishRun, Abort, Fail, Raise,
                  CrashRun, Crash, At
    <3>2. /\ Job(w) \in JobId /\ Sha(w) \in Content
          /\ PlaceOf(Job(w)) \in Place /\ jobs[Job(w)].service \in Service
          /\ jobs[Job(w)].hash \in Hash \cup {NoHash}
      BY <1>2, <3>1, WorkerOperands
    <3>3. ASSUME NEW st \in Stage, NEW b \in BOOLEAN,
                 \/ Goto(w, st)
                 \/ ctx' = [ctx EXCEPT ![w].stage = st, ![w].restore = b]
                 \/ ctx' = [ctx EXCEPT ![w].stage = st, ![w].created = b]
                 \/ ctx' = [ctx EXCEPT ![w].stop = b, ![w].stage = st]
          PROVE  ctx' \in [Worker -> Ctx]
      BY <2>2, <3>3, CtxSteps DEF Goto
    <3>4. ASSUME ctx' = [ctx EXCEPT ![w] = NoCtx] PROVE ctx' \in [Worker -> Ctx]
      BY <2>2, <3>4, CtxResets
    <3>5. lock' = Unlocked(w) => lock' \in Locks BY <2>2, UnlockedType
    <3>6. ASSUME NEW x \in {"absent", "partial", "whole"},
                 disk' = [disk EXCEPT ![Sha(w)][PlaceOf(Job(w))] = x]
          PROVE  disk' \in Disk
      BY <2>2, <3>2, <3>6, DiskUpdate
    <3>7. Fail(w) => lock' \in Locks /\ ctx' \in [Worker -> Ctx]
      BY <3>4, <3>5 DEF Fail
    <3>8. CASE StartRun(w)
      <4>1. ctx' \in [Worker -> Ctx] BY <2>2, <3>2, <3>8, CtxResets DEF StartRun
      <4>2. QED BY <2>2, <3>8, <4>1 DEF StartRun
    <3>9. CASE ReadIncoming(w) BY <2>2, <3>3, <3>9 DEF ReadIncoming, Stage
    <3>10. CASE \/ RejectWrongHash(w) \/ MissingIncoming(w) \/ RejectDuplicate(w)
                \/ RejectLinked(w)
      BY <2>2, <3>2, <3>7, <3>10
         DEF RejectWrongHash, MissingIncoming, RejectDuplicate, RejectLinked
    <3>11. CASE Abort(w) BY <2>2, <3>6, <3>7, <3>11 DEF Abort
    <3>12. CASE CheckDuplicate(w)
      <4>1. ctx' \in [Worker -> Ctx]
        <5> DEFINE st == IF Active(Sha(w)) THEN "duplicate" ELSE "move"
                   b == files[Sha(w)].state = "deleted"
        <5>1. st \in Stage /\ b \in BOOLEAN BY DEF Stage
        <5>2. ctx' = [ctx EXCEPT ![w].stage = st, ![w].restore = b]
          BY <3>12 DEF CheckDuplicate
        <5> HIDE DEF st, b
        <5>3. QED BY <3>3, <5>1, <5>2
      <4>2. lock' \in Locks BY <2>2, <3>2, <3>12 DEF CheckDuplicate, Locked
      <4>3. QED BY <2>2, <3>12, <4>1, <4>2 DEF CheckDuplicate
    <3>13. CASE LinkDuplicate(w)
      <4>1. ctx' \in [Worker -> Ctx]
        <5> DEFINE b == <<Sha(w), jobs[Job(w)].service>> \notin links
        <5>1. b \in BOOLEAN /\ "drop" \in Stage BY DEF Stage
        <5>2. ctx' = [ctx EXCEPT ![w].stage = "drop", ![w].created = b]
          BY <3>13 DEF LinkDuplicate
        <5> HIDE DEF b
        <5>3. QED BY <3>3, <5>1, <5>2
      <4>2. QED BY <2>2, <3>2, <3>5, <3>13, <4>1 DEF LinkDuplicate
    <3>14. CASE DropIncoming(w) BY <2>2, <3>3, <3>14 DEF DropIncoming, Stage
    <3>15. CASE MoveToStorage(w) BY <2>2, <3>2, <3>3, <3>6, <3>15 DEF MoveToStorage, Stage
    <3>16. CASE FinishCopy(w) BY <2>2, <3>3, <3>6, <3>16 DEF FinishCopy, Stage
    <3>17. CASE InsertFile(w)
      <4>1. files' \in [Content -> FileRow] BY <2>2, <3>2, <3>17 DEF InsertFile, FileRow
      <4>2. QED BY <2>2, <3>3, <3>5, <3>17, <4>1 DEF InsertFile, Stage
    <3>18. CASE LoseFileInsert(w)
      <4>1. disk' \in Disk BY <2>2, <3>6, <3>18 DEF LoseFileInsert
      <4>2. lock' \in Locks /\ ctx' \in [Worker -> Ctx]
        BY <3>3, <3>5, <3>7, <3>18 DEF LoseFileInsert, Stage
      <4>3. QED BY <2>2, <3>18, <4>1, <4>2 DEF LoseFileInsert
    <3>19. CASE LinkStored(w)
      <4>1. ctx' \in [Worker -> Ctx] /\ lock' \in Locks
        BY <2>2, <3>3, <3>7, <3>19 DEF LinkStored, Stage
      <4>2. QED BY <2>2, <3>2, <3>19, <4>1 DEF LinkStored
    <3>20. CASE CommitMetadata(w) BY <2>2, <3>2, <3>3, <3>20 DEF CommitMetadata, Stage
    <3>21. CASE CheckVision(w) BY <2>2, <3>3, <3>21 DEF CheckVision, Stage
    <3>22. CASE EnqueueVision(w)
      <4>1. vision' \in [Content -> Nat] BY <2>2, <3>2, <3>22 DEF EnqueueVision
      <4>2. ctx' \in [Worker -> Ctx] BY <3>3, <3>22 DEF EnqueueVision, Stage
      <4>3. QED BY <2>2, <3>22, <4>1, <4>2 DEF EnqueueVision
    <3>23. CASE FinishRun(w) BY <2>2, <3>4, <3>23 DEF FinishRun
    <3>24. CASE CrashRun(w) BY <2>2, <3>4, <3>5, <3>24 DEF CrashRun
    <3>25. QED
      BY <2>5, <3>8, <3>9, <3>10, <3>11, <3>12, <3>13, <3>14, <3>15, <3>16, <3>17, <3>18,
         <3>19, <3>20, <3>21, <3>22, <3>23, <3>24 DEF Process, Progress
  <2>6. QED
    BY <1>2, <2>3, <2>4, <2>5
       DEF StoreNext, StoreApi, ReceiveUpload, OtherApi, QueueOnly, StoreTime, allVars, storeVars
<1>3. QED BY <1>1, <1>2

-----------------------------------------------------------------------------
(* What a step does to the runs and to the rows.                           *)

(* Worker v goes on, or stays out of the pipeline, where it was.           *)
Same(v) == /\ worker'[v].pc = "running" <=> worker[v].pc = "running"
           /\ worker[v].pc = "running" => worker'[v].job = worker[v].job
           /\ ctx'[v] = ctx[v]

OthersSame(w) == \A v \in Worker \ {w} : Same(v)

(* Lemma: a step of a request, of the clock or of the queue alone moves no *)
(* run.                                                                    *)
LEMMA QuietSteps ==
  ASSUME StoreTypeOK, BusyHasJob,
         \/ StoreApi \/ StoreTime \/ UNCHANGED allVars \/ \E w \in Worker : QueueOnly(w)
  PROVE  /\ \A v \in Worker : Same(v)
         /\ UNCHANGED <<setting, content, disk, files, links, meta, vision, lock, mismatched>>
         /\ incoming \subseteq incoming'
<1> USE DEF StoreTypeOK, TypeOK, Same
<1>1. CASE StoreApi
  BY <1>1 DEF StoreApi, ReceiveUpload, Receive, SaveAndCreate, CreateWaitingJob, OtherApi,
              Refuse, LoseInsert, BackfillHash, storeVars
<1>2. CASE StoreTime
  BY <1>2 DEF StoreTime, Time, ExpireSlow, ExpireDead, storeVars
<1>3. CASE UNCHANGED allVars BY <1>3 DEF allVars, vars, storeVars
<1>4. ASSUME NEW w \in Worker, QueueOnly(w)
      PROVE  (\A v \in Worker : Same(v)) /\ UNCHANGED storeVars
  <2>1. UNCHANGED storeVars BY <1>4 DEF QueueOnly
  <2>2. ASSUME NEW j \in JobId, Claim(w, j) PROVE \A v \in Worker : Same(v)
    BY <2>1, <2>2 DEF Claim, Idle, storeVars
  <2>3. CASE ReadForFailure(w) \/ MarkFailed(w) \/ RecoverStale(w)
    <3>1. worker[w] \in WorkerState OBVIOUS
    <3>2. /\ worker'[w].pc # "running" \/ worker' = worker
          /\ \A v \in Worker \ {w} : worker'[v] = worker[v]
          /\ worker[w].pc # "running"
      <4> HIDE DEF StoreTypeOK, TypeOK
      <4>0. worker \in [Worker -> WorkerState] BY DEF StoreTypeOK, TypeOK
      <4>1. CASE RecoverStale(w) BY <4>1 DEF RecoverStale
      <4>2. CASE MarkFailed(w) BY <4>0, <4>2 DEF MarkFailed, Idle
      <4>3. CASE ReadForFailure(w)
        <5> DEFINE n == jobs[worker[w].job].retry
        <5>1. worker' = [worker EXCEPT ![w].pc = "marking", ![w].seen = n]
          BY <4>3 DEF ReadForFailure
        <5> HIDE DEF n
        <5>2. worker[w].pc # "running" BY <4>3 DEF ReadForFailure
        <5>3. QED BY <4>0, <5>1, <5>2 DEF WorkerState
      <4>4. QED BY <2>3, <4>1, <4>2, <4>3
    <3>3. QED BY <2>1, <3>2 DEF storeVars
  <2>4. QED BY <1>4, <2>1, <2>2, <2>3 DEF QueueOnly
<1>5. QED BY <1>1, <1>2, <1>3, <1>4 DEF storeVars

(* Lemma: a run starts at its first stage, with the hash of its row.       *)
LEMMA StartStep ==
  ASSUME StoreTypeOK, BusyHasJob, NEW w \in Worker, StartRun(w)
  PROVE  /\ OthersSame(w)
         /\ worker[w].pc = "claimed"
         /\ worker'[w].pc = "running" =>
               /\ ctx'[w].stage = "read" /\ ctx'[w].hash = jobs[Job(w)].hash
               /\ worker'[w].job = worker[w].job
         /\ UNCHANGED <<jobs, req, setting, content, incoming, disk, files, links, lock,
                        mismatched>>
<1>1. /\ ctx \in [Worker -> Ctx] /\ jobs[Job(w)].hash \in Hash \cup {NoHash}
      /\ worker \in [Worker -> WorkerState] /\ worker[w].pc = "claimed"
  BY WorkerOperands DEF StoreTypeOK, TypeOK, StartRun, Start
<1>2. /\ \A v \in Worker \ {w} : worker'[v] = worker[v]
      /\ worker'[w].pc = "running" => worker'[w].job = worker[w].job
  BY <1>1 DEF StartRun, Start, Idle, WorkerState
<1>3. /\ \A v \in Worker \ {w} : ctx'[v] = ctx[v]
      /\ worker'[w].pc = "running" =>
            ctx'[w].stage = "read" /\ ctx'[w].hash = jobs[Job(w)].hash
  BY <1>1, CtxResets DEF StartRun
<1>4. QED BY <1>1, <1>2, <1>3 DEF StartRun, Start, OthersSame, Same

(* The steps that take worker w out of the pipeline.                       *)
Leaving(w) ==
    \/ RejectWrongHash(w) \/ MissingIncoming(w) \/ RejectDuplicate(w) \/ RejectLinked(w)
    \/ (LoseFileInsert(w) /\ Fail(w)) \/ (LinkStored(w) /\ Fail(w))
    \/ FinishRun(w) \/ Abort(w) \/ CrashRun(w)

(* Lemma: what they leave alone.                                           *)
LEMMA LeavingSteps ==
  ASSUME StoreTypeOK, BusyHasJob, NEW w \in Worker, Leaving(w)
  PROVE  /\ OthersSame(w) /\ worker'[w].pc # "running" /\ worker[w].pc # "idle"
         /\ lock' \in {lock, Unlocked(w)}
         /\ UNCHANGED <<req, setting, content, files, links>>
         /\ incoming' \in {incoming, incoming \ {Job(w)}}
<1>0. ctx \in [Worker -> Ctx] /\ worker \in [Worker -> WorkerState]
  BY DEF StoreTypeOK, TypeOK
<1>1. ASSUME ctx' = [ctx EXCEPT ![w] = NoCtx] PROVE \A v \in Worker \ {w} : ctx'[v] = ctx[v]
  BY <1>0, <1>1
<1>2. ASSUME Fail(w)
      PROVE  /\ OthersSame(w) /\ worker'[w].pc # "running" /\ worker[w].pc # "idle"
             /\ lock' \in {lock, Unlocked(w)} /\ UNCHANGED req
  BY <1>0, <1>1, <1>2 DEF Fail, Raise, OthersSame, Same, WorkerState
<1>3. CASE FinishRun(w)
  BY <1>0, <1>1, <1>3 DEF FinishRun, MarkCompleted, OthersSame, Same, WorkerState, Idle
<1>4. CASE CrashRun(w)
  BY <1>0, <1>1, <1>4 DEF CrashRun, Crash, OthersSame, Same, WorkerState, Idle
<1>5. CASE \/ RejectWrongHash(w) \/ MissingIncoming(w) \/ RejectDuplicate(w) \/ RejectLinked(w)
           \/ Abort(w)
  BY <1>2, <1>5 DEF RejectWrongHash, MissingIncoming, RejectDuplicate, RejectLinked, Abort
<1>6. CASE LoseFileInsert(w) /\ Fail(w) BY <1>2, <1>6 DEF LoseFileInsert
<1>7. CASE LinkStored(w) /\ Fail(w)
  <2>1. worker' # worker BY <1>0, <1>7 DEF Fail, Raise, WorkerState
  <2>2. UNCHANGED links /\ incoming' = incoming \ {Job(w)}
    BY <1>7, <2>1 DEF LinkStored, vars
  <2>3. QED BY <1>2, <1>7, <2>2 DEF LinkStored
<1>8. QED BY <1>3, <1>4, <1>5, <1>6, <1>7 DEF Leaving

(* The steps that take it to the next stage.                               *)
Moving(w) ==
    \/ ReadIncoming(w) \/ CheckDuplicate(w) \/ LinkDuplicate(w) \/ DropIncoming(w)
    \/ MoveToStorage(w) \/ FinishCopy(w) \/ InsertFile(w)
    \/ (LoseFileInsert(w) /\ UNCHANGED vars) \/ (LinkStored(w) /\ UNCHANGED vars)
    \/ CommitMetadata(w) \/ CheckVision(w) \/ EnqueueVision(w)

(* Lemma: where each goes on, and what it leaves alone.                    *)
LEMMA MovingSteps ==
  ASSUME StoreTypeOK, BusyHasJob, NEW w \in Worker, Moving(w)
  PROVE  /\ OthersSame(w) /\ UNCHANGED <<vars, setting, content, mismatched>>
         /\ worker[w].pc = "running" /\ ctx'[w].hash = ctx[w].hash
         /\ ReadIncoming(w) => CtxTo(w, "lock")
         /\ CheckDuplicate(w) =>
               /\ CtxTo(w, IF Active(Sha(w)) THEN "duplicate" ELSE "move")
               /\ ctx'[w].restore = (files[Sha(w)].state = "deleted")
         /\ LinkDuplicate(w) => CtxTo(w, "drop")
         /\ DropIncoming(w) => CtxTo(w, "enqueue") \/ CtxTo(w, "finish")
         /\ MoveToStorage(w) => /\ CtxTo(w, "insert") \/ CtxTo(w, "copy")
                                /\ ctx'[w].restore = ctx[w].restore
         /\ FinishCopy(w) => CtxTo(w, "insert") /\ ctx'[w].restore = ctx[w].restore
         /\ InsertFile(w) => CtxTo(w, "link")
         /\ LoseFileInsert(w) => CtxTo(w, "link")
         /\ LinkStored(w) => CtxTo(w, "exif") \/ CtxTo(w, "finish")
         /\ CommitMetadata(w) => CtxTo(w, "queue")
         /\ CheckVision(w) => CtxTo(w, "enqueue") \/ CtxTo(w, "finish")
         /\ EnqueueVision(w) => CtxTo(w, "finish")
<1>0. ctx \in [Worker -> Ctx] /\ worker \in [Worker -> WorkerState]
  BY DEF StoreTypeOK, TypeOK
<1>1. /\ UNCHANGED <<vars, setting, content, mismatched>> /\ worker[w].pc = "running"
  BY DEF Moving, ReadIncoming, CheckDuplicate, LinkDuplicate, DropIncoming, MoveToStorage,
         FinishCopy, InsertFile, LoseFileInsert, LinkStored, CommitMetadata, CheckVision,
         EnqueueVision, At
<1>2. ASSUME NEW st \in Stage, Goto(w, st)
      PROVE  CtxTo(w, st) /\ ctx'[w].restore = ctx[w].restore
  BY <1>0, <1>2, CtxSteps DEF Goto
<1>3. ASSUME NEW st \in Stage, NEW b \in BOOLEAN,
             ctx' = [ctx EXCEPT ![w].stage = st, ![w].restore = b]
      PROVE  CtxTo(w, st) /\ ctx'[w].restore = b
  BY <1>0, <1>3, CtxSteps
<1>4. ASSUME NEW st \in Stage, NEW b \in BOOLEAN,
             \/ ctx' = [ctx EXCEPT ![w].stage = st, ![w].created = b]
             \/ ctx' = [ctx EXCEPT ![w].stop = b, ![w].stage = st]
      PROVE  CtxTo(w, st)
  BY <1>0, <1>4, CtxSteps
<1>5. ReadIncoming(w) => CtxTo(w, "lock") BY <1>2 DEF ReadIncoming, Stage
<1>6. ASSUME CheckDuplicate(w)
      PROVE  /\ CtxTo(w, IF Active(Sha(w)) THEN "duplicate" ELSE "move")
             /\ ctx'[w].restore = (files[Sha(w)].state = "deleted")
  <2> DEFINE st == IF Active(Sha(w)) THEN "duplicate" ELSE "move"
             b == files[Sha(w)].state = "deleted"
  <2>1. st \in Stage /\ b \in BOOLEAN BY DEF Stage
  <2>2. ctx' = [ctx EXCEPT ![w].stage = st, ![w].restore = b] BY <1>6 DEF CheckDuplicate
  <2> HIDE DEF st, b
  <2>3. CtxTo(w, st) /\ ctx'[w].restore = b BY <1>3, <2>1, <2>2
  <2>4. QED BY <2>3 DEF st, b
<1>7. ASSUME LinkDuplicate(w) PROVE CtxTo(w, "drop")
  <2> DEFINE b == <<Sha(w), jobs[Job(w)].service>> \notin links
  <2>1. b \in BOOLEAN /\ "drop" \in Stage BY DEF Stage
  <2>2. ctx' = [ctx EXCEPT ![w].stage = "drop", ![w].created = b] BY <1>7 DEF LinkDuplicate
  <2> HIDE DEF b
  <2>3. QED BY <1>4, <2>1, <2>2
<1>8. DropIncoming(w) => CtxTo(w, "enqueue") \/ CtxTo(w, "finish")
  BY <1>4 DEF DropIncoming, Stage
<1>9. MoveToStorage(w) => /\ CtxTo(w, "insert") \/ CtxTo(w, "copy")
                          /\ ctx'[w].restore = ctx[w].restore
  BY <1>2 DEF MoveToStorage, Stage
<1>10. FinishCopy(w) => CtxTo(w, "insert") /\ ctx'[w].restore = ctx[w].restore
  BY <1>2 DEF FinishCopy, Stage
<1>11. InsertFile(w) => CtxTo(w, "link") BY <1>2 DEF InsertFile, Stage
<1>12. ASSUME LoseFileInsert(w) PROVE CtxTo(w, "link")
  <2>1. ~Fail(w) BY <1>0, <1>1 DEF Fail, Raise, WorkerState, vars
  <2>2. QED BY <1>4, <1>12, <2>1 DEF LoseFileInsert, Stage
<1>13. ASSUME LinkStored(w) PROVE CtxTo(w, "exif") \/ CtxTo(w, "finish")
  <2>1. ~Fail(w) BY <1>0, <1>1 DEF Fail, Raise, WorkerState, vars
  <2>2. QED BY <1>2, <1>13, <2>1 DEF LinkStored, Stage
<1>14. CommitMetadata(w) => CtxTo(w, "queue") BY <1>2 DEF CommitMetadata, Stage
<1>15. CheckVision(w) => CtxTo(w, "enqueue") \/ CtxTo(w, "finish")
  BY <1>2 DEF CheckVision, Stage
<1>16. EnqueueVision(w) => CtxTo(w, "finish") BY <1>2 DEF EnqueueVision, Stage
<1>17. OthersSame(w) /\ ctx'[w].hash = ctx[w].hash
  BY <1>1, <1>5, <1>6, <1>7, <1>8, <1>9, <1>10, <1>11, <1>12, <1>13, <1>14, <1>15, <1>16
     DEF Moving, OthersSame, Same, CtxTo, vars
<1>18. QED
  BY <1>1, <1>5, <1>6, <1>7, <1>8, <1>9, <1>10, <1>11, <1>12, <1>13, <1>14, <1>15, <1>16, <1>17

(* Lemma: the four kinds of steps.                                         *)
LEMMA StepKinds ==
  ASSUME [StoreNext]_allVars
  PROVE  \/ StoreApi \/ StoreTime \/ UNCHANGED allVars \/ \E w \in Worker : QueueOnly(w)
         \/ \E w \in Worker : StartRun(w) \/ Leaving(w) \/ Moving(w)
<1>1. ASSUME NEW w \in Worker, LoseFileInsert(w) \/ LinkStored(w)
      PROVE  Leaving(w) \/ Moving(w)
  BY <1>1 DEF LoseFileInsert, LinkStored, Leaving, Moving
<1>2. QED BY <1>1 DEF StoreNext, Process, Progress, Leaving, Moving

(* Lemma: the setting and the content of a job never change, nor what an   *)
(* existing row was made with; only a replay fills in a hash.              *)
LEMMA RowsKept ==
  ASSUME Base, [StoreNext]_allVars
  PROVE  /\ setting' = setting /\ content' = content
         /\ \A j \in JobId : Exists(j) =>
               /\ Exists(j)' /\ jobs'[j].service = jobs[j].service
               /\ jobs'[j].source = jobs[j].source /\ jobs'[j].key = jobs[j].key
               /\ jobs[j].key = NoKey => jobs'[j].hash = jobs[j].hash
<1>0. StoreTypeOK /\ TypeOK /\ BusyHasJob /\ AnswerIsRow BY DEF Base, StoreTypeOK
<1>1. setting' = setting /\ content' = content
  BY <1>0, StepKinds, QuietSteps, StartStep, LeavingSteps, MovingSteps
<1>2. ASSUME NEW j \in JobId, Exists(j)
      PROVE  /\ Exists(j)' /\ jobs'[j].service = jobs[j].service
             /\ jobs'[j].source = jobs[j].source /\ jobs'[j].key = jobs[j].key
             /\ jobs[j].key = NoKey => jobs'[j].hash = jobs[j].hash
  <2>0. [Next]_vars BY QueueStep
  <2>1. CASE ~Api BY <1>0, <1>2, <2>0, <2>1, WorkKeepsKeys
  <2>2. ASSUME NEW r \in Request, NEW i \in JobId, CreateWaitingJob(r, i)
        PROVE  jobs'[j] = jobs[j]
    BY <1>0, <1>2, <2>2 DEF CreateWaitingJob, TypeOK, Exists
  <2>3. ASSUME NEW r \in Request, BackfillHash(r)
        PROVE  /\ jobs'[j].status = jobs[j].status /\ jobs'[j].service = jobs[j].service
               /\ jobs'[j].source = jobs[j].source /\ jobs'[j].key = jobs[j].key
               /\ jobs[j].key = NoKey => jobs'[j].hash = jobs[j].hash
    BY <1>0, <1>2, <2>3 DEF BackfillHash, TypeOK, Row, AnswerIsRow
  <2>4. CASE Api
    <3>1. ASSUME NEW r \in Request, NEW f \in Form, Receive(r, f) PROVE jobs' = jobs
      BY <3>1 DEF Receive
    <3>2. ASSUME NEW r \in Request, Refuse(r) \/ LoseInsert(r) PROVE jobs' = jobs
      BY <3>2 DEF Refuse, LoseInsert
    <3>3. QED BY <1>2, <2>2, <2>3, <2>4, <3>1, <3>2 DEF Api, Exists
  <2>5. QED BY <2>1, <2>4
<1>3. QED BY <1>1, <1>2

(* Lemma: content that is registered stays so, and so do links.            *)
LEMMA Grows ==
  ASSUME Base, [StoreNext]_allVars
  PROVE  /\ links \subseteq links'
         /\ \A c \in Content : files'[c] = files[c] \/ files'[c].state = "active"
<1>0. StoreTypeOK /\ BusyHasJob BY DEF Base
<1>1. ASSUME NEW w \in Worker, Moving(w)
      PROVE  /\ links \subseteq links'
             /\ \A c \in Content : files'[c] = files[c] \/ files'[c].state = "active"
  <2>1. CASE InsertFile(w)
    <3> DEFINE row == [state |-> "active", place |-> PlaceOf(Job(w))]
    <3>1. files' = [files EXCEPT ![Sha(w)] = row] /\ links' = links BY <2>1 DEF InsertFile
    <3>2. row.state = "active" OBVIOUS
    <3> HIDE DEF row
    <3>3. QED BY <1>0, <3>1, <3>2 DEF StoreTypeOK
  <2>2. CASE ~InsertFile(w)
    BY <1>1, <2>2 DEF Moving, ReadIncoming, CheckDuplicate, LinkDuplicate, DropIncoming,
         MoveToStorage, FinishCopy, LoseFileInsert, LinkStored, CommitMetadata, CheckVision,
         EnqueueVision
  <2>3. QED BY <2>1, <2>2
<1>2. QED BY <1>0, <1>1, StepKinds, QuietSteps, StartStep, LeavingSteps

(* Lemma: a worker that is busy is at work on a row.                       *)
LEMMA RunHasRow ==
  ASSUME Base, NEW w \in Worker, worker[w].pc # "idle"
  PROVE  Job(w) \in JobId /\ Exists(Job(w)) /\ Sha(w) \in Content /\ PlaceOf(Job(w)) \in Place
BY WorkerOperands DEF Base, RunIsClaimed, Runs, Job, Exists, Terminal, BusyHasJob

(* Lemma: a run that stays where it is keeps its operands, the job's place *)
(* included; so does the one that moves.                                   *)
LEMMA SameRun ==
  ASSUME Base, [StoreNext]_allVars, NEW v \in Worker,
         worker[v].pc = "running" \/ worker'[v].pc = "running",
         Same(v) \/ UNCHANGED worker
  PROVE  /\ worker[v].pc = "running" /\ worker'[v].pc = "running"
         /\ Job(v)' = Job(v) /\ Sha(v)' = Sha(v) /\ PlaceOf(Job(v))' = PlaceOf(Job(v))
         /\ jobs'[Job(v)].service = jobs[Job(v)].service
         /\ Mobile(Job(v))' = Mobile(Job(v))
<1>1. worker[v].pc = "running" /\ worker'[v].pc = "running" /\ Job(v)' = Job(v)
  BY DEF Same, Job
<1>2. QED BY <1>1, RunHasRow, RowsKept DEF Sha, PlaceOf, Mobile

(* Lemma: what the stages after the duplicate check rely on stays true     *)
(* until the run ends, also when another run stores the same content.      *)
LEMMA StagesInductive ==
  ASSUME Base, StageIsActive, StageIsLinked, StoringKnows, [StoreNext]_allVars
  PROVE  StageIsActive' /\ StageIsLinked'
<1>0. StoreTypeOK /\ BusyHasJob BY DEF Base
<1> DEFINE Good(v) ==
             /\ In(v, {"duplicate", "drop", "link", "exif", "queue", "enqueue", "finish"})' =>
                   Active(Sha(v))'
             /\ In(v, {"drop", "exif", "queue", "enqueue", "finish"})' =>
                   Linked(Sha(v), jobs[Job(v)].service)'
<1>1. ASSUME NEW v \in Worker, Same(v) PROVE Good(v)
  BY <1>1, SameRun, RunHasRow, Grows DEF Same, In, StageIsActive, StageIsLinked, Active, Linked
<1>2. ASSUME NEW w \in Worker, Moving(w) PROVE Good(w)
  <2>1. /\ worker[w].pc = "running" /\ UNCHANGED worker
        /\ Job(w)' = Job(w) /\ Sha(w)' = Sha(w) /\ Sha(w) \in Content
        /\ jobs'[Job(w)].service = jobs[Job(w)].service
    BY <1>0, <1>2, MovingSteps, SameRun, RunHasRow DEF vars
  <2>2. links \subseteq links' /\ (Active(Sha(w)) => Active(Sha(w))')
    BY <2>1, Grows DEF Active
  <2>3. CASE \/ ReadIncoming(w) \/ MoveToStorage(w) \/ FinishCopy(w)
    <3>1. CtxTo(w, "lock") \/ CtxTo(w, "insert") \/ CtxTo(w, "copy")
      BY <1>0, <1>2, <2>3, MovingSteps
    <3>2. QED BY <3>1 DEF In, CtxTo
  <2>4. CASE CheckDuplicate(w)
    <3>1. CtxTo(w, IF Active(Sha(w)) THEN "duplicate" ELSE "move")
      BY <1>0, <1>2, <2>4, MovingSteps
    <3>2. QED BY <2>1, <2>2, <3>1 DEF In, CtxTo
  <2>5. CASE LinkDuplicate(w)
    <3>1. CtxTo(w, "drop") /\ Active(Sha(w))
      BY <1>0, <1>2, <2>5, MovingSteps DEF LinkDuplicate, At, In, StageIsActive
    <3>2. <<Sha(w), jobs[Job(w)].service>> \in links' BY <2>5 DEF LinkDuplicate
    <3>3. QED BY <2>1, <2>2, <3>1, <3>2 DEF In, CtxTo, Linked
  <2>6. CASE InsertFile(w)
    <3>1. CtxTo(w, "link") BY <1>0, <1>2, <2>6, MovingSteps
    <3>2. Active(Sha(w))' BY <1>0, <2>1, <2>6 DEF InsertFile, Active, StoreTypeOK
    <3>3. QED BY <3>1, <3>2 DEF In, CtxTo
  <2>7. CASE LoseFileInsert(w)
    <3>1. CtxTo(w, "link") BY <1>0, <1>2, <2>7, MovingSteps
    <3>2. /\ files[Sha(w)].state \in {"none", "active", "deleted"}
          /\ files[Sha(w)].state # "none" /\ ~ctx[w].restore /\ In(w, Storing)
      BY <1>0, <2>1, <2>7 DEF LoseFileInsert, At, In, Storing, StoreTypeOK, FileRow
    <3>3. Active(Sha(w)) BY <3>2 DEF StoringKnows, Active
    <3>4. QED BY <2>1, <2>2, <3>1, <3>3 DEF In, CtxTo
  <2>8. CASE LinkStored(w)
    <3>1. CtxTo(w, "exif") \/ CtxTo(w, "finish") BY <1>0, <1>2, <2>8, MovingSteps
    <3>2. Active(Sha(w)) BY <2>8 DEF LinkStored, At, In, StageIsActive
    <3>3. links' = links \cup {<<Sha(w), jobs[Job(w)].service>>}
      BY <1>0, <2>1, <2>8 DEF LinkStored, Fail, Raise, StoreTypeOK, TypeOK, WorkerState
    <3>4. QED BY <2>1, <2>2, <3>1, <3>2, <3>3 DEF In, CtxTo, Linked
  <2>9. CASE DropIncoming(w) \/ CommitMetadata(w) \/ CheckVision(w) \/ EnqueueVision(w)
    <3>1. CtxTo(w, "queue") \/ CtxTo(w, "enqueue") \/ CtxTo(w, "finish")
      BY <1>0, <1>2, <2>9, MovingSteps
    <3>2. Active(Sha(w)) /\ Linked(Sha(w), jobs[Job(w)].service)
      BY <2>9 DEF DropIncoming, CommitMetadata, CheckVision, EnqueueVision, At, In,
                  StageIsActive, StageIsLinked
    <3>3. QED BY <2>1, <2>2, <3>1, <3>2 DEF In, CtxTo, Linked
  <2>10. QED BY <1>2, <2>3, <2>4, <2>5, <2>6, <2>7, <2>8, <2>9 DEF Moving
<1>3. ASSUME NEW w \in Worker, StartRun(w) PROVE Good(w)
  BY <1>0, <1>3, StartStep DEF In
<1>4. ASSUME NEW w \in Worker, Leaving(w) PROVE Good(w)
  BY <1>0, <1>4, LeavingSteps DEF In
<1>5. \A v \in Worker : Good(v)
  <2>1. CASE \A v \in Worker : Same(v) BY <1>1, <2>1
  <2>2. ASSUME NEW w \in Worker, OthersSame(w), Good(w) PROVE \A v \in Worker : Good(v)
    BY <1>1, <2>2 DEF OthersSame
  <2>3. QED
    BY <1>0, <1>2, <1>3, <1>4, <2>1, <2>2, StepKinds, QuietSteps, StartStep, LeavingSteps,
       MovingSteps
<1>6. QED BY <1>5 DEF StageIsActive, StageIsLinked

(* Lemma: a run that stores knows whether it restores a tombstone.         *)
LEMMA StoringInductive ==
  ASSUME Base, StoringKnows, [StoreNext]_allVars
  PROVE  StoringKnows'
<1>0. StoreTypeOK /\ BusyHasJob BY DEF Base
<1> DEFINE Known(v) == In(v, Storing) =>
              files[Sha(v)].state # IF ctx[v].restore THEN "none" ELSE "deleted"
<1>1. ASSUME NEW v \in Worker, In(v, Storing)', In(v, Storing), Sha(v)' = Sha(v),
             ctx'[v].restore = ctx[v].restore, Sha(v) \in Content
      PROVE  Known(v)'
  BY <1>1, Grows DEF StoringKnows
<1>2. ASSUME NEW v \in Worker, Same(v), In(v, Storing)'
      PROVE  /\ In(v, Storing) /\ Sha(v)' = Sha(v) /\ Known(v)'
             /\ ctx'[v].restore = ctx[v].restore
  <2>1. In(v, Storing) /\ Sha(v)' = Sha(v) /\ ctx'[v].restore = ctx[v].restore
    BY <1>2, SameRun DEF In, Same
  <2>2. Sha(v) \in Content BY <2>1, RunHasRow DEF In
  <2>3. QED BY <1>1, <1>2, <2>1, <2>2
<1>3. ASSUME NEW w \in Worker, Moving(w), In(w, Storing)', ~CheckDuplicate(w)
      PROVE  /\ In(w, Storing) /\ Sha(w)' = Sha(w) /\ Known(w)'
             /\ ctx'[w].restore = ctx[w].restore
  <2>1. MoveToStorage(w) \/ FinishCopy(w)
    BY <1>0, <1>3, MovingSteps DEF Moving, In, CtxTo, Storing
  <2>2. In(w, Storing) /\ ctx'[w].restore = ctx[w].restore
    BY <1>0, <1>3, <2>1, MovingSteps DEF MoveToStorage, FinishCopy, At, In, Storing
  <2>3. Sha(w)' = Sha(w) /\ Sha(w) \in Content
    BY <1>0, <1>3, <2>2, MovingSteps, SameRun, RunHasRow DEF In, vars
  <2>4. QED BY <1>1, <1>3, <2>2, <2>3
<1>4. ASSUME NEW w \in Worker, CheckDuplicate(w), In(w, Storing)'
      PROVE  /\ Known(w)'
             /\ \A v \in Worker \ {w} : In(v, Storing)' /\ Sha(v)' = Sha(w)' =>
                   ctx'[v].restore = ctx'[w].restore
  <2>0. Moving(w) BY <1>4 DEF Moving
  <2>1. /\ ~Active(Sha(w)) /\ ctx'[w].restore = (files[Sha(w)].state = "deleted")
        /\ UNCHANGED files /\ OthersSame(w) /\ worker[w].pc = "running" /\ UNCHANGED worker
    <3>1. /\ CtxTo(w, IF Active(Sha(w)) THEN "duplicate" ELSE "move")
          /\ ctx'[w].restore = (files[Sha(w)].state = "deleted")
          /\ OthersSame(w) /\ UNCHANGED vars /\ worker[w].pc = "running"
      BY <1>0, <1>4, <2>0, MovingSteps
    <3>2. ~Active(Sha(w)) BY <1>4, <3>1 DEF In, CtxTo, Storing
    <3>3. QED BY <1>4, <3>1, <3>2 DEF CheckDuplicate, vars
  <2>2. Sha(w)' = Sha(w) /\ Sha(w) \in Content BY <2>1, SameRun, RunHasRow
  <2>3. files[Sha(w)].state \in {"none", "deleted"}
    BY <1>0, <2>1, <2>2 DEF StoreTypeOK, FileRow, Active
  <2>4. ASSUME NEW v \in Worker \ {w}, In(v, Storing)', Sha(v)' = Sha(w)'
        PROVE  ctx'[v].restore = ctx'[w].restore
    <3>1. Same(v) BY <2>1 DEF OthersSame
    <3>2. In(v, Storing) /\ Sha(v) = Sha(w) /\ ctx'[v].restore = ctx[v].restore
      BY <1>2, <2>2, <2>4, <3>1
    <3>3. ctx[v].restore \in BOOLEAN BY <1>0 DEF StoreTypeOK, Ctx
    <3>4. QED BY <2>1, <2>3, <3>2, <3>3 DEF StoringKnows
  <2>5. QED BY <2>1, <2>2, <2>3, <2>4
<1>5. ASSUME NEW w \in Worker, StartRun(w) \/ Leaving(w) PROVE ~In(w, Storing)'
  BY <1>0, <1>5, StartStep, LeavingSteps DEF In, Storing
<1>6. \A v \in Worker : Known(v)'
  BY <1>0, <1>2, <1>3, <1>4, <1>5, StepKinds, QuietSteps, StartStep, LeavingSteps, MovingSteps
     DEF OthersSame
<1>7. ASSUME NEW v \in Worker, NEW w \in Worker, In(v, Storing)', In(w, Storing)',
             Sha(v)' = Sha(w)', v # w
      PROVE  ctx'[v].restore = ctx'[w].restore
  <2>1. ASSUME NEW u \in Worker, CheckDuplicate(u) PROVE OthersSame(u)
    BY <1>0, <2>1, MovingSteps DEF Moving
  <2>2. CASE CheckDuplicate(v) \/ CheckDuplicate(w) BY <1>4, <1>7, <2>2
  <2>3. CASE ~CheckDuplicate(v) /\ ~CheckDuplicate(w)
    <3>1. \A u \in {v, w} : In(u, Storing) /\ Sha(u)' = Sha(u)
                             /\ ctx'[u].restore = ctx[u].restore
      BY <1>0, <1>2, <1>3, <1>5, <1>7, <2>3, StepKinds, QuietSteps, StartStep, LeavingSteps,
         MovingSteps DEF OthersSame
    <3>2. QED BY <1>7, <3>1 DEF StoringKnows
  <2>4. QED BY <2>2, <2>3
<1>8. QED BY <1>6, <1>7 DEF StoringKnows

-----------------------------------------------------------------------------
(* What a completed job says about its content.                            *)

(* Lemma: only the last step of its run completes a job.                   *)
LEMMA CompletedBy ==
  ASSUME Base, [StoreNext]_allVars, NEW j \in JobId,
         jobs'[j].status = "COMPLETED", jobs[j].status # "COMPLETED"
  PROVE  \E w \in Worker : FinishRun(w) /\ Job(w) = j
<1>0. StoreTypeOK /\ TypeOK /\ BusyHasJob BY DEF Base, StoreTypeOK
<1>1. ASSUME NEW w \in Worker, FinishRun(w), Job(w) # j PROVE FALSE
  BY <1>0, <1>1 DEF FinishRun, MarkCompleted, Job, TypeOK, BusyHasJob
<1>2. ASSUME NEW w \in Worker, Leaving(w), ~FinishRun(w) PROVE jobs' = jobs
  BY <1>2 DEF Leaving, Fail, Raise, RejectWrongHash, MissingIncoming, RejectDuplicate,
              RejectLinked, Abort, CrashRun, Crash
<1>3. ASSUME NEW w \in Worker, StartRun(w) \/ Moving(w) PROVE jobs' = jobs
  BY <1>0, <1>3, StartStep, MovingSteps DEF vars
<1>4. ASSUME NEW w \in Worker, QueueOnly(w) PROVE FALSE
  <2>1. ASSUME NEW i \in JobId, Claim(w, i) PROVE FALSE
    BY <1>0, <2>1 DEF Claim, TypeOK, Row
  <2>2. CASE ReadForFailure(w) BY <2>2 DEF ReadForFailure
  <2>3. CASE MarkFailed(w) BY <1>0, <2>3 DEF MarkFailed, BusyHasJob, TypeOK, Row
  <2>4. CASE RecoverStale(w)
    <3>1. jobs[j] \in Row BY <1>0 DEF TypeOK
    <3>2. jobs'[j] = IF j \in Stale
                     THEN [jobs[j] EXCEPT !.status = "WAITING", !.started = "unset",
                                          !.retry = @ + 1]
                     ELSE jobs[j]
      BY <2>4 DEF RecoverStale
    <3>3. QED BY <3>1, <3>2 DEF Row
  <2>5. QED BY <1>4, <2>1, <2>2, <2>3, <2>4 DEF QueueOnly
<1>5. ~StoreTime
  BY <1>0 DEF StoreTime, Time, ExpireSlow, ExpireDead, TypeOK, Row
<1>6. ~StoreApi
  <2>1. ASSUME NEW r \in Request, NEW i \in JobId, CreateWaitingJob(r, i) PROVE FALSE
    BY <1>0, <2>1 DEF CreateWaitingJob, NewRow, NoRow, TypeOK
  <2>2. ASSUME NEW r \in Request, BackfillHash(r) PROVE FALSE
    BY <1>0, <2>2 DEF BackfillHash, TypeOK, Row
  <2>3. ASSUME NEW r \in Request, NEW f \in Form, Receive(r, f) PROVE FALSE
    BY <2>3 DEF Receive
  <2>4. ASSUME NEW r \in Request, Refuse(r) \/ LoseInsert(r) PROVE FALSE
    BY <2>4 DEF Refuse, LoseInsert
  <2>5. QED BY <2>1, <2>2, <2>3, <2>4 DEF StoreApi, ReceiveUpload, SaveAndCreate, OtherApi
<1>7. ~UNCHANGED allVars BY DEF allVars, vars
<1>8. PICK w \in Worker : QueueOnly(w) \/ StartRun(w) \/ Leaving(w) \/ Moving(w)
  BY <1>5, <1>6, <1>7, StepKinds
<1>9. QED BY <1>1, <1>2, <1>3, <1>4, <1>8

(* Lemma: what the proofs below use of the queue.                          *)
LEMMA BaseHolds == StoreSpec => []Base
<1>1. StoreSpec => [](StoreTypeOK /\ BusyHasJob)
  BY StoreTypeInductive, PTL DEF StoreSpec
<1>2. StoreSpec => [](RunIsClaimed /\ AnswerIsRow)
  BY StoreIsQueue, ExclusiveRuns, AnswersAreRows, PTL
<1>3. QED BY <1>1, <1>2, PTL DEF Base

(* The job, row and request tables, the files and the workers of the       *)
(* pipeline always have their types.                                       *)
THEOREM StoreTypeCorrect == StoreSpec => []StoreTypeOK
BY BaseHolds, PTL DEF Base

(* Lemma: the stages keep their promises to each other.                    *)
LEMMA StagesHold == StoreSpec => [](StageIsActive /\ StageIsLinked /\ StoringKnows)
<1> DEFINE Inv == StageIsActive /\ StageIsLinked /\ StoringKnows
<1>1. StoreInit => Inv
  BY DEF StoreInit, Init, Idle, StageIsActive, StageIsLinked, StoringKnows, In
<1>2. Base /\ Inv /\ [StoreNext]_allVars => Inv'
  BY StagesInductive, StoringInductive
<1>3. QED BY <1>1, <1>2, BaseHolds, PTL DEF StoreSpec

(* A COMPLETED job's content is an active file of the job's service, for   *)
(* every interleaving of uploads of the same content, recoveries, crashes  *)
(* and late finishers: the last stage is reached only with the content     *)
(* registered and linked, and neither is undone by another upload.         *)
THEOREM CompletedIsLinkedHolds == StoreSpec => []CompletedIsLinked
<1>1. StoreInit => CompletedIsLinked
  BY DEF StoreInit, Init, NoRow, CompletedIsLinked
<1>2. ASSUME Base, StageIsActive, StageIsLinked, CompletedIsLinked, [StoreNext]_allVars
      PROVE  CompletedIsLinked'
  <2>0. StoreTypeOK /\ BusyHasJob BY <1>2 DEF Base
  <2>1. SUFFICES ASSUME NEW j \in JobId, jobs'[j].status = "COMPLETED"
                 PROVE  Active(content[j])' /\ Linked(content[j], jobs[j].service)'
    BY DEF CompletedIsLinked
  <2>2. Exists(j) /\ Active(content[j]) /\ Linked(content[j], jobs[j].service)
    <3>1. CASE jobs[j].status = "COMPLETED" BY <1>2, <3>1 DEF CompletedIsLinked, Exists
    <3>2. CASE jobs[j].status # "COMPLETED"
      <4>1. PICK w \in Worker : FinishRun(w) /\ Job(w) = j BY <1>2, <2>1, <3>2, CompletedBy
      <4>2. worker[w].pc = "running" /\ In(w, {"finish"})
        BY <4>1 DEF FinishRun, At, In
      <4>3. QED BY <1>2, <4>1, <4>2, RunHasRow DEF In, StageIsActive, StageIsLinked, Sha
    <3>3. QED BY <3>1, <3>2
  <2>3. content[j] \in Content BY <2>0 DEF StoreTypeOK
  <2>4. QED BY <1>2, <2>2, <2>3, RowsKept, Grows DEF Active, Linked
<1>3. QED BY <1>1, <1>2, BaseHolds, StagesHold, PTL DEF StoreSpec

(* Lemma: a run has compared the hash of a row that no replay can change.  *)
LEMMA HashInductive ==
  ASSUME Base, HashCompared, [StoreNext]_allVars
  PROVE  HashCompared'
<1>0. StoreTypeOK /\ BusyHasJob BY DEF Base
<1> DEFINE Good(v) ==
        worker[v].pc = "running" /\ Mobile(Job(v)) /\ jobs[Job(v)].key = NoKey =>
            \/ ctx[v].stage = "read" /\ ctx[v].hash = jobs[Job(v)].hash
            \/ ctx[v].stage # "read" /\ jobs[Job(v)].hash \in {NoHash, Sha(v)}
<1>1. ASSUME NEW v \in Worker, Same(v) \/ UNCHANGED worker, worker'[v].pc = "running"
      PROVE  /\ worker[v].pc = "running" /\ Job(v)' = Job(v) /\ Sha(v)' = Sha(v)
             /\ Mobile(Job(v))' = Mobile(Job(v)) /\ jobs'[Job(v)].key = jobs[Job(v)].key
             /\ jobs[Job(v)].key = NoKey => jobs'[Job(v)].hash = jobs[Job(v)].hash
  BY <1>1, SameRun, RunHasRow, RowsKept
<1>2. ASSUME NEW v \in Worker, Same(v) PROVE Good(v)'
  BY <1>1, <1>2 DEF Same, HashCompared
<1>2a. ASSUME NEW w \in Worker, worker[w].pc = "running", Mobile(Job(w)),
              jobs[Job(w)].key = NoKey
       PROVE  \/ ctx[w].stage = "read" /\ ctx[w].hash = jobs[Job(w)].hash
              \/ ctx[w].stage # "read" /\ jobs[Job(w)].hash \in {NoHash, Sha(w)}
  BY <1>2a DEF HashCompared
<1>3. ASSUME NEW w \in Worker, Moving(w) PROVE Good(w)'
  <2>1. UNCHANGED worker /\ worker[w].pc = "running" /\ UNCHANGED jobs
        /\ ctx'[w].hash = ctx[w].hash
    BY <1>0, <1>3, MovingSteps DEF vars
  <2>2. SUFFICES ASSUME Mobile(Job(w)), jobs[Job(w)].key = NoKey
                 PROVE  ctx'[w].stage # "read" /\ jobs[Job(w)].hash \in {NoHash, Sha(w)}
    BY <1>1, <2>1
  <2>3. ctx'[w].stage # "read" BY <1>0, <1>3, MovingSteps DEF Moving, CtxTo
  <2>4. CASE ReadIncoming(w)
    <3>1. ctx[w].hash \in {NoHash, Sha(w)} /\ ctx[w].stage = "read"
      BY <2>2, <2>4 DEF ReadIncoming, At, WrongHash
    <3>2. QED BY <1>2a, <2>1, <2>2, <2>3, <3>1
  <2>5. CASE ~ReadIncoming(w)
    <3>1. ctx[w].stage # "read"
      BY <1>3, <2>5 DEF Moving, CheckDuplicate, LinkDuplicate, DropIncoming, MoveToStorage,
           FinishCopy, InsertFile, LoseFileInsert, LinkStored, CommitMetadata, CheckVision,
           EnqueueVision, At
    <3>2. QED BY <1>2a, <2>1, <2>2, <2>3, <3>1
  <2>6. QED BY <2>3, <2>4, <2>5
<1>4. ASSUME NEW w \in Worker, StartRun(w) PROVE Good(w)'
  BY <1>0, <1>4, StartStep DEF Job
<1>5. ASSUME NEW w \in Worker, Leaving(w) PROVE Good(w)'
  BY <1>0, <1>5, LeavingSteps
<1>6. \A v \in Worker : Good(v)'
  BY <1>0, <1>2, <1>3, <1>4, <1>5, StepKinds, QuietSteps, StartStep, LeavingSteps, MovingSteps
     DEF OthersSame
<1>7. QED BY <1>6 DEF HashCompared

(* No upload with a wrong declared hash completes: a worker takes the hash *)
(* with the row, compares it before anything else, and the hash of a row   *)
(* without client_file_id never changes.                                   *)
THEOREM DeclaredHashVerifiedHolds == StoreSpec => []DeclaredHashVerified
<1> DEFINE Inv == HashCompared /\ DeclaredHashVerified
<1>1. StoreInit => Inv
  BY DEF StoreInit, Init, NoRow, Idle, HashCompared, DeclaredHashVerified
<1>2. ASSUME Base, Inv, [StoreNext]_allVars PROVE Inv'
  <2>1. HashCompared' BY <1>2, HashInductive
  <2>2. ASSUME NEW j \in JobId, jobs'[j].status = "COMPLETED", Mobile(j)', jobs'[j].key = NoKey
        PROVE  jobs'[j].hash \in {NoHash, content'[j]}
    <3>1. /\ Exists(j)
          /\ Mobile(j) /\ jobs[j].key = NoKey => jobs[j].hash \in {NoHash, content[j]}
      <4>1. CASE jobs[j].status = "COMPLETED"
        BY <1>2, <4>1 DEF DeclaredHashVerified, Exists
      <4>2. CASE jobs[j].status # "COMPLETED"
        <5>1. PICK w \in Worker : FinishRun(w) /\ Job(w) = j BY <1>2, <2>2, <4>2, CompletedBy
        <5>2. worker[w].pc = "running" /\ ctx[w].stage = "finish"
          BY <5>1 DEF FinishRun, At
        <5>3. QED BY <1>2, <5>1, <5>2, RunHasRow DEF HashCompared, Sha
      <4>3. QED BY <4>1, <4>2
    <3>2. QED BY <1>2, <2>2, <3>1, RowsKept DEF Mobile
  <2>3. QED BY <2>1, <2>2 DEF DeclaredHashVerified
<1>3. QED BY <1>1, <1>2, BaseHolds, PTL DEF StoreSpec

-----------------------------------------------------------------------------
(* Who changes what.                                                       *)

(* Lemma: the row of a content is written by InsertFile alone.             *)
LEMMA FileChanges ==
  ASSUME Base, [StoreNext]_allVars, NEW c \in Content, files'[c] # files[c]
  PROVE  \E w \in Worker : /\ InsertFile(w) /\ Sha(w) = c /\ worker[w].pc = "running"
                           /\ files'[c].place = PlaceOf(Job(w))
<1>0. StoreTypeOK /\ BusyHasJob BY DEF Base
<1>1. PICK w \in Worker : Moving(w)
  BY <1>0, StepKinds, QuietSteps, StartStep, LeavingSteps
<1>2. InsertFile(w)
  BY <1>1 DEF Moving, ReadIncoming, CheckDuplicate, LinkDuplicate, DropIncoming,
       MoveToStorage, FinishCopy, LoseFileInsert, LinkStored, CommitMetadata, CheckVision,
       EnqueueVision
<1>3. QED BY <1>0, <1>2 DEF InsertFile, At, StoreTypeOK

(* Lemma: a lock is taken by the duplicate check and given back by a run   *)
(* that leaves the section.                                                *)
LEMMA LockChanges ==
  ASSUME Base, [StoreNext]_allVars, NEW c \in Content, lock'[c] # lock[c]
  PROVE  \E w \in Worker :
           \/ CheckDuplicate(w) /\ Sha(w) = c /\ (setting.locking => lock[c] = None)
           \/ /\ Leaving(w) \/ LinkDuplicate(w) \/ InsertFile(w) \/ LoseFileInsert(w)
              /\ lock[c] = w
<1>0. StoreTypeOK /\ BusyHasJob BY DEF Base
<1>1. PICK w \in Worker : Leaving(w) \/ Moving(w)
  BY <1>0, StepKinds, QuietSteps, StartStep
<1>2. lock' = Unlocked(w) => lock[c] = w BY <1>0, UnlockedType DEF StoreTypeOK
<1>3. CASE Leaving(w) BY <1>0, <1>2, <1>3, LeavingSteps
<1>4. CASE Moving(w)
  <2>1. \/ CheckDuplicate(w) \/ LinkDuplicate(w) \/ InsertFile(w) \/ LoseFileInsert(w)
    <3>1. ~Fail(w)
      BY <1>0, <1>4, MovingSteps DEF Fail, Raise, StoreTypeOK, TypeOK, WorkerState, vars
    <3>2. QED
      BY <1>4, <3>1 DEF Moving, ReadIncoming, DropIncoming, MoveToStorage, FinishCopy,
           LinkStored, CommitMetadata, CheckVision, EnqueueVision
  <2>2. CASE CheckDuplicate(w)
    BY <1>0, <2>2 DEF CheckDuplicate, Locked, MayLock, StoreTypeOK
  <2>3. CASE LinkDuplicate(w) \/ InsertFile(w) \/ LoseFileInsert(w)
    BY <1>2, <2>3 DEF LinkDuplicate, InsertFile, LoseFileInsert, Fail
  <2>4. QED BY <2>1, <2>2, <2>3
<1>5. QED BY <1>1, <1>3, <1>4

(* Lemma: an original is changed by the run whose content and place it is. *)
LEMMA DiskChanges ==
  ASSUME Base, [StoreNext]_allVars, NEW c \in Content, NEW p \in Place,
         disk'[c][p] # disk[c][p]
  PROVE  \E w \in Worker :
           /\ worker[w].pc = "running" /\ Sha(w) = c /\ PlaceOf(Job(w)) = p
           /\ \/ /\ MoveToStorage(w) /\ disk[c][p] = "absent"
                 /\ \/ disk'[c][p] = "whole"
                    \/ CtxTo(w, "copy") /\ setting.cross
              \/ FinishCopy(w) /\ disk'[c][p] = "whole"
              \/ LoseFileInsert(w) /\ Active(c) /\ files[c].place # p
              \/ Abort(w) /\ ctx[w].stage = "copy"
<1>0. StoreTypeOK /\ BusyHasJob BY DEF Base
<1>1. PICK w \in Worker : Leaving(w) \/ Moving(w)
  BY <1>0, StepKinds, QuietSteps, StartStep
<1>2. MoveToStorage(w) \/ FinishCopy(w) \/ LoseFileInsert(w) \/ Abort(w)
  BY <1>1 DEF Leaving, Moving, ReadIncoming, CheckDuplicate, LinkDuplicate, DropIncoming,
       InsertFile, LinkStored, CommitMetadata, CheckVision, EnqueueVision, RejectWrongHash,
       MissingIncoming, RejectDuplicate, RejectLinked, FinishRun, CrashRun
<1>3. worker[w].pc = "running"
  BY <1>2 DEF MoveToStorage, FinishCopy, LoseFileInsert, Abort, Fail, Raise, At
<1>4. Sha(w) \in Content /\ PlaceOf(Job(w)) \in Place BY <1>3, RunHasRow
<1>5. ASSUME NEW x \in {"absent", "partial", "whole"},
             disk' = [disk EXCEPT ![Sha(w)][PlaceOf(Job(w))] = x]
      PROVE  Sha(w) = c /\ PlaceOf(Job(w)) = p /\ disk'[c][p] = x
  BY <1>0, <1>4, <1>5, DiskUpdate DEF StoreTypeOK
<1>6. CASE MoveToStorage(w)
  <2>1. /\ disk[Sha(w)][PlaceOf(Job(w))] = "absent"
        /\ \/ disk' = [disk EXCEPT ![Sha(w)][PlaceOf(Job(w))] = "whole"]
           \/ /\ disk' = [disk EXCEPT ![Sha(w)][PlaceOf(Job(w))] = "partial"]
              /\ setting.cross /\ Goto(w, "copy")
    BY <1>6 DEF MoveToStorage
  <2>2. Goto(w, "copy") => CtxTo(w, "copy")
    BY <1>0, CtxSteps DEF Goto, StoreTypeOK, Stage
  <2>3. QED BY <1>3, <1>5, <1>6, <2>1, <2>2
<1>7. CASE FinishCopy(w) BY <1>3, <1>5, <1>7 DEF FinishCopy
<1>8. CASE LoseFileInsert(w) BY <1>3, <1>5, <1>8 DEF LoseFileInsert
<1>9. CASE Abort(w) BY <1>3, <1>5, <1>9 DEF Abort
<1>10. QED BY <1>2, <1>6, <1>7, <1>8, <1>9

(* Lemma: an incoming file goes when its job is rejected for its hash,     *)
(* when its content is registered, or with the move of a run of its job.   *)
LEMMA IncomingChanges ==
  ASSUME Base, StageIsActive, [StoreNext]_allVars, NEW j \in incoming, j \notin incoming'
  PROVE  \/ j \in mismatched'
         \/ \E w \in Worker :
              /\ worker[w].pc = "running" /\ Job(w) = j
              /\ \/ Active(Sha(w))
                 \/ /\ MoveToStorage(w)
                    /\ \/ disk[Sha(w)][PlaceOf(j)] # "absent"
                       \/ disk'[Sha(w)][PlaceOf(j)] = "whole"
                 \/ FinishCopy(w) /\ disk'[Sha(w)][PlaceOf(j)] = "whole"
<1>0. StoreTypeOK /\ BusyHasJob BY DEF Base
<1>1. PICK w \in Worker : Leaving(w) \/ Moving(w)
  BY <1>0, StepKinds, QuietSteps, StartStep
<1>2. \/ RejectWrongHash(w) \/ RejectDuplicate(w) \/ RejectLinked(w) \/ LinkStored(w)
      \/ DropIncoming(w) \/ MoveToStorage(w) \/ FinishCopy(w)
  BY <1>1 DEF Leaving, Moving, ReadIncoming, CheckDuplicate, LinkDuplicate, InsertFile,
       LoseFileInsert, CommitMetadata, CheckVision, EnqueueVision, MissingIncoming,
       FinishRun, CrashRun, Abort
<1>3. worker[w].pc = "running" /\ Job(w) = j
  BY <1>2 DEF RejectWrongHash, RejectDuplicate, RejectLinked, LinkStored, DropIncoming,
       MoveToStorage, FinishCopy, At
<1>4. CASE RejectWrongHash(w) BY <1>3, <1>4 DEF RejectWrongHash
<1>5. CASE RejectDuplicate(w) BY <1>3, <1>5 DEF RejectDuplicate
<1>6. CASE RejectLinked(w) \/ LinkStored(w) \/ DropIncoming(w)
  <2>1. In(w, {"duplicate", "link", "drop"})
    BY <1>6 DEF RejectLinked, LinkStored, DropIncoming, At, In
  <2>2. QED BY <1>3, <2>1 DEF In, StageIsActive
<1>7. Sha(w) \in Content /\ PlaceOf(j) \in Place BY <1>3, RunHasRow
<1>8. CASE MoveToStorage(w)
  <2>1. \/ disk[Sha(w)][PlaceOf(j)] # "absent"
        \/ disk' = [disk EXCEPT ![Sha(w)][PlaceOf(j)] = "whole"]
    BY <1>3, <1>8 DEF MoveToStorage
  <2>2. QED BY <1>0, <1>3, <1>7, <1>8, <2>1, DiskUpdate DEF StoreTypeOK
<1>9. CASE FinishCopy(w)
  <2>1. disk' = [disk EXCEPT ![Sha(w)][PlaceOf(j)] = "whole"] BY <1>3, <1>9 DEF FinishCopy
  <2>2. QED BY <1>0, <1>3, <1>7, <1>9, <2>1, DiskUpdate DEF StoreTypeOK
<1>10. QED BY <1>2, <1>4, <1>5, <1>6, <1>8, <1>9

(* Lemma: how a run enters and leaves the stages that store.               *)
LEMMA StoringStages ==
  ASSUME Base, [StoreNext]_allVars, NEW w \in Worker
  PROVE  /\ In(w, {"duplicate"} \cup Storing)' =>
              \/ CheckDuplicate(w)
              \/ /\ In(w, {"duplicate"} \cup Storing) /\ Sha(w)' = Sha(w)
                 /\ ~Leaving(w) /\ ~LinkDuplicate(w) /\ ~InsertFile(w) /\ ~LoseFileInsert(w)
         /\ In(w, Storing)' =>
              \/ CheckDuplicate(w) /\ ~Active(Sha(w)) /\ Sha(w)' = Sha(w)
              \/ In(w, Storing)
         /\ In(w, {"copy"})' => \/ MoveToStorage(w) /\ CtxTo(w, "copy")
                                \/ In(w, {"copy"}) /\ Same(w)
         /\ In(w, {"insert"})' => \/ MoveToStorage(w) /\ CtxTo(w, "insert")
                                  \/ FinishCopy(w)
                                  \/ In(w, {"insert"}) /\ Same(w)
         /\ In(w, {"copy"}) => \/ FinishCopy(w) \/ Abort(w) \/ CrashRun(w)
                               \/ In(w, {"copy"})' /\ Same(w)
<1>0. StoreTypeOK /\ BusyHasJob BY DEF Base
<1> DEFINE Goal ==
             /\ In(w, {"duplicate"} \cup Storing)' =>
                  \/ CheckDuplicate(w)
                  \/ /\ In(w, {"duplicate"} \cup Storing) /\ Sha(w)' = Sha(w)
                     /\ ~Leaving(w) /\ ~LinkDuplicate(w) /\ ~InsertFile(w)
                     /\ ~LoseFileInsert(w)
             /\ In(w, Storing)' =>
                  \/ CheckDuplicate(w) /\ ~Active(Sha(w)) /\ Sha(w)' = Sha(w)
                  \/ In(w, Storing)
             /\ In(w, {"copy"})' => \/ MoveToStorage(w) /\ CtxTo(w, "copy")
                                    \/ In(w, {"copy"}) /\ Same(w)
             /\ In(w, {"insert"})' => \/ MoveToStorage(w) /\ CtxTo(w, "insert")
                                      \/ FinishCopy(w)
                                      \/ In(w, {"insert"}) /\ Same(w)
             /\ In(w, {"copy"}) => \/ FinishCopy(w) \/ Abort(w) \/ CrashRun(w)
                                   \/ In(w, {"copy"})' /\ Same(w)
<1>1. ASSUME Moving(w) PROVE Goal
  <2>1. /\ ~Leaving(w) /\ UNCHANGED worker /\ worker[w].pc = "running" /\ Sha(w)' = Sha(w)
    BY <1>0, <1>1, LeavingSteps, MovingSteps, SameRun DEF vars
  <2>2. CASE CheckDuplicate(w)
    <3>1. CtxTo(w, IF Active(Sha(w)) THEN "duplicate" ELSE "move") /\ ctx[w].stage = "lock"
      BY <1>0, <1>1, <2>2, MovingSteps DEF CheckDuplicate, At
    <3>2. QED BY <2>1, <2>2, <3>1 DEF In, CtxTo, Storing
  <2>3. CASE MoveToStorage(w) \/ FinishCopy(w)
    <3>1. /\ MoveToStorage(w) => In(w, {"move"}) /\ (CtxTo(w, "insert") \/ CtxTo(w, "copy"))
          /\ FinishCopy(w) => In(w, {"copy"}) /\ CtxTo(w, "insert")
      <4>1. MoveToStorage(w) => CtxTo(w, "insert") \/ CtxTo(w, "copy")
        BY <1>0, <1>1, MovingSteps
      <4>2. FinishCopy(w) => CtxTo(w, "insert") BY <1>0, <1>1, MovingSteps
      <4>3. QED BY <4>1, <4>2 DEF MoveToStorage, FinishCopy, At, In
    <3>2. ~LinkDuplicate(w) /\ ~InsertFile(w) /\ ~LoseFileInsert(w)
      BY <2>3, <3>1 DEF In, LinkDuplicate, InsertFile, LoseFileInsert, At
    <3>3. QED BY <2>1, <2>3, <3>1, <3>2 DEF In, CtxTo, Storing
  <2>4. CASE ~CheckDuplicate(w) /\ ~MoveToStorage(w) /\ ~FinishCopy(w)
    <3>1. ctx'[w].stage \in {"lock", "drop", "link", "exif", "queue", "enqueue", "finish"}
      BY <1>0, <1>1, <2>4, MovingSteps DEF Moving, CtxTo
    <3>2. ctx[w].stage # "copy"
      BY <1>1, <2>4 DEF Moving, ReadIncoming, LinkDuplicate, DropIncoming, InsertFile,
           LoseFileInsert, LinkStored, CommitMetadata, CheckVision, EnqueueVision, At
    <3>3. QED BY <3>1, <3>2 DEF In, Storing
  <2>5. QED BY <2>2, <2>3, <2>4
<1>2. ASSUME Leaving(w) PROVE Goal
  <2>1. worker'[w].pc # "running" BY <1>0, <1>2, LeavingSteps
  <2>2. In(w, {"copy"}) => Abort(w) \/ CrashRun(w)
    BY <1>2 DEF Leaving, In, RejectWrongHash, MissingIncoming, RejectDuplicate, RejectLinked,
         LoseFileInsert, LinkStored, FinishRun, At
  <2>3. QED BY <2>1, <2>2 DEF In
<1>3. ASSUME StartRun(w) PROVE Goal
  BY <1>0, <1>3, StartStep DEF In, Storing
<1>4. ASSUME Same(w), ~Moving(w), ~Leaving(w) PROVE Goal
  <2>1. ~CheckDuplicate(w) /\ ~LinkDuplicate(w) /\ ~InsertFile(w)
    BY <1>4 DEF Moving
  <2>2. ~LoseFileInsert(w) BY <1>4 DEF Moving, Leaving, LoseFileInsert
  <2>3. worker'[w].pc = "running" => worker[w].pc = "running" /\ Sha(w)' = Sha(w)
    BY <1>4, SameRun
  <2>4. QED BY <1>4, <2>1, <2>2, <2>3 DEF In, Same
<1>5. Goal
  BY <1>0, <1>1, <1>2, <1>3, <1>4, StepKinds, QuietSteps, StartStep, LeavingSteps, MovingSteps
     DEF OthersSame
<1>6. QED BY <1>5

-----------------------------------------------------------------------------
(* No original is lost.                                                    *)

(* Lemma: with advisory locks the section that stores a content is         *)
(* exclusive, and the content is not registered before it ends.            *)
LEMMA SectionInductive ==
  ASSUME Base, SectionLocked, [StoreNext]_allVars
  PROVE  SectionLocked'
<1>0. StoreTypeOK /\ BusyHasJob /\ setting' = setting BY RowsKept DEF Base
<1>1. SUFFICES ASSUME setting.locking, NEW v \in Worker
               PROVE  /\ In(v, {"duplicate"} \cup Storing)' => lock'[Sha(v)'] = v
                      /\ In(v, Storing)' => ~Active(Sha(v))'
  BY <1>0 DEF SectionLocked
<1>2. ASSUME In(v, {"duplicate"} \cup Storing)' PROVE lock'[Sha(v)'] = v
  <2>1. CASE CheckDuplicate(v)
    <3>1. Sha(v)' = Sha(v) /\ Sha(v) \in Content
      BY <1>0, <1>2, <2>1, MovingSteps, SameRun, RunHasRow DEF Moving, vars, In
    <3>2. QED BY <1>0, <1>1, <2>1, <3>1 DEF CheckDuplicate, Locked, StoreTypeOK
  <2>2. CASE ~CheckDuplicate(v)
    <3>1. /\ In(v, {"duplicate"} \cup Storing) /\ Sha(v)' = Sha(v)
          /\ ~Leaving(v) /\ ~LinkDuplicate(v) /\ ~InsertFile(v) /\ ~LoseFileInsert(v)
      BY <1>2, <2>2, StoringStages
    <3>2. lock[Sha(v)] = v /\ Sha(v) \in Content
      BY <1>1, <3>1, RunHasRow DEF SectionLocked, In
    <3>3. lock'[Sha(v)] = lock[Sha(v)]
      BY <1>1, <3>1, <3>2, LockChanges, UploadPipelineAssumption
    <3>4. QED BY <3>1, <3>2, <3>3
  <2>3. QED BY <2>1, <2>2
<1>3. ASSUME In(v, Storing)', Active(Sha(v))' PROVE FALSE
  <2>1. /\ ~Active(Sha(v)) /\ Sha(v)' = Sha(v) /\ Sha(v) \in Content
        /\ worker[v].pc = "running"
    <3>1. CASE CheckDuplicate(v)
      <4>1. worker[v].pc = "running" /\ ~In(v, Storing)
        BY <3>1 DEF CheckDuplicate, At, In, Storing
      <4>2. QED BY <1>3, <4>1, StoringStages, RunHasRow
    <3>2. CASE ~CheckDuplicate(v)
      <4>1. In(v, Storing) BY <1>3, <3>2, StoringStages
      <4>2. In(v, {"duplicate"} \cup Storing)' BY <1>3 DEF In
      <4>3. Sha(v)' = Sha(v) BY <3>2, <4>2, StoringStages
      <4>4. QED BY <1>1, <4>1, <4>3, RunHasRow DEF In, SectionLocked
    <3>3. QED BY <3>1, <3>2
  <2>2. PICK w \in Worker : InsertFile(w) /\ Sha(w) = Sha(v) /\ worker[w].pc = "running"
    BY <1>3, <2>1, FileChanges DEF Active
  <2>3. lock[Sha(v)] = w
    BY <1>1, <2>2 DEF InsertFile, At, In, Storing, SectionLocked
  <2>4. CASE CheckDuplicate(v)
    <3>1. lock[Sha(v)] = None BY <1>1, <2>4 DEF CheckDuplicate, MayLock
    <3>2. QED BY <2>3, <3>1, UploadPipelineAssumption
  <2>5. CASE ~CheckDuplicate(v)
    <3>1. In(v, {"duplicate"} \cup Storing)' BY <1>3 DEF In
    <3>2. In(v, {"duplicate"} \cup Storing) /\ ~InsertFile(v)
      BY <2>5, <3>1, StoringStages
    <3>3. lock[Sha(v)] = v BY <1>1, <3>2 DEF SectionLocked
    <3>4. QED BY <2>2, <2>3, <3>2, <3>3
  <2>6. QED BY <2>4, <2>5
<1>4. QED BY <1>2, <1>3

(* Lemma: two runs never store the same content at once.                   *)
LEMMA StoresAlone ==
  ASSUME SectionLocked, setting.locking, NEW v \in Worker, NEW w \in Worker,
         In(v, {"duplicate"} \cup Storing), In(w, {"duplicate"} \cup Storing),
         Sha(v) = Sha(w)
  PROVE  v = w
BY DEF SectionLocked

(* Lemma: crashes are counted.                                             *)
LEMMA CrashesCounted ==
  ASSUME Base, [StoreNext]_allVars
  PROVE  /\ SafeMove' => SafeMove
         /\ \A w \in Worker : CrashRun(w) /\ SafeMove' => ~setting.cross
<1>0. TypeOK BY DEF Base, StoreTypeOK
<1>1. [Next]_vars BY QueueStep
<1>2. crashes' = crashes \/ crashes' = crashes + 1
  BY <1>0, <1>1 DEF Next, Api, Receive, Refuse, CreateWaitingJob, LoseInsert, BackfillHash,
       Work, Claim, Start, MarkCompleted, Raise, ReadForFailure, MarkFailed, RecoverStale,
       Time, ExpireSlow, ExpireDead, Crash, vars
<1>3. \A w \in Worker : CrashRun(w) => crashes' = crashes + 1 BY DEF CrashRun, Crash
<1>4. crashes \in Nat BY <1>0 DEF TypeOK
<1>5. setting' = setting BY RowsKept
<1>6. QED BY <1>2, <1>3, <1>4, <1>5 DEF SafeMove

(* What is assumed of the state before a step in the lemmas below.         *)
StoreInv == Base /\ StageIsActive /\ StageIsLinked /\ StoringKnows /\ SectionLocked

LEMMA StoreInvHolds == StoreSpec => []StoreInv
<1>1. StoreInit => SectionLocked
  BY DEF StoreInit, Init, Idle, SectionLocked, In
<1>2. StoreSpec => []SectionLocked
  BY <1>1, SectionInductive, BaseHolds, PTL DEF StoreSpec
<1>3. QED BY <1>2, BaseHolds, StagesHold, PTL DEF StoreInv

(* Lemma: an original that is there when a file is moved to its place is   *)
(* a whole one: a partial one belongs to a copier, which holds the lock.   *)
LEMMA NotPartial ==
  ASSUME StoreInv, SafeMove, DiskFollowsStages, NEW w \in Worker, In(w, {"move", "insert"})
  PROVE  disk[Sha(w)][PlaceOf(Job(w))] # "partial"
<1>1. SUFFICES ASSUME disk[Sha(w)][PlaceOf(Job(w))] = "partial" PROVE FALSE
  OBVIOUS
<1>2. Sha(w) \in Content /\ PlaceOf(Job(w)) \in Place
  BY RunHasRow DEF In, StoreInv
<1>3. PICK v \in Worker : In(v, {"copy"}) /\ Sha(v) = Sha(w)
  BY <1>1, <1>2 DEF DiskFollowsStages
<1>4. setting.locking BY <1>3 DEF DiskFollowsStages, SafeMove
<1>5. v = w BY <1>3, <1>4, StoresAlone DEF StoreInv, In, Storing
<1>6. QED BY <1>3, <1>5 DEF In

(* Lemma: what a run has put on disk is not changed by another.            *)
LEMMA DiskInductive ==
  ASSUME StoreInv, SafeMove, DiskFollowsStages, [StoreNext]_allVars, SafeMove'
  PROVE  DiskFollowsStages'
<1>0. /\ Base /\ StoreTypeOK /\ BusyHasJob /\ setting' = setting
      /\ StageIsActive /\ StoringKnows /\ SectionLocked
  BY RowsKept DEF Base, StoreInv
<1>1. ASSUME NEW w \in Worker, In(w, {"copy"})'
      PROVE  /\ setting.cross
             /\ disk'[Sha(w)'][PlaceOf(Job(w))'] = "partial"
             /\ Job(w)' \in incoming' \cup mismatched'
  <2>1. CASE MoveToStorage(w) /\ CtxTo(w, "copy")
    <3>1. /\ disk' = [disk EXCEPT ![Sha(w)][PlaceOf(Job(w))] = "partial"]
          /\ setting.cross /\ Job(w) \in incoming /\ UNCHANGED incoming
          /\ worker[w].pc = "running"
      <4>1. ~Goto(w, "insert")
        BY <1>0, <2>1, CtxSteps DEF Goto, CtxTo, StoreTypeOK, Stage
      <4>2. QED BY <2>1, <4>1 DEF MoveToStorage, At
    <3>2. /\ Job(w)' = Job(w) /\ Sha(w)' = Sha(w) /\ PlaceOf(Job(w))' = PlaceOf(Job(w))
          /\ Sha(w) \in Content /\ PlaceOf(Job(w)) \in Place
      BY <1>0, <2>1, <3>1, MovingSteps, SameRun, RunHasRow DEF Moving, vars
    <3>3. QED BY <1>0, <3>1, <3>2, DiskUpdate DEF StoreTypeOK
  <2>2. CASE In(w, {"copy"}) /\ Same(w)
    <3>1. /\ Job(w)' = Job(w) /\ Sha(w)' = Sha(w) /\ PlaceOf(Job(w))' = PlaceOf(Job(w))
          /\ Sha(w) \in Content /\ PlaceOf(Job(w)) \in Place
      BY <1>0, <2>2, SameRun, RunHasRow DEF In
    <3>2. /\ setting.cross /\ disk[Sha(w)][PlaceOf(Job(w))] = "partial"
          /\ Job(w) \in incoming \cup mismatched
      BY <2>2 DEF DiskFollowsStages
    <3>3. setting.locking /\ ~Active(Sha(w))
      BY <2>2, <3>2, <1>0 DEF SafeMove, SectionLocked, In, Storing
    <3>4. ASSUME NEW v \in Worker, In(v, {"move", "copy"}), Sha(v) = Sha(w) PROVE v = w
      BY <1>0, <2>2, <3>3, <3>4, StoresAlone DEF In, Storing
    <3>5. ~MoveToStorage(w) BY <2>2 DEF MoveToStorage, At, In
    <3>6. ~FinishCopy(w)
      <4>1. ASSUME FinishCopy(w) PROVE ctx'[w].stage = "insert"
        BY <1>0, <4>1, MovingSteps DEF Moving, CtxTo
      <4>2. QED BY <1>1, <4>1 DEF In
    <3>7. ~Abort(w)
      <4>1. ASSUME Abort(w) PROVE worker'[w].pc # "running"
        BY <1>0, <4>1, LeavingSteps DEF Leaving
      <4>2. QED BY <1>1, <4>1 DEF In
    <3>8. ASSUME NEW v \in Worker, Sha(v) = Sha(w), worker[v].pc = "running"
          PROVE  ~MoveToStorage(v) /\ ~FinishCopy(v) /\ ~(Abort(v) /\ ctx[v].stage = "copy")
      <4>1. CASE v = w BY <3>5, <3>6, <3>7, <4>1
      <4>2. CASE v # w
        <5>1. ~In(v, {"move", "copy"}) BY <3>4, <3>8, <4>2
        <5>2. QED BY <3>8, <5>1 DEF In, MoveToStorage, FinishCopy, At
      <4>3. QED BY <4>1, <4>2
    <3>9. disk'[Sha(w)][PlaceOf(Job(w))] = disk[Sha(w)][PlaceOf(Job(w))]
      BY <1>0, <3>1, <3>3, <3>8, DiskChanges
    <3>10. mismatched \subseteq mismatched'
      <4>1. ASSUME NEW v \in Worker, Leaving(v) PROVE mismatched \subseteq mismatched'
        BY <4>1 DEF Leaving, RejectWrongHash, MissingIncoming, RejectDuplicate, RejectLinked,
             LoseFileInsert, LinkStored, FinishRun, Abort, CrashRun
      <4>2. QED BY <1>0, <4>1, StepKinds, QuietSteps, StartStep, MovingSteps
    <3>11. Job(w) \in incoming => Job(w) \in incoming' \cup mismatched'
      <4>1. SUFFICES ASSUME Job(w) \in incoming, Job(w) \notin incoming',
                            Job(w) \notin mismatched'
                     PROVE  FALSE
        OBVIOUS
      <4>2. PICK v \in Worker : /\ worker[v].pc = "running" /\ Job(v) = Job(w)
                                /\ Active(Sha(v)) \/ MoveToStorage(v) \/ FinishCopy(v)
        BY <1>0, <4>1, IncomingChanges
      <4>3. Sha(v) = Sha(w) BY <4>2 DEF Sha
      <4>4. QED BY <3>3, <3>8, <4>2, <4>3
    <3>12. QED BY <3>1, <3>2, <3>9, <3>10, <3>11
  <2>3. QED BY <1>0, <1>1, <2>1, <2>2, StoringStages
<1>2. ASSUME NEW c \in Content, NEW p \in Place, disk'[c][p] = "partial"
      PROVE  \E w \in Worker : In(w, {"copy"})' /\ Sha(w)' = c /\ PlaceOf(Job(w))' = p
  <2>1. CASE disk[c][p] = "partial"
    <3>1. PICK w \in Worker : In(w, {"copy"}) /\ Sha(w) = c /\ PlaceOf(Job(w)) = p
      BY <2>1 DEF DiskFollowsStages
    <3>2. setting.cross BY <3>1 DEF DiskFollowsStages
    <3>3. ~CrashRun(w) BY <1>0, <3>2, CrashesCounted
    <3>4. ~FinishCopy(w) /\ ~Abort(w)
      <4>1. ASSUME FinishCopy(w) \/ Abort(w) PROVE disk'[c][p] # "partial"
        <5>1. \/ disk' = [disk EXCEPT ![c][p] = "whole"]
              \/ disk' = [disk EXCEPT ![c][p] = "absent"]
          BY <3>1, <4>1 DEF FinishCopy, Abort, In
        <5>2. QED BY <1>0, <5>1, DiskUpdate DEF StoreTypeOK
      <4>2. QED BY <1>2, <4>1
    <3>5. In(w, {"copy"})' /\ Same(w) BY <1>0, <3>1, <3>3, <3>4, StoringStages
    <3>6. Sha(w)' = c /\ PlaceOf(Job(w))' = p BY <1>0, <3>1, <3>5, SameRun DEF In
    <3>7. QED BY <3>5, <3>6
  <2>2. CASE disk[c][p] # "partial"
    <3>1. PICK w \in Worker : /\ worker[w].pc = "running" /\ Sha(w) = c /\ PlaceOf(Job(w)) = p
                              /\ MoveToStorage(w) \/ LoseFileInsert(w) \/ Abort(w)
                              /\ MoveToStorage(w) => CtxTo(w, "copy")
      <4>1. PICK w \in Worker :
           /\ worker[w].pc = "running" /\ Sha(w) = c /\ PlaceOf(Job(w)) = p
           /\ \/ /\ MoveToStorage(w) /\ disk[c][p] = "absent"
                 /\ \/ disk'[c][p] = "whole"
                    \/ CtxTo(w, "copy") /\ setting.cross
              \/ FinishCopy(w) /\ disk'[c][p] = "whole"
              \/ LoseFileInsert(w) /\ Active(c) /\ files[c].place # p
              \/ Abort(w) /\ ctx[w].stage = "copy"
        BY <1>0, <1>2, <2>2, DiskChanges
      <4>2. (LoseFileInsert(w) \/ Abort(w)) => ~MoveToStorage(w)
        <5>1. LoseFileInsert(w) => ~MoveToStorage(w)
          BY DEF LoseFileInsert, MoveToStorage, At
        <5>2. Abort(w) => ~MoveToStorage(w)
          BY <1>0 DEF Abort, Fail, Raise, MoveToStorage, StoreTypeOK, TypeOK, WorkerState, vars
        <5>3. QED BY <5>1, <5>2
      <4>3. QED BY <1>2, <4>1, <4>2
    <3>2. MoveToStorage(w)
      <4>1. ASSUME LoseFileInsert(w) \/ Abort(w) PROVE FALSE
        <5>1. disk' = disk \/ disk' = [disk EXCEPT ![c][p] = "absent"]
          BY <3>1, <4>1 DEF LoseFileInsert, Abort
        <5>2. QED BY <1>0, <1>2, <2>2, <5>1, DiskUpdate DEF StoreTypeOK
      <4>2. QED BY <3>1, <4>1
    <3>3. UNCHANGED worker /\ Sha(w)' = c /\ PlaceOf(Job(w))' = p
      BY <1>0, <3>1, <3>2, MovingSteps, SameRun DEF Moving, vars
    <3>4. QED BY <3>1, <3>2, <3>3 DEF In, CtxTo
  <2>3. QED BY <2>1, <2>2
<1>3. ASSUME NEW w \in Worker, In(w, {"insert"})'
      PROVE  \/ disk'[Sha(w)'][PlaceOf(Job(w))'] = "whole"
             \/ ~ctx'[w].restore /\ Active(Sha(w))'
  <2>1. CASE (MoveToStorage(w) /\ CtxTo(w, "insert")) \/ FinishCopy(w)
    <3>1. worker[w].pc = "running" /\ UNCHANGED worker
      BY <1>0, <2>1, MovingSteps DEF Moving, vars
    <3>2. /\ Sha(w)' = Sha(w) /\ PlaceOf(Job(w))' = PlaceOf(Job(w))
          /\ Sha(w) \in Content /\ PlaceOf(Job(w)) \in Place
      BY <1>0, <3>1, SameRun, RunHasRow
    <3>3. \/ disk' = [disk EXCEPT ![Sha(w)][PlaceOf(Job(w))] = "whole"]
          \/ /\ disk[Sha(w)][PlaceOf(Job(w))] # "absent" /\ UNCHANGED disk
             /\ In(w, {"move"})
      <4>1. MoveToStorage(w) => ~Goto(w, "copy")
        BY <1>0, <2>1, MovingSteps, CtxSteps DEF Moving, Goto, CtxTo, StoreTypeOK, Stage, In
      <4>2. QED BY <2>1, <4>1 DEF MoveToStorage, FinishCopy, At, In
    <3>4. CASE disk' = [disk EXCEPT ![Sha(w)][PlaceOf(Job(w))] = "whole"]
      BY <1>0, <3>2, <3>4, DiskUpdate DEF StoreTypeOK
    <3>5. CASE /\ disk[Sha(w)][PlaceOf(Job(w))] # "absent" /\ UNCHANGED disk
               /\ In(w, {"move"})
      <4>1. disk[Sha(w)][PlaceOf(Job(w))] # "partial" BY <3>5, NotPartial DEF In
      <4>2. disk[Sha(w)][PlaceOf(Job(w))] \in {"absent", "partial", "whole"}
        BY <1>0, <3>2 DEF StoreTypeOK
      <4>3. QED BY <3>2, <3>5, <4>1, <4>2
    <3>6. QED BY <3>3, <3>4, <3>5
  <2>2. CASE In(w, {"insert"}) /\ Same(w)
    <3>1. /\ Sha(w)' = Sha(w) /\ PlaceOf(Job(w))' = PlaceOf(Job(w))
          /\ Sha(w) \in Content /\ PlaceOf(Job(w)) \in Place
          /\ ctx'[w].restore = ctx[w].restore
      BY <1>0, <2>2, SameRun, RunHasRow DEF In, Same
    <3>2. CASE ~ctx[w].restore /\ Active(Sha(w))
      BY <1>0, <3>1, <3>2, Grows DEF Active
    <3>3. CASE disk[Sha(w)][PlaceOf(Job(w))] = "whole"
      <4>1. SUFFICES ASSUME disk'[Sha(w)][PlaceOf(Job(w))] # "whole"
                     PROVE  ~ctx[w].restore /\ Active(Sha(w))
        BY <3>1, <3>2
      <4>2. PICK v \in Worker :
              /\ worker[v].pc = "running" /\ Sha(v) = Sha(w)
              /\ PlaceOf(Job(v)) = PlaceOf(Job(w))
              /\ \/ LoseFileInsert(v) /\ Active(Sha(w))
                 \/ Abort(v) /\ ctx[v].stage = "copy"
        BY <1>0, <3>1, <3>3, <4>1, DiskChanges
      <4>3. CASE LoseFileInsert(v) /\ Active(Sha(w))
        <5>1. In(v, Storing) /\ In(w, Storing) /\ ~ctx[v].restore
          BY <2>2, <4>3 DEF LoseFileInsert, At, In, Storing
        <5>2. QED BY <1>0, <4>2, <4>3, <5>1 DEF StoringKnows
      <4>4. CASE ctx[v].stage = "copy"
        <5>1. In(v, {"copy"}) BY <4>2, <4>4 DEF In
        <5>2. disk[Sha(v)][PlaceOf(Job(v))] = "partial" BY <5>1 DEF DiskFollowsStages
        <5>3. QED BY <3>3, <4>2, <5>2
      <4>5. QED BY <4>2, <4>3, <4>4
    <3>4. QED BY <2>2, <3>2, <3>3 DEF DiskFollowsStages
  <2>3. QED BY <1>0, <1>3, <2>1, <2>2, StoringStages
<1>4. QED BY <1>0, <1>1, <1>2, <1>3 DEF DiskFollowsStages

(* Wherever originals cannot be lost to a torn copy (incoming and original *)
(* on one filesystem, or advisory locks and no crash), a file the database *)
(* calls active has its whole original at the path of its row: the losers  *)
(* of a concurrent insert delete only their own copy, a run registers only *)
(* what it has stored, and restores of one tombstone agree.                *)
THEOREM RegisteredOnDiskHolds == StoreSpec => [](SafeMove => RegisteredOnDisk)
<1> DEFINE Inv == SafeMove => DiskFollowsStages /\ RegisteredOnDisk
<1>1. ASSUME StoreInit PROVE Inv
  <2>1. PICK known \in [Content -> {"none", "linked", "reset", "deleted"}] :
          LET alive == {c \in Content : known[c] \in {"linked", "reset"}}
          IN  /\ files = [c \in Content |->
                            [state |-> IF c \in alive THEN "active" ELSE
                                       IF known[c] = "none" THEN "none" ELSE "deleted",
                             place |-> "original"]]
              /\ disk = [c \in Content |-> [p \in Place |->
                           IF c \in alive /\ p = "original" THEN "whole" ELSE "absent"]]
    BY <1>1 DEF StoreInit
  <2>2. RegisteredOnDisk BY <2>1 DEF RegisteredOnDisk, Active, Place
  <2>3. \A c \in Content, p \in Place : disk[c][p] # "partial" BY <2>1
  <2>4. \A w \in Worker : worker[w].pc = "idle" BY <1>1 DEF StoreInit, Init, Idle
  <2>5. DiskFollowsStages BY <2>3, <2>4 DEF DiskFollowsStages, In
  <2>6. QED BY <2>2, <2>5
<1>2. ASSUME StoreInv, Inv, [StoreNext]_allVars, SafeMove' PROVE Inv'
  <2>0. /\ Base /\ StoreTypeOK /\ BusyHasJob /\ SafeMove
        /\ DiskFollowsStages /\ RegisteredOnDisk
    BY <1>2, CrashesCounted DEF StoreInv, Base
  <2>1. DiskFollowsStages' BY <1>2, <2>0, DiskInductive
  <2>2. ASSUME NEW c \in Content, Active(c)' PROVE disk'[c][files'[c].place] = "whole"
    <3>1. CASE files'[c] = files[c]
      <4> DEFINE p == files[c].place
      <4>1. Active(c) /\ p \in Place /\ disk[c][p] = "whole"
        BY <2>0, <2>2, <3>1 DEF Active, RegisteredOnDisk, StoreTypeOK, FileRow
      <4> HIDE DEF p
      <4>2. SUFFICES ASSUME disk'[c][p] # "whole" PROVE FALSE BY <3>1 DEF p
      <4>3. PICK w \in Worker : /\ worker[w].pc = "running" /\ Sha(w) = c
                                /\ PlaceOf(Job(w)) = p
                                /\ \/ LoseFileInsert(w) /\ files[c].place # p
                                   \/ Abort(w) /\ ctx[w].stage = "copy"
        BY <1>2, <2>0, <4>1, <4>2, DiskChanges
      <4>4. In(w, {"copy"}) BY <4>3 DEF In, p
      <4>5. disk[c][p] = "partial" BY <2>0, <4>3, <4>4 DEF DiskFollowsStages
      <4>6. QED BY <4>1, <4>5
    <3>2. CASE files'[c] # files[c]
      <4>1. PICK w \in Worker : /\ InsertFile(w) /\ Sha(w) = c /\ worker[w].pc = "running"
                                /\ files'[c].place = PlaceOf(Job(w))
        BY <1>2, <2>0, <3>2, FileChanges
      <4>2. In(w, {"insert"}) /\ (ctx[w].restore \/ ~Active(c)) /\ UNCHANGED disk
        BY <4>1 DEF InsertFile, At, In, Active
      <4>3. disk[Sha(w)][PlaceOf(Job(w))] = "whole"
        BY <2>0, <4>1, <4>2 DEF DiskFollowsStages
      <4>4. QED BY <4>1, <4>2, <4>3
    <3>3. QED BY <3>1, <3>2
  <2>3. QED BY <2>1, <2>2 DEF RegisteredOnDisk
<1>3. StoreInv /\ Inv /\ [StoreNext]_allVars => Inv' BY <1>2
<1>4. StoreSpec => []Inv BY <1>1, <1>3, StoreInvHolds, PTL DEF StoreSpec
<1>5. QED BY <1>4, PTL

(* Lemma: the disk follows the stages.                                     *)
LEMMA DiskFollows == StoreSpec => [](SafeMove => DiskFollowsStages)
<1> DEFINE Inv == SafeMove => DiskFollowsStages
<1>1. ASSUME StoreInit PROVE Inv
  <2>1. \A w \in Worker : worker[w].pc = "idle" BY <1>1 DEF StoreInit, Init, Idle
  <2>2. \A c \in Content, p \in Place : disk[c][p] # "partial" BY <1>1 DEF StoreInit
  <2>3. QED BY <2>1, <2>2 DEF DiskFollowsStages, In
<1>2. ASSUME StoreInv, Inv, [StoreNext]_allVars PROVE Inv'
  BY <1>2, CrashesCounted, DiskInductive DEF StoreInv
<1>3. QED BY <1>1, <1>2, StoreInvHolds, PTL DEF StoreSpec

(* Lemma: a row appears with its incoming file.                            *)
LEMMA NewRows ==
  ASSUME Base, [StoreNext]_allVars, NEW j \in JobId, ~Exists(j), Exists(j)'
  PROVE  \E r \in Request : SaveAndCreate(r, j)
<1>0. StoreTypeOK /\ BusyHasJob BY DEF Base
<1>1. TypeOK BY <1>0 DEF StoreTypeOK
<1>2. ASSUME NEW r \in Request, NEW i \in JobId, CreateWaitingJob(r, i), i # j
      PROVE  FALSE
  BY <1>1, <1>2 DEF CreateWaitingJob, Exists, TypeOK
<1>3. ASSUME NEW r \in Request, BackfillHash(r) PROVE FALSE
  BY <1>1, <1>3 DEF BackfillHash, Exists, TypeOK, Row
<1>4. ASSUME jobs' = jobs PROVE FALSE BY <1>4 DEF Exists
<1>5. StoreApi
  <2>1. ASSUME NEW w \in Worker, StartRun(w) \/ Moving(w) PROVE FALSE
    BY <1>0, <1>4, <2>1, StartStep, MovingSteps DEF vars
  <2>2. ASSUME NEW w \in Worker, Leaving(w), ~FinishRun(w) PROVE FALSE
    BY <1>4, <2>2 DEF Leaving, Fail, Raise, RejectWrongHash, MissingIncoming,
         RejectDuplicate, RejectLinked, Abort, CrashRun, Crash
  <2>3. ASSUME NEW w \in Worker, FinishRun(w) PROVE FALSE
    BY <1>0, <1>1, <2>3
       DEF FinishRun, MarkCompleted, Exists, TypeOK, Row, BusyHasJob
  <2>4. ASSUME NEW w \in Worker, QueueOnly(w) PROVE FALSE
    <3>1. ASSUME NEW i \in JobId, Claim(w, i) PROVE FALSE
      BY <1>1, <3>1 DEF Claim, First, Waiting, Exists, TypeOK, Row
    <3>2. CASE ReadForFailure(w) BY <1>4, <3>2 DEF ReadForFailure
    <3>3. CASE MarkFailed(w)
      BY <1>0, <1>1, <3>3 DEF MarkFailed, Exists, TypeOK, Row, BusyHasJob
    <3>4. CASE RecoverStale(w)
      BY <1>1, <3>4 DEF RecoverStale, Stale, Exists, TypeOK
    <3>5. QED BY <2>4, <3>1, <3>2, <3>3, <3>4 DEF QueueOnly
  <2>5. ~StoreTime
    BY <1>1 DEF StoreTime, Time, ExpireSlow, ExpireDead, Expirable, Exists, TypeOK, Row
  <2>6. QED
    BY <1>4, <2>1, <2>2, <2>3, <2>4, <2>5, StepKinds DEF allVars, vars
<1>6. ASSUME NEW r \in Request, NEW f \in Form, Receive(r, f) PROVE FALSE
  BY <1>4, <1>6 DEF Receive
<1>7. ASSUME NEW r \in Request, Refuse(r) \/ LoseInsert(r) PROVE FALSE
  BY <1>4, <1>7 DEF Refuse, LoseInsert
<1>8. PICK r \in Request, i \in JobId : SaveAndCreate(r, i)
  BY <1>3, <1>5, <1>6, <1>7 DEF StoreApi, ReceiveUpload, OtherApi
<1>9. i = j BY <1>2, <1>8 DEF SaveAndCreate
<1>10. QED BY <1>8, <1>9

(* On the same deployments no accepted upload is lost: until the bytes of  *)
(* a job are a whole original somewhere, its incoming file stays, whatever *)
(* fails, times out, is recovered or is uploaded again at the same time    *)
(* (storage_service.py: the source is deleted only after a successful      *)
(* copy).                                                                  *)
THEOREM ContentKeptHolds == StoreSpec => [](SafeMove => ContentKept)
<1> DEFINE Inv == SafeMove => ContentKept
<1>1. StoreInit => Inv BY DEF StoreInit, Init, NoRow, Exists, ContentKept
<1>2. ASSUME StoreInv, SafeMove => DiskFollowsStages, SafeMove => RegisteredOnDisk,
             (SafeMove => RegisteredOnDisk)', Inv, [StoreNext]_allVars, SafeMove'
      PROVE  Inv'
  <2>0. /\ Base /\ StoreTypeOK /\ BusyHasJob /\ SafeMove /\ StageIsActive
        /\ DiskFollowsStages /\ RegisteredOnDisk /\ RegisteredOnDisk' /\ ContentKept
    BY <1>2, CrashesCounted DEF StoreInv, Base
  <2> DEFINE Stored(j) == \E p \in Place : disk[content[j]][p] = "whole"
  <2>1. ASSUME NEW c \in Content, NEW p \in Place, disk[c][p] = "whole"
        PROVE  \E q \in Place : disk'[c][q] = "whole"
    <3>1. SUFFICES ASSUME disk'[c][p] # "whole" PROVE \E q \in Place : disk'[c][q] = "whole"
      BY <2>1
    <3>2. PICK w \in Worker : /\ worker[w].pc = "running" /\ Sha(w) = c
                              /\ PlaceOf(Job(w)) = p
                              /\ \/ LoseFileInsert(w) /\ Active(c)
                                 \/ Abort(w) /\ ctx[w].stage = "copy"
      BY <1>2, <2>0, <2>1, <3>1, DiskChanges
    <3>3. CASE Active(c)
      <4>1. Active(c)' BY <1>2, <2>0, <3>3, Grows DEF Active
      <4>2. QED BY <2>0, <4>1, StoreTypeInductive, <1>2
               DEF RegisteredOnDisk, StoreTypeOK, FileRow
    <3>4. CASE ctx[w].stage = "copy"
      BY <2>0, <2>1, <3>2, <3>4 DEF DiskFollowsStages, In
    <3>5. QED BY <3>2, <3>3, <3>4
  <2>2. ASSUME NEW j \in JobId \ mismatched', Exists(j)', j \notin incoming'
        PROVE  \E p \in Place : disk'[content'[j]][p] = "whole"
    <3>0. content[j] \in Content /\ content' = content
      BY <1>2, <2>0, RowsKept DEF StoreTypeOK
    <3>1. CASE j \in incoming
      <4>1. PICK w \in Worker :
              /\ worker[w].pc = "running" /\ Job(w) = j
              /\ \/ Active(Sha(w))
                 \/ /\ MoveToStorage(w)
                    /\ \/ disk[Sha(w)][PlaceOf(j)] # "absent"
                       \/ disk'[Sha(w)][PlaceOf(j)] = "whole"
                 \/ FinishCopy(w) /\ disk'[Sha(w)][PlaceOf(j)] = "whole"
        BY <1>2, <2>0, <2>2, <3>1, IncomingChanges
      <4>2. Sha(w) = content[j] /\ PlaceOf(j) \in Place
        BY <2>0, <4>1, RunHasRow DEF Sha
      <4>3. CASE Active(Sha(w))
        BY <2>0, <2>1, <3>0, <4>2, <4>3 DEF RegisteredOnDisk, StoreTypeOK, FileRow
      <4>4. CASE MoveToStorage(w) /\ disk[Sha(w)][PlaceOf(j)] # "absent"
        <5>1. disk[Sha(w)][PlaceOf(j)] # "partial"
          BY <1>2, <2>0, <4>1, <4>4, NotPartial DEF MoveToStorage, At, In
        <5>2. disk[Sha(w)][PlaceOf(j)] \in {"absent", "partial", "whole"}
          BY <2>0, <3>0, <4>2 DEF StoreTypeOK
        <5>3. QED BY <2>1, <3>0, <4>2, <4>4, <5>1, <5>2
      <4>5. CASE disk'[Sha(w)][PlaceOf(j)] = "whole" BY <3>0, <4>2, <4>5
      <4>6. QED BY <4>1, <4>3, <4>4, <4>5
    <3>2. CASE j \notin incoming
      <4>1. mismatched \subseteq mismatched'
        <5>1. ASSUME NEW v \in Worker, Leaving(v) PROVE mismatched \subseteq mismatched'
          BY <5>1 DEF Leaving, RejectWrongHash, MissingIncoming, RejectDuplicate,
               RejectLinked, LoseFileInsert, LinkStored, FinishRun, Abort, CrashRun
        <5>2. QED BY <1>2, <2>0, <5>1, StepKinds, QuietSteps, StartStep, MovingSteps
      <4>2. CASE Exists(j)
        BY <2>0, <2>1, <2>2, <3>0, <3>2, <4>1, <4>2 DEF ContentKept
      <4>3. CASE ~Exists(j)
        <5>1. PICK r \in Request : SaveAndCreate(r, j) BY <1>2, <2>0, <2>2, <4>3, NewRows
        <5>2. QED BY <2>2, <5>1 DEF SaveAndCreate
      <4>4. QED BY <4>2, <4>3
    <3>3. QED BY <3>1, <3>2
  <2>3. QED BY <2>2 DEF ContentKept
<1>3. StoreInv /\ (SafeMove => DiskFollowsStages) /\ (SafeMove => RegisteredOnDisk)
      /\ (SafeMove => RegisteredOnDisk)' /\ Inv /\ [StoreNext]_allVars => Inv'
  BY <1>2
<1>4. QED BY <1>1, <1>3, StoreInvHolds, DiskFollows, RegisteredOnDiskHolds, PTL DEF StoreSpec

-----------------------------------------------------------------------------
(* Content is not stored twice.                                            *)

(* Lemma: without crashes and slow runs a job is PROCESSING exactly while  *)
(* one worker runs it, and nothing is ever recovered.                      *)
LEMMA RunsAloneInductive ==
  ASSUME TypeOK, BusyHasJob, RunsAlone, [Next]_vars, crashes = 0, slow = 0,
         crashes' = 0, slow' = 0
  PROVE  RunsAlone'
<1> USE DEF TypeOK, RunsAlone, Runs
<1>1. ASSUME NEW w \in Worker, NEW j \in JobId, Claim(w, j) PROVE RunsAlone'
  <2>1. /\ jobs[j].status = "WAITING" /\ worker[w].pc = "idle"
        /\ jobs'[j].status = "PROCESSING" /\ jobs'[j].started = "fresh"
        /\ \A i \in JobId \ {j} : jobs'[i] = jobs[i]
    BY <1>1 DEF Claim, First, Waiting, Row
  <2>2. /\ worker'[w].pc = "claimed" /\ worker'[w].job = j
        /\ \A v \in Worker \ {w} : worker'[v] = worker[v]
    BY <1>1 DEF Claim, Idle
  <2>3. QED BY <2>1, <2>2
<1>2. ASSUME NEW w \in Worker, Raise(w) \/ ReadForFailure(w) PROVE RunsAlone'
  <2>1. jobs' = jobs /\ \A v \in Worker : /\ worker'[v].job = worker[v].job
                                          /\ worker'[v].pc = "idle" <=> worker[v].pc = "idle"
    <3>1. CASE Raise(w) BY <3>1 DEF Raise, WorkerState
    <3>2. CASE ReadForFailure(w)
      <4> DEFINE n == jobs[worker[w].job].retry
      <4>1. /\ worker' = [worker EXCEPT ![w].pc = "marking", ![w].seen = n]
            /\ worker[w].pc = "failing" /\ jobs' = jobs
        BY <3>2 DEF ReadForFailure
      <4> HIDE DEF n
      <4>2. QED BY <4>1 DEF WorkerState
    <3>3. QED BY <1>2, <3>1, <3>2
  <2>2. QED BY <2>1
<1>3. ASSUME NEW w \in Worker, Start(w) PROVE RunsAlone'
  <2>1. jobs[worker[w].job].status = "PROCESSING"
    BY <1>3 DEF Start, BusyHasJob
  <2>2. jobs' = jobs /\ \A v \in Worker : /\ worker'[v].job = worker[v].job
                                          /\ worker'[v].pc = "idle" <=> worker[v].pc = "idle"
    BY <1>3, <2>1 DEF Start, WorkerState
  <2>3. QED BY <2>2
<1>4. ASSUME NEW w \in Worker, MarkCompleted(w) \/ MarkFailed(w) PROVE RunsAlone'
  <2> DEFINE j == worker[w].job
  <2>1. j \in JobId /\ worker[w].pc # "idle" /\ jobs[j].status = "PROCESSING"
    BY <1>4 DEF MarkCompleted, MarkFailed, BusyHasJob
  <2>2. /\ worker'[w].pc = "idle" /\ \A v \in Worker \ {w} : worker'[v] = worker[v]
        /\ jobs'[j].status # "PROCESSING" /\ \A i \in JobId \ {j} : jobs'[i] = jobs[i]
    BY <1>4, <2>1 DEF MarkCompleted, MarkFailed, Idle, Row
  <2>3. QED BY <2>1, <2>2
<1>5. ASSUME NEW w \in Worker, RecoverStale(w) PROVE FALSE
  BY <1>5 DEF RecoverStale, Stale
<1>6. ASSUME NEW w \in Worker, Crash(w) PROVE FALSE
  BY <1>6 DEF Crash
<1>7. ASSUME NEW j \in JobId, ExpireSlow(j) \/ ExpireDead(j) PROVE FALSE
  BY <1>7 DEF ExpireSlow, ExpireDead, Expirable
<1>8. CASE Api
  <2>1. worker' = worker BY <1>8, ApiKeepsRuns
  <2>2. \A j \in JobId : /\ jobs[j].status # "ABSENT" => jobs'[j].status = jobs[j].status
                         /\ jobs'[j].status # jobs[j].status => jobs'[j].status = "WAITING"
                         /\ jobs'[j].status = "PROCESSING" => jobs'[j].started = jobs[j].started
    <3>1. ASSUME NEW r \in Request, NEW i \in JobId, CreateWaitingJob(r, i)
          PROVE  /\ \A j \in JobId \ {i} : jobs'[j] = jobs[j]
                 /\ jobs[i].status = "ABSENT" /\ jobs'[i].status = "WAITING"
      BY <3>1 DEF CreateWaitingJob, NewRow, NoRow, Exists
    <3>2. ASSUME NEW r \in Request, BackfillHash(r)
          PROVE  \A j \in JobId : /\ jobs'[j].status = jobs[j].status
                                  /\ jobs'[j].started = jobs[j].started
      BY <3>2 DEF BackfillHash, Row
    <3>3. ASSUME NEW r \in Request, NEW f \in Form, Receive(r, f) PROVE jobs' = jobs
      BY <3>3 DEF Receive
    <3>4. ASSUME NEW r \in Request, Refuse(r) \/ LoseInsert(r) PROVE jobs' = jobs
      BY <3>4 DEF Refuse, LoseInsert
    <3>5. QED BY <1>8, <3>1, <3>2, <3>3, <3>4 DEF Api
  <2>3. QED BY <2>1, <2>2
<1>9. CASE UNCHANGED vars BY <1>9 DEF vars
<1>10. QED
  BY <1>1, <1>2, <1>3, <1>4, <1>5, <1>6, <1>7, <1>8, <1>9 DEF Next, Work, Time

(* Lemma: the counters only grow.                                          *)
LEMMA OrderlyBefore ==
  ASSUME Base, [StoreNext]_allVars, Orderly'
  PROVE  Orderly /\ \A w \in Worker : ~CrashRun(w)
<1>0. TypeOK BY DEF Base, StoreTypeOK
<1>1. [Next]_vars BY QueueStep
<1>2. crashes' \in {crashes, crashes + 1} /\ slow' \in {slow, slow + 1}
  BY <1>0, <1>1 DEF Next, Api, Receive, Refuse, CreateWaitingJob, LoseInsert, BackfillHash,
       Work, Claim, Start, MarkCompleted, Raise, ReadForFailure, MarkFailed, RecoverStale,
       Time, ExpireSlow, ExpireDead, Crash, vars
<1>3. \A w \in Worker : CrashRun(w) => crashes' = crashes + 1 BY DEF CrashRun, Crash
<1>4. crashes \in Nat /\ slow \in Nat BY <1>0 DEF TypeOK
<1>5. setting' = setting BY RowsKept
<1>6. QED BY <1>2, <1>3, <1>4, <1>5 DEF Orderly

(* Lemma: what explains an original goes on doing so, until the original   *)
(* is the registered one.                                                  *)
LEMMA LeftByInductive ==
  ASSUME StoreInv, Orderly, RunsAlone, Orderly', [StoreNext]_allVars,
         NEW j \in JobId, Exists(j), LeftBy(j)
  PROVE  \/ LeftBy(j)'
         \/ Active(content[j])' /\ files'[content[j]].place = PlaceOf(j)
<1>0. /\ Base /\ StoreTypeOK /\ TypeOK /\ BusyHasJob /\ SectionLocked /\ StoringKnows
      /\ setting.locking /\ \A w \in Worker : ~CrashRun(w)
  BY OrderlyBefore DEF StoreInv, Base, StoreTypeOK, Orderly
<1>1. CASE jobs[j].status = "FAILED"
  <2>1. jobs'[j].status = "FAILED" BY <1>0, <1>1, QueueStep, TerminalKept DEF Terminal
  <2>2. QED BY <2>1 DEF LeftBy
<1>2. ASSUME NEW w \in Worker, Runs(w, j), worker[w].pc \in {"failing", "marking"}
      PROVE  LeftBy(j)'
  <2>1. jobs[j].status = "PROCESSING" BY <1>2 DEF RunsAlone
  <2>2. CASE MarkFailed(w)
    <3>1. jobs'[j].status = "FAILED"
      BY <1>0, <1>2, <2>1, <2>2 DEF MarkFailed, Runs, TypeOK, Row
    <3>2. QED BY <3>1 DEF LeftBy
  <2>3. CASE ~MarkFailed(w)
    <3>0. worker[w] \in WorkerState BY <1>0 DEF TypeOK
    <3>1. worker'[w].job = worker[w].job /\ worker'[w].pc \in {"failing", "marking"}
      <4>1. ASSUME NEW v \in Worker, Work(v) \/ Crash(v), v # w PROVE worker'[w] = worker[w]
        BY <1>0, <4>1 DEF Work, Claim, Start, MarkCompleted, Raise, ReadForFailure,
             MarkFailed, RecoverStale, Crash, TypeOK
      <4>2. ASSUME Work(w) PROVE worker'[w] = worker[w] \/ ReadForFailure(w)
        BY <1>2, <2>3, <4>2
           DEF Work, Claim, Start, MarkCompleted, Raise, RecoverStale
      <4>3. ASSUME ReadForFailure(w)
            PROVE  worker'[w].job = worker[w].job /\ worker'[w].pc = "marking"
        <5> DEFINE n == jobs[worker[w].job].retry
        <5>1. worker' = [worker EXCEPT ![w].pc = "marking", ![w].seen = n]
          BY <4>3 DEF ReadForFailure
        <5> HIDE DEF n
        <5>2. QED BY <1>0, <5>1 DEF TypeOK, WorkerState
      <4>4. ASSUME Crash(w) PROVE FALSE
        <5>1. crashes' = crashes + 1 BY <4>4 DEF Crash
        <5>2. QED BY <5>1 DEF Orderly
      <4>5. Api => worker' = worker BY <1>0, ApiKeepsRuns
      <4>6. Time => worker' = worker BY DEF Time, ExpireSlow, ExpireDead
      <4>7. [Next]_vars BY QueueStep
      <4>8. QED BY <1>2, <4>1, <4>2, <4>3, <4>4, <4>5, <4>6, <4>7 DEF Next, vars
    <3>2. Runs(w, j)' BY <1>2, <3>1 DEF Runs
    <3>3. QED BY <3>1, <3>2 DEF LeftBy
  <2>4. QED BY <2>2, <2>3
<1>3. ASSUME NEW w \in Worker, Runs(w, j), In(w, {"copy", "insert"})
      PROVE  \/ LeftBy(j)'
             \/ Active(content[j])' /\ files'[content[j]].place = PlaceOf(j)
  <2>1. Job(w) = j /\ Sha(w) = content[j] /\ Sha(w) \in Content /\ ~Active(Sha(w))
    BY <1>0, <1>3, RunHasRow DEF Runs, Job, Sha, In, Storing, SectionLocked
  <2>2. ~LoseFileInsert(w)
    <3>1. ASSUME LoseFileInsert(w) PROVE Active(Sha(w))
      BY <1>0, <1>3, <2>1, <3>1
         DEF LoseFileInsert, StoringKnows, In, Storing, StoreTypeOK, FileRow, Active
    <3>2. QED BY <2>1, <3>1
  <2>3. CASE InsertFile(w)
    BY <1>0, <2>1, <2>3 DEF InsertFile, Active, StoreTypeOK
  <2>4. CASE FinishCopy(w)
    <3>1. CtxTo(w, "insert") /\ UNCHANGED vars BY <1>0, <2>4, MovingSteps DEF Moving
    <3>2. QED BY <1>3, <3>1 DEF CtxTo, In, Runs, LeftBy, vars
  <2>5. CASE Abort(w)
    <3>1. worker'[w].pc = "failing" /\ worker'[w].job = j
      BY <1>0, <2>1, <2>5 DEF Abort, Fail, Raise, TypeOK, WorkerState, Job
    <3>2. QED BY <3>1 DEF LeftBy, Runs
  <2>6. CASE Same(w)
    <3>1. In(w, {"copy", "insert"})' /\ Runs(w, j)'
      BY <1>3, <2>6 DEF Same, In, Runs
    <3>2. QED BY <3>1 DEF LeftBy
  <2>7. Same(w) \/ Leaving(w) \/ Moving(w)
    <3>1. ~StartRun(w) BY <1>3 DEF StartRun, Start, In
    <3>2. QED
      BY <1>0, <3>1, StepKinds, QuietSteps, StartStep, LeavingSteps, MovingSteps DEF OthersSame
  <2>8. Leaving(w) => Abort(w)
    BY <1>0, <1>3, <2>2 DEF Leaving, In, RejectWrongHash, MissingIncoming, RejectDuplicate,
         RejectLinked, LinkStored, FinishRun, At
  <2>9. Moving(w) => InsertFile(w) \/ FinishCopy(w)
    BY <1>3, <2>2 DEF Moving, In, ReadIncoming, CheckDuplicate, LinkDuplicate, DropIncoming,
         MoveToStorage, LinkStored, CommitMetadata, CheckVision, EnqueueVision, At
  <2>10. QED BY <2>3, <2>4, <2>5, <2>6, <2>7, <2>8, <2>9
<1>4. QED BY <1>1, <1>2, <1>3 DEF LeftBy

(* Lemma: every original is the registered one, or left by a job.          *)
LEMMA OriginalsInductive ==
  ASSUME StoreInv, Orderly, RunsAlone, OriginalsExplained, Orderly', [StoreNext]_allVars
  PROVE  OriginalsExplained'
<1>0. /\ Base /\ StoreTypeOK /\ BusyHasJob /\ SectionLocked /\ setting.locking
      /\ content' = content
  BY RowsKept DEF StoreInv, Base, Orderly
<1>1. SUFFICES ASSUME NEW c \in Content, NEW p \in Place, disk'[c][p] # "absent",
                      ~(Active(c)' /\ p = files'[c].place)
               PROVE  \E j \in JobId : /\ Exists(j)' /\ content[j] = c /\ PlaceOf(j)' = p
                                       /\ LeftBy(j)'
  BY <1>0 DEF OriginalsExplained
<1>2. \A j \in JobId : Exists(j) => Exists(j)' /\ PlaceOf(j)' = PlaceOf(j)
  BY <1>0, RowsKept DEF PlaceOf, Mobile
<1>3. CASE disk[c][p] # "absent"
  <2>1. ~(Active(c) /\ p = files[c].place)
    <3>1. SUFFICES ASSUME Active(c), p = files[c].place PROVE FALSE
      OBVIOUS
    <3>2. files'[c] # files[c] BY <1>1, <3>1 DEF Active
    <3>3. PICK w \in Worker : InsertFile(w) /\ Sha(w) = c /\ worker[w].pc = "running"
      BY <1>0, <3>2, FileChanges
    <3>4. In(w, Storing) BY <3>3 DEF InsertFile, At, In, Storing
    <3>5. QED BY <1>0, <3>1, <3>3, <3>4 DEF SectionLocked
  <2>2. PICK j \in JobId : Exists(j) /\ content[j] = c /\ PlaceOf(j) = p /\ LeftBy(j)
    BY <1>3, <2>1 DEF OriginalsExplained
  <2>3. LeftBy(j)' BY <1>0, <1>1, <2>2, LeftByInductive DEF Active
  <2>4. QED BY <1>2, <2>2, <2>3
<1>4. CASE disk[c][p] = "absent"
  <2>1. PICK w \in Worker :
          /\ worker[w].pc = "running" /\ Sha(w) = c /\ PlaceOf(Job(w)) = p
          /\ \/ MoveToStorage(w)
             \/ FinishCopy(w)
             \/ LoseFileInsert(w) /\ Active(c)
             \/ Abort(w)
    BY <1>0, <1>1, <1>4, DiskChanges
  <2>2. PICK j \in JobId : j = Job(w) /\ Exists(j) /\ content[j] = c
    BY <1>0, <2>1, RunHasRow DEF Sha
  <2>3. LeftBy(j)'
    <3>1. CASE MoveToStorage(w) \/ FinishCopy(w)
      <4>1. /\ CtxTo(w, "insert") \/ CtxTo(w, "copy")
            /\ UNCHANGED vars
        BY <1>0, <3>1, MovingSteps DEF Moving
      <4>2. In(w, {"copy", "insert"})' /\ Runs(w, j)'
        BY <2>1, <2>2, <4>1 DEF CtxTo, In, Runs, Job, vars
      <4>3. QED BY <4>2 DEF LeftBy
    <3>2. CASE LoseFileInsert(w) /\ Active(c)
      BY <1>0, <2>1, <3>2 DEF LoseFileInsert, At, In, Storing, SectionLocked
    <3>3. CASE Abort(w)
      <4>1. worker'[w].pc = "failing" /\ worker'[w].job = Job(w)
        BY <1>0, <3>3 DEF Abort, Fail, Raise, StoreTypeOK, TypeOK, WorkerState, Job
      <4>2. QED BY <2>2, <4>1 DEF LeftBy, Runs
    <3>4. QED BY <2>1, <3>1, <3>2, <3>3
  <2>4. QED BY <1>2, <2>1, <2>2, <2>3
<1>5. QED BY <1>3, <1>4

(* With advisory locks, and while nothing crashes or outlives its time,    *)
(* content whose uploads have all completed is stored once, at the place   *)
(* of its row: an original elsewhere was left by a run that failed, or     *)
(* belongs to one that is about to register it.                            *)
THEOREM OneOriginalHolds == StoreSpec => []OneOriginal
<1> DEFINE Inv == Orderly => RunsAlone /\ OriginalsExplained
<1>1. ASSUME StoreInit PROVE Inv
  <2>1. PICK known \in [Content -> {"none", "linked", "reset", "deleted"}] :
          LET alive == {c \in Content : known[c] \in {"linked", "reset"}}
          IN  /\ files = [c \in Content |->
                            [state |-> IF c \in alive THEN "active" ELSE
                                       IF known[c] = "none" THEN "none" ELSE "deleted",
                             place |-> "original"]]
              /\ disk = [c \in Content |-> [p \in Place |->
                           IF c \in alive /\ p = "original" THEN "whole" ELSE "absent"]]
    BY <1>1 DEF StoreInit
  <2>2. OriginalsExplained BY <2>1 DEF OriginalsExplained, Active
  <2>3. RunsAlone BY <1>1 DEF StoreInit, Init, Idle, NoRow, RunsAlone, Runs
  <2>4. QED BY <2>2, <2>3
<1>2. ASSUME StoreInv, Inv, [StoreNext]_allVars, Orderly' PROVE RunsAlone' /\ OriginalsExplained'
  <2>1. Base /\ TypeOK /\ BusyHasJob BY <1>2 DEF StoreInv, Base, StoreTypeOK
  <2>2. Orderly BY <1>2, <2>1, OrderlyBefore
  <2>3. RunsAlone' BY <1>2, <2>1, <2>2, QueueStep, RunsAloneInductive DEF Orderly
  <2>4. OriginalsExplained' BY <1>2, <2>2, OriginalsInductive
  <2>5. QED BY <2>3, <2>4
<1>3. StoreInv /\ Inv /\ [StoreNext]_allVars => Inv' BY <1>2
<1>4. StoreInv /\ Inv => OneOriginal
  <2>1. ASSUME Inv, Orderly, NEW c \in Content, Active(c),
               \A j \in JobId : (Exists(j) /\ content[j] = c) => jobs[j].status = "COMPLETED",
               NEW p \in Place \ {files[c].place}, disk[c][p] # "absent"
        PROVE  FALSE
    <3>1. PICK j \in JobId : Exists(j) /\ content[j] = c /\ LeftBy(j)
      BY <2>1 DEF OriginalsExplained
    <3>2. jobs[j].status = "COMPLETED" BY <2>1, <3>1
    <3>3. \A w \in Worker : ~Runs(w, j) BY <2>1, <3>2 DEF RunsAlone
    <3>4. QED BY <3>1, <3>2, <3>3 DEF LeftBy
  <2>2. QED BY <2>1 DEF OneOriginal, Orderly
<1>5. QED BY <1>1, <1>3, <1>4, StoreInvHolds, PTL DEF StoreSpec

===============================================================================
