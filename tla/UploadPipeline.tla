---------------------------- MODULE UploadPipeline ----------------------------
(***************************************************************************)
(* What an upload worker does to the file of a job: HashPlugin,            *)
(* PreviewPlugin, StoragePlugin, MetadataPlugin, ExifPlugin, GpsPlugin and *)
(* the vision enqueue, over the files on disk (incoming and originals) and *)
(* the tables common_files, common_file_services, common_file_metadata and *)
(* common_vision_jobs.                                                     *)
(*                                                                         *)
(* Extends UploadJobs: a worker whose pc is "running" is at ctx.stage of   *)
(* the pipeline, and every step is a step of the queue or leaves it alone. *)
(* Content is identified with its SHA-256.                                 *)
(*                                                                         *)
(* A stage ends where another process can see a difference: at a commit,   *)
(* a change on disk, or a read that a later write relies on.  The setting  *)
(* of a deployment says whether the database has advisory locks            *)
(* (PostgreSQL has, the portable test databases have not) and whether      *)
(* incoming and original are on different filesystems, where a move is a   *)
(* copy and an unlink.                                                     *)
(***************************************************************************)
EXTENDS UploadJobs

CONSTANT Setting   \* the deployments considered

None == "none"     \* nobody holds the lock

ASSUME UploadPipelineAssumption ==
    /\ Setting \subseteq [locking : BOOLEAN, cross : BOOLEAN]
    /\ None \notin Worker

Content == Hash

(* Where an original goes: the root is chosen by the source, the directory *)
(* by the service's storage rule (one directory per service here).         *)
Place == {"original/AstroJournal", "original", "mobile-original"}

VARIABLES
    content,   \* the bytes each job was uploaded with
    incoming,  \* jobs whose incoming file is on disk
    disk,      \* originals on disk, by content and place
    files,     \* common_files: one row per content
    links,     \* common_file_services: pairs of a content and a service
    meta,      \* contents whose metadata and EXIF were committed
    vision,    \* vision jobs of each content: waiting, running or done
    lock,      \* holder of the advisory lock of each content
    ctx,       \* the pipeline context of each worker
    mismatched,\* jobs rejected because the client's hash was wrong
    setting    \* the deployment, which never changes

storeVars == <<setting, content, incoming, disk, files, links, meta, vision, lock, ctx, mismatched>>
allVars == <<vars, storeVars>>

Stage == {"none", "read", "lock", "duplicate", "drop", "move", "copy", "insert",
          "link", "exif", "queue", "enqueue", "finish"}

(* The declared hash is read with the job, when the run starts.            *)
NoCtx == [stage |-> "none", hash |-> NoHash, restore |-> FALSE, stop |-> FALSE,
          created |-> FALSE]

Ctx == [stage : Stage, hash : Hash \cup {NoHash}, restore : BOOLEAN, stop : BOOLEAN,
        created : BOOLEAN]

FileRow == [state : {"none", "active", "deleted"}, place : Place]

StoreTypeOK ==
    /\ TypeOK
    /\ setting \in Setting
    /\ content \in [JobId -> Content]
    /\ incoming \subseteq JobId
    /\ disk \in [Content -> [Place -> {"absent", "partial", "whole"}]]
    /\ files \in [Content -> FileRow]
    /\ links \subseteq Content \X Service
    /\ meta \subseteq Content
    /\ vision \in [Content -> Nat]
    /\ lock \in [Content -> Worker \cup {None}]
    /\ ctx \in [Worker -> Ctx]
    /\ mismatched \subseteq JobId

(* Each content is unknown, or an active file of MemoryKeeper, or one a    *)
(* MemoryKeeper reset left without a link (its vision job is kept only if  *)
(* COMPLETED), or the tombstone of an AstroJournal cleanup: the row is     *)
(* kept, its original, links, metadata and vision jobs are gone.           *)
StoreInit ==
    /\ Init
    /\ setting \in Setting
    /\ content \in [JobId -> Content]
    /\ incoming = {}
    /\ \E known \in [Content -> {"none", "linked", "reset", "deleted"}] :
          LET alive == {c \in Content : known[c] \in {"linked", "reset"}}
          IN  /\ files = [c \in Content |->
                            [state |-> IF c \in alive THEN "active" ELSE
                                       IF known[c] = "none" THEN "none" ELSE "deleted",
                             place |-> "original"]]
              /\ disk = [c \in Content |-> [p \in Place |->
                           IF c \in alive /\ p = "original" THEN "whole" ELSE "absent"]]
              /\ links = {<<c, "MemoryKeeper">> : c \in {x \in Content : known[x] = "linked"}}
              /\ meta = alive
              /\ vision \in {v \in [Content -> 0..1] : \A c \in Content :
                               /\ c \notin alive => v[c] = 0
                               /\ known[c] = "linked" => v[c] = 1}
    /\ lock = [c \in Content |-> None]
    /\ ctx = [w \in Worker |-> NoCtx]
    /\ mismatched = {}

-----------------------------------------------------------------------------
(* Operators on a worker's job.                                            *)

Job(w) == worker[w].job
Sha(w) == content[Job(w)]
At(w, stage) == worker[w].pc = "running" /\ ctx[w].stage = stage
Mobile(j) == jobs[j].source = "UPLOAD_MOBILE"
Linked(c, s) == <<c, s>> \in links
Active(c) == files[c].state = "active"

PlaceOf(j) == IF Mobile(j) THEN "mobile-original"
              ELSE IF jobs[j].service = "AstroJournal" THEN "original/AstroJournal"
              ELSE "original"

(* Bug variant: the declared hash is never compared.                       *)
BugNoHashCheck(w) == FALSE

(* What HashPlugin compares: the hash of a mobile upload, if it has one.   *)
WrongHash(w) == Mobile(Job(w)) /\ ctx[w].hash \notin {NoHash, Sha(w)}

Goto(w, stage) == ctx' = [ctx EXCEPT ![w].stage = stage]

(* The end of the worker's transaction gives its advisory locks back.      *)
Unlocked(w) == [c \in Content |-> IF lock[c] = w THEN None ELSE lock[c]]

(* An exception leaves the pipeline: rollback, then the failure handler.   *)
Fail(w) == /\ Raise(w)
           /\ lock' = Unlocked(w)
           /\ ctx' = [ctx EXCEPT ![w] = NoCtx]

-----------------------------------------------------------------------------
(* The upload endpoint.                                                    *)

(* has_active_file_by_sha is asked before the file is saved, for a mobile  *)
(* client that declares a hash.                                            *)
ReceiveUpload(r, f) ==
    /\ Receive(r, f)
    /\ (/\ f.source = "UPLOAD_MOBILE" /\ f.hash # NoHash
        /\ SameKey(f.service, f.key) = {}) =>
          (req'[r].pc = "refused" <=> Active(f.hash) /\ Linked(f.hash, "MemoryKeeper"))
    /\ UNCHANGED storeVars

(* The incoming file is written under a fresh job_id before the row that   *)
(* names it is inserted, so both appear at once to the workers.            *)
SaveAndCreate(r, j) ==
    /\ CreateWaitingJob(r, j)
    /\ incoming' = incoming \cup {j}
    /\ UNCHANGED <<setting, content, disk, files, links, meta, vision, lock, ctx, mismatched>>

OtherApi == /\ \E r \in Request : Refuse(r) \/ LoseInsert(r) \/ BackfillHash(r)
            /\ UNCHANGED storeVars

-----------------------------------------------------------------------------
(* HashPlugin.                                                             *)

StartRun(w) ==
    /\ Start(w)
    /\ ctx' = [ctx EXCEPT ![w] = IF worker'[w].pc = "running"
                                 THEN [NoCtx EXCEPT !.stage = "read",
                                                    !.hash = jobs[Job(w)].hash]
                                 ELSE NoCtx]
    /\ UNCHANGED <<setting, content, incoming, disk, files, links, meta, vision, lock, mismatched>>

(* Probe, existence check and SHA-256 of the incoming file.                *)
ReadIncoming(w) ==
    /\ At(w, "read")
    /\ Job(w) \in incoming
    /\ ~WrongHash(w)
    /\ Goto(w, "lock")
    /\ UNCHANGED <<setting, vars, content, incoming, disk, files, links, meta, vision, lock, mismatched>>

(* CONTENT_SHA256_MISMATCH: the upload is thrown away.                     *)
RejectWrongHash(w) ==
    /\ At(w, "read")
    /\ Job(w) \in incoming
    /\ WrongHash(w)
    /\ incoming' = incoming \ {Job(w)}
    /\ mismatched' = mismatched \cup {Job(w)}
    /\ Fail(w)
    /\ UNCHANGED <<setting, content, disk, files, links, meta, vision>>

MissingIncoming(w) ==
    /\ At(w, "read")
    /\ Job(w) \notin incoming
    /\ Fail(w)
    /\ UNCHANGED <<setting, content, incoming, disk, files, links, meta, vision, mismatched>>

(* Bug variant: the lock is taken without waiting for its holder.          *)
BugMayLockAlways(c) == TRUE

(* acquire_upload_sha_transaction_lock: free, or not implemented.          *)
MayLock(c) == ~setting.locking \/ lock[c] = None
Locked(w, c) == IF setting.locking THEN [lock EXCEPT ![c] = w] ELSE lock

(* Bug variant: restoring a tombstone does not store the file.             *)
BugRestoreWithoutMove(w) ==
    /\ At(w, "lock")
    /\ MayLock(Sha(w))
    /\ ~(Active(Sha(w)) /\ Mobile(Job(w)) /\ Linked(Sha(w), "MemoryKeeper"))
    /\ lock' = Locked(w, Sha(w))
    /\ ctx' = [ctx EXCEPT ![w].stage = IF Active(Sha(w)) THEN "duplicate"
                                       ELSE IF files[Sha(w)].state = "deleted" THEN "insert"
                                       ELSE "move",
                          ![w].restore = files[Sha(w)].state = "deleted"]
    /\ UNCHANGED <<setting, vars, content, incoming, disk, files, links, meta, vision, mismatched>>

(* The duplicate check, under the lock, decides where the run goes on: a   *)
(* known content is only linked, a tombstone is restored, unknown content  *)
(* is stored.                                                              *)
CheckDuplicate(w) ==
    /\ At(w, "lock")
    /\ MayLock(Sha(w))
    /\ ~(Active(Sha(w)) /\ Mobile(Job(w)) /\ Linked(Sha(w), "MemoryKeeper"))
    /\ lock' = Locked(w, Sha(w))
    /\ ctx' = [ctx EXCEPT ![w].stage = IF Active(Sha(w)) THEN "duplicate" ELSE "move",
                          ![w].restore = files[Sha(w)].state = "deleted"]
    /\ UNCHANGED <<setting, vars, content, incoming, disk, files, links, meta, vision, mismatched>>

(* DUPLICATE_CONTENT for a mobile upload.                                  *)
RejectDuplicate(w) ==
    /\ At(w, "lock")
    /\ MayLock(Sha(w))
    /\ Active(Sha(w)) /\ Mobile(Job(w)) /\ Linked(Sha(w), "MemoryKeeper")
    /\ incoming' = incoming \ {Job(w)}
    /\ Fail(w)
    /\ UNCHANGED <<setting, content, disk, files, links, meta, vision, mismatched>>

(* Bug variant: a known file is linked to MemoryKeeper, whoever asks.      *)
BugLinkDefaultService(w) ==
    LET l == <<Sha(w), "MemoryKeeper">>
    IN  /\ At(w, "duplicate")
        /\ ~(Mobile(Job(w)) /\ l \in links)
        /\ links' = links \cup {l}
        /\ lock' = Unlocked(w)
        /\ ctx' = [ctx EXCEPT ![w].stage = "drop", ![w].created = l \notin links]
        /\ UNCHANGED <<setting, vars, content, incoming, disk, files, meta, vision, mismatched>>

(* Bug variant: the commit of the link leaves the advisory lock taken.     *)
BugLinkKeepsLock(w) ==
    LET l == <<Sha(w), jobs[Job(w)].service>>
    IN  /\ At(w, "duplicate")
        /\ ~(Mobile(Job(w)) /\ l \in links)
        /\ links' = links \cup {l}
        /\ ctx' = [ctx EXCEPT ![w].stage = "drop", ![w].created = l \notin links]
        /\ UNCHANGED <<setting, vars, content, incoming, disk, files, meta, vision, lock, mismatched>>

(* ensure_link and the commit that ends the locked section.                *)
LinkDuplicate(w) ==
    LET l == <<Sha(w), jobs[Job(w)].service>>
    IN  /\ At(w, "duplicate")
        /\ ~(Mobile(Job(w)) /\ l \in links)
        /\ links' = links \cup {l}
        /\ lock' = Unlocked(w)
        /\ ctx' = [ctx EXCEPT ![w].stage = "drop", ![w].created = l \notin links]
        /\ UNCHANGED <<setting, vars, content, incoming, disk, files, meta, vision, mismatched>>

(* The link appeared since the duplicate check: rejected after all.        *)
RejectLinked(w) ==
    /\ At(w, "duplicate")
    /\ Mobile(Job(w)) /\ Linked(Sha(w), "MemoryKeeper")
    /\ incoming' = incoming \ {Job(w)}
    /\ Fail(w)
    /\ UNCHANGED <<setting, content, disk, files, links, meta, vision, mismatched>>

(* The incoming copy of known content is deleted.  A new MemoryKeeper link *)
(* looks whether the content still needs a vision job; a video, or an HEIC *)
(* without a preview, never gets one (_reuse_or_enqueue_vision).           *)
DropIncoming(w) ==
    /\ At(w, "drop")
    /\ incoming' = incoming \ {Job(w)}
    /\ \E stage \in {"enqueue", "finish"} :
          /\ stage = "enqueue" => /\ jobs[Job(w)].service = "MemoryKeeper"
                                  /\ ctx[w].created /\ vision[Sha(w)] = 0
          /\ ctx' = [ctx EXCEPT ![w].stop = TRUE, ![w].stage = stage]
    /\ UNCHANGED <<setting, vars, content, disk, files, links, meta, vision, lock, mismatched>>

-----------------------------------------------------------------------------
(* PreviewPlugin and StoragePlugin.                                        *)

(* move_to_storage.  An existing target wins and the incoming file goes.   *)
MoveToStorage(w) ==
    LET c == Sha(w)
        p == PlaceOf(Job(w))
    IN  /\ At(w, "move")
        /\ \/ /\ disk[c][p] # "absent"
              /\ incoming' = incoming \ {Job(w)}
              /\ Goto(w, "insert")
              /\ UNCHANGED disk
           \/ /\ disk[c][p] = "absent" /\ Job(w) \in incoming /\ ~setting.cross
              /\ disk' = [disk EXCEPT ![c][p] = "whole"]
              /\ incoming' = incoming \ {Job(w)}
              /\ Goto(w, "insert")
           \/ /\ disk[c][p] = "absent" /\ Job(w) \in incoming /\ setting.cross
              /\ disk' = [disk EXCEPT ![c][p] = "partial"]
              /\ Goto(w, "copy")
              /\ UNCHANGED incoming
        /\ UNCHANGED <<setting, vars, content, files, links, meta, vision, lock, mismatched>>

(* The copy is complete and synced; only then is the source unlinked.      *)
FinishCopy(w) ==
    /\ At(w, "copy")
    /\ disk' = [disk EXCEPT ![Sha(w)][PlaceOf(Job(w))] = "whole"]
    /\ incoming' = incoming \ {Job(w)}
    /\ Goto(w, "insert")
    /\ UNCHANGED <<setting, vars, content, files, links, meta, vision, lock, mismatched>>

(* The row is inserted, or the tombstone restored; the commit also gives   *)
(* the lock back, before the link exists.                                  *)
InsertFile(w) ==
    LET c == Sha(w)
    IN  /\ At(w, "insert")
        /\ ctx[w].restore \/ files[c].state = "none"
        /\ files' = [files EXCEPT ![c] = [state |-> "active", place |-> PlaceOf(Job(w))]]
        /\ lock' = Unlocked(w)
        /\ Goto(w, "link")
        /\ UNCHANGED <<setting, vars, content, incoming, disk, links, meta, vision, mismatched>>

(* Bug variant: the loser deletes its original, the winner's path or not.  *)
BugLoserDeletes(w) ==
    /\ At(w, "insert")
    /\ ~ctx[w].restore /\ files[Sha(w)].state # "none"
    /\ disk' = [disk EXCEPT ![Sha(w)][PlaceOf(Job(w))] = "absent"]
    /\ lock' = Unlocked(w)
    /\ ctx' = [ctx EXCEPT ![w].stop = TRUE, ![w].stage = "link"]
    /\ UNCHANGED <<setting, vars, content, incoming, files, links, meta, vision, mismatched>>

(* The insert violates the unique file_id: the other row wins, the losing  *)
(* original is deleted unless it is the same path, the run only links.     *)
LoseFileInsert(w) ==
    LET c == Sha(w)
        p == PlaceOf(Job(w))
    IN  /\ At(w, "insert")
        /\ ~ctx[w].restore /\ files[c].state # "none"
        /\ disk' = IF Active(c) /\ files[c].place # p
                   THEN [disk EXCEPT ![c][p] = "absent"] ELSE disk
        /\ \/ /\ Mobile(Job(w)) /\ Linked(c, "MemoryKeeper")
              /\ Fail(w)
           \/ /\ ~(Mobile(Job(w)) /\ Linked(c, "MemoryKeeper"))
              /\ lock' = Unlocked(w)
              /\ ctx' = [ctx EXCEPT ![w].stop = TRUE, ![w].stage = "link"]
              /\ UNCHANGED vars
        /\ UNCHANGED <<setting, content, incoming, files, links, meta, vision, mismatched>>

(* _ensure_service_link_and_projection, a transaction of its own: a mobile *)
(* upload that finds the link there is rejected, unless it restored.       *)
LinkStored(w) ==
    LET l == <<Sha(w), jobs[Job(w)].service>>
    IN  /\ At(w, "link")
        /\ \/ /\ Mobile(Job(w)) /\ l \in links /\ ~ctx[w].restore
              /\ incoming' = incoming \ {Job(w)}
              /\ Fail(w)
              /\ UNCHANGED links
           \/ /\ ~(Mobile(Job(w)) /\ l \in links /\ ~ctx[w].restore)
              /\ links' = links \cup {l}
              /\ Goto(w, IF ctx[w].stop THEN "finish" ELSE "exif")
              /\ UNCHANGED <<vars, incoming, lock>>
        /\ UNCHANGED <<setting, content, disk, files, meta, vision, mismatched>>

-----------------------------------------------------------------------------
(* MetadataPlugin, ExifPlugin, GpsPlugin and the vision enqueue.           *)

CommitMetadata(w) ==
    /\ At(w, "exif")
    /\ meta' = meta \cup {Sha(w)}
    /\ Goto(w, "queue")
    /\ UNCHANGED <<setting, vars, content, incoming, disk, files, links, vision, lock, mismatched>>

(* get_blocking_status and the decision taken from it: nothing is queued   *)
(* when a job exists, nor for a video or an HEIC without a preview.        *)
CheckVision(w) ==
    /\ At(w, "queue")
    /\ \/ vision[Sha(w)] = 0 /\ Goto(w, "enqueue")
       \/ Goto(w, "finish")
    /\ UNCHANGED <<setting, vars, content, incoming, disk, files, links, meta, vision, lock, mismatched>>

(* create(skip_duplicate_check=True).                                      *)
EnqueueVision(w) ==
    /\ At(w, "enqueue")
    /\ vision' = [vision EXCEPT ![Sha(w)] = @ + 1]
    /\ Goto(w, "finish")
    /\ UNCHANGED <<setting, vars, content, incoming, disk, files, links, meta, lock, mismatched>>

FinishRun(w) ==
    /\ At(w, "finish")
    /\ MarkCompleted(w)
    /\ ctx' = [ctx EXCEPT ![w] = NoCtx]
    /\ UNCHANGED <<setting, content, incoming, disk, files, links, meta, vision, lock, mismatched>>

(* Bug variant: the failure handler removes the incoming file.             *)
BugAbortDropsIncoming(w) ==
    /\ Fail(w)
    /\ incoming' = incoming \ {Job(w)}
    /\ UNCHANGED <<setting, content, disk, files, links, meta, vision, mismatched>>

(* Bug variant: a failed copy leaves its target, and the source goes.      *)
BugAbortKeepsPartial(w) ==
    /\ Fail(w)
    /\ incoming' = IF ctx[w].stage = "copy" THEN incoming \ {Job(w)} ELSE incoming
    /\ UNCHANGED <<setting, content, disk, files, links, meta, vision, mismatched>>

(* Bug variant: a failed run puts its job back in the queue.               *)
BugAbortRequeues(w) ==
    /\ worker[w].pc = "running"
    /\ jobs' = [jobs EXCEPT ![Job(w)].status = "WAITING"]
    /\ worker' = [worker EXCEPT ![w] = Idle]
    /\ lock' = Unlocked(w)
    /\ ctx' = [ctx EXCEPT ![w] = NoCtx]
    /\ UNCHANGED <<req, crashes, slow, setting, content, incoming, disk, files, links, meta,
                   vision, mismatched>>

(* Any other exception, e.g. the missing source of a move, a derivative or *)
(* metadata failure, a lost connection.  A failed copy removes its target. *)
Abort(w) ==
    /\ Fail(w)
    /\ disk' = IF ctx[w].stage = "copy"
               THEN [disk EXCEPT ![Sha(w)][PlaceOf(Job(w))] = "absent"] ELSE disk
    /\ UNCHANGED <<setting, content, incoming, files, links, meta, vision, mismatched>>

(* The process dies: the session and its locks end, the disk stays.        *)
CrashRun(w) ==
    /\ Crash(w)
    /\ lock' = Unlocked(w)
    /\ ctx' = [ctx EXCEPT ![w] = NoCtx]
    /\ UNCHANGED <<setting, content, incoming, disk, files, links, meta, vision, mismatched>>

QueueOnly(w) ==
    /\ (\E j \in JobId : Claim(w, j)) \/ ReadForFailure(w) \/ MarkFailed(w) \/ RecoverStale(w)
    /\ UNCHANGED storeVars

-----------------------------------------------------------------------------
StoreApi ==
    \/ \E r \in Request :
          \/ \E f \in Form : ReceiveUpload(r, f)
          \/ \E j \in JobId : SaveAndCreate(r, j)
    \/ OtherApi

(* What a worker does by itself.  Waiting for an advisory lock is not a    *)
(* step: it has none until the holder gives the lock back.                 *)
Progress(w) ==
    \/ StartRun(w) \/ ReadIncoming(w) \/ RejectWrongHash(w) \/ MissingIncoming(w)
    \/ CheckDuplicate(w) \/ RejectDuplicate(w) \/ LinkDuplicate(w) \/ RejectLinked(w)
    \/ DropIncoming(w) \/ MoveToStorage(w) \/ FinishCopy(w) \/ InsertFile(w)
    \/ LoseFileInsert(w) \/ LinkStored(w) \/ CommitMetadata(w) \/ CheckVision(w)
    \/ EnqueueVision(w) \/ FinishRun(w) \/ QueueOnly(w)

Process(w) == Progress(w) \/ Abort(w)

StoreTime == Time /\ UNCHANGED storeVars

StoreNext == \/ StoreApi
             \/ \E w \in Worker : Process(w) \/ CrashRun(w)
             \/ StoreTime

StoreSpec == StoreInit /\ [][StoreNext]_allVars

(* A worker that can go on does; the row of a dead run keeps growing old.  *)
(* Nothing makes a run raise (Abort) or its process die: a worker whose    *)
(* lock never comes free would wait for ever.                              *)
StoreFairSpec ==
    /\ StoreSpec
    /\ \A w \in Worker : WF_allVars(Progress(w))
    /\ \A j \in JobId : WF_allVars(ExpireDead(j) /\ UNCHANGED storeVars)

-----------------------------------------------------------------------------
(* A file the database calls active has its whole original at the path of  *)
(* its row: crashes between the move and the insert, lost inserts and      *)
(* restores of tombstones included.                                        *)
RegisteredOnDisk ==
    \A c \in Content : Active(c) => disk[c][files[c].place] = "whole"

(* No accepted upload is lost: until the bytes of a job are a whole        *)
(* original somewhere, its incoming file stays.  (storage_service.py: the  *)
(* source is deleted only after a successful copy, so no original is lost) *)
ContentKept ==
    \A j \in JobId \ mismatched : Exists(j) =>
        \/ j \in incoming
        \/ \E p \in Place : disk[content[j]][p] = "whole"

(* A COMPLETED job's content is an active file of the job's service, also  *)
(* when the job was completed by a worker that had lost it.                *)
CompletedIsLinked ==
    \A j \in JobId : jobs[j].status = "COMPLETED" =>
        Active(content[j]) /\ Linked(content[j], jobs[j].service)

(* README.md: the worker calculates the SHA-256 of the uploaded bytes and  *)
(* rejects mobile jobs with CONTENT_SHA256_MISMATCH.  The hash a completed *)
(* mobile upload declares is the hash of its bytes.  (A replay may fill in *)
(* the hash of a row with a client_file_id after the run has read it.)     *)
DeclaredHashVerified ==
    \A j \in JobId :
        (jobs[j].status = "COMPLETED" /\ Mobile(j) /\ jobs[j].key = NoKey) =>
            jobs[j].hash \in {NoHash, content[j]}

Queue == INSTANCE UploadJobs WITH jobs <- jobs, req <- req, worker <- worker,
                                  crashes <- crashes, slow <- slow

(* The pipeline is an implementation of the queue: whatever a stage does   *)
(* to files and locks, the rows, requests and workers it leaves are those  *)
(* of a step of UploadJobs, or unchanged.                                  *)
ImplementsQueue == Queue!Spec

(* Content is not stored twice: once every upload of it has completed, the *)
(* only original is the one its row names.  (A crash leaves an orphan, and *)
(* two restores of one tombstone need the lock.)                           *)
OneOriginal ==
    (setting.locking /\ crashes = 0 /\ slow = 0) => \A c \in Content :
        (/\ Active(c)
         /\ \A j \in JobId : (Exists(j) /\ content[j] = c) => jobs[j].status = "COMPLETED")
        => \A p \in Place \ {files[c].place} : disk[c][p] = "absent"

Quiet == /\ \A w \in Worker : worker[w].pc = "idle"
         /\ \A j \in JobId : jobs[j].status \in {"ABSENT"} \cup Terminal

(* docs/WORKER_GUIDE.md: a new upload is processed by MetadataPlugin, then *)
(* ExifPlugin, then GpsPlugin.  Once the queue is empty, a completed       *)
(* upload's content went through them.                                     *)
CompletedIsProcessed ==
    Quiet => \A j \in JobId : jobs[j].status = "COMPLETED" => content[j] \in meta

===============================================================================
