---------------------------- MODULE AstroJournal ----------------------------
(***************************************************************************)
(* AstroJournal as a whole: observation records and the master data they   *)
(* share one change feed with, the cleanup of a deleted record's file, and *)
(* the capture-data Reset.                                                 *)
(*                                                                         *)
(* Record handlers hold the Reset advisory lock shared and Reset holds it  *)
(* exclusive, until the end of their transaction; FileServiceRepository.   *)
(* ensure_link commits in the middle of create, which ends it early.       *)
(* A record is identified with its client_record_id.                       *)
(***************************************************************************)
EXTENDS MasterData

CONSTANTS
    MaxResets,  \* bound on the Resets that commit
    MaxStores   \* bound on the uploads that restore or link a file

VARIABLES
    file,     \* each common_files row: deleted flag; its media on disk
    link,     \* common_file_services: file and service
    plate,    \* status of the file's Plate Solve job
    vision,   \* files with a PROCESSING Vision job
    upload,   \* AstroJournal's upload job and its incoming file
    todo,     \* files whose media the running Reset has yet to delete
    scope,    \* the Reset's scope: files it owns alone, files it targets
    restored, \* files an upload has restored and not yet linked
    resets,   \* number of Resets committed
    stores,   \* number of uploads that restored or linked a file
    late      \* history: records whose create passed its checks before
              \* their file was tombstoned

captureVars == <<file, link, plate, vision, upload, todo, scope, restored, resets, stores, late>>
vars == <<storeVars, captureVars>>

Services == {"AstroJournal", "MemoryKeeper"}

FileOf(r) == r.to \cap File

IsRecordRow(x) ==
    /\ x.st # "none" => Cardinality(FileOf(x)) = 1
    /\ x.to \subseteq File \cup Equipment /\ Cardinality(x.to \cap Equipment) <= 1
    /\ x.on => x.cat # NoCatalog

TypeOK ==
    /\ row \in [Resource -> Row]
    /\ \A e \in Equipment : IsEquipmentRow(row[e])
    /\ \A s \in Site : IsSiteRow(row[s])
    /\ \A g \in Reference : IsReferenceRow(row[g])
    /\ \A c \in Favorite : IsFavoriteRow(row[c])
    /\ \A r \in Record : IsRecordRow(row[r])
    /\ \A t \in Requests : req[t].arg \in Row /\ req[t].lock \subseteq Resource \cup File
    /\ \A e \in log : e.id \in 1..seq /\ e.at \in Resource \cup {"reset"}
    /\ cursor \in [Clients -> 0..seq] /\ seen \in [Clients -> SUBSET (1..seq)]
    /\ file \in [File -> [deleted: BOOLEAN, media: BOOLEAN]]
    /\ link \subseteq File \X Services
    /\ plate \in [File -> {"none", "WAITING", "PROCESSING", "ENDED"}]
    /\ vision \subseteq File
    /\ upload \in [st: {"none", "WAITING", "PROCESSING"}, incoming: BOOLEAN]
    /\ todo \subseteq File /\ restored \subseteq File /\ late \subseteq Record

(* One equipment and one site exist and are known to every client; the     *)
(* files are stored and nobody uses them yet.                              *)
Init ==
    /\ \E e \in Equipment, s \in Site :
         /\ row = [r \in Resource |-> IF r \in {e, s} THEN NewRow(TRUE, {}, NoCatalog) ELSE NoRow]
         /\ log = {[Event(e, "CREATE", 1, 0) EXCEPT !.id = 1],
                   [Event(s, "CREATE", 1, 0) EXCEPT !.id = 2]}
    /\ req = [t \in Requests |-> Idle]
    /\ seq = 2 /\ flushes = 0
    /\ cursor = [c \in Clients |-> 2]
    /\ seen = [c \in Clients |-> {1, 2}] /\ inflight = [c \in Clients |-> {}]
    /\ file = [f \in File |-> [deleted |-> FALSE, media |-> TRUE]]
    /\ link = {}
    /\ plate = [f \in File |-> "none"] /\ vision = {}
    /\ upload = [st |-> "none", incoming |-> FALSE]
    /\ todo = {} /\ scope = [own |-> {}, target |-> {}]
    /\ restored = {} /\ resets = 0 /\ stores = 0 /\ late = {}

----------------------------------------------------------------------------
(* The Reset advisory lock (pg_advisory_xact_lock). *)

Exclusive(t) == \A u \in Requests \ {t} : req[u].adv = "none"
SharedLock(t) == \A u \in Requests \ {t} : req[u].adv # "exclusive"

(* _prepare_created_equipment, _prepare_updated_equipment: only a live and *)
(* active equipment can be newly selected.                                 *)
Selectable(E) == \A e \in E : Live(e) /\ row[e].on

(* A representative needs a catalog object. *)
Representable(new) == new.on => new.cat # NoCatalog

(* create: the checks of its first transaction.  A client id that is       *)
(* already there, a tombstone too, is returned as it is.                   *)
RecordCreate(t, r) ==
    \E f \in File, E \in {{}} \cup {{e} : e \in Equipment}, on \in BOOLEAN,
       cat \in Catalog \cup {NoCatalog} :
       LET new == NewRow(on, {f} \cup E, cat) IN
       /\ SharedLock(t)
       /\ row[r].st = "none"
       /\ ~file[f].deleted
       /\ Representable(new)
       /\ Selectable(E)
       /\ Begin(t, [Idle EXCEPT !.pc = "checked", !.op = "create", !.at = {r},
                                !.arg = new, !.adv = "shared"])
       /\ UNCHANGED captureVars

(* Mutant of EnsureLink: the record is created without a service link. *)
EnsureLinkMissing(t) ==
    /\ req[t].pc = "checked" /\ req[t].op = "create" /\ req[t].at \subseteq Record
    /\ req' = [req EXCEPT ![t].pc = "linked"]
    /\ UNCHANGED <<row, seq, log, cursor, seen, inflight, flushes, captureVars>>

(* ensure_link: an existing link is left alone and the transaction goes    *)
(* on; a new one is committed, which releases the advisory lock.           *)
EnsureLink(t) ==
    \E f \in FileOf(req[t].arg) :
       /\ req[t].pc = "checked" /\ req[t].op = "create" /\ req[t].at \subseteq Record
       /\ CanShare(t, {f})
       /\ req' = [req EXCEPT ![t].pc = "linked",
                     ![t].adv = IF <<f, "AstroJournal">> \in link THEN @ ELSE "none"]
       /\ link' = link \cup {<<f, "AstroJournal">>}
       /\ UNCHANGED <<row, seq, log, cursor, seen, inflight, flushes, file, plate,
                      vision, upload, todo, scope, restored, resets, stores, late>>

(* clear_representative: the live representatives of the catalog object    *)
(* are locked; they are demoted, one revision on.                          *)
Representatives(S, cat, except) ==
    {q \in Record \ except : S[q].st = "live" /\ S[q].on /\ S[q].cat = cat /\ cat # NoCatalog}

Demoted(q) == [row[q] EXCEPT !.on = FALSE, !.rev = @ + 1]

ClearRepresentative(t) ==
    LET old == IF req[t].arg.on THEN Representatives(row, req[t].arg.cat, req[t].at) ELSE {} IN
    /\ \/ req[t].pc = "linked" /\ req[t].op = "create"
       \/ req[t].pc = "checked" /\ req[t].op = "update" /\ req[t].at \subseteq Record
    /\ CanLock(t, old)
    /\ req' = [req EXCEPT ![t].pc = "cleared", ![t].lock = @ \cup old,
                          ![t].write = [q \in old |-> Demoted(q)]]
    /\ UNCHANGED <<row, seq, log, cursor, seen, inflight, flushes, captureVars>>

DemotionEvents(t) ==
    SetToSeq({Event(q, "UPDATE", req[t].write[q].rev, row[q].rev) : q \in DOMAIN req[t].write})

(* Another open transaction has written a live representative of the       *)
(* object: the unique index makes us wait for it.                          *)
RepresentativeIsFree(t, new) ==
    new.on => \A u \in Requests \ {t} : \A q \in Record \cap DOMAIN req[u].write :
                 ~(req[u].write[q].st = "live" /\ req[u].write[q].on /\ req[u].write[q].cat = new.cat)

(* The partial unique index uq_..._active_representative, with the rows    *)
(* this transaction has demoted out of the way.                            *)
NoRepresentativeConflict(t, new) ==
    new.on => Representatives(row, new.cat, req[t].at) \subseteq DOMAIN req[t].write

(* The insert, the Plate Solve job and the events; a duplicate client id   *)
(* or a second representative is an IntegrityError.                        *)
RecordInsert(t) ==
    \E r \in req[t].at :
       LET new == req[t].arg IN
       /\ req[t].pc = "cleared" /\ req[t].op = "create"
       /\ CanLock(t, {r}) /\ CanShare(t, new.to) /\ RepresentativeIsFree(t, new)
       /\ row[r].st = "none" /\ NoRepresentativeConflict(t, new)
       /\ Flush(t, AlsoWrite(req[t].write, r, new),
                DemotionEvents(t) \o <<Event(r, "CREATE", 1, 0)>>, new.to)
       /\ UNCHANGED captureVars

(* update: a plain read and the revision check, then the same path; the    *)
(* UPDATE names the revision again.                                        *)
RecordUpdate(t, r) ==
    \E x \in 1..row[r].rev, on \in BOOLEAN, cat \in Catalog \cup {NoCatalog},
       E \in {row[r].to \cap Equipment, {}} \cup {{e} : e \in Equipment} :
       LET new == [row[r] EXCEPT !.on = on, !.cat = cat, !.to = FileOf(row[r]) \cup E] IN
       /\ SharedLock(t)
       /\ Live(r) /\ row[r].rev = x
       /\ Selectable(E \ row[r].to)
       /\ Representable(new)
       /\ Begin(t, [Idle EXCEPT !.pc = "checked", !.op = "update", !.at = {r}, !.base = x,
                                !.arg = new, !.adv = "shared"])
       /\ UNCHANGED captureVars

(* Mutant of UpdateIfRevision: the revision is not part of the WHERE. *)
UpdateIfRevisionBlind(t) ==
    \E r \in req[t].at :
       LET new == [req[t].arg EXCEPT !.rev = @ + 1] IN
       /\ req[t].pc = "cleared" /\ req[t].op = "update"
       /\ CanLock(t, {r}) /\ CanShare(t, new.to \ row[r].to) /\ RepresentativeIsFree(t, new)
       /\ Live(r) /\ NoRepresentativeConflict(t, new)
       /\ Flush(t, AlsoWrite(req[t].write, r, [new EXCEPT !.rev = row[r].rev + 1]),
                DemotionEvents(t) \o <<Event(r, "UPDATE", row[r].rev + 1, req[t].base)>>,
                new.to \ row[r].to)
       /\ UNCHANGED captureVars

UpdateIfRevision(t) ==
    \E r \in req[t].at :
       LET new == [req[t].arg EXCEPT !.rev = @ + 1] IN
       /\ req[t].pc = "cleared" /\ req[t].op = "update"
       /\ CanLock(t, {r}) /\ CanShare(t, new.to \ row[r].to) /\ RepresentativeIsFree(t, new)
       /\ Live(r) /\ row[r].rev = req[t].base
       /\ NoRepresentativeConflict(t, new)
       /\ Flush(t, AlsoWrite(req[t].write, r, new),
                DemotionEvents(t) \o <<Event(r, "UPDATE", new.rev, req[t].base)>>,
                new.to \ row[r].to)
       /\ UNCHANGED captureVars


(* soft_delete: a read without a lock. *)
RecordDelete(t, r) ==
    /\ SharedLock(t)
    /\ row[r].st # "none"
    /\ Begin(t, [Idle EXCEPT !.pc = IF Live(r) THEN "read" ELSE "cleanup", !.op = "delete",
                             !.at = {r}, !.base = row[r].rev, !.arg = row[r], !.adv = "shared"])
    /\ UNCHANGED captureVars

(* Its flush writes deleted_at and the revision it read plus one, whatever *)
(* the row holds by now; the file's Plate Solve job fails if it waits and  *)
(* no other live record is left.                                           *)
RecordDeleteFlush(t) ==
    \E r \in req[t].at :
       /\ req[t].pc = "read"
       /\ CanLock(t, {r})
       /\ FlushAndFail(t, WriteOf(r, [row[r] EXCEPT !.st = "dead", !.rev = req[t].base + 1]),
                <<Event(r, "DELETE", req[t].base + 1, req[t].base)>>, {},
                {f \in FileOf(row[r]) : plate[f] = "WAITING" /\ LiveReferrers(f, Record) \subseteq {r}})
       /\ UNCHANGED captureVars

(* The commit of a record handler.  A created record's file gets its Plate *)
(* Solve job.  A delete goes on with its cleanup, a transaction of its     *)
(* own.                                                                    *)
RecordCommit(t) ==
    /\ req[t].pc = "flushed" /\ req[t].at \subseteq Record
    /\ CommitRows(t)
    /\ req' = [req EXCEPT ![t] = IF req[t].op = "delete"
                                 THEN [Idle EXCEPT !.pc = "cleanup", !.op = "delete",
                                                   !.at = req[t].at, !.arg = req[t].arg]
                                 ELSE Idle]
    /\ plate' = [f \in File |->
         CASE f \in req[t].fails -> "ENDED"
           [] req[t].op = "create" /\ f \in req[t].arg.to /\ plate[f] = "none" -> "WAITING"
           [] OTHER -> plate[f]]
    /\ UNCHANGED <<file, link, vision, upload, todo, scope, restored, resets, stores, late>>

----------------------------------------------------------------------------
(* cleanup_if_unreferenced                                                 *)

(* The records that a tombstone or an unlinking of the files F overtakes.  *)
Overtaken(F) ==
    {r \in Record : \E u \in Requests :
        /\ req[u].op = "create" /\ req[u].at = {r} /\ FileOf(req[u].arg) \cap F # {}}

CleanupFile(t) == CHOOSE f \in FileOf(req[t].arg) : TRUE

CanCleanup(t) ==
    /\ req[t].pc = "cleanup"
    /\ SharedLock(t)
    /\ CanLock(t, {CleanupFile(t)})

(* A live record, a PROCESSING Vision job or an active Plate Solve job     *)
(* keeps the file.                                                         *)
PreservedByUse(f) ==
    \/ LiveReferrers(f, Record) # {}
    \/ f \in vision
    \/ plate[f] \in {"WAITING", "PROCESSING"}

OtherService(f) == <<f, "MemoryKeeper">> \in link

CleanupPreserve(t) ==
    LET f == CleanupFile(t) IN
    /\ CanCleanup(t)
    /\ \/ LiveReferrers(f, Record) # {}
       \/ ~OtherService(f) /\ PreservedByUse(f)
       \/ ~OtherService(f) /\ file[f].deleted
    /\ req' = [req EXCEPT ![t] = Idle]
    /\ UNCHANGED <<row, seq, log, cursor, seen, inflight, flushes, captureVars>>

(* Another service has the file: only our link goes. *)
CleanupUnlink(t) ==
    LET f == CleanupFile(t) IN
    /\ CanCleanup(t)
    /\ LiveReferrers(f, Record) = {} /\ OtherService(f)
    /\ link' = link \ {<<f, "AstroJournal">>}
    /\ late' = late \cup Overtaken({f})
    /\ req' = [req EXCEPT ![t] = Idle]
    /\ UNCHANGED <<row, seq, log, cursor, seen, inflight, flushes, file, plate, vision,
                   upload, todo, scope, restored, resets, stores>>

(* Mutant of CleanupDelete: the link is removed before the media. *)
CleanupDeleteUnlinksFirst(t) ==
    LET f == CleanupFile(t) IN
    /\ CanCleanup(t)
    /\ ~PreservedByUse(f) /\ ~OtherService(f) /\ ~file[f].deleted
    /\ file' = [file EXCEPT ![f].media = FALSE]
    /\ link' = link \ {<<f, "AstroJournal">>}
    /\ \/ req' = [req EXCEPT ![t].pc = "tombstone", ![t].lock = {f}, ![t].adv = "shared"]
       \/ req' = [req EXCEPT ![t] = Idle]
    /\ UNCHANGED <<row, seq, log, cursor, seen, inflight, flushes, plate, vision,
                   upload, todo, scope, restored, resets, stores, late>>

(* delete_common_file_assets: the media go before the database says so.    *)
(* It may fail, with some of the assets gone.                              *)
CleanupDelete(t) ==
    LET f == CleanupFile(t) IN
    /\ CanCleanup(t)
    /\ ~PreservedByUse(f) /\ ~OtherService(f) /\ ~file[f].deleted
    /\ file' = [file EXCEPT ![f].media = FALSE]
    /\ \/ req' = [req EXCEPT ![t].pc = "tombstone", ![t].lock = {f}, ![t].adv = "shared"]
       \/ req' = [req EXCEPT ![t] = Idle]
    /\ UNCHANGED <<row, seq, log, cursor, seen, inflight, flushes, link, plate, vision,
                   upload, todo, scope, restored, resets, stores, late>>

CleanupCommit(t) ==
    LET f == CleanupFile(t) IN
    /\ req[t].pc = "tombstone"
    /\ file' = [file EXCEPT ![f].deleted = TRUE]
    /\ link' = link \ {<<f, "AstroJournal">>}
    /\ vision' = vision \ {f}
    /\ late' = late \cup Overtaken({f})
    /\ req' = [req EXCEPT ![t] = Idle]
    /\ UNCHANGED <<row, seq, log, cursor, seen, inflight, flushes, plate, upload, todo,
                   scope, restored, resets, stores>>

----------------------------------------------------------------------------
(* AstroJournalResetService.execute                                        *)

(* _scope: the files AstroJournal links or has records of; the ones no     *)
(* other service links are its own.                                        *)
Targets ==
    {f \in File : <<f, "AstroJournal">> \in link
                  \/ \E r \in Record : row[r].st # "none" /\ f \in row[r].to}

OwnFiles == {f \in Targets : ~OtherService(f)}

ResetBegin(t) ==
    /\ resets < MaxResets
    /\ Exclusive(t)
    /\ Begin(t, [Idle EXCEPT !.pc = "waiting", !.op = "reset", !.adv = "exclusive"])
    /\ UNCHANGED captureVars

(* Mutant of ResetLock: the files of the scope are not locked. *)
ResetLockRecordsOnly(t) ==
    LET rows == {r \in Record : row[r].st # "none"} IN
    /\ req[t].pc = "waiting"
    /\ CanLock(t, rows)
    /\ req' = [req EXCEPT ![t].pc = "locked", ![t].lock = rows]
    /\ UNCHANGED <<row, seq, log, cursor, seen, inflight, flushes, captureVars>>

(* _lock_scope: FOR UPDATE on every record, job, link and file in scope. *)
ResetLock(t) ==
    LET rows == {r \in Record : row[r].st # "none"} \cup Targets IN
    /\ req[t].pc = "waiting"
    /\ CanLock(t, rows)
    /\ req' = [req EXCEPT ![t].pc = "locked", ![t].lock = rows]
    /\ UNCHANGED <<row, seq, log, cursor, seen, inflight, flushes, captureVars>>

(* preview under the locks: a PROCESSING job blocks the Reset, which then  *)
(* rolls back.                                                             *)
ResetBlocked ==
    \/ upload.st = "PROCESSING"
    \/ \E f \in OwnFiles : f \in vision
    \/ \E f \in File : plate[f] = "PROCESSING"

(* The scope is read again, with the paths of its media, which a tombstone *)
(* has none of; the incoming file goes first.                              *)
ResetScan(t) ==
    /\ req[t].pc = "locked"
    /\ ~ResetBlocked
    /\ todo' = {f \in OwnFiles : ~file[f].deleted}
    /\ scope' = [own |-> OwnFiles, target |-> Targets]
    /\ upload' = [upload EXCEPT !.incoming = FALSE]
    /\ req' = [req EXCEPT ![t].pc = "deleting"]
    /\ UNCHANGED <<row, seq, log, cursor, seen, inflight, flushes, file, link, plate,
                   vision, restored, resets, stores, late>>

(* delete_reset_assets, one file after the other; a failure is an          *)
(* exception, that is an Abort.                                            *)
ResetDeleteAssets(t) ==
    \E f \in todo :
       /\ req[t].pc = "deleting"
       /\ file' = [file EXCEPT ![f].media = FALSE]
       /\ todo' = todo \ {f}
       /\ UNCHANGED <<storeVars, link, plate, vision, upload, scope, restored, resets, stores, late>>

(* The records are hard-deleted, the files tombstoned, the links and the   *)
(* upload jobs removed, waiting Plate Solve jobs failed, and one event     *)
(* tells clients to start over.  A record that another transaction writes  *)
(* holds the DELETE up.                                                    *)
ResetCommit(t) ==
    /\ req[t].pc = "deleting" /\ todo = {}
    /\ CanLock(t, {r \in Record : row[r].st # "none"})
    /\ row' = [r \in Resource |-> IF r \in Record THEN NoRow ELSE row[r]]
    /\ file' = [f \in File |-> IF f \in scope.own THEN [file[f] EXCEPT !.deleted = TRUE] ELSE file[f]]
    /\ link' = {l \in link : ~(l[1] \in scope.target /\ l[2] = "AstroJournal")}
    /\ plate' = [f \in File |-> IF plate[f] = "WAITING" THEN "ENDED" ELSE plate[f]]
    /\ vision' = vision \ scope.own
    /\ upload' = [st |-> "none", incoming |-> FALSE]
    /\ late' = late \cup Overtaken(scope.target)
    /\ seq' = seq + 1
    /\ log' = log \cup {[Event("reset", "UPDATE", 0, 0) EXCEPT !.id = seq + 1]}
    /\ resets' = resets + 1
    /\ scope' = [own |-> {}, target |-> {}]
    /\ req' = [req EXCEPT ![t] = Idle]
    /\ UNCHANGED <<cursor, seen, inflight, flushes, todo, restored, stores>>

(* Any open transaction may be rolled back; what a Reset or a cleanup has  *)
(* deleted from the disk stays deleted.                                    *)
Abort(t) ==
    /\ Rollback(t)
    /\ IF req[t].op = "reset"
       THEN todo' = {} /\ scope' = [own |-> {}, target |-> {}]
       ELSE UNCHANGED <<todo, scope>>
    /\ UNCHANGED <<file, link, plate, vision, upload, restored, resets, stores, late>>

----------------------------------------------------------------------------
(* The rest of the system, as far as AstroJournal meets it.                *)

(* No Reset holds the rows of the job queues. *)
QueuesFree == \A t \in Requests : req[t].op # "reset" \/ req[t].pc = "waiting"

PlateClaim(f) ==
    /\ plate[f] = "WAITING" /\ QueuesFree /\ \A t \in Requests : f \notin req[t].fails
    /\ plate' = [plate EXCEPT ![f] = "PROCESSING"]
    /\ UNCHANGED <<storeVars, file, link, vision, upload, todo, scope, restored, resets, stores, late>>

PlateEnd(f) ==
    /\ plate[f] = "PROCESSING" /\ QueuesFree
    /\ plate' = [plate EXCEPT ![f] = "ENDED"]
    /\ UNCHANGED <<storeVars, file, link, vision, upload, todo, scope, restored, resets, stores, late>>

(* _sync_observation_status: the worker copies a job's status to the live  *)
(* records of the file, each one revision on.                              *)
SyncObservationStatus(t, f) ==
    LET rs == LiveReferrers(f, Record)
        next == [r \in rs |-> [row[r] EXCEPT !.rev = @ + 1]]
    IN /\ rs # {} /\ plate[f] # "none"
       /\ req[t].pc = "idle"
       /\ CanLock(t, rs)
       /\ Flush(t, next, SetToSeq({Event(r, "UPDATE", next[r].rev, row[r].rev) : r \in rs}), {})
       /\ UNCHANGED captureVars

VisionToggle(f) ==
    /\ QueuesFree /\ ~file[f].deleted
    /\ vision' = IF f \in vision THEN vision \ {f} ELSE vision \cup {f}
    /\ UNCHANGED <<storeVars, file, link, plate, upload, todo, scope, restored, resets, stores, late>>

(* POST /api/common/upload of AstroJournal takes the advisory lock shared. *)
UploadAccept ==
    /\ upload.st = "none" /\ \A t \in Requests : req[t].adv # "exclusive"
    /\ upload' = [st |-> "WAITING", incoming |-> TRUE]
    /\ UNCHANGED <<storeVars, file, link, plate, vision, todo, scope, restored, resets, stores, late>>

UploadClaim ==
    /\ upload.st = "WAITING" /\ QueuesFree
    /\ upload' = [upload EXCEPT !.st = "PROCESSING"]
    /\ UNCHANGED <<storeVars, file, link, plate, vision, todo, scope, restored, resets, stores, late>>

(* The worker meets a tombstone of the bytes it stores: the row and its    *)
(* media are restored in a transaction of their own.                       *)
RestoreFile(f) ==
    /\ stores < MaxStores
    /\ file[f].deleted
    /\ \A t \in Requests : f \notin req[t].lock
    /\ file' = [file EXCEPT ![f] = [deleted |-> FALSE, media |-> TRUE]]
    /\ restored' = restored \cup {f}
    /\ stores' = stores + 1
    /\ UNCHANGED <<storeVars, link, plate, vision, upload, todo, scope, resets, late>>

(* It links the file for the service, whatever has become of the file: one *)
(* it restored, or one it took for a duplicate.  Its job is finished in a  *)
(* later transaction, which a Reset's lock on the job rows holds up.       *)
StoreFile(f, svc) ==
    /\ \A t \in Requests : f \notin req[t].lock
    /\ svc = "AstroJournal" => upload.st = "PROCESSING" /\ upload.incoming
    /\ \/ f \in restored /\ stores' = stores
       \/ stores < MaxStores /\ ~file[f].deleted /\ <<f, svc>> \notin link /\ stores' = stores + 1
    /\ link' = link \cup {<<f, svc>>}
    /\ restored' = restored \ {f}
    /\ UNCHANGED <<storeVars, file, plate, vision, upload, todo, scope, resets, late>>

UploadEnd ==
    /\ upload.st = "PROCESSING" /\ QueuesFree
    /\ upload' = [st |-> "none", incoming |-> FALSE]
    /\ UNCHANGED <<storeVars, file, link, plate, vision, todo, scope, restored, resets, stores, late>>

----------------------------------------------------------------------------
RecordStep(t) ==
    \/ \E r \in Record : RecordCreate(t, r) \/ RecordUpdate(t, r) \/ RecordDelete(t, r)
    \/ EnsureLink(t) \/ ClearRepresentative(t) \/ RecordInsert(t) \/ UpdateIfRevision(t)
    \/ RecordDeleteFlush(t) \/ RecordCommit(t)
    \/ CleanupPreserve(t) \/ CleanupUnlink(t) \/ CleanupDelete(t) \/ CleanupCommit(t)
    \/ \E f \in File : SyncObservationStatus(t, f)

ResetStep(t) ==
    ResetBegin(t) \/ ResetLock(t) \/ ResetScan(t) \/ ResetDeleteAssets(t) \/ ResetCommit(t)

MasterCommit(t) == Commit(t) /\ ~(req[t].at \subseteq Record) /\ UNCHANGED captureVars

Environment ==
    \/ \E f \in File : PlateClaim(f) \/ PlateEnd(f) \/ VisionToggle(f)
    \/ \E f \in File : RestoreFile(f)
    \/ \E f \in File, svc \in Services : StoreFile(f, svc)
    \/ UploadAccept \/ UploadClaim \/ UploadEnd

Next ==
    \/ \E t \in Requests :
         \/ RecordStep(t) \/ ResetStep(t) \/ MasterCommit(t) \/ Abort(t)
         \/ MasterStep(t) /\ UNCHANGED captureVars
    \/ \E c \in Clients : ListChanges(c) /\ UNCHANGED captureVars
    \/ Environment

Spec == Init /\ [][Next]_vars

----------------------------------------------------------------------------
(* A client that follows next_cursor misses an event only if the event's   *)
(* transaction was still open while the client read past its id: the       *)
(* paging itself loses nothing.                                            *)
FeedMissesOnlyInFlight ==
    \A c \in Clients : \A e \in log :
       e.id <= cursor[c] => e.id \in seen[c] \cup inflight[c]

(* Every committed edit of a client was made to the revision the client    *)
(* had seen, and the edits of one resource are numbered without repetition: *)
(* no update is lost, the stale one is refused.                            *)
EditsKnownState ==
    /\ \A e \in log : e.op = "UPDATE" /\ e.at # "reset" => e.rev = e.base + 1
    /\ resets = 0 =>
         \A d, e \in log : d.at = e.at /\ d.rev = e.rev /\ d # e => "DELETE" \in {d.op, e.op}

(* Media are deleted only while no other service links the file, and, when *)
(* it is not a Reset that deletes them, while no live record uses it; but  *)
(* a record that a cleanup or a Reset overtook can bring a file into the   *)
(* scope of a Reset that has not locked it.                                *)
SharedMediaKept ==
    [][\A f \in File : file[f].media /\ ~file'[f].media =>
          \/ /\ ~OtherService(f)
             /\ LiveReferrers(f, Record) = {} \/ f \in todo
          \/ \E r \in late : f \in row[r].to]_vars

(* A live record's file is registered and linked to AstroJournal, unless   *)
(* the file was cleaned up, unlinked or reset while the record's create    *)
(* was under way.                                                          *)
HomeIntact ==
    \A r \in Record \ late : Live(r) =>
       \A f \in FileOf(row[r]) : ~file[f].deleted /\ <<f, "AstroJournal">> \in link

(* When an Equipment is deleted, no live site keeps it as its default. *)
DeleteFreesSites ==
    [][\A e \in Equipment : Live(e) /\ row'[e].st = "dead" =>
          \A s \in Site : row'[s].st = "live" => e \notin row'[s].to]_vars

(* A file that lost its media to a cleanup or a Reset that did not commit  *)
(* stays owned: some service links it, or the upload that restored it is   *)
(* still to link it, so a retry reaches it.                                *)
LossIsRetryable ==
    \A f \in File : ~file[f].deleted /\ ~file[f].media =>
       \/ \E t \in Requests : f \in req[t].lock
       \/ \E svc \in Services : <<f, svc>> \in link
       \/ f \in restored

Master == Equipment \cup Site \cup Reference

(* The master data keep the promise of a revisioned resource. *)
Canonical == INSTANCE Revisioned WITH
    Id <- Master,
    st <- [r \in Master |-> row[r].st],
    rev <- [r \in Master |-> row[r].rev],
    announced <- [r \in Master |-> {e.rev : e \in {d \in log : d.at = r}}]

MasterImplementsRevisioned == Canonical!Spec

(* "DELETE is soft and idempotent: the first request increments revision   *)
(* and repeated requests return the same deletion result": a record is     *)
(* deleted once, one revision on from the last it had.                     *)
DeleteIncrementsRevision ==
    [][\A r \in Record : Live(r) /\ row'[r].st = "dead" => row'[r].rev = row[r].rev + 1]_vars

=============================================================================
