---------------------------- MODULE CaptureDates ----------------------------
(***************************************************************************)
(* The capture date of a photo.  memorykeeper_file_states stores a         *)
(* projection of five inputs: the user's date, the year of the folder the  *)
(* photo came from, the date in its EXIF data, the time of its import and  *)
(* of its row.  Every writer of an input must also store the projection    *)
(* (synchronize).                                                          *)
(*                                                                         *)
(* Handlers, the two maintenance scripts and the EXIF step lock the row of *)
(* the file: the handlers and scripts FOR UPDATE, the EXIF step by the     *)
(* foreign key of the history rows it inserts (FOR KEY SHARE).  The upload *)
(* of a duplicate locks nothing: it reads the metadata, then the state,    *)
(* then writes.                                                            *)
(*                                                                         *)
(* The source years come in three separate programs with files between     *)
(* them: audit (a table of what the database and the source folders say),  *)
(* plan (what to do about it), reconcile (verify, then apply in batches).  *)
(*                                                                         *)
(* A date is a number; ten dates make a year.                              *)
(***************************************************************************)
EXTENDS Photos

CONSTANTS
    UserDate,     \* dates a user may enter
    FileExif,     \* the date in each file, None if it has none
    ImportedAt,   \* the creation time of each photo's link, None if unknown
    CreatedAt,    \* the creation time of each photo's row, None if unknown
    SourceYears,  \* the years of the source folders that hold each photo
    Scripts       \* reconcile processes

ASSUME DatesAssumption ==
    /\ UserDate \subseteq Nat \ {None}
    /\ FileExif \in [File -> Nat] /\ ImportedAt \in [File -> Nat] /\ CreatedAt \in [File -> Nat]
    /\ SourceYears \in [File -> SUBSET (Nat \ {None})]

VARIABLES
    date,      \* rows of memorykeeper_file_states
    exif,      \* common_file_metadata.original_capture_datetime
    session,   \* what the sessions of upload workers have read
    plan,      \* the CSV of the source-year plan
    recon,     \* the reconcile processes
    backfill,  \* the backfill process
    torn,      \* history: photos whose projection a stale session wrote
    applied,   \* history: how often a source year was applied to a photo
    promised   \* history: photos reconcile counted as applied

dateVars == <<date, exif, session, plan, recon, backfill, torn, applied, promised>>

YearOf(d) == d \div 10

NoState == [user |-> None, src |-> None, at |-> None, year |-> None, basis |-> "NULL", rev |-> -1]

NoSession == [pc |-> "idle", op |-> "none", file |-> None, read |-> None, original |-> None,
              snap |-> NoState]

NoPlanRow == [action |-> "EXCLUDE", year |-> None, state |-> NoState]

NoRecon == [pc |-> "idle", todo |-> {}]

NoBackfill == [pc |-> "idle", cursor |-> 0, high |-> 0, scan |-> << >>]

----------------------------------------------------------------------------
(* calculate_capture_date_projection.  The precision follows from the      *)
(* basis: DATE of USER, YEAR of SOURCE_YEAR, DATETIME of the others.       *)
Projection(at, year, basis) == [at |-> at, year |-> year, basis |-> basis]

Calculate(user, original, imported, created, src) ==
    CASE user # None -> Projection(user, YearOf(user), "USER")
      [] user = None /\ src # None /\ original # None /\ YearOf(original) = src ->
           Projection(original, src, "EXIF")
      [] user = None /\ src # None /\ (original = None \/ YearOf(original) # src) ->
           Projection(None, src, "SOURCE_YEAR")
      [] user = None /\ src = None /\ original # None ->
           Projection(original, YearOf(original), "EXIF")
      [] user = None /\ src = None /\ original = None /\ imported # None ->
           Projection(imported, YearOf(imported), "IMPORTED")
      [] user = None /\ src = None /\ original = None /\ imported = None /\ created # None ->
           Projection(created, YearOf(created), "CREATED")
      [] OTHER -> Projection(None, None, "NULL")

Effective(r) == Projection(r.at, r.year, r.basis)

Project(f, r, original) == Calculate(r.user, original, ImportedAt[f], CreatedAt[f], r.src)

(* synchronize: a missing row is added with revision 0; the revision is    *)
(* the caller's.                                                           *)
Synchronized(f, r, original) ==
    LET row == IF r = NoState THEN [r EXCEPT !.rev = 0] ELSE r
        p == Project(f, row, original)
    IN [row EXCEPT !.at = p.at, !.year = p.year, !.basis = p.basis]

Touched(r) == [r EXCEPT !.rev = @ + 1]

(* A photo none of whose EXIF writers is at work: the row of the file can  *)
(* be locked FOR UPDATE.                                                   *)
FileFree(f) == \A w \in Workers : ~(session[w].op = "exif" /\ session[w].file = f)

----------------------------------------------------------------------------
(* Requests.  The client's expected revisions are the current ones: the    *)
(* others end in 409 and change nothing.                                   *)

(* Mutant of Override: the projection is left to the next upload. *)
OverrideUnsynchronized(F, d) ==
    /\ Count /\ F \subseteq live /\ \A f \in F : FileFree(f)
    /\ date' = [f \in File |-> IF f \in F
                               THEN Touched([Synchronized(f, date[f], exif[f]) EXCEPT !.user = d])
                               ELSE date[f]]
    /\ torn' = torn \ F
    /\ UNCHANGED <<exif, session, plan, recon, backfill, applied, promised>>

(* update: a user's date, or None to clear it, for all the files or none. *)
Override(F, d) ==
    /\ Count /\ F \subseteq live /\ \A f \in F : FileFree(f)
    /\ date' = [f \in File |->
         IF f \in F
         THEN LET row == Synchronized(f, date[f], exif[f])
              IN Touched(Synchronized(f, [row EXCEPT !.user = d], exif[f]))
         ELSE date[f]]
    /\ torn' = torn \ F
    /\ UNCHANGED <<exif, session, plan, recon, backfill, applied, promised>>

(* patch_metadata and the tag handlers: the state row is made if missing,  *)
(* its revision counts every change of the photo.                          *)
PatchMetadata(f) ==
    /\ Count /\ f \in live /\ FileFree(f)
    /\ date' = [date EXCEPT ![f] = Touched(IF @ = NoState \/ @.basis = "NULL"
                                           THEN Synchronized(f, @, exif[f]) ELSE @)]
    /\ UNCHANGED <<exif, session, plan, recon, backfill, torn, applied, promised>>

(* A new photo: link and state in one commit.  A state row that outlived   *)
(* its photo makes the insert fail.                                        *)
DateOfNew(f) ==
    /\ date[f] = NoState
    /\ date' = [date EXCEPT ![f] = Synchronized(f, @, None)]
    /\ UNCHANGED <<exif, session, plan, recon, backfill, torn, applied, promised>>

(* delete removes the state, the cleanup the metadata. *)
DateOfDeleted(f) ==
    /\ FileFree(f)
    /\ date' = [date EXCEPT ![f] = NoState]
    /\ exif' = [exif EXCEPT ![f] = None]
    /\ torn' = torn \ {f} /\ promised' = promised \ {f}
    /\ applied' = [applied EXCEPT ![f] = 0]
    /\ UNCHANGED <<session, plan, recon, backfill>>

----------------------------------------------------------------------------
(* Upload workers.                                                         *)

Open(w, s) ==
    /\ session' = [session EXCEPT ![w] = s]
    /\ UNCHANGED <<date, exif, plan, recon, backfill, torn, applied, promised, changes>>

(* HashPlugin and StoragePlugin on content that has its link already: the  *)
(* metadata is read first.                                                 *)
SyncRead(w, f) ==
    /\ session[w].pc = "idle" /\ f \in live
    /\ Open(w, [NoSession EXCEPT !.pc = "read", !.op = "sync", !.file = f,
                  !.read = exif[f], !.original = exif[f]])

(* ExifPlugin: the date of the file becomes the original date if there is  *)
(* none; the history row locks the file.                                   *)
ExifRead(w, f) ==
    /\ session[w].pc = "idle" /\ f \in live /\ FileFree(f)
    /\ FileExif[f] # None /\ exif[f] = None
    /\ Open(w, [NoSession EXCEPT !.pc = "read", !.op = "exif", !.file = f,
                  !.read = exif[f], !.original = FileExif[f]])

(* Then the state. *)
StateRead(w) ==
    /\ session[w].pc = "read"
    /\ session[w].op = "exif" => date[session[w].file] # NoState
    /\ Open(w, [session[w] EXCEPT !.pc = "computed", !.snap = date[session[w].file]])

(* Mutant of SessionCommit: every column is written, the revision too. *)
SessionCommitWhole(w) ==
    LET s == session[w]
        f == s.file
    IN /\ Count /\ s.pc = "computed"
       /\ (s.snap = NoState) = (date[f] = NoState)
       /\ date' = [date EXCEPT ![f] = Synchronized(f, s.snap, s.original)]
       /\ exif' = [exif EXCEPT ![f] = IF s.op = "exif" THEN s.original ELSE @]
       /\ torn' = torn \cup {f}
       /\ session' = [session EXCEPT ![w] = NoSession]
       /\ UNCHANGED <<plan, recon, backfill, applied, promised>>

(* Then the columns that changed.  A row that was deleted meanwhile, or    *)
(* inserted by someone else, fails the commit.                             *)
SessionCommit(w) ==
    LET s == session[w]
        f == s.file
        new == Synchronized(f, s.snap, s.original)
        row == IF s.snap = NoState THEN new ELSE WriteColumns(date[f], s.snap, new)
        fact == IF s.op = "exif" THEN s.original ELSE exif[f]
        stale == date[f] # s.snap \/ exif[f] # s.read
        tears == stale /\ Effective(row) # Project(f, row, fact)
    IN /\ Count /\ s.pc = "computed"
       /\ (s.snap = NoState) = (date[f] = NoState)
       /\ date' = [date EXCEPT ![f] = row]
       /\ exif' = [exif EXCEPT ![f] = fact]
       /\ torn' = IF tears THEN torn \cup {f} ELSE torn
       /\ session' = [session EXCEPT ![w] = NoSession]
       /\ UNCHANGED <<plan, recon, backfill, applied, promised>>

SessionAbort(w) ==
    /\ session[w].pc # "idle"
    /\ Open(w, NoSession)

----------------------------------------------------------------------------
(* The source years.                                                       *)

(* load_active_memorykeeper_records: the live photos with an effective     *)
(* year.                                                                   *)
Audited == {f \in live : date[f].year # None}

(* _classify_hashed_sources: the copies of a photo are all of one year.    *)
OneYear(f) == Cardinality(SourceYears[f]) = 1

(* audit_sources: every other photo is excluded from the plan. *)
Planned(f) == f \in Audited /\ OneYear(f)

(* _classify_memorykeeper_row.  A USER basis without its date, or a year   *)
(* applied already as the basis, makes the plan invalid.                   *)
Classifiable(f) ==
    \/ date[f].basis \in {"EXIF", "IMPORTED", "CREATED"}
    \/ date[f].basis = "USER" /\ date[f].user # None /\ YearOf(date[f].user) = date[f].year

Action(f, year) ==
    CASE date[f].basis = "USER" -> "KEEP_EXACT_USER"
      [] date[f].basis = "EXIF" /\ date[f].year = year -> "KEEP_EXACT_EXIF"
      [] OTHER -> "SET_YEAR_ONLY"

PlanRow(f) ==
    LET year == CHOOSE y \in SourceYears[f] : TRUE
    IN [action |-> Action(f, year), year |-> year, state |-> date[f]]

(* The audit reads the database in one read-only snapshot; the plan is     *)
(* made from its table.                                                    *)
AuditAndPlan ==
    /\ Count
    /\ \E f \in File : Planned(f)
    /\ \A f \in File : Planned(f) => Classifiable(f)
    /\ plan' = [f \in File |-> IF Planned(f) THEN PlanRow(f) ELSE NoPlanRow]
    /\ UNCHANGED <<date, exif, session, recon, backfill, torn, applied, promised>>

(* _projection_matches_plan *)
AsPlanned(r, p) ==
    CASE r.action = "KEEP_EXACT_EXIF" -> p = Projection(r.state.at, r.year, "EXIF")
      [] r.action = "SET_YEAR_ONLY" -> p = Projection(None, r.year, "SOURCE_YEAR")
      [] OTHER -> FALSE

(* _verify_context *)
Verify(f) ==
    LET r == plan[f]
        s == date[f]
        target == Calculate(s.user, exif[f], ImportedAt[f], CreatedAt[f], r.year)
    IN CASE r.action = "EXCLUDE" -> "PLAN_EXCLUDED"
         [] r.action # "EXCLUDE" /\ f \notin live -> "MISSING_FILE"
         [] r.action # "EXCLUDE" /\ f \in live /\ s = NoState -> "MISSING_STATE"
         [] OTHER ->
            IF s.user # None \/ s.basis = "USER" THEN "KEEP_USER"
            ELSE IF s.src = r.year
                 THEN IF Effective(s) = target THEN "ALREADY_APPLIED" ELSE "PROJECTION_CONFLICT"
            ELSE IF s.src # None THEN "OTHER_CONFLICT"
            ELSE IF s.rev # r.state.rev THEN "STALE_REVISION"
            ELSE IF Effective(s) # Effective(r.state) \/ s.user # r.state.user THEN "SNAPSHOT_MISMATCH"
            ELSE IF r.action = "KEEP_EXACT_USER" THEN "KEEP_USER"
            ELSE IF AsPlanned(r, target) THEN "READY" ELSE "PROJECTION_CONFLICT"

Blocking == {"STALE_REVISION", "MISSING_FILE", "MISSING_STATE", "SNAPSHOT_MISMATCH",
             "PROJECTION_CONFLICT", "OTHER_CONFLICT"}

(* _parse_plan_row: the snapshot of a row is complete and is one that its  *)
(* action is for; one bad row refuses the file.                            *)
WellFormed(r) ==
    /\ r.state.at # None /\ YearOf(r.state.at) = r.state.year
    /\ r.action = "KEEP_EXACT_EXIF" => r.state.basis = "EXIF" /\ r.state.year = r.year
    /\ r.action = "KEEP_EXACT_USER" => r.state.basis = "USER" /\ r.state.user = r.state.at
    /\ r.action = "SET_YEAR_ONLY" => \/ r.state.basis \in {"IMPORTED", "CREATED"}
                                     \/ r.state.basis = "EXIF" /\ r.state.year # r.year

(* verify_all, without locks; any conflict refuses the whole plan. *)
ReconVerify(s) ==
    LET ready == {f \in File : Verify(f) = "READY"} IN
    /\ recon[s].pc = "idle"
    /\ \E f \in File : plan[f] # NoPlanRow
    /\ \A f \in File : plan[f] # NoPlanRow => WellFormed(plan[f])
    /\ \A f \in File : Verify(f) \notin Blocking
    /\ recon' = [recon EXCEPT ![s] = [pc |-> "apply", todo |-> ready]]
    /\ UNCHANGED <<date, exif, session, plan, backfill, torn, applied, promised, changes>>

Reconciled(f) ==
    Touched(Synchronized(f, [date[f] EXCEPT !.src = plan[f].year], exif[f]))

(* Mutant of ReconBatch: what was verified is not verified again. *)
ReconBatchTrusting(s) ==
    LET f == Min(recon[s].todo) IN
    /\ Count /\ recon[s].pc = "apply" /\ recon[s].todo # {} /\ FileFree(f)
    /\ date' = [date EXCEPT ![f] = Reconciled(f)]
    /\ applied' = [applied EXCEPT ![f] = @ + 1]
    /\ torn' = torn \ {f}
    /\ recon' = [recon EXCEPT ![s].todo = @ \ {f}]
    /\ UNCHANGED <<exif, session, plan, backfill, promised>>

(* apply_verified, one batch (of one file): locked and verified again.     *)
(* Applied by someone else meanwhile is fine, anything else ends the run;  *)
(* the batches before it stay.                                             *)
ReconBatch(s) ==
    LET f == Min(recon[s].todo)
        now == Verify(f)
    IN /\ Count /\ recon[s].pc = "apply" /\ recon[s].todo # {} /\ FileFree(f)
       /\ now \in {"READY", "ALREADY_APPLIED"}
       /\ date' = IF now = "READY" THEN [date EXCEPT ![f] = Reconciled(f)] ELSE date
       /\ applied' = IF now = "READY" THEN [applied EXCEPT ![f] = @ + 1] ELSE applied
       /\ torn' = IF now = "READY" THEN torn \ {f} ELSE torn
       /\ promised' = promised \cup {f}
       /\ recon' = [recon EXCEPT ![s].todo = @ \ {f}]
       /\ UNCHANGED <<exif, session, plan, backfill>>

(* The end of the plan, a conflict under the lock, or a crash. *)
ReconStop(s) ==
    /\ recon[s].pc = "apply"
    /\ recon' = [recon EXCEPT ![s] = NoRecon]
    /\ UNCHANGED <<date, exif, session, plan, backfill, torn, applied, promised, changes>>

----------------------------------------------------------------------------
(* backfill_capture_dates: photos that were there before the state table.  *)

(* _load_snapshot_batch: the photos the run has not come to yet, none that *)
(* came after its start.                                                   *)
NotYetScanned == {f \in live : f > backfill.cursor /\ f <= backfill.high}

BackfillStart ==
    /\ backfill.pc = "idle" /\ live # {}
    /\ backfill' = [NoBackfill EXCEPT !.pc = "load", !.high = Max(live)]
    /\ UNCHANGED <<date, exif, session, plan, recon, torn, applied, promised, changes>>

(* The next batch (one photo), read and released, then scanned on the NAS, *)
(* which may fail.                                                         *)
BackfillScan ==
    LET f == Min(NotYetScanned)
    IN /\ backfill.pc = "load" /\ NotYetScanned # {}
       /\ \E found \in {None, IF exif[f] = None THEN FileExif[f] ELSE None} :
             backfill' = [backfill EXCEPT !.pc = "apply", !.cursor = f,
                                          !.scan = [x \in {f} |-> found]]
       /\ UNCHANGED <<date, exif, session, plan, recon, torn, applied, promised, changes>>

(* _load_current_active_row: locked, and still there. *)
Current(f) == f \in live

(* _apply_snapshot on the locked current rows, not on the snapshot.  The   *)
(* revision stays: no client has edited anything.                          *)
BackfillApply ==
    LET f == CHOOSE x \in DOMAIN backfill.scan : TRUE
        fact == IF exif[f] = None THEN backfill.scan[f] ELSE exif[f]
    IN /\ Count /\ backfill.pc = "apply" /\ FileFree(f)
       /\ exif' = IF Current(f) THEN [exif EXCEPT ![f] = fact] ELSE exif
       /\ date' = IF Current(f) THEN [date EXCEPT ![f] = Synchronized(f, @, fact)] ELSE date
       /\ torn' = torn \ {f}
       /\ backfill' = [backfill EXCEPT !.pc = "load", !.scan = << >>]
       /\ UNCHANGED <<session, plan, recon, applied, promised>>

(* The end, or a crash; a rerun starts over. *)
BackfillEnd ==
    /\ backfill.pc # "idle"
    /\ backfill' = NoBackfill
    /\ UNCHANGED <<date, exif, session, plan, recon, torn, applied, promised, changes>>

----------------------------------------------------------------------------
IsState(r) == r.rev \in Int /\ r.user \in Nat /\ r.src \in Nat /\ r.at \in Nat /\ r.year \in Nat

DatesTypeOK ==
    /\ DOMAIN date = File /\ \A f \in File : IsState(date[f])
    /\ exif \in [File -> Nat]
    /\ \A w \in Workers : session[w].pc \in {"idle", "read", "computed"}
    /\ \A s \in Scripts : recon[s].todo \subseteq File
    /\ torn \subseteq File /\ promised \subseteq File /\ applied \in [File -> Nat]

(* Photos from before the state table have no state yet, others may have   *)
(* their source year; no photo's EXIF date has been read.                  *)
FirstStates(f) ==
    {NoState} \cup {Synchronized(f, [NoState EXCEPT !.rev = 0, !.src = y], None) :
                     y \in {None} \cup (IF Cardinality(SourceYears[f]) = 1 THEN SourceYears[f] ELSE {})}

DatesInit ==
    /\ date \in {d \in [File -> UNION {FirstStates(f) : f \in File}] :
                   \A f \in File : d[f] \in IF f \in live THEN FirstStates(f) ELSE {NoState}}
    /\ exif = [f \in File |-> None]
    /\ session = [w \in Workers |-> NoSession]
    /\ plan = [f \in File |-> NoPlanRow]
    /\ recon = [s \in Scripts |-> NoRecon]
    /\ backfill = NoBackfill
    /\ torn = {} /\ promised = {} /\ applied = [f \in File |-> 0]

DatesNext ==
    \/ \E F \in SUBSET File \ {{}}, d \in UserDate \cup {None} : Override(F, d)
    \/ \E f \in File : PatchMetadata(f)
    \/ \E w \in Workers :
          \/ \E f \in File : SyncRead(w, f) \/ ExifRead(w, f)
          \/ StateRead(w) \/ SessionCommit(w) \/ SessionAbort(w)
    \/ AuditAndPlan
    \/ \E s \in Scripts : ReconVerify(s) \/ ReconBatch(s) \/ ReconStop(s)
    \/ BackfillStart \/ BackfillScan \/ BackfillApply \/ BackfillEnd

----------------------------------------------------------------------------
(* The stored date is the projection of its inputs as they stand, whoever  *)
(* wrote last - except where a duplicate upload, which locks nothing,      *)
(* wrote from what it had read before somebody's commit; the next writer   *)
(* that locks the file puts that right.                                    *)
ProjectionCoherent ==
    \A f \in live \ torn : date[f] # NoState => Effective(date[f]) = Project(f, date[f], exif[f])

(* Reconcile, interrupted, repeated or run twice at a time, applies a      *)
(* photo's source year once, and what it counted as applied stays applied  *)
(* as long as the photo is there.                                          *)
SourceYearOnce ==
    /\ \A f \in File : applied[f] <= 1
    /\ \A f \in promised : date[f].src \in SourceYears[f]

=============================================================================
