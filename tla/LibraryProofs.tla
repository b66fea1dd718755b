--------------------------- MODULE LibraryProofs ---------------------------
(***************************************************************************)
(* What TLAPS proves of the library, for every set of photos, workers,     *)
(* scripts, tags and names, any dates and source years and any number of   *)
(* commits:                                                                *)
(*                                                                         *)
(*   - the stored capture date is the projection of its inputs             *)
(*     (ProjectionCoherent), and a source year is applied once             *)
(*     (SourceYearOnce);                                                   *)
(*   - a deleted or merged tag is on no photo (DeletedTagsUnused);         *)
(*   - a photo keeps what it has under a name that is renamed or merged    *)
(*     (RenameKeepsPhotos);                                                *)
(*   - revisions only grow, but for those a session on tags writes back    *)
(*     from what it read (RevisionGrows);                                  *)
(*   - what the user last made of a field stands (UserValueStands).        *)
(*                                                                         *)
(* The actions of the library are those of four modules that share the     *)
(* photos; each proof keeps the other modules' steps apart by what they    *)
(* leave alone.                                                            *)
(***************************************************************************)
EXTENDS Library, FiniteSetTheorems, TLAPS

(***************************************************************************)
(* CAPTURE DATES                                                           *)
(***************************************************************************)

(* A row of memorykeeper_file_states has these columns. *)
Columns(r) ==
    r = [user |-> r.user, src |-> r.src, at |-> r.at, year |-> r.year, basis |-> r.basis, rev |-> r.rev]

DatesShape ==
    /\ live \subseteq File
    /\ DOMAIN date = File /\ \A f \in File : Columns(date[f])
    /\ DOMAIN exif = File /\ DOMAIN applied = File
    /\ DOMAIN session = Workers /\ DOMAIN recon = Scripts
    /\ \A f \in File \ live : exif[f] = None

(* What a worker's session holds: the EXIF step keeps its photo from being *)
(* deleted, the upload of a duplicate changes no input.                    *)
SessionOK(s) ==
    /\ DOMAIN s = {"pc", "op", "file", "read", "original", "snap"}
    /\ s.pc # "idle" =>
       /\ s.file \in File
       /\ s.op = "exif" => s.file \in live
       /\ s.op # "exif" => s.original = s.read
       /\ Columns(s.snap)

Coherent(f, r, original) == r # NoState => Effective(r) = Project(f, r, original)

DatesInv ==
    /\ DatesShape
    /\ \A w \in Workers : SessionOK(session[w])
    /\ \A f \in live \ torn : Coherent(f, date[f], exif[f])

----------------------------------------------------------------------------
(* synchronize keeps the inputs and stores their projection. *)
LEMMA SynchronizedProjects ==
    ASSUME NEW f, NEW r, NEW original, Columns(r)
    PROVE  /\ Columns(Synchronized(f, r, original))
           /\ Synchronized(f, r, original).user = r.user
           /\ Synchronized(f, r, original).src = r.src
           /\ Effective(Synchronized(f, r, original)) = Project(f, r, original)
<1> DEFINE row == IF r = NoState THEN [r EXCEPT !.rev = 0] ELSE r
           p == Project(f, row, original)
<1>1. Columns(row) /\ row.user = r.user /\ row.src = r.src
  BY DEF Columns, NoState
<1>2. p = Projection(p.at, p.year, p.basis)
  BY DEF Project, Calculate, Projection
<1>3. p = Project(f, r, original)
  BY <1>1 DEF Project
<1>4. Synchronized(f, r, original) = [row EXCEPT !.at = p.at, !.year = p.year, !.basis = p.basis]
  BY DEF Synchronized
<1> HIDE DEF row, p
<1> QED
  BY <1>1, <1>2, <1>3, <1>4 DEF Columns, Effective, Projection

(* Counting a revision keeps everything else. *)
LEMMA TouchedKeeps ==
    ASSUME NEW r, NEW n, Columns(r)
    PROVE  LET q == [r EXCEPT !.rev = n] IN
           /\ Columns(q) /\ q.user = r.user /\ q.src = r.src /\ Effective(q) = Effective(r)
  BY DEF Columns, Effective

(* ... and what is projected depends on the inputs only. *)
LEMMA ProjectOfInputs ==
    ASSUME NEW f, NEW r, NEW q, NEW original, q.user = r.user, q.src = r.src
    PROVE  Project(f, q, original) = Project(f, r, original)
  BY DEF Project

(* A row that synchronize has written, its revision counted or not. *)
Resynced(t, f, r, original) ==
    \/ t = Synchronized(f, r, original)
    \/ \E n : t = [Synchronized(f, r, original) EXCEPT !.rev = n]

LEMMA SynchronizedCoherent ==
    ASSUME NEW f, NEW r, NEW original, NEW t, Columns(r), Resynced(t, f, r, original)
    PROVE  Columns(t) /\ t.user = r.user /\ t.src = r.src /\ Coherent(f, t, original)
<1> DEFINE q == Synchronized(f, r, original)
<1>1. Columns(q) /\ q.user = r.user /\ q.src = r.src /\ Effective(q) = Project(f, r, original)
  BY SynchronizedProjects
<1>2. Columns(t) /\ t.user = q.user /\ t.src = q.src /\ Effective(t) = Effective(q)
  BY <1>1, TouchedKeeps, ZenonT(40) DEF Resynced
<1> HIDE DEF q
<1>3. Project(f, t, original) = Project(f, r, original)
  BY <1>1, <1>2, ProjectOfInputs
<1> QED
  BY <1>1, <1>2, <1>3 DEF Coherent

----------------------------------------------------------------------------
(* A step that rewrites rows of photos nobody's open EXIF step depends on: *)
(* every row it leaves behind has its columns and is coherent.             *)
Sound(f) ==
    /\ Columns(date'[f])
    /\ f \in live \ torn' => Coherent(f, date'[f], exif'[f])

LEMMA SoundStep ==
    ASSUME DatesInv, UNCHANGED <<live, session>>, DOMAIN date' = File,
           DOMAIN exif' = File, DOMAIN applied' = File, DOMAIN recon' = Scripts,
           \A f \in File \ live : exif'[f] = None,
           \A f \in File : Sound(f)
    PROVE  DatesInv'
<1>1. DatesShape'
  BY DEF DatesInv, DatesShape, Sound
<1>2. \A w \in Workers : SessionOK(session[w])'
  BY DEF DatesInv, SessionOK
<1>3. \A f \in live' \ torn' : Coherent(f, date'[f], exif'[f])
  BY DEF DatesInv, DatesShape, Sound
<1> QED
  BY <1>1, <1>2, <1>3 DEF DatesInv, SessionOK, Coherent, Project

LEMMA OverrideDates ==
    ASSUME DatesInv, NEW F \in SUBSET File, NEW d, Override(F, d), UNCHANGED live
    PROVE  DatesInv'
<1> USE DEF Override
<1>1. ASSUME NEW f \in File PROVE Sound(f)
  <2>1. CASE f \notin F
    BY <2>1 DEF DatesInv, DatesShape, Sound
  <2>2. CASE f \in F
    <3> DEFINE row == Synchronized(f, date[f], exif[f])
               edit == [row EXCEPT !.user = d]
    <3>1. Columns(row)
      BY SynchronizedProjects DEF DatesInv, DatesShape
    <3>2. Columns(edit)
      BY <3>1 DEF Columns
    <3>3. date'[f] = Touched(Synchronized(f, edit, exif[f]))
      BY <2>2
    <3> HIDE DEF row, edit
    <3>4. Resynced(date'[f], f, edit, exif[f])
      BY <3>3 DEF Touched, Resynced
    <3>5. Columns(date'[f]) /\ Coherent(f, date'[f], exif[f])
      BY <3>2, <3>4, SynchronizedCoherent
    <3> QED
      BY <3>5 DEF Sound
  <2> QED BY <2>1, <2>2
<1> QED
  BY <1>1, SoundStep DEF DatesInv, DatesShape

(* What a request that counts a change of the photo does to its row. *)
Counted(f) ==
    \/ date'[f] = date[f]
    \/ date[f] # NoState /\ \E n : date'[f] = [date[f] EXCEPT !.rev = n]
    \/ Resynced(date'[f], f, date[f], exif[f])

LEMMA CountedDates ==
    ASSUME DatesInv, UNCHANGED live, UNCHANGED DatesButState, DOMAIN date' = File,
           \A f \in File : Counted(f)
    PROVE  DatesInv'
<1> USE DEF DatesButState
<1>1. ASSUME NEW f \in File PROVE Sound(f)
  <2>0. Columns(date[f])
    BY DEF DatesInv, DatesShape
  <2>1. CASE date'[f] = date[f]
    <3>1. f \in live' \ torn' => Coherent(f, date[f], exif[f])
      BY DEF DatesInv
    <3> QED
      BY <2>0, <2>1, <3>1 DEF Sound, Coherent
  <2>2. ASSUME date[f] # NoState, NEW n, date'[f] = [date[f] EXCEPT !.rev = n]
        PROVE  Sound(f)
    <3>1. Columns(date'[f]) /\ Effective(date'[f]) = Effective(date[f])
          /\ date'[f].user = date[f].user /\ date'[f].src = date[f].src
      BY <2>0, <2>2, TouchedKeeps
    <3>2. Project(f, date'[f], exif[f]) = Project(f, date[f], exif[f])
      BY <3>1, ProjectOfInputs
    <3> QED
      BY <2>2, <3>1, <3>2 DEF DatesInv, Sound, Coherent
  <2>3. CASE Resynced(date'[f], f, date[f], exif[f])
    BY <2>0, <2>3, SynchronizedCoherent DEF Sound
  <2> QED BY <2>1, <2>2, <2>3 DEF Counted
<1> QED
  BY <1>1, SoundStep DEF DatesInv, DatesShape

LEMMA PatchDates ==
    ASSUME DatesInv, NEW f \in File, PatchMetadata(f), UNCHANGED live
    PROVE  DatesInv'
<1>1. \A g \in File : Counted(g)
  BY DEF PatchMetadata, Counted, Resynced, Touched, DatesInv, DatesShape
<1> QED
  BY <1>1, CountedDates DEF PatchMetadata, DatesInv, DatesShape, DatesButState

(* A flush writes what differs from the row it has read: the whole row,    *)
(* when nobody wrote meanwhile.                                            *)
LEMMA WriteColumnsKeeps ==
    ASSUME NEW now, NEW snap, NEW new, Columns(now), Columns(snap), Columns(new)
    PROVE  /\ Columns(WriteColumns(now, snap, new))
           /\ WriteColumns(now, snap, new).src = IF new.src # snap.src THEN new.src ELSE now.src
           /\ now = snap => WriteColumns(now, snap, new) = new
<1> DEFINE W == WriteColumns(now, snap, new)
<1>1. /\ W.user = IF new.user # snap.user THEN new.user ELSE now.user
      /\ W.src = IF new.src # snap.src THEN new.src ELSE now.src
      /\ W.at = IF new.at # snap.at THEN new.at ELSE now.at
      /\ W.year = IF new.year # snap.year THEN new.year ELSE now.year
      /\ W.basis = IF new.basis # snap.basis THEN new.basis ELSE now.basis
      /\ W.rev = IF new.rev # snap.rev THEN new.rev ELSE now.rev
  BY DEF WriteColumns, Columns
<1>2. Columns(W)
  BY DEF WriteColumns, Columns
<1> HIDE DEF W
<1> QED
  BY <1>1, <1>2 DEF Columns, W

(* The commit of an upload worker is coherent, or marks the photo torn. *)
LEMMA CommitDates ==
    ASSUME DatesInv, NEW w \in Workers, SessionCommit(w), UNCHANGED live
    PROVE  DatesInv'
<1> DEFINE s == session[w]
           f == s.file
           new == Synchronized(f, s.snap, s.original)
           row == IF s.snap = NoState THEN new ELSE WriteColumns(date[f], s.snap, new)
           fact == IF s.op = "exif" THEN s.original ELSE exif[f]
           stale == date[f] # s.snap \/ exif[f] # s.read
           tears == stale /\ Effective(row) # Project(f, row, fact)
<1>1. /\ f \in File /\ Columns(s.snap) /\ Columns(date[f])
      /\ s.op = "exif" => f \in live
      /\ s.op # "exif" => s.original = s.read
  BY DEF SessionCommit, DatesInv, DatesShape, SessionOK
<1>2. /\ date' = [date EXCEPT ![f] = row] /\ exif' = [exif EXCEPT ![f] = fact]
      /\ torn' = IF tears THEN torn \cup {f} ELSE torn
      /\ session' = [session EXCEPT ![w] = NoSession]
      /\ applied' = applied /\ recon' = recon
  BY DEF SessionCommit
<1>3. Columns(new) /\ Coherent(f, new, s.original)
  BY <1>1, SynchronizedCoherent DEF Resynced
<1>4. Columns(row) /\ (date[f] = s.snap => row = new)
  BY <1>1, <1>3, WriteColumnsKeeps
<1> HIDE DEF new, row
<1>5. ~tears => Coherent(f, row, fact)
  <2>1. CASE stale
    BY <2>1 DEF Coherent
  <2>2. CASE ~stale
    BY <1>1, <1>3, <1>4, <2>2
  <2> QED BY <2>1, <2>2
<1> HIDE DEF tears, stale
<1>6. DatesShape'
  BY <1>1, <1>2, <1>4 DEF DatesInv, DatesShape
<1>7. \A v \in Workers : SessionOK(session[v])'
  BY <1>2 DEF DatesInv, DatesShape, SessionOK, NoSession
<1>8. ASSUME NEW g \in live' \ torn' PROVE Coherent(g, date'[g], exif'[g])
  <2>1. g \in File /\ g \in live \ torn
    BY <1>2, <1>8 DEF DatesInv, DatesShape
  <2>2. CASE g = f
    BY <1>1, <1>2, <1>5, <1>8, <2>2 DEF DatesInv, DatesShape
  <2>3. CASE g # f
    <3>1. date'[g] = date[g] /\ exif'[g] = exif[g]
      BY <1>1, <1>2, <2>1, <2>3 DEF DatesInv, DatesShape
    <3> QED BY <2>1, <3>1 DEF DatesInv
  <2> QED BY <2>2, <2>3
<1> QED
  BY <1>6, <1>7, <1>8 DEF DatesInv

LEMMA SessionWith ==
    ASSUME NEW s, NEW row, SessionOK(s)
    PROVE  LET t == [s EXCEPT !.pc = "computed", !.snap = row] IN
           /\ DOMAIN t = {"pc", "op", "file", "read", "original", "snap"}
           /\ t.op = s.op /\ t.file = s.file /\ t.read = s.read /\ t.original = s.original
           /\ t.snap = row
  BY DEF SessionOK

(* What a worker reads is a row, of a photo that an EXIF step then keeps. *)
LEMMA ReadDates ==
    ASSUME DatesInv, NEW w \in Workers, UNCHANGED live,
           \/ \E f \in File : SyncRead(w, f) \/ ExifRead(w, f)
           \/ StateRead(w) \/ SessionAbort(w)
    PROVE  DatesInv'
<1>1. UNCHANGED <<date, exif, recon, torn, applied>>
  BY DEF SyncRead, ExifRead, StateRead, SessionAbort, Open
<1>2. \E s : session' = [session EXCEPT ![w] = s] /\ SessionOK(s)
  <2>1. CASE \E f \in File : SyncRead(w, f) \/ ExifRead(w, f)
    <3>1. PICK f \in File : SyncRead(w, f) \/ ExifRead(w, f)
      BY <2>1
    <3>2. Columns(NoState)
      BY DEF Columns, NoState
    <3>3. CASE SyncRead(w, f)
      <4> DEFINE s == [NoSession EXCEPT !.pc = "read", !.op = "sync", !.file = f,
                         !.read = exif[f], !.original = exif[f]]
      <4>0. /\ DOMAIN s = {"pc", "op", "file", "read", "original", "snap"}
            /\ s.op = "sync" /\ s.file = f /\ s.read = exif[f] /\ s.original = exif[f]
            /\ s.snap = NoState
        BY DEF NoSession
      <4>1. SessionOK(s)
        BY <3>2, <4>0 DEF SessionOK
      <4>2. session' = [session EXCEPT ![w] = s]
        BY <3>3 DEF SyncRead, Open
      <4> HIDE DEF s
      <4> QED BY <4>1, <4>2
    <3>4. CASE ExifRead(w, f)
      <4> DEFINE s == [NoSession EXCEPT !.pc = "read", !.op = "exif", !.file = f,
                         !.read = exif[f], !.original = FileExif[f]]
      <4>0. /\ DOMAIN s = {"pc", "op", "file", "read", "original", "snap"}
            /\ s.op = "exif" /\ s.file = f /\ s.read = exif[f] /\ s.original = FileExif[f]
            /\ s.snap = NoState
        BY DEF NoSession
      <4>1. SessionOK(s)
        BY <3>2, <3>4, <4>0 DEF SessionOK, ExifRead
      <4>2. session' = [session EXCEPT ![w] = s]
        BY <3>4 DEF ExifRead, Open
      <4> HIDE DEF s
      <4> QED BY <4>1, <4>2
    <3> QED BY <3>1, <3>3, <3>4
  <2>2. CASE StateRead(w)
    <3> DEFINE s == [session[w] EXCEPT !.pc = "computed", !.snap = date[session[w].file]]
    <3>1. SessionOK(session[w]) /\ session[w].pc # "idle"
      BY <2>2 DEF StateRead, DatesInv
    <3>2. Columns(date[session[w].file])
      BY <3>1 DEF DatesInv, DatesShape, SessionOK
    <3>3. /\ DOMAIN s = {"pc", "op", "file", "read", "original", "snap"}
          /\ s.op = session[w].op /\ s.file = session[w].file
          /\ s.read = session[w].read /\ s.original = session[w].original
          /\ s.snap = date[session[w].file]
      BY <3>1, SessionWith
    <3>4. session' = [session EXCEPT ![w] = s]
      BY <2>2 DEF StateRead, Open
    <3> HIDE DEF s
    <3>5. SessionOK(s)
      BY <3>1, <3>2, <3>3 DEF SessionOK
    <3> QED BY <3>4, <3>5
  <2>3. CASE SessionAbort(w)
    <3>1. SessionOK(NoSession)
      BY DEF SessionOK, NoSession
    <3> QED BY <2>3, <3>1 DEF SessionAbort, Open
  <2> QED BY <2>1, <2>2, <2>3
<1>3. DatesShape' /\ \A f \in live' \ torn' : Coherent(f, date'[f], exif'[f])
  BY <1>1, <1>2 DEF DatesInv, DatesShape
<1>4. \A v \in Workers : SessionOK(session[v])'
  BY <1>2 DEF DatesInv, DatesShape, SessionOK
<1> QED
  BY <1>3, <1>4 DEF DatesInv

----------------------------------------------------------------------------
(* _verify_context lets through a live photo that the plan is about: one   *)
(* without a source year, or one that has the plan's already.              *)
LEMMA VerifiedPhoto ==
    ASSUME NEW f, Verify(f) \in {"READY", "ALREADY_APPLIED"}
    PROVE  /\ f \in live /\ plan[f].action # "EXCLUDE"
           /\ Verify(f) = "READY" => date[f].src = None
           /\ Verify(f) = "ALREADY_APPLIED" => date[f].src = plan[f].year
<1>1. CASE plan[f].action = "EXCLUDE"
  BY <1>1 DEF Verify
<1>2. CASE plan[f].action # "EXCLUDE" /\ f \notin live
  BY <1>2 DEF Verify
<1>3. CASE plan[f].action # "EXCLUDE" /\ f \in live /\ date[f] = NoState
  BY <1>3 DEF Verify
<1>4. CASE plan[f].action # "EXCLUDE" /\ f \in live /\ date[f] # NoState
  BY <1>4 DEF Verify
<1> QED BY <1>1, <1>2, <1>3, <1>4

(* What a verified batch writes: the row of its photo, with the plan's     *)
(* year as its source.                                                     *)
LEMMA BatchWrites ==
    ASSUME NEW s, ReconBatch(s), DatesShape
    PROVE  LET f == Min(recon[s].todo) IN
           /\ f \in live /\ f \in File /\ plan[f].action # "EXCLUDE"
           /\ UNCHANGED <<exif, session, plan, backfill>>
           /\ promised' = promised \cup {f} /\ DOMAIN recon' = Scripts
           /\ \/ date[f].src = plan[f].year /\ UNCHANGED <<date, applied, torn>>
              \/ /\ date[f].src = None
                 /\ applied' = [applied EXCEPT ![f] = @ + 1] /\ torn' = torn \ {f}
                 /\ \E t : /\ date' = [date EXCEPT ![f] = t]
                           /\ Columns(t) /\ t.src = plan[f].year /\ Coherent(f, t, exif[f])
<1> DEFINE f == Min(recon[s].todo)
<1>1. /\ Verify(f) \in {"READY", "ALREADY_APPLIED"}
      /\ date' = IF Verify(f) = "READY" THEN [date EXCEPT ![f] = Reconciled(f)] ELSE date
      /\ applied' = IF Verify(f) = "READY" THEN [applied EXCEPT ![f] = @ + 1] ELSE applied
      /\ torn' = IF Verify(f) = "READY" THEN torn \ {f} ELSE torn
      /\ promised' = promised \cup {f} /\ DOMAIN recon' = Scripts
      /\ UNCHANGED <<exif, session, plan, backfill>>
  BY DEF ReconBatch, DatesShape
<1> HIDE DEF f
<1>2. f \in live /\ plan[f].action # "EXCLUDE" /\ f \in File /\ Columns(date[f])
  BY <1>1, VerifiedPhoto DEF DatesShape
<1>3. CASE Verify(f) = "READY"
  <2> DEFINE r == [date[f] EXCEPT !.src = plan[f].year]
             t == Reconciled(f)
  <2>1. Columns(r) /\ r.src = plan[f].year
    BY <1>2 DEF Columns
  <2>2. Resynced(t, f, r, exif[f])
    BY DEF Reconciled, Touched, Resynced
  <2> HIDE DEF r, t
  <2>3. Columns(t) /\ t.src = plan[f].year /\ Coherent(f, t, exif[f])
    BY <2>1, <2>2, SynchronizedCoherent
  <2>4. date' = [date EXCEPT ![f] = t] /\ date[f].src = None
    BY <1>1, <1>3, VerifiedPhoto DEF t
  <2> QED
    BY <1>1, <1>2, <1>3, <2>3, <2>4 DEF f
<1>4. CASE Verify(f) = "ALREADY_APPLIED"
  <2>1. date[f].src = plan[f].year
    BY <1>4, VerifiedPhoto
  <2> QED
    BY <1>1, <1>2, <1>4, <2>1 DEF f
<1> QED
  BY <1>1, <1>3, <1>4

LEMMA ReconDates ==
    ASSUME DatesInv, NEW s \in Scripts, UNCHANGED live,
           ReconVerify(s) \/ ReconBatch(s) \/ ReconStop(s)
    PROVE  DatesInv'
<1>1. CASE ReconBatch(s)
  <2> DEFINE f == Min(recon[s].todo)
  <2>1. /\ f \in File /\ UNCHANGED <<exif, session>> /\ DOMAIN recon' = Scripts
        /\ \/ UNCHANGED <<date, applied, torn>>
           \/ /\ applied' = [applied EXCEPT ![f] = @ + 1] /\ torn' = torn \ {f}
              /\ \E t : /\ date' = [date EXCEPT ![f] = t]
                        /\ Columns(t) /\ Coherent(f, t, exif[f])
    BY <1>1, BatchWrites DEF DatesInv
  <2> HIDE DEF f
  <2>2. CASE UNCHANGED <<date, applied, torn>>
    BY <2>1, <2>2 DEF DatesInv, DatesShape, SessionOK
  <2>3. ASSUME NEW t, date' = [date EXCEPT ![f] = t], Columns(t), Coherent(f, t, exif[f]),
               applied' = [applied EXCEPT ![f] = @ + 1], torn' = torn \ {f}
        PROVE  DatesInv'
    <3>1. ASSUME NEW g \in File PROVE Sound(g)
      <4>1. CASE g = f
        BY <2>1, <2>3, <4>1 DEF DatesInv, DatesShape, Sound
      <4>2. CASE g # f
        <5>1. date'[g] = date[g] /\ exif'[g] = exif[g] /\ (g \in live \ torn' => g \in live \ torn)
          BY <2>1, <2>3, <4>2 DEF DatesInv, DatesShape
        <5>2. Columns(date[g]) /\ (g \in live \ torn => Coherent(g, date[g], exif[g]))
          BY DEF DatesInv, DatesShape
        <5> QED BY <5>1, <5>2 DEF Sound
      <4> QED BY <4>1, <4>2
    <3> QED
      BY <2>1, <2>3, <3>1, SoundStep DEF DatesInv, DatesShape
  <2> QED BY <2>1, <2>2, <2>3
<1>2. CASE ReconVerify(s) \/ ReconStop(s)
  BY <1>2 DEF ReconVerify, ReconStop, DatesInv, DatesShape, SessionOK
<1> QED BY <1>1, <1>2

LEMMA BackfillDates ==
    ASSUME DatesInv, UNCHANGED live,
           BackfillStart \/ BackfillScan \/ BackfillApply \/ BackfillEnd
    PROVE  DatesInv'
<1>1. CASE BackfillApply
  <2> DEFINE f == CHOOSE x \in DOMAIN backfill.scan : TRUE
             fact == IF exif[f] = None THEN backfill.scan[f] ELSE exif[f]
  <2>1. /\ exif' = IF f \in live THEN [exif EXCEPT ![f] = fact] ELSE exif
        /\ date' = IF f \in live THEN [date EXCEPT ![f] = Synchronized(f, @, fact)] ELSE date
        /\ torn' = torn \ {f} /\ UNCHANGED <<session, recon, applied>>
    BY <1>1 DEF BackfillApply, Current
  <2> HIDE DEF f, fact
  <2>2. ASSUME NEW g \in File PROVE Sound(g)
    <3>1. Columns(date[g]) /\ (g \in live \ torn => Coherent(g, date[g], exif[g]))
      BY DEF DatesInv, DatesShape
    <3>2. CASE g = f /\ f \in live
      <4> DEFINE t == Synchronized(f, date[f], fact)
      <4>1. Columns(t) /\ Coherent(f, t, fact)
        BY <3>1, <3>2, SynchronizedCoherent DEF Resynced
      <4>2. date'[g] = t /\ exif'[g] = fact
        BY <2>1, <3>2 DEF DatesInv, DatesShape
      <4> HIDE DEF t
      <4> QED BY <3>2, <4>1, <4>2 DEF Sound
    <3>3. CASE ~(g = f /\ f \in live)
      <4>1. date'[g] = date[g] /\ exif'[g] = exif[g] /\ (g \in live \ torn' => g \in live \ torn)
        BY <2>1, <3>3 DEF DatesInv, DatesShape
      <4> QED BY <3>1, <4>1 DEF Sound
    <3> QED BY <3>2, <3>3
  <2> QED
    BY <2>1, <2>2, SoundStep DEF DatesInv, DatesShape
<1>2. CASE BackfillStart \/ BackfillScan \/ BackfillEnd
  BY <1>2 DEF BackfillStart, BackfillScan, BackfillEnd, DatesInv, DatesShape, SessionOK
<1> QED BY <1>1, <1>2

LEMMA DatesStep ==
    ASSUME DatesInv, DatesNext, UNCHANGED live
    PROVE  DatesInv'
<1>1. CASE \E F \in SUBSET File \ {{}}, d \in UserDate \cup {None} : Override(F, d)
  BY <1>1, OverrideDates
<1>2. CASE \E f \in File : PatchMetadata(f)
  BY <1>2, PatchDates
<1>3. CASE \E w \in Workers :
             \/ \E f \in File : SyncRead(w, f) \/ ExifRead(w, f)
             \/ StateRead(w) \/ SessionCommit(w) \/ SessionAbort(w)
  BY <1>3, ReadDates, CommitDates
<1>4. CASE AuditAndPlan
  BY <1>4 DEF AuditAndPlan, DatesInv, DatesShape, SessionOK
<1>5. CASE \E s \in Scripts : ReconVerify(s) \/ ReconBatch(s) \/ ReconStop(s)
  BY <1>5, ReconDates
<1>6. CASE BackfillStart \/ BackfillScan \/ BackfillApply \/ BackfillEnd
  BY <1>6, BackfillDates
<1> QED
  BY <1>1, <1>2, <1>3, <1>4, <1>5, <1>6 DEF DatesNext

----------------------------------------------------------------------------
(* Handlers of tags count the photo's change in its row, and write no      *)
(* input of the projection.                                                *)
LEMMA TagsCount ==
    ASSUME TagsNext, DOMAIN date = File
    PROVE  UNCHANGED DatesButState /\ DOMAIN date' = File /\ \A f \in File : Counted(f)
<1>1. CASE UNCHANGED date /\ UNCHANGED DatesButState
  BY <1>1 DEF Counted
<1>2. ASSUME NEW f \in File, CountRevision(f) PROVE DOMAIN date' = File /\ \A g \in File : Counted(g)
  BY <1>2 DEF CountRevision, Counted, Touched, Resynced
<1>3. ASSUME NEW w \in Workers, Revisions(w) PROVE DOMAIN date' = File /\ \A g \in File : Counted(g)
  BY <1>3 DEF Revisions, Counted
<1>4. CASE \E w \in Workers : \/ TagDeleteCommit(w) \/ TagMergeCommit(w) \/ CatalogMergeCommit(w)
                              \/ \E f \in File : AssignCommit(w, f)
  BY <1>2, <1>3, <1>4 DEF TagDeleteCommit, TagMergeCommit, CatalogMergeCommit, MergeTags, AssignCommit
<1>5. CASE \E f \in File, t \in Tag : TagRemove(f, t) \/ HideTag(f, t) \/ RestoreTag(f, t)
  BY <1>2, <1>5 DEF TagRemove, HideTag, RestoreTag
<1>6. CASE \/ \E f \in File, c \in Canonical : HideLabel(f, c) \/ RestoreLabel(f, c)
           \/ \E f \in File, n \in TagName : HideName(f, n) \/ RestoreName(f, n)
  BY <1>2, <1>6 DEF HideLabel, RestoreLabel, HideName, RestoreName
<1>7. CASE \/ TagCreate
           \/ \E t \in Tag, n \in TagName : TagUpdate(t, n) \/ PromoteLegacy(n, t)
           \/ \E w \in Workers :
                 \/ \E t \in Tag : TagDeleteRead(w, t) \/ CatalogDeleteRead(w, t) \/ AssignRead(w, t)
                 \/ \E s, t \in Tag : TagMergeRead(w, s, t) \/ CatalogMergeRead(w, s, t)
                 \/ \E t \in Tag, n \in TagName : CatalogRename(w, t, n)
                 \/ \E c \in Canonical, n \in TagName : CatalogAdopt(w, c, n)
                 \/ CatalogLink(w) \/ TagAbort(w)
           \/ \E f \in File, c \in Canonical : SaveAiTag(f, c)
           \/ \E c \in Canonical : CatalogSuppress(c)
           \/ \E n \in TagName : CatalogDeleteName(n)
  <2>1. UNCHANGED date /\ UNCHANGED DatesButState
    BY <1>7, ZenonT(40)
       DEF TagCreate, TagUpdate, PromoteLegacy, TagDeleteRead, CatalogDeleteRead, AssignRead,
                TagMergeRead, CatalogMergeRead, Read, OpenTags, CatalogRename, CatalogAdopt, CatalogLink, TagAbort, SaveAiTag,
                CatalogSuppress, CatalogDeleteName
  <2> QED BY <1>1, <2>1
<1> QED
  BY <1>4, <1>5, <1>6, <1>7, ZenonT(40) DEF TagsNext

----------------------------------------------------------------------------
(* What the steps of the library are to the capture dates. *)
LEMMA LibraryDatesStep ==
    ASSUME live \subseteq File, [Next]_vars
    PROVE  \/ \E f \in File : UploadPhoto(f) \/ DeletePhoto(f)
           \/ UNCHANGED live /\ \/ DatesNext
                                \/ TagsNext
                                \/ \E f \in File : PatchMetadata(f)
                                \/ UNCHANGED dateVars
<1>1. CASE MetaNext /\ UNCHANGED <<live, placeVars, tagVars>>
  <2>1. UNCHANGED dateVars \/ \E f \in File : PatchMetadata(f)
    BY <1>1 DEF MetaNext, StageCommit, StageAbort, StageSkip, StageRead, PatchFields, ExifFillRead,
                PhotoFillRead, Fill, FillWrite, FillEnd
  <2> QED BY <1>1, <2>1
<1>2. CASE UNCHANGED vars
  BY <1>2 DEF vars, dateVars
<1> QED
  BY <1>1, <1>2 DEF Next

LEMMA DatesInitial == Init => DatesInv
<1> SUFFICES ASSUME Init PROVE DatesInv
  OBVIOUS
<1>1. live \subseteq File
  BY DEF Init
<1>2. \A f \in File : date[f] \in IF f \in live THEN FirstStates(f) ELSE {NoState}
  BY DEF Init, DatesInit
<1>3. DOMAIN date = File /\ exif = [f \in File |-> None] /\ applied = [f \in File |-> 0]
      /\ session = [w \in Workers |-> NoSession] /\ recon = [s \in Scripts |-> NoRecon]
  BY DEF Init, DatesInit
<1>4. ASSUME NEW f \in File PROVE Columns(date[f]) /\ Coherent(f, date[f], exif[f])
  <2>1. Columns(NoState)
    BY DEF Columns, NoState
  <2>2. CASE date[f] = NoState
    BY <2>1, <2>2 DEF Coherent
  <2>3. ASSUME NEW y, date[f] = Synchronized(f, [NoState EXCEPT !.rev = 0, !.src = y], None)
        PROVE  Columns(date[f]) /\ Coherent(f, date[f], exif[f])
    <3> DEFINE r == [NoState EXCEPT !.rev = 0, !.src = y]
    <3>1. Columns(r)
      <4>1. Columns([NoState EXCEPT !.rev = 0])
        BY <2>1, TouchedKeeps
      <4>2. ASSUME NEW q, Columns(q) PROVE Columns([q EXCEPT !.src = y])
        BY <4>2 DEF Columns
      <4>3. r = [[NoState EXCEPT !.rev = 0] EXCEPT !.src = y]
        OBVIOUS
      <4> QED BY <4>1, <4>2, <4>3
    <3>2. Resynced(date[f], f, r, None)
      BY <2>3 DEF Resynced
    <3> HIDE DEF r
    <3>3. exif[f] = None
      BY <1>3
    <3> QED BY <3>1, <3>2, <3>3, SynchronizedCoherent
  <2> QED BY <1>2, <2>2, <2>3 DEF FirstStates
<1>5. \A w \in Workers : SessionOK(session[w])
  BY <1>3 DEF SessionOK, NoSession
<1> QED
  BY <1>1, <1>3, <1>4, <1>5 DEF DatesInv, DatesShape

LEMMA DatesInvariant == Spec => []DatesInv
<1>1. DatesInv /\ [Next]_vars => DatesInv'
  <2> SUFFICES ASSUME DatesInv, [Next]_vars PROVE DatesInv'
    OBVIOUS
  <2>1. CASE UNCHANGED live /\ DatesNext
    BY <2>1, DatesStep
  <2>2. CASE UNCHANGED live /\ TagsNext
    BY <2>2, TagsCount, CountedDates DEF DatesInv, DatesShape
  <2>3. CASE UNCHANGED live /\ \E f \in File : PatchMetadata(f)
    BY <2>3, PatchDates
  <2>4. CASE UNCHANGED live /\ UNCHANGED dateVars
    BY <2>4 DEF dateVars, DatesInv, DatesShape, SessionOK
  <2>5. ASSUME NEW f \in File, UploadPhoto(f) PROVE DatesInv'
    <3> DEFINE t == Synchronized(f, NoState, None)
    <3>1. /\ f \notin live /\ live' = live \cup {f}
          /\ date' = [date EXCEPT ![f] = t]
          /\ UNCHANGED <<exif, session, recon, torn, applied>>
      BY <2>5 DEF UploadPhoto, DateOfNew
    <3>2. Columns(NoState)
      BY DEF Columns, NoState
    <3>3. Columns(t) /\ Coherent(f, t, None)
      BY <3>2, SynchronizedCoherent DEF Resynced
    <3> HIDE DEF t
    <3>4. DatesShape' /\ \A w \in Workers : SessionOK(session[w])'
      BY <3>1, <3>3 DEF DatesInv, DatesShape, SessionOK
    <3>5. ASSUME NEW g \in live' \ torn' PROVE Coherent(g, date'[g], exif'[g])
      <4>1. CASE g = f
        BY <3>1, <3>3, <4>1 DEF DatesInv, DatesShape
      <4>2. CASE g # f
        <5>1. g \in live \ torn /\ date'[g] = date[g] /\ exif'[g] = exif[g]
          BY <3>1, <3>5, <4>2 DEF DatesInv, DatesShape
        <5> QED BY <5>1 DEF DatesInv
      <4> QED BY <4>1, <4>2
    <3> QED BY <3>4, <3>5 DEF DatesInv
  <2>6. ASSUME NEW f \in File, DeletePhoto(f) PROVE DatesInv'
    <3>1. /\ live' = live \ {f} /\ FileFree(f)
          /\ date' = [date EXCEPT ![f] = NoState] /\ exif' = [exif EXCEPT ![f] = None]
          /\ torn' = torn \ {f} /\ applied' = [applied EXCEPT ![f] = 0]
          /\ UNCHANGED <<session, recon>>
      BY <2>6 DEF DeletePhoto, DateOfDeleted
    <3>2. Columns(NoState)
      BY DEF Columns, NoState
    <3>3. DatesShape'
      BY <3>1, <3>2 DEF DatesInv, DatesShape
    <3>5. ASSUME NEW w \in Workers PROVE SessionOK(session[w])'
      <4>1. SessionOK(session[w]) /\ session'[w] = session[w]
        BY <3>1 DEF DatesInv
      <4>2. ~(session[w].op = "exif" /\ session[w].file = f)
        BY <3>1 DEF FileFree
      <4> QED BY <3>1, <4>1, <4>2 DEF SessionOK
    <3>4. ASSUME NEW g \in live' \ torn' PROVE Coherent(g, date'[g], exif'[g])
      <4>1. g \in live \ torn /\ date'[g] = date[g] /\ exif'[g] = exif[g]
        BY <3>1, <3>4 DEF DatesInv, DatesShape
      <4> QED BY <4>1 DEF DatesInv
    <3> QED BY <3>3, <3>4, <3>5 DEF DatesInv
  <2> QED
    BY <2>1, <2>2, <2>3, <2>4, <2>5, <2>6, LibraryDatesStep DEF DatesInv, DatesShape
<1> QED
  BY <1>1, DatesInitial, PTL DEF Spec

(* The stored capture date is the projection of its inputs as they stand,  *)
(* whoever wrote last (synchronize), except where the upload of a          *)
(* duplicate, which locks nothing, wrote from what it had read before      *)
(* somebody's commit.                                                      *)
THEOREM ProjectionCoherentHolds == Spec => []ProjectionCoherent
<1>1. DatesInv => ProjectionCoherent
  BY DEF DatesInv, ProjectionCoherent, Coherent
<1> QED
  BY <1>1, DatesInvariant, PTL

(***************************************************************************)
(* SOURCE YEARS                                                            *)
(***************************************************************************)

(* A year that was applied is in the row, the plan and what reconcile      *)
(* promised are about years of the photo's folders.                        *)
OnceInv ==
    /\ DOMAIN plan = File /\ promised \subseteq File
    /\ \A f \in File :
          /\ applied[f] \in {0, 1}
          /\ applied[f] = 1 => date[f].src # None
          /\ f \in promised => date[f].src \in SourceYears[f]
          /\ plan[f].action # "EXCLUDE" => plan[f].year \in SourceYears[f]

(* Nobody but reconcile and the deletion of the photo writes the source    *)
(* column.                                                                 *)
LEMMA SourceKept ==
    ASSUME OnceInv, UNCHANGED <<plan, applied, promised>>,
           \A f \in File : date'[f].src = date[f].src
    PROVE  OnceInv'
  BY DEF OnceInv

LEMMA CountedSource ==
    ASSUME DatesInv, NEW f \in File, Counted(f)
    PROVE  date'[f].src = date[f].src
<1>1. Columns(date[f])
  BY DEF DatesInv, DatesShape
<1>2. ASSUME NEW n, date'[f] = [date[f] EXCEPT !.rev = n] PROVE date'[f].src = date[f].src
  BY <1>1, <1>2, TouchedKeeps
<1>3. CASE Resynced(date'[f], f, date[f], exif[f])
  BY <1>1, <1>3, SynchronizedCoherent
<1> QED
  BY <1>2, <1>3 DEF Counted

LEMMA SourceOfNobody ==
    ASSUME OnceInv, NEW f \in File, date[f] = NoState
    PROVE  applied[f] = 0 /\ f \notin promised
<1>1. SourceYears[f] \subseteq Nat \ {None}
  BY DatesAssumption
<1>2. date[f].src = None
  BY DEF NoState
<1> QED
  BY <1>1, <1>2 DEF OnceInv

LEMMA OnceDatesStep ==
    ASSUME DatesInv, OnceInv, DatesNext
    PROVE  OnceInv'
<1>0. ASSUME NEW f \in File PROVE Columns(date[f])
  BY DEF DatesInv, DatesShape
<1>1. ASSUME NEW F \in SUBSET File, NEW d, Override(F, d) PROVE OnceInv'
  <2>1. ASSUME NEW f \in File PROVE date'[f].src = date[f].src
    <3>1. CASE f \notin F
      BY <1>1, <3>1 DEF Override
    <3>2. CASE f \in F
      <4> DEFINE row == Synchronized(f, date[f], exif[f])
                 edit == [row EXCEPT !.user = d]
      <4>1. Columns(row) /\ row.src = date[f].src
        BY <1>0, SynchronizedProjects
      <4>2. Columns(edit) /\ edit.src = row.src
        BY <4>1 DEF Columns
      <4>3. Resynced(date'[f], f, edit, exif[f])
        BY <1>1, <3>2 DEF Override, Touched, Resynced
      <4> HIDE DEF row, edit
      <4> QED BY <4>1, <4>2, <4>3, SynchronizedCoherent
    <3> QED BY <3>1, <3>2
  <2> QED BY <1>1, <2>1, SourceKept DEF Override
<1>2. ASSUME NEW f \in File, PatchMetadata(f) PROVE OnceInv'
  <2>1. \A g \in File : Counted(g)
    BY <1>2 DEF PatchMetadata, Counted, Resynced, Touched, DatesInv, DatesShape
  <2> QED BY <1>2, <2>1, CountedSource, SourceKept DEF PatchMetadata
<1>3. ASSUME NEW w \in Workers, SessionCommit(w) PROVE OnceInv'
  <2> DEFINE s == session[w]
             f == s.file
             new == Synchronized(f, s.snap, s.original)
             row == IF s.snap = NoState THEN new ELSE WriteColumns(date[f], s.snap, new)
  <2>1. /\ f \in File /\ Columns(s.snap) /\ Columns(date[f])
        /\ s.snap = NoState => date[f] = NoState
        /\ date' = [date EXCEPT ![f] = row] /\ UNCHANGED <<plan, applied, promised>>
    BY <1>3 DEF SessionCommit, DatesInv, DatesShape, SessionOK
  <2>2. Columns(new) /\ new.src = s.snap.src
    BY <2>1, SynchronizedProjects
  <2>3. row.src = date[f].src
    BY <2>1, <2>2, WriteColumnsKeeps
  <2> HIDE DEF row, new
  <2>4. \A g \in File : date'[g].src = date[g].src
    BY <2>1, <2>3 DEF DatesInv, DatesShape
  <2> QED BY <2>1, <2>4, SourceKept
<1>4. ASSUME NEW w \in Workers,
             \/ \E f \in File : SyncRead(w, f) \/ ExifRead(w, f)
             \/ StateRead(w) \/ SessionAbort(w)
      PROVE  OnceInv'
  BY <1>4, SourceKept DEF SyncRead, ExifRead, StateRead, SessionAbort, Open
<1>5. CASE AuditAndPlan
  <2>1. ASSUME NEW f \in File, plan'[f].action # "EXCLUDE" PROVE plan'[f].year \in SourceYears[f]
    <3>1. Planned(f) /\ plan'[f] = PlanRow(f)
      BY <1>5, <2>1 DEF AuditAndPlan, NoPlanRow
    <3>2. SourceYears[f] # {}
      BY <3>1, FS_EmptySet DEF Planned, OneYear
    <3> QED BY <3>1, <3>2 DEF PlanRow
  <2> QED BY <1>5, <2>1 DEF AuditAndPlan, OnceInv
<1>6. ASSUME NEW s \in Scripts, ReconVerify(s) \/ ReconBatch(s) \/ ReconStop(s) PROVE OnceInv'
  <2>1. CASE ReconBatch(s)
    <3> DEFINE f == Min(recon[s].todo)
    <3>1. /\ f \in File /\ plan[f].action # "EXCLUDE" /\ UNCHANGED plan
          /\ promised' = promised \cup {f}
          /\ \/ date[f].src = plan[f].year /\ UNCHANGED <<date, applied>>
             \/ /\ date[f].src = None /\ applied' = [applied EXCEPT ![f] = @ + 1]
                /\ \E t : date' = [date EXCEPT ![f] = t] /\ t.src = plan[f].year
      BY <2>1, BatchWrites DEF DatesInv
    <3> HIDE DEF f
    <3>2. plan[f].year \in SourceYears[f] /\ plan[f].year # None
      BY <3>1, DatesAssumption DEF OnceInv
    <3>3. CASE date[f].src = plan[f].year /\ UNCHANGED <<date, applied>>
      BY <3>1, <3>2, <3>3 DEF OnceInv
    <3>4. ASSUME NEW t, date[f].src = None, applied' = [applied EXCEPT ![f] = @ + 1],
                 date' = [date EXCEPT ![f] = t], t.src = plan[f].year
          PROVE  OnceInv'
      <4>1. DOMAIN date = File /\ DOMAIN applied = File
        BY DEF DatesInv, DatesShape
      <4>2. applied[f] = 0 /\ applied'[f] = 1 /\ date'[f].src = plan[f].year
        BY <3>1, <3>4, <4>1 DEF OnceInv
      <4>3. ASSUME NEW g \in File, g # f PROVE applied'[g] = applied[g] /\ date'[g] = date[g]
        BY <3>4, <4>1, <4>3
      <4> QED BY <3>1, <3>2, <4>2, <4>3 DEF OnceInv
    <3> QED BY <3>1, <3>3, <3>4
  <2>2. CASE ReconVerify(s) \/ ReconStop(s)
    BY <2>2, SourceKept DEF ReconVerify, ReconStop
  <2> QED BY <1>6, <2>1, <2>2
<1>7. CASE BackfillApply
  <2> DEFINE f == CHOOSE x \in DOMAIN backfill.scan : TRUE
             fact == IF exif[f] = None THEN backfill.scan[f] ELSE exif[f]
  <2>1. /\ date' = IF f \in live THEN [date EXCEPT ![f] = Synchronized(f, @, fact)] ELSE date
        /\ UNCHANGED <<plan, applied, promised>>
    BY <1>7 DEF BackfillApply, Current
  <2> HIDE DEF f, fact
  <2>2. ASSUME NEW g \in File PROVE date'[g].src = date[g].src
    BY <1>0, <2>1, SynchronizedProjects DEF DatesInv, DatesShape
  <2> QED BY <2>1, <2>2, SourceKept
<1>8. CASE BackfillStart \/ BackfillScan \/ BackfillEnd
  BY <1>8, SourceKept DEF BackfillStart, BackfillScan, BackfillEnd
<1> QED
  BY <1>1, <1>2, <1>3, <1>4, <1>5, <1>6, <1>7, <1>8 DEF DatesNext

(* What the script's plan and its run promise together holds in every state. *)
LEMMA OnceInvariant == Spec => []OnceInv
<1>1. Init => OnceInv
  BY DEF Init, DatesInit, OnceInv, NoPlanRow
<1>2. DatesInv /\ OnceInv /\ [Next]_vars => OnceInv'
  <2> SUFFICES ASSUME DatesInv, OnceInv, [Next]_vars PROVE OnceInv'
    OBVIOUS
  <2>1. CASE DatesNext
    BY <2>1, OnceDatesStep
  <2>2. CASE TagsNext
    <3>1. DOMAIN date = File
      BY DEF DatesInv, DatesShape
    <3>2. \A f \in File : Counted(f)
      BY <2>2, <3>1, TagsCount
    <3>3. UNCHANGED <<plan, applied, promised>>
      BY <2>2, <3>1, TagsCount DEF DatesButState
    <3> QED BY <3>2, <3>3, CountedSource, SourceKept
  <2>3. CASE \E f \in File : PatchMetadata(f)
    BY <2>3, OnceDatesStep DEF DatesNext
  <2>4. CASE UNCHANGED dateVars
    BY <2>4 DEF dateVars, OnceInv
  <2>5. ASSUME NEW f \in File, UploadPhoto(f) PROVE OnceInv'
    <3>1. /\ date[f] = NoState /\ date' = [date EXCEPT ![f] = Synchronized(f, NoState, None)]
          /\ UNCHANGED <<plan, applied, promised>>
      BY <2>5 DEF UploadPhoto, DateOfNew
    <3>2. applied[f] = 0 /\ f \notin promised
      BY <3>1, SourceOfNobody
    <3>3. \A g \in File : g # f => date'[g] = date[g]
      BY <3>1 DEF DatesInv, DatesShape
    <3> QED BY <3>1, <3>2, <3>3 DEF OnceInv
  <2>6. ASSUME NEW f \in File, DeletePhoto(f) PROVE OnceInv'
    <3>1. /\ date' = [date EXCEPT ![f] = NoState] /\ applied' = [applied EXCEPT ![f] = 0]
          /\ promised' = promised \ {f} /\ UNCHANGED plan
      BY <2>6 DEF DeletePhoto, DateOfDeleted
    <3> QED BY <3>1 DEF OnceInv, DatesInv, DatesShape
  <2> QED
    BY <2>1, <2>2, <2>3, <2>4, <2>5, <2>6, LibraryDatesStep DEF DatesInv, DatesShape
<1> QED
  BY <1>1, <1>2, DatesInvariant, PTL DEF Spec

(* Reconcile, interrupted, repeated or run twice at a time, applies a      *)
(* photo's source year once, and what it counted as applied stays applied  *)
(* as long as the photo is there (_verify_context under the lock of        *)
(* apply_verified).                                                        *)
THEOREM SourceYearOnceHolds == Spec => []SourceYearOnce
<1>1. OnceInv => SourceYearOnce
  BY DEF OnceInv, SourceYearOnce
<1> QED
  BY <1>1, OnceInvariant, PTL

(***************************************************************************)
(* TAGS                                                                    *)
(***************************************************************************)

TagsShape ==
    /\ DOMAIN tag = Tag /\ \A t \in Tag : {"st", "name", "rev"} \subseteq DOMAIN tag[t]
    /\ DOMAIN relation = File /\ \A f \in File : DOMAIN relation[f] = Tag \cup TagName
    /\ DOMAIN tagwork = Workers

(* Deleting and merging lock the tag, merging also the one it goes to. *)
Locks(k) == k.op \in {"delete", "merge", "fold"}

TagsOf(k) == {k.tag, k.to} \cap Tag

HoldsLive(k) ==
    Locks(k) => /\ k.tag \in LiveTags /\ k.tag # k.to
                /\ k.op # "delete" => k.to \in LiveTags
                /\ k.op = "delete" => k.to \notin Tag

(* Photos of a tag that are not strays. *)
OnTag(f, t) == relation[f][t] = "on" /\ <<f, t>> \notin stray

(* The commit of a deletion or merge takes every photo of the tag along:   *)
(* those it has read.  It may rely on that as the tag is locked, and what  *)
(* is assigned past the lock is a stray.                                   *)
ReadsAll(k) == Locks(k) => \A f \in File : OnTag(f, k.tag) => f \in DOMAIN k.rev

TagsInv ==
    /\ TagsShape
    /\ \A f \in File, t \in Tag : OnTag(f, t) => tag[t].st = "live"
    /\ \A w \in Workers : HoldsLive(tagwork[w]) /\ ReadsAll(tagwork[w])
    /\ \A v, w \in Workers : v # w /\ Locks(tagwork[v]) /\ Locks(tagwork[w]) =>
          TagsOf(tagwork[v]) \cap TagsOf(tagwork[w]) = {}

----------------------------------------------------------------------------
LEMMA LockedTag ==
    ASSUME NEW t \in Tag
    PROVE  Locked(t) <=> \E w \in Workers : Locks(tagwork[w]) /\ t \in TagsOf(tagwork[w])
  BY DEF Locked, Locks, Holding, TagsOf

(* No deletion and no merge of the tag is open after the step. *)
FreeAfter(t) == \A w \in Workers : Locks(tagwork'[w]) => t \notin TagsOf(tagwork'[w])

(* A step that puts no photo on a tag but where it is a stray or the tag   *)
(* is live and nobody's, that ends a tag only when no photo and no session *)
(* has it any more, and that opens no deletion and no merge.               *)
LEMMA TagsKept ==
    ASSUME TagsInv, TagsShape',
           \A w \in Workers : tagwork'[w] = tagwork[w] \/ ~Locks(tagwork'[w]),
           \A t \in Tag : tag[t].st = "live" =>
              tag'[t].st = "live" \/ (FreeAfter(t) /\ \A f \in File : ~OnTag(f, t)'),
           \A f \in File, t \in Tag :
              OnTag(f, t)' => OnTag(f, t) \/ (tag'[t].st = "live" /\ FreeAfter(t))
    PROVE  TagsInv'
<1>1. ASSUME NEW f \in File, NEW t \in Tag, OnTag(f, t)' PROVE tag'[t].st = "live"
  BY <1>1 DEF TagsInv
<1>2. ASSUME NEW w \in Workers, Locks(tagwork'[w]) PROVE tagwork'[w] = tagwork[w]
  BY <1>2
<1>3. ASSUME NEW w \in Workers, Locks(tagwork'[w])
      PROVE  HoldsLive(tagwork[w])' /\ ReadsAll(tagwork[w])'
  <2>1. tagwork'[w] = tagwork[w] /\ Locks(tagwork[w])
    BY <1>2, <1>3
  <2>2. HoldsLive(tagwork[w]) /\ ReadsAll(tagwork[w])
    BY DEF TagsInv
  <2>3. \A t \in TagsOf(tagwork[w]) : ~FreeAfter(t)
    BY <1>3, <2>1 DEF FreeAfter
  <2>4. \A t \in TagsOf(tagwork[w]) : t \in LiveTags => tag'[t].st = "live"
    BY <2>3 DEF TagsOf, LiveTags
  <2>5. HoldsLive(tagwork[w])'
    BY <2>1, <2>2, <2>4 DEF HoldsLive, LiveTags, TagsOf
  <2>6. tagwork[w].tag \in TagsOf(tagwork[w])
    BY <2>1, <2>2 DEF HoldsLive, LiveTags, TagsOf
  <2>7. ReadsAll(tagwork[w])'
    BY <2>1, <2>2, <2>3, <2>6 DEF ReadsAll, TagsOf
  <2> QED BY <2>5, <2>7
<1>4. \A w \in Workers : HoldsLive(tagwork[w])' /\ ReadsAll(tagwork[w])'
  BY <1>3 DEF HoldsLive, ReadsAll
<1>5. ASSUME NEW v \in Workers, NEW w \in Workers, v # w, Locks(tagwork'[v]), Locks(tagwork'[w])
      PROVE  TagsOf(tagwork'[v]) \cap TagsOf(tagwork'[w]) = {}
  BY <1>2, <1>5 DEF TagsInv
<1> QED
  BY <1>1, <1>4, <1>5 DEF TagsInv

LEMMA FreeTag ==
    ASSUME NEW t \in Tag, ~Locked(t),
           \A w \in Workers : tagwork'[w] = tagwork[w] \/ ~Locks(tagwork'[w])
    PROVE  FreeAfter(t)
  BY LockedTag DEF FreeAfter

(* Steps that leave the relations alone, or only take photos off a tag,    *)
(* and let the tags live.                                                  *)
LEMMA NothingAdded ==
    ASSUME TagsInv, TagsShape',
           \A w \in Workers : tagwork'[w] = tagwork[w] \/ ~Locks(tagwork'[w]),
           \A t \in Tag : tag[t].st = "live" => tag'[t].st = "live",
           \A f \in File, t \in Tag : OnTag(f, t)' => OnTag(f, t)
    PROVE  TagsInv'
  BY TagsKept

(* The catalog without the end of a tag. *)
LEMMA CatalogTags ==
    ASSUME TagsInv,
           \/ TagCreate
           \/ \E t \in Tag, n \in TagName : TagUpdate(t, n)
           \/ \E w \in Workers :
                 \/ \E t \in Tag : AssignRead(w, t)
                 \/ \E t \in Tag, n \in TagName : CatalogRename(w, t, n)
                 \/ CatalogLink(w) \/ TagAbort(w)
           \/ \E f \in File, c \in Canonical : HideLabel(f, c) \/ RestoreLabel(f, c) \/ SaveAiTag(f, c)
           \/ \E c \in Canonical : CatalogSuppress(c)
    PROVE  TagsInv'
<1>1. UNCHANGED <<relation, stray>>
  BY DEF TagCreate, TagUpdate, AssignRead, OpenTags, CatalogRename, CatalogLink, TagAbort, HideLabel,
         RestoreLabel, SaveAiTag, CatalogSuppress
<1>2. \A w \in Workers : tagwork'[w] = tagwork[w] \/ ~Locks(tagwork'[w])
  <2>0. DOMAIN tagwork = Workers
    BY DEF TagsInv, TagsShape
  <2>1. ASSUME NEW w \in Workers, NEW t, AssignRead(w, t)
        PROVE  \A v \in Workers : tagwork'[v] = tagwork[v] \/ ~Locks(tagwork'[v])
    BY <2>0, <2>1 DEF AssignRead, OpenTags, Locks, NoTagWork
  <2>2. ASSUME NEW w \in Workers, NEW t, NEW n, CatalogRename(w, t, n)
        PROVE  \A v \in Workers : tagwork'[v] = tagwork[v] \/ ~Locks(tagwork'[v])
    BY <2>0, <2>2 DEF CatalogRename, Locks, NoTagWork
  <2>3. ASSUME NEW w \in Workers, CatalogLink(w) \/ TagAbort(w)
        PROVE  \A v \in Workers : tagwork'[v] = tagwork[v] \/ ~Locks(tagwork'[v])
    BY <2>0, <2>3 DEF CatalogLink, TagAbort, Locks, NoTagWork
  <2>4. CASE UNCHANGED tagwork
    BY <2>4
  <2> QED
    BY <2>1, <2>2, <2>3, <2>4 DEF TagCreate, TagUpdate, HideLabel, RestoreLabel, SaveAiTag, CatalogSuppress
<1>3. DOMAIN tagwork' = Workers
  BY DEF TagCreate, TagUpdate, AssignRead, OpenTags, CatalogRename, CatalogLink, TagAbort, HideLabel,
         RestoreLabel, SaveAiTag, CatalogSuppress, TagsInv, TagsShape
<1>4. /\ DOMAIN tag' = Tag
      /\ \A t \in Tag : /\ {"st", "name", "rev"} \subseteq DOMAIN tag'[t]
                        /\ tag[t].st = "live" => tag'[t].st = "live"
  <2>1. CASE TagCreate
    BY <2>1 DEF TagCreate, TagsInv, TagsShape
  <2>2. ASSUME NEW t \in Tag, NEW n, tag' = [tag EXCEPT ![t].name = n, ![t].rev = @ + 1]
        PROVE  <1>4!1 /\ <1>4!2
    BY <2>2 DEF TagsInv, TagsShape
  <2>3. CASE tag' = tag
    BY <2>3 DEF TagsInv, TagsShape
  <2> QED
    BY <2>1, <2>2, <2>3 DEF TagUpdate, AssignRead, OpenTags, CatalogRename, CatalogLink, TagAbort,
       HideLabel, RestoreLabel, SaveAiTag, CatalogSuppress
<1>5. TagsShape'
  BY <1>1, <1>3, <1>4 DEF TagsInv, TagsShape
<1>6. \A f \in File, t \in Tag : OnTag(f, t)' => OnTag(f, t)
  BY <1>1 DEF OnTag
<1> QED
  BY <1>2, <1>4, <1>5, <1>6, NothingAdded

LEMMA AdoptTags ==
    ASSUME TagsInv, NEW w \in Workers, NEW c \in Canonical, NEW n \in TagName, CatalogAdopt(w, c, n)
    PROVE  TagsInv'
<1> DEFINE free == {t \in Tag : tag[t].st = "none"}
           found == IF Named(n) # {} THEN Named(n) ELSE free
           t == CHOOSE t \in found : TRUE
<1>1. t \in Tag
  BY DEF CatalogAdopt, Named
<1>2. tag' = tag \/ \E row : /\ tag' = [tag EXCEPT ![t] = row] /\ row.st = "live"
                             /\ {"st", "name", "rev"} \subseteq DOMAIN row
  <2>1. CASE t \in LiveTags
    BY <2>1 DEF CatalogAdopt
  <2>2. CASE t \notin LiveTags
    <3> DEFINE row == [st |-> "live", name |-> n, rev |-> tag[t].rev + 1]
    <3>1. tag' = [tag EXCEPT ![t] = row] /\ row.st = "live" /\ {"st", "name", "rev"} \subseteq DOMAIN row
      BY <2>2 DEF CatalogAdopt
    <3> HIDE DEF row, t
    <3> QED BY <3>1
  <2> QED BY <2>1, <2>2
<1> HIDE DEF t
<1>3. /\ DOMAIN tag' = Tag
      /\ \A u \in Tag : /\ {"st", "name", "rev"} \subseteq DOMAIN tag'[u]
                        /\ tag[u].st = "live" => tag'[u].st = "live"
  BY <1>1, <1>2 DEF TagsInv, TagsShape
<1>4. UNCHANGED <<relation, stray>> /\ DOMAIN tagwork' = Workers
      /\ \A v \in Workers : tagwork'[v] = tagwork[v] \/ ~Locks(tagwork'[v])
  BY DEF CatalogAdopt, TagsInv, TagsShape, NoTagWork, Locks
<1>5. TagsShape' /\ \A f \in File, u \in Tag : OnTag(f, u)' => OnTag(f, u)
  BY <1>3, <1>4 DEF TagsInv, TagsShape, OnTag
<1> QED
  BY <1>3, <1>4, <1>5, NothingAdded

----------------------------------------------------------------------------
(* Photos come on tags. *)

(* One photo's relation with one tag is made; whoever holds the tag makes  *)
(* it a stray.                                                             *)
LEMMA OnePhotoTags ==
    ASSUME TagsInv, NEW f \in File, NEW t,
           relation' = Regained(f, t), UNCHANGED tag,
           DOMAIN tagwork' = Workers,
           \A w \in Workers : tagwork'[w] = tagwork[w] \/ ~Locks(tagwork'[w]),
           stray \subseteq stray',
           t \in Tag => (t \in LiveTags /\ ~Locked(t)) \/ <<f, t>> \in stray'
    PROVE  TagsInv'
<1>1. ASSUME NEW g \in File, NEW u \in Tag, OnTag(g, u)', ~OnTag(g, u) PROVE g = f /\ u = t
  BY <1>1 DEF OnTag, Regained, TagsInv, TagsShape
<1>2. TagsShape'
  BY DEF Regained, TagsInv, TagsShape
<1>3. ASSUME NEW g \in File, NEW u \in Tag, OnTag(g, u)', ~OnTag(g, u)
      PROVE  tag'[u].st = "live" /\ FreeAfter(u)
  <2>1. u = t /\ u \in LiveTags /\ ~Locked(u)
    BY <1>1, <1>3 DEF OnTag
  <2> QED BY <2>1, FreeTag DEF LiveTags
<1> QED
  BY <1>2, <1>3, TagsKept

LEMMA AssignTags ==
    ASSUME TagsInv, NEW w \in Workers, NEW f \in File, AssignCommit(w, f)
    PROVE  TagsInv'
<1> DEFINE t == tagwork[w].tag
<1>1. /\ relation' = Regained(f, t) /\ UNCHANGED tag
      /\ stray' = IF t \in LiveTags /\ ~Locked(t) THEN stray ELSE stray \cup {<<f, t>>}
      /\ tagwork' = [tagwork EXCEPT ![w] = NoTagWork]
  BY DEF AssignCommit
<1>2. DOMAIN tagwork' = Workers /\ \A v \in Workers : tagwork'[v] = tagwork[v] \/ ~Locks(tagwork'[v])
  BY <1>1 DEF TagsInv, TagsShape, Locks, NoTagWork
<1> HIDE DEF t
<1> QED
  BY <1>1, <1>2, OnePhotoTags

LEMMA RestoreTags ==
    ASSUME TagsInv, NEW f \in File, NEW t \in Tag, RestoreTag(f, t)
    PROVE  TagsInv'
<1>1. /\ relation' = Regained(f, t) /\ UNCHANGED <<tag, tagwork>> /\ t \in LiveTags
      /\ stray' = IF Locked(t) THEN stray \cup {<<f, t>>} ELSE stray
  BY DEF RestoreTag
<1> QED
  BY <1>1, OnePhotoTags DEF TagsInv, TagsShape

(* ... and off: only the stray that goes is taken from the history. *)
LEMMA DroppedTags ==
    ASSUME TagsInv, NEW f \in File, NEW t \in Tag, TagRemove(f, t) \/ HideTag(f, t)
    PROVE  TagsInv'
<1>1. /\ relation' = Dropped(f, t) /\ UNCHANGED <<tag, tagwork>>
      /\ stray' = stray \/ (stray' = stray \ {<<f, t>>} /\ relation[f][t] = "on")
  BY DEF TagRemove, HideTag
<1>2. TagsShape'
  BY <1>1 DEF Dropped, TagsInv, TagsShape
<1>3. ASSUME NEW g \in File, NEW u \in Tag, OnTag(g, u)' PROVE OnTag(g, u)
  BY <1>1, <1>3 DEF OnTag, Dropped, TagsInv, TagsShape
<1> QED
  BY <1>1, <1>2, <1>3, NothingAdded

(* A bare name's relation is no tag's. *)
LEMMA PhotoNames ==
    ASSUME TagsInv, NEW f \in File, NEW n \in TagName, HideName(f, n) \/ RestoreName(f, n)
    PROVE  TagsInv'
<1>1. /\ UNCHANGED <<tag, tagwork, stray>> /\ n \notin Tag
      /\ \E m : relation' = [relation EXCEPT ![f][n] = m]
  BY TagsAssumption DEF HideName, RestoreName, Dropped
<1>2. TagsShape'
  BY <1>1 DEF TagsInv, TagsShape
<1>3. ASSUME NEW g \in File, NEW u \in Tag, OnTag(g, u)' PROVE OnTag(g, u)
  BY <1>1, <1>3 DEF OnTag, TagsInv, TagsShape
<1> QED
  BY <1>1, <1>2, <1>3, NothingAdded

(* A bare name's photos become the tag's; a name's are deleted. *)
LEMMA NameTags ==
    ASSUME TagsInv, NEW n \in TagName,
           CatalogDeleteName(n) \/ \E t \in Tag : PromoteLegacy(n, t)
    PROVE  TagsInv'
<1>1. CASE CatalogDeleteName(n)
  <2>1. TagsShape' /\ UNCHANGED <<tag, tagwork>>
    BY <1>1 DEF CatalogDeleteName, TagsInv, TagsShape
  <2>2. ASSUME NEW g \in File, NEW u \in Tag, OnTag(g, u)' PROVE OnTag(g, u)
    BY <1>1, <2>2 DEF CatalogDeleteName, OnTag, TagsInv, TagsShape
  <2> QED BY <2>1, <2>2, NothingAdded
<1>2. ASSUME NEW t \in Tag, PromoteLegacy(n, t) PROVE TagsInv'
  <2> DEFINE F == {f \in File : relation[f][n] = "on"}
  <2>1. /\ t \in LiveTags /\ UNCHANGED <<tag, tagwork>>
        /\ relation' = [f \in File |-> IF f \in F THEN [relation[f] EXCEPT ![n] = "none", ![t] = "on"]
                                       ELSE relation[f]]
        /\ stray' = IF Locked(t) THEN stray \cup (F \X {t}) ELSE stray
    BY <1>2 DEF PromoteLegacy
  <2>2. TagsShape'
    BY <2>1 DEF TagsInv, TagsShape
  <2>3. ASSUME NEW g \in File, NEW u \in Tag, OnTag(g, u)', ~OnTag(g, u)
        PROVE  tag'[u].st = "live" /\ FreeAfter(u)
    <3>1. u = t /\ g \in F
      BY <2>1, <2>3 DEF OnTag, TagsInv, TagsShape
    <3>2. ~Locked(t)
      BY <2>1, <2>3, <3>1 DEF OnTag
    <3> QED BY <2>1, <3>1, <3>2, FreeTag DEF LiveTags
  <2> QED BY <2>1, <2>2, <2>3, TagsKept
<1> QED BY <1>1, <1>2

----------------------------------------------------------------------------
(* Sessions that delete and merge. *)

LEMMA OpenLock ==
    ASSUME TagsInv, NEW w \in Workers, NEW k, tagwork' = [tagwork EXCEPT ![w] = k],
           UNCHANGED <<tag, relation, stray>>,
           Locks(k), HoldsLive(k), ReadsAll(k), \A t \in TagsOf(k) : ~Locked(t)
    PROVE  TagsInv'
<1>1. TagsShape' /\ tagwork'[w] = k /\ \A v \in Workers \ {w} : tagwork'[v] = tagwork[v]
  BY DEF TagsInv, TagsShape
<1>2. \A f \in File, t \in Tag : OnTag(f, t)' => tag'[t].st = "live"
  BY DEF TagsInv, OnTag
<1>3. ASSUME NEW v \in Workers PROVE HoldsLive(tagwork[v])' /\ ReadsAll(tagwork[v])'
  <2>1. HoldsLive(tagwork'[v]) /\ ReadsAll(tagwork'[v])
    BY <1>1 DEF TagsInv
  <2> QED BY <2>1 DEF HoldsLive, ReadsAll, LiveTags, OnTag
<1>4. ASSUME NEW v \in Workers, v # w, Locks(tagwork[v]) PROVE TagsOf(tagwork[v]) \cap TagsOf(k) = {}
  BY <1>4, LockedTag DEF TagsOf
<1>5. ASSUME NEW u \in Workers, NEW v \in Workers, u # v, Locks(tagwork'[u]), Locks(tagwork'[v])
      PROVE  TagsOf(tagwork'[u]) \cap TagsOf(tagwork'[v]) = {}
  BY <1>1, <1>4, <1>5 DEF TagsInv
<1> QED
  BY <1>1, <1>2, <1>3, <1>5 DEF TagsInv

(* What a session that deletes or merges has read. *)
ReadWork(op, s, t, keys, adds) ==
    [NoTagWork EXCEPT !.op = op, !.tag = s, !.to = t, !.keys = keys, !.adds = adds,
       !.rev = [f \in On(s) |-> date[f].rev],
       !.had = {f \in On(s) : t \in Tag /\ relation[f][t] = "on"}]

LEMMA ReadFields ==
    ASSUME NEW op, NEW s, NEW t, NEW keys, NEW adds
    PROVE  /\ ReadWork(op, s, t, keys, adds).op = op
           /\ ReadWork(op, s, t, keys, adds).tag = s
           /\ ReadWork(op, s, t, keys, adds).to = t
           /\ ReadWork(op, s, t, keys, adds).keys = keys
           /\ ReadWork(op, s, t, keys, adds).rev = [f \in On(s) |-> date[f].rev]
  BY DEF ReadWork, NoTagWork

(* The handlers that open one. *)
Opens(w, op, s, t, keys, adds) ==
    /\ OpenTags(w, ReadWork(op, s, t, keys, adds)) /\ s \in LiveTags /\ ~Locked(s) /\ s # t
    /\ \/ op = "delete" /\ t \notin Tag
       \/ op \in {"merge", "fold"} /\ t \in LiveTags /\ ~Locked(t)
    /\ op = "fold" => keys = References(s)

LEMMA ReadOpens ==
    ASSUME NEW w,
           \/ \E t \in Tag : TagDeleteRead(w, t) \/ CatalogDeleteRead(w, t)
           \/ \E s, t \in Tag : TagMergeRead(w, s, t) \/ CatalogMergeRead(w, s, t)
    PROVE  \E op, s, t, keys, adds : Opens(w, op, s, t, keys, adds)
<1>1. NoTag \notin Tag
  BY TagsAssumption
<1>2. ASSUME NEW t \in Tag, TagDeleteRead(w, t) PROVE Opens(w, "delete", t, NoTag, {}, << >>)
  BY <1>1, <1>2 DEF TagDeleteRead, Read, ReadWork, Opens
<1>3. ASSUME NEW t \in Tag, CatalogDeleteRead(w, t) PROVE Opens(w, "delete", t, NoTag, References(t), << >>)
  BY <1>1, <1>3 DEF CatalogDeleteRead, Read, ReadWork, Opens
<1>4. ASSUME NEW s \in Tag, NEW t \in Tag, TagMergeRead(w, s, t) PROVE Opens(w, "merge", s, t, {}, << >>)
  BY <1>4 DEF TagMergeRead, Read, ReadWork, Opens
<1>5. ASSUME NEW s \in Tag, NEW t \in Tag, CatalogMergeRead(w, s, t)
      PROVE  Opens(w, "fold", s, t, References(s), Unpropagated(References(s) \cup References(t)))
  BY <1>5 DEF CatalogMergeRead, Read, ReadWork, Opens
<1> QED
  BY <1>2, <1>3, <1>4, <1>5, Zenon

LEMMA ReadTags ==
    ASSUME TagsInv, NEW w \in Workers,
           \/ \E t \in Tag : TagDeleteRead(w, t) \/ CatalogDeleteRead(w, t)
           \/ \E s, t \in Tag : TagMergeRead(w, s, t) \/ CatalogMergeRead(w, s, t)
    PROVE  TagsInv'
<1>1. PICK op, s, t, keys, adds : Opens(w, op, s, t, keys, adds)
  BY ReadOpens
<1> DEFINE k == ReadWork(op, s, t, keys, adds)
<1>2. tagwork' = [tagwork EXCEPT ![w] = k] /\ UNCHANGED <<tag, relation, stray>>
  BY <1>1 DEF Opens, OpenTags
<1>3. k.op = op /\ k.tag = s /\ k.to = t /\ k.rev = [f \in On(s) |-> date[f].rev]
  BY ReadFields
<1> HIDE DEF k
<1>4. Locks(k) /\ HoldsLive(k)
  BY <1>1, <1>3 DEF Opens, Locks, HoldsLive
<1>5. ReadsAll(k)
  BY <1>3 DEF ReadsAll, OnTag, On
<1>6. \A u \in TagsOf(k) : ~Locked(u)
  BY <1>1, <1>3 DEF Opens, TagsOf
<1> QED BY <1>2, <1>4, <1>5, <1>6, OpenLock

(* The session that a merge of the catalog leaves to link once more. *)
LinkWork(k) == [NoTagWork EXCEPT !.op = "link", !.tag = k.to, !.to = k.tag, !.keys = k.keys]

LEMMA LinkFields ==
    ASSUME NEW k
    PROVE  /\ LinkWork(k).op = "link" /\ LinkWork(k).tag = k.to /\ LinkWork(k).to = k.tag
           /\ NoTagWork.op = "idle" /\ NoTagWork.had = {}
           /\ ~Locks(LinkWork(k)) /\ ~Locks(NoTagWork)
  BY DEF LinkWork, NoTagWork, Locks

(* The commit of a session that holds its tags. *)
Ends(w) == TagDeleteCommit(w) \/ TagMergeCommit(w) \/ CatalogMergeCommit(w)

LEMMA EndsWork ==
    ASSUME NEW w, Ends(w)
    PROVE  /\ Locks(tagwork[w]) /\ Revisions(w) /\ stray' = stray /\ label' = label
           /\ \E k : /\ tagwork' = [tagwork EXCEPT ![w] = k]
                     /\ k = NoTagWork \/ (CatalogMergeCommit(w) /\ k = LinkWork(tagwork[w]))
<1>1. CASE TagDeleteCommit(w)
  BY <1>1 DEF TagDeleteCommit, Locks
<1>2. CASE TagMergeCommit(w)
  BY <1>2 DEF TagMergeCommit, MergeTags, Locks
<1>3. CASE CatalogMergeCommit(w)
  BY <1>3 DEF CatalogMergeCommit, MergeTags, LinkWork, Locks
<1> QED BY <1>1, <1>2, <1>3 DEF Ends

(* A deletion or a merge takes every photo off its tag; a merge puts them  *)
(* on the other, which it has locked, too.                                 *)
LEMMA EndTags ==
    ASSUME TagsInv, NEW w \in Workers, Ends(w)
    PROVE  TagsInv'
<1> DEFINE k == tagwork[w]
<1>0. PICK s, to, F : s = k.tag /\ to = k.to /\ F = DOMAIN k.rev
  OBVIOUS
<1>1. Locks(k) /\ HoldsLive(k) /\ ReadsAll(k)
  BY EndsWork DEF TagsInv
<1>2. PICK next : /\ tagwork' = [tagwork EXCEPT ![w] = next] /\ ~Locks(next)
                  /\ s \in Tag /\ s # to /\ stray' = stray
  BY <1>0, <1>1, EndsWork, LinkFields DEF HoldsLive, LiveTags
<1>3. \A v \in Workers : \/ v = w /\ ~Locks(tagwork'[v])
                         \/ v # w /\ tagwork'[v] = tagwork[v]
  BY <1>2 DEF TagsInv, TagsShape
<1>4. \A t \in TagsOf(k) : FreeAfter(t)
  BY <1>1, <1>3 DEF FreeAfter, TagsInv
<1>5. DOMAIN relation = File /\ \A f \in File : DOMAIN relation[f] = Tag \cup TagName
  BY DEF TagsInv, TagsShape
<1>e. \A f \in File : OnTag(f, s) => f \in F
  BY <1>0, <1>1 DEF ReadsAll
<1>r. \/ relation' = [f \in File |-> IF f \in F THEN [relation[f] EXCEPT ![s] = "off"] ELSE relation[f]]
      \/ /\ k.op # "delete" /\ to \in Tag
         /\ relation' = [f \in File |->
              IF f \in F THEN [relation[f] EXCEPT ![s] = "off", ![to] = IF f \in k.had THEN @ ELSE "on"]
              ELSE relation[f]]
  BY <1>0, <1>1 DEF Ends, TagDeleteCommit, TagMergeCommit, CatalogMergeCommit, MergeTags, HoldsLive, LiveTags
<1>6. /\ DOMAIN relation' = File /\ \A f \in File : DOMAIN relation'[f] = Tag \cup TagName
      /\ \A f \in File : ~OnTag(f, s)'
      /\ \A f \in File, t \in Tag : OnTag(f, t)' => OnTag(f, t) \/ (k.op # "delete" /\ t = to)
  <2>0. s \in Tag /\ s # to /\ stray' = stray
    BY <1>2
  <2>1. DOMAIN relation' = File
    BY <1>r
  <2>2. ASSUME NEW f \in File
        PROVE  /\ DOMAIN relation'[f] = Tag \cup TagName /\ ~OnTag(f, s)'
               /\ \A t \in Tag : OnTag(f, t)' => OnTag(f, t) \/ (k.op # "delete" /\ t = to)
    <3>1. DOMAIN relation[f] = Tag \cup TagName /\ (OnTag(f, s) => f \in F)
      BY <1>5, <1>e
    <3>2. CASE f \in F
      <4>1. CASE relation'[f] = [relation[f] EXCEPT ![s] = "off"]
        BY <2>0, <3>1, <3>2, <4>1 DEF OnTag
      <4>2. CASE /\ k.op # "delete"
                 /\ \E m : relation'[f] = [relation[f] EXCEPT ![s] = "off", ![to] = m]
        <5>1. /\ DOMAIN relation'[f] = Tag \cup TagName /\ relation'[f][s] = "off"
              /\ \A t \in Tag : t # s /\ t # to => relation'[f][t] = relation[f][t]
          BY <2>0, <3>1, <4>2
        <5> QED BY <2>0, <4>2, <5>1 DEF OnTag
      <4>3. CASE /\ k.op # "delete"
                 /\ relation'[f] = [relation[f] EXCEPT ![s] = "off",
                                                      ![to] = IF f \in k.had THEN @ ELSE "on"]
        BY <4>2, <4>3
      <4> QED BY <1>r, <3>2, <4>1, <4>3
    <3>3. CASE f \notin F
      <4>1. relation'[f] = relation[f]
        BY <1>r, <3>3
      <4> QED BY <2>0, <3>1, <3>3, <4>1 DEF OnTag
    <3> QED BY <3>2, <3>3
  <2> QED BY <2>1, <2>2
<1>7. /\ DOMAIN tag' = Tag
      /\ \A t \in Tag : /\ {"st", "name", "rev"} \subseteq DOMAIN tag'[t]
                        /\ t # s /\ tag[t].st = "live" => tag'[t].st = "live"
  <2>1. CASE TagDeleteCommit(w)
    BY <1>0, <2>1 DEF TagDeleteCommit, TagsInv, TagsShape
  <2>2. CASE MergeTags(w)
    BY <1>0, <2>2 DEF MergeTags, TagsInv, TagsShape
  <2> QED BY <2>1, <2>2 DEF Ends, TagMergeCommit, CatalogMergeCommit
<1>8. TagsShape'
  BY <1>2, <1>6, <1>7 DEF TagsInv, TagsShape
<1>9. k.op # "delete" => to \in Tag /\ tag'[to].st = "live" /\ FreeAfter(to)
  BY <1>0, <1>1, <1>2, <1>4, <1>7 DEF HoldsLive, LiveTags, TagsOf
<1>10. FreeAfter(s)
  BY <1>0, <1>2, <1>4 DEF TagsOf
<1>11. \A v \in Workers : tagwork'[v] = tagwork[v] \/ ~Locks(tagwork'[v])
  BY <1>3
<1>12. \A t \in Tag : tag[t].st = "live" =>
          tag'[t].st = "live" \/ (FreeAfter(t) /\ \A f \in File : ~OnTag(f, t)')
  BY <1>6, <1>7, <1>10
<1>13. \A f \in File, t \in Tag :
          OnTag(f, t)' => OnTag(f, t) \/ (tag'[t].st = "live" /\ FreeAfter(t))
  BY <1>6, <1>9
<1> HIDE DEF k
<1> QED
  BY <1>8, <1>11, <1>12, <1>13, TagsKept

LEMMA TagsStep ==
    ASSUME TagsInv, TagsNext
    PROVE  TagsInv'
<1>1. CASE \/ TagCreate
           \/ \E t \in Tag, n \in TagName : TagUpdate(t, n)
           \/ \E w \in Workers :
                 \/ \E t \in Tag : AssignRead(w, t)
                 \/ \E t \in Tag, n \in TagName : CatalogRename(w, t, n)
                 \/ CatalogLink(w) \/ TagAbort(w)
           \/ \E f \in File, c \in Canonical : HideLabel(f, c) \/ RestoreLabel(f, c) \/ SaveAiTag(f, c)
           \/ \E c \in Canonical : CatalogSuppress(c)
  BY <1>1, CatalogTags
<1>2. CASE \E t \in Tag, n \in TagName : PromoteLegacy(n, t)
  BY <1>2, NameTags
<1>3. CASE \E n \in TagName : CatalogDeleteName(n)
  BY <1>3, NameTags
<1>4. CASE \E w \in Workers : \/ \E t \in Tag : TagDeleteRead(w, t) \/ CatalogDeleteRead(w, t)
                              \/ \E s, t \in Tag : TagMergeRead(w, s, t) \/ CatalogMergeRead(w, s, t)
  BY <1>4, ReadTags
<1>5. CASE \E w \in Workers : TagDeleteCommit(w) \/ TagMergeCommit(w) \/ CatalogMergeCommit(w)
  BY <1>5, EndTags DEF Ends
<1>6. CASE \E f \in File, n \in TagName : HideName(f, n) \/ RestoreName(f, n)
  BY <1>6, PhotoNames
<1>7. CASE \E w \in Workers : \E c \in Canonical, n \in TagName : CatalogAdopt(w, c, n)
  BY <1>7, AdoptTags
<1>8. CASE \E w \in Workers : \E f \in File : AssignCommit(w, f)
  BY <1>8, AssignTags
<1>9. CASE \E f \in File, t \in Tag : TagRemove(f, t) \/ HideTag(f, t) \/ RestoreTag(f, t)
  BY <1>9, DroppedTags, RestoreTags
<1> QED
  BY <1>1, <1>2, <1>3, <1>4, <1>5, <1>6, <1>7, <1>8, <1>9, ZenonT(40) DEF TagsNext

(* What the steps of the library are to the tags. *)
LEMMA LibraryTagsStep ==
    ASSUME [Next]_vars
    PROVE  \/ UNCHANGED tagVars \/ TagsNext
           \/ \E f \in File : TagsOfDeleted(f)
  BY DEF Next, vars, tagVars, UploadPhoto, DeletePhoto

LEMMA TagsInvariant == Spec => []TagsInv
<1>1. Init => TagsInv
  <2> SUFFICES ASSUME Init PROVE TagsInv
    OBVIOUS
  <2>1. /\ tag \in [Tag -> {NoTagRow} \cup {[st |-> "live", name |-> n, rev |-> 1] : n \in TagName}]
        /\ relation \in [File -> [Tag \cup TagName -> {"none", "on"}]]
        /\ \A f \in File, k \in Tag \cup TagName : relation[f][k] = "on" => k \in TagName \cup LiveTags
        /\ tagwork = [w \in Workers |-> NoTagWork]
    BY DEF Init, TagsInit
  <2>2. ASSUME NEW t \in Tag PROVE {"st", "name", "rev"} \subseteq DOMAIN tag[t]
    BY <2>1 DEF NoTagRow
  <2>3. ASSUME NEW f \in File, NEW t \in Tag, relation[f][t] = "on" PROVE tag[t].st = "live"
    BY <2>1, <2>3, TagsAssumption DEF LiveTags
  <2>4. \A w \in Workers : ~Locks(tagwork[w])
    BY <2>1 DEF Locks, NoTagWork
  <2>5. TagsShape
    BY <2>1, <2>2 DEF TagsShape
  <2> QED
    BY <2>3, <2>4, <2>5 DEF TagsInv, OnTag, HoldsLive, ReadsAll
<1>2. TagsInv /\ [Next]_vars => TagsInv'
  <2> SUFFICES ASSUME TagsInv, [Next]_vars PROVE TagsInv'
    OBVIOUS
  <2>1. CASE UNCHANGED tagVars
    <3>1. UNCHANGED <<tag, relation, tagwork, stray>>
      BY <2>1 DEF tagVars
    <3> QED
      BY <3>1 DEF TagsInv, TagsShape, HoldsLive, ReadsAll, OnTag, LiveTags
  <2>2. CASE TagsNext
    BY <2>2, TagsStep
  <2>3. ASSUME NEW f \in File, TagsOfDeleted(f) PROVE TagsInv'
    <3>1. /\ UNCHANGED <<tag, tagwork>>
          /\ relation' = [relation EXCEPT ![f] = [k \in Tag \cup TagName |-> "none"]]
          /\ \A g \in File, t \in Tag : g # f /\ <<g, t>> \in stray => <<g, t>> \in stray'
      BY <2>3 DEF TagsOfDeleted
    <3>2. TagsShape'
      BY <3>1 DEF TagsInv, TagsShape
    <3>3. ASSUME NEW g \in File, NEW t \in Tag, OnTag(g, t)' PROVE OnTag(g, t)
      <4>1. g # f /\ relation'[g] = relation[g]
        BY <3>1, <3>3 DEF OnTag, TagsInv, TagsShape
      <4> QED BY <3>1, <3>3, <4>1 DEF OnTag
    <3> QED BY <3>1, <3>2, <3>3, NothingAdded
  <2> QED BY <2>1, <2>2, <2>3, LibraryTagsStep
<1> QED
  BY <1>1, <1>2, PTL DEF Spec

(* A deleted or merged tag is on no photo, except where an assignment read *)
(* the tag before it went and wrote after that: deleting and merging lock  *)
(* the tag, and take along every photo that is on it.                      *)
THEOREM DeletedTagsUnusedHolds == Spec => []DeletedTagsUnused
<1>1. TagsInv /\ live \subseteq File => DeletedTagsUnused
  BY DEF TagsInv, DeletedTagsUnused, OnTag
<1>2. DatesInv => live \subseteq File
  BY DEF DatesInv, DatesShape
<1> QED
  BY <1>1, <1>2, TagsInvariant, DatesInvariant, PTL

----------------------------------------------------------------------------
(* Renaming.                                                               *)

(* An override links its key to a tag, hides it, or is not there.          *)
OverrideOK(o) ==
    \/ o = NoOverride \/ o = [st |-> "hidden", tag |-> NoTag]
    \/ \E t \in Tag : o = [st |-> "link", tag |-> t]

LinksInv ==
    /\ DOMAIN override = Canonical /\ \A c \in Canonical : OverrideOK(override[c])
    /\ DOMAIN hidden = File
    /\ \A w \in Workers : tagwork[w].op \in {"link", "adopt"} => tagwork[w].tag \in Tag

(* What the catalog writes are overrides. *)
LEMMA LinkedOK ==
    ASSUME LinksInv, NEW C, NEW t \in Tag
    PROVE  /\ DOMAIN Linked(C, t) = Canonical /\ \A c \in Canonical : OverrideOK(Linked(C, t)[c])
           /\ DOMAIN Propagated(C) = File
  BY DEF LinksInv, Linked, Propagated, OverrideOK

LEMMA RelinkedOK ==
    ASSUME LinksInv, NEW C, NEW t, NEW o, OverrideOK(o)
    PROVE  /\ DOMAIN Relinked(C, t, o) = Canonical
           /\ \A c \in Canonical : OverrideOK(Relinked(C, t, o)[c])
  BY DEF LinksInv, Relinked

(* The session a catalog commit leaves open, or another tag session.       *)
LEMMA TagWorkFields ==
    ASSUME NEW op, NEW t, NEW s, NEW keys
    PROVE  /\ NoTagWork.op = "idle"
           /\ [NoTagWork EXCEPT !.op = op, !.tag = t].op = op
           /\ [NoTagWork EXCEPT !.op = op, !.tag = t, !.keys = keys].op = op
           /\ [NoTagWork EXCEPT !.op = op, !.tag = t, !.keys = keys].tag = t
           /\ [NoTagWork EXCEPT !.op = op, !.tag = t, !.to = s, !.keys = keys].op = op
           /\ [NoTagWork EXCEPT !.op = op, !.tag = t, !.to = s, !.keys = keys].tag = t
           /\ [NoTagWork EXCEPT !.op = op, !.tag = t, !.to = s, !.keys = keys].to = s
  BY DEF NoTagWork

(* One session is opened or closed, and overrides stay overrides. *)
LEMMA LinksKept ==
    ASSUME LinksInv, DOMAIN tagwork = Workers, NEW o, override' = o,
           DOMAIN o = Canonical, \A c \in Canonical : OverrideOK(o[c]), DOMAIN hidden' = File,
           NEW w, NEW k, k.op \in {"link", "adopt"} => k.tag \in Tag,
           tagwork' = tagwork \/ tagwork' = [tagwork EXCEPT ![w] = k]
    PROVE  LinksInv'
<1>1. ASSUME NEW v \in Workers PROVE tagwork'[v] = tagwork[v] \/ tagwork'[v] = k
  OBVIOUS
<1> QED BY <1>1 DEF LinksInv

LEMMA LinksStep ==
    ASSUME TagsInv, LinksInv, TagsNext
    PROVE  LinksInv'
<1>0. DOMAIN tagwork = Workers /\ TagsShape
  BY DEF TagsInv, TagsShape
<1>1. CASE UNCHANGED <<override, tagwork>> /\ DOMAIN hidden' = File
  BY <1>1 DEF LinksInv
<1>2. ASSUME NEW w \in Workers, NEW s, OpenTags(w, s), s.op \notin {"link", "adopt"}
      PROVE  LinksInv'
  BY <1>0, <1>2 DEF OpenTags, LinksInv
<1>3. ASSUME NEW w \in Workers, TagAbort(w)
      PROVE  LinksInv'
  BY <1>0, <1>3, TagWorkFields DEF TagAbort, LinksInv
<1>4. ASSUME NEW w \in Workers, TagDeleteCommit(w)
      PROVE  LinksInv'
  <2>1. /\ override' = Relinked(tagwork[w].keys, tagwork[w].tag, [st |-> "hidden", tag |-> NoTag])
        /\ tagwork' = [tagwork EXCEPT ![w] = NoTagWork] /\ hidden' = hidden
    BY <1>4 DEF TagDeleteCommit
  <2>2. OverrideOK([st |-> "hidden", tag |-> NoTag])
    BY DEF OverrideOK
  <2> QED BY <1>0, <2>1, <2>2, RelinkedOK, TagWorkFields DEF LinksInv
<1>5. ASSUME NEW w \in Workers, TagMergeCommit(w) \/ CatalogMergeCommit(w)
      PROVE  LinksInv'
  <2> DEFINE o == Relinked(tagwork[w].keys, tagwork[w].tag, [st |-> "link", tag |-> tagwork[w].to])
  <2>1. tagwork[w].to \in Tag
    BY <1>5 DEF TagMergeCommit, CatalogMergeCommit, TagsInv, HoldsLive, Locks, LiveTags
  <2>2. override' = o /\ DOMAIN hidden' = File
    BY <1>5 DEF TagMergeCommit, CatalogMergeCommit, MergeTags, LinksInv
  <2>3. PICK k : tagwork' = [tagwork EXCEPT ![w] = k] /\ (k = NoTagWork \/ k = LinkWork(tagwork[w]))
    BY <1>5, EndsWork DEF Ends
  <2>4. k.op \in {"link", "adopt"} => k.tag \in Tag
    BY <2>1, <2>3, LinkFields
  <2>5. OverrideOK([st |-> "link", tag |-> tagwork[w].to])
    BY <2>1 DEF OverrideOK
  <2>6. DOMAIN o = Canonical /\ \A c \in Canonical : OverrideOK(o[c])
    BY <2>5, RelinkedOK
  <2> HIDE DEF o
  <2> QED BY <1>0, <2>2, <2>3, <2>4, <2>6, LinksKept
<1>6. ASSUME NEW w \in Workers, CatalogLink(w)
      PROVE  LinksInv'
  <2>1. /\ override' = Linked(tagwork[w].keys, tagwork[w].tag)
        /\ tagwork' = [tagwork EXCEPT ![w] = NoTagWork] /\ hidden' = hidden
        /\ tagwork[w].tag \in Tag
    BY <1>6 DEF CatalogLink, LinksInv
  <2> QED BY <1>0, <2>1, LinkedOK, TagWorkFields DEF LinksInv
<1>7. ASSUME NEW w \in Workers, NEW t \in Tag, NEW n, CatalogRename(w, t, n)
      PROVE  LinksInv'
  <2>1. /\ override' = Linked(References(t), t)
        /\ hidden' = Propagated(References(t) \cup RuleOf[n])
        /\ tagwork' = [tagwork EXCEPT ![w] = [NoTagWork EXCEPT !.op = "link", !.tag = t, !.to = t,
                                                               !.keys = References(t)]]
    BY <1>7 DEF CatalogRename
  <2> QED BY <1>0, <2>1, LinkedOK, TagWorkFields DEF LinksInv
<1>8. ASSUME NEW f \in File, NEW n \in TagName, HideName(f, n) \/ RestoreName(f, n)
      PROVE  LinksInv'
  BY <1>1, <1>8 DEF HideName, RestoreName, LinksInv
<1>9. ASSUME NEW w \in Workers, NEW c, NEW n, CatalogAdopt(w, c, n)
      PROVE  LinksInv'
  <2> DEFINE found == IF Named(n) # {} THEN Named(n) ELSE {t \in Tag : tag[t].st = "none"}
  <2> DEFINE t == CHOOSE t \in found : TRUE
  <2>1. t \in Tag
    BY <1>9 DEF CatalogAdopt, Named
  <2> DEFINE o == IF t \in LiveTags THEN Linked({c}, t) ELSE override
             k == [NoTagWork EXCEPT !.op = "adopt", !.tag = t, !.keys = {c}]
  <2>2. /\ override' = o /\ DOMAIN hidden' = File
        /\ tagwork' = tagwork \/ tagwork' = [tagwork EXCEPT ![w] = k]
    BY <1>9 DEF CatalogAdopt, Propagated
  <2>3. DOMAIN o = Canonical /\ \A e \in Canonical : OverrideOK(o[e])
    BY <2>1, LinkedOK DEF LinksInv
  <2>4. k.tag \in Tag
    BY <2>1, TagWorkFields
  <2> HIDE DEF o, k
  <2> QED BY <1>0, <2>2, <2>3, <2>4, LinksKept
<1>10. ASSUME NEW n, NEW t \in Tag, PromoteLegacy(n, t)
       PROVE  LinksInv'
  <2>1. /\ override' = Linked(RuleOf[n], t) /\ tagwork' = tagwork
        /\ hidden' = Propagated(RuleOf[n] \cup References(t))
    BY <1>10 DEF PromoteLegacy
  <2> QED BY <2>1, LinkedOK DEF LinksInv
<1>11. ASSUME NEW c \in Canonical, CatalogSuppress(c)
       PROVE  LinksInv'
  BY <1>11 DEF CatalogSuppress, LinksInv, OverrideOK
<1>12. ASSUME NEW w \in Workers, NEW f \in File, AssignCommit(w, f)
       PROVE  LinksInv'
  BY <1>0, <1>12, TagWorkFields DEF AssignCommit, Unhidden, LinksInv
<1>13. ASSUME NEW w \in Workers, \/ \E t \in Tag : TagDeleteRead(w, t) \/ CatalogDeleteRead(w, t)
                                 \/ \E s, t \in Tag : TagMergeRead(w, s, t) \/ CatalogMergeRead(w, s, t)
       PROVE  LinksInv'
  <2>1. PICK op, s, t, keys, adds : Opens(w, op, s, t, keys, adds)
    BY <1>13, ReadOpens
  <2>2. ReadWork(op, s, t, keys, adds).op \notin {"link", "adopt"}
    BY <2>1, ReadFields DEF Opens
  <2> QED BY <1>2, <2>1, <2>2 DEF Opens
<1>18. ASSUME NEW w \in Workers, NEW t \in Tag, AssignRead(w, t)
       PROVE  LinksInv'
  <2> DEFINE k == [NoTagWork EXCEPT !.op = "assign", !.tag = t]
  <2>1. OpenTags(w, k)
    BY <1>18 DEF AssignRead
  <2>2. k.op \notin {"link", "adopt"}
    BY TagWorkFields
  <2> HIDE DEF k
  <2> QED BY <1>2, <2>1, <2>2
<1>14. ASSUME NEW f \in File, NEW t \in Tag, TagRemove(f, t) \/ HideTag(f, t) \/ RestoreTag(f, t)
       PROVE  LinksInv'
  BY <1>1, <1>14 DEF TagRemove, HideTag, RestoreTag, Unhidden, LinksInv
<1>15. ASSUME NEW f \in File, NEW c \in Canonical, HideLabel(f, c) \/ RestoreLabel(f, c) \/ SaveAiTag(f, c)
       PROVE  LinksInv'
  BY <1>1, <1>15 DEF HideLabel, RestoreLabel, SaveAiTag, LinksInv
<1>16. CASE TagCreate \/ \E t \in Tag, n \in TagName : TagUpdate(t, n)
  BY <1>1, <1>16 DEF TagCreate, TagUpdate, LinksInv
<1>17. CASE \E n \in TagName : CatalogDeleteName(n)
  BY <1>1, <1>17 DEF CatalogDeleteName, LinksInv
<1> QED
  BY <1>3, <1>4, <1>5, <1>6, <1>7, <1>8, <1>9, <1>10, <1>11, <1>12, <1>13, <1>14, <1>15, <1>16, <1>17, <1>18,
     ZenonT(40) DEF TagsNext

LEMMA LinksInvariant == Spec => []LinksInv
<1>1. Init => LinksInv
  BY TagWorkFields DEF Init, TagsInit, LinksInv, OverrideOK, NoTagWork
<1>2. TagsInv /\ LinksInv /\ [Next]_vars => LinksInv'
  <2> SUFFICES ASSUME TagsInv, LinksInv, [Next]_vars PROVE LinksInv'
    OBVIOUS
  <2>1. CASE UNCHANGED tagVars
    BY <2>1 DEF LinksInv, tagVars
  <2>2. ASSUME NEW f \in File, TagsOfDeleted(f) PROVE LinksInv'
    BY <2>2 DEF LinksInv, TagsOfDeleted
  <2>3. CASE TagsNext
    BY <2>3, LinksStep
  <2> QED BY <2>1, <2>2, <2>3, LibraryTagsStep
<1> QED BY <1>1, <1>2, TagsInvariant, PTL DEF Spec

(* The rows: names of tags, marks of relations, labels. *)
RowsInv ==
    /\ \A t \in Tag : tag[t].st # "none" => tag[t].name \in TagName
    /\ \A f \in File, k \in Tag \cup TagName : relation[f][k] \in {"none", "on", "off"}
    /\ DOMAIN label = File /\ \A f \in File : label[f] \subseteq Canonical

(* Rows of tags have names of the vocabulary, whoever writes them. *)
LEMMA NamesStep ==
    ASSUME TagsInv, RowsInv, TagsNext
    PROVE  \A t \in Tag : tag'[t].st # "none" => tag'[t].name \in TagName
<1> DEFINE Names == \A t \in Tag : tag'[t].st # "none" => tag'[t].name \in TagName
<1>0. /\ DOMAIN tag = Tag /\ \A t \in Tag : {"st", "name", "rev"} \subseteq DOMAIN tag[t]
      /\ \A t \in Tag : tag[t].st # "none" => tag[t].name \in TagName
  BY DEF TagsInv, TagsShape, RowsInv
<1>1. CASE tag' = tag
  BY <1>0, <1>1
<1>2. ASSUME NEW t \in Tag, NEW n \in TagName, NEW r,
             tag' = [tag EXCEPT ![t] = [st |-> "live", name |-> n, rev |-> r]]
      PROVE  Names
  BY <1>0, <1>2
<1>3. CASE TagCreate
  BY <1>2, <1>3 DEF TagCreate
<1>4. ASSUME NEW t \in Tag, NEW n \in TagName, NEW r, tag' = [tag EXCEPT ![t].name = n, ![t].rev = r]
      PROVE  Names
  BY <1>0, <1>4
<1>5. ASSUME NEW t \in Tag, NEW n \in TagName, TagUpdate(t, n) PROVE Names
  BY <1>4, <1>5 DEF TagUpdate
<1>6. ASSUME NEW w \in Workers, NEW t \in Tag, NEW n \in TagName, CatalogRename(w, t, n) PROVE Names
  BY <1>4, <1>6 DEF CatalogRename
<1>7. ASSUME NEW s \in Tag, tag[s].st # "none", NEW a, tag' = [tag EXCEPT ![s].st = "dead", ![s].rev = a]
      PROVE  Names
  BY <1>0, <1>7
<1>8. ASSUME NEW s \in Tag, tag[s].st # "none", NEW a, NEW t \in Tag, NEW b, s # t,
             tag' = [tag EXCEPT ![s].st = "dead", ![s].rev = a, ![t].rev = b]
      PROVE  Names
  <2>1. \A u \in Tag : tag'[u].name = tag[u].name /\ (tag[u].st = "none" => tag'[u].st = "none")
    BY <1>0, <1>8
  <2> QED BY <1>0, <2>1
<1>9. ASSUME NEW w \in Workers, TagDeleteCommit(w) PROVE Names
  BY <1>7, <1>9 DEF TagDeleteCommit, TagsInv, HoldsLive, Locks, LiveTags
<1>10. ASSUME NEW w \in Workers, TagMergeCommit(w) \/ CatalogMergeCommit(w) PROVE Names
  <2>1. /\ tagwork[w].tag \in LiveTags /\ tagwork[w].to \in LiveTags /\ tagwork[w].tag # tagwork[w].to
        /\ tag' = [tag EXCEPT ![tagwork[w].tag].st = "dead", ![tagwork[w].tag].rev = @ + 1,
                              ![tagwork[w].to].rev = @ + 1]
    BY <1>10 DEF TagMergeCommit, CatalogMergeCommit, MergeTags, TagsInv, HoldsLive, Locks
  <2> QED BY <1>8, <2>1 DEF LiveTags
<1>11. ASSUME NEW f \in File, NEW n \in TagName, HideName(f, n) \/ RestoreName(f, n) PROVE Names
  BY <1>1, <1>11 DEF HideName, RestoreName
<1>12. ASSUME NEW w \in Workers, NEW c \in Canonical, NEW n \in TagName, CatalogAdopt(w, c, n) PROVE Names
  <2> DEFINE found == IF Named(n) # {} THEN Named(n) ELSE {t \in Tag : tag[t].st = "none"}
             t == CHOOSE t \in found : TRUE
  <2>1. t \in Tag
    BY <1>12 DEF CatalogAdopt, Named
  <2>2. tag' = tag \/ tag' = [tag EXCEPT ![t] = [st |-> "live", name |-> n, rev |-> @.rev + 1]]
    BY <1>12 DEF CatalogAdopt
  <2> HIDE DEF t
  <2> QED BY <1>1, <1>2, <2>1, <2>2
<1>13. ASSUME NEW n \in TagName, NEW t \in Tag, PromoteLegacy(n, t) PROVE Names
  BY <1>1, <1>13 DEF PromoteLegacy
<1>14. ASSUME NEW w \in Workers, \/ CatalogLink(w) \/ TagAbort(w) \/ \E f \in File : AssignCommit(w, f)
                                 \/ \E t \in Tag : \/ TagDeleteRead(w, t) \/ CatalogDeleteRead(w, t)
                                                 \/ AssignRead(w, t)
                                 \/ \E s, t \in Tag : TagMergeRead(w, s, t) \/ CatalogMergeRead(w, s, t)
       PROVE  Names
  BY <1>1, <1>14 DEF CatalogLink, TagAbort, AssignCommit, TagDeleteRead, CatalogDeleteRead, AssignRead,
                     TagMergeRead, CatalogMergeRead, Read, OpenTags
<1>15. CASE \/ \E f \in File, t \in Tag : TagRemove(f, t) \/ HideTag(f, t) \/ RestoreTag(f, t)
            \/ \E f \in File, c \in Canonical : HideLabel(f, c) \/ RestoreLabel(f, c) \/ SaveAiTag(f, c)
            \/ \E c \in Canonical : CatalogSuppress(c)
            \/ \E n \in TagName : CatalogDeleteName(n)
  BY <1>1, <1>15 DEF TagRemove, HideTag, RestoreTag, HideLabel, RestoreLabel, SaveAiTag, CatalogSuppress,
                     CatalogDeleteName
<1> HIDE DEF Names
<1> QED
  BY <1>3, <1>5, <1>6, <1>9, <1>10, <1>11, <1>12, <1>13, <1>14, <1>15, ZenonT(40) DEF TagsNext, Names

(* Marks of relations. *)
LEMMA MarksStep ==
    ASSUME TagsInv, RowsInv, TagsNext
    PROVE  \A f \in File, k \in Tag \cup TagName : relation'[f][k] \in {"none", "on", "off"}
<1> DEFINE Mark == {"none", "on", "off"}
           Marks == \A f \in File, k \in Tag \cup TagName : relation'[f][k] \in Mark
<1>0. /\ DOMAIN relation = File /\ \A f \in File : DOMAIN relation[f] = Tag \cup TagName
      /\ \A f \in File, k \in Tag \cup TagName : relation[f][k] \in Mark
  BY DEF TagsInv, TagsShape, RowsInv
<1>1. CASE relation' = relation
  BY <1>0, <1>1
<1>2. ASSUME NEW f, NEW t, NEW m \in Mark, relation' = [relation EXCEPT ![f][t] = m] PROVE Marks
  BY <1>0, <1>2
<1>3. ASSUME NEW F, NEW s, NEW m \in Mark,
             relation' = [f \in File |-> IF f \in F THEN [relation[f] EXCEPT ![s] = m] ELSE relation[f]]
      PROVE  Marks
  BY <1>0, <1>3
<1>4. ASSUME NEW F, NEW s, NEW m \in Mark, NEW t, NEW n \in Mark,
             relation' = [f \in File |-> IF f \in F THEN [relation[f] EXCEPT ![s] = m, ![t] = n]
                                         ELSE relation[f]]
      PROVE  Marks
  BY <1>0, <1>4
<1>5. ASSUME NEW w \in Workers, TagDeleteCommit(w) PROVE Marks
  BY <1>3, <1>5 DEF TagDeleteCommit
<1>6. ASSUME NEW w \in Workers, MergeTags(w) PROVE Marks
  <2> DEFINE s == tagwork[w].tag
             t == tagwork[w].to
             F == DOMAIN tagwork[w].rev
             had == tagwork[w].had
  <2>1. relation' = [f \in File |->
           IF f \in F THEN [relation[f] EXCEPT ![s] = "off", ![t] = IF f \in had THEN @ ELSE "on"]
           ELSE relation[f]]
    BY <1>6 DEF MergeTags
  <2> HIDE DEF F, s, t, had
  <2>2. ASSUME NEW f \in File, NEW k \in Tag \cup TagName PROVE relation'[f][k] \in Mark
    <3>1. CASE f \in F /\ k = t
      BY <1>0, <2>1, <3>1
    <3>2. CASE f \in F /\ k # t
      BY <1>0, <2>1, <3>2
    <3>3. CASE f \notin F
      BY <1>0, <2>1, <3>3
    <3> QED BY <3>1, <3>2, <3>3
  <2> QED BY <2>2
<1>7. ASSUME NEW f \in File, NEW n \in TagName, HideName(f, n) \/ RestoreName(f, n) PROVE Marks
  <2>1. /\ relation[f][n] \in Mark
        /\ \/ relation' = [relation EXCEPT ![f][n] = IF @ = "on" THEN "off" ELSE @]
           \/ relation' = [relation EXCEPT ![f][n] = IF @ = "none" THEN @ ELSE "on"]
    BY <1>0, <1>7 DEF HideName, RestoreName, Dropped
  <2>2. \E m \in Mark : relation' = [relation EXCEPT ![f][n] = m]
    BY <2>1
  <2> QED BY <1>2, <2>2
<1>8. ASSUME NEW n \in TagName, NEW t \in Tag, PromoteLegacy(n, t) PROVE Marks
  <2> DEFINE F == {f \in File : relation[f][n] = "on"}
  <2>1. relation' = [f \in File |-> IF f \in F THEN [relation[f] EXCEPT ![n] = "none", ![t] = "on"]
                                    ELSE relation[f]]
    BY <1>8 DEF PromoteLegacy
  <2> HIDE DEF F
  <2> QED BY <1>4, <2>1
<1>9. ASSUME NEW n \in TagName, CatalogDeleteName(n) PROVE Marks
  <2> DEFINE F == {f \in File : relation[f][n] = "on"}
  <2>1. relation' = [f \in File |-> IF f \in F THEN [relation[f] EXCEPT ![n] = "off"] ELSE relation[f]]
    BY <1>9 DEF CatalogDeleteName
  <2> HIDE DEF F
  <2> QED BY <1>3, <2>1
<1>10. ASSUME NEW f, NEW t, relation' = Regained(f, t) PROVE Marks
  BY <1>2, <1>10 DEF Regained
<1>11. ASSUME NEW f \in File, NEW t \in Tag, relation' = Dropped(f, t) PROVE Marks
  BY <1>0, <1>11 DEF Dropped
<1>12. ASSUME NEW w \in Workers, NEW f \in File, AssignCommit(w, f) PROVE Marks
  BY <1>10, <1>12 DEF AssignCommit
<1>13. ASSUME NEW f \in File, NEW t \in Tag, TagRemove(f, t) \/ HideTag(f, t) \/ RestoreTag(f, t) PROVE Marks
  BY <1>10, <1>11, <1>13 DEF TagRemove, HideTag, RestoreTag
<1>14. ASSUME NEW w \in Workers, \/ CatalogLink(w) \/ TagAbort(w)
                                 \/ \E t \in Tag : \/ TagDeleteRead(w, t) \/ CatalogDeleteRead(w, t)
                                                 \/ AssignRead(w, t)
                                 \/ \E s, t \in Tag : TagMergeRead(w, s, t) \/ CatalogMergeRead(w, s, t)
                                 \/ \E t \in Tag, n \in TagName : CatalogRename(w, t, n)
                                 \/ \E c \in Canonical, n \in TagName : CatalogAdopt(w, c, n)
       PROVE  Marks
  <2>1. relation' = relation
    BY <1>14 DEF CatalogLink, TagAbort, TagDeleteRead, CatalogDeleteRead, AssignRead, TagMergeRead,
                 CatalogMergeRead, Read, OpenTags, CatalogRename, CatalogAdopt
  <2> QED BY <1>1, <2>1
<1>15. CASE \/ TagCreate \/ \E t \in Tag, n \in TagName : TagUpdate(t, n)
            \/ \E f \in File, c \in Canonical : HideLabel(f, c) \/ RestoreLabel(f, c) \/ SaveAiTag(f, c)
            \/ \E c \in Canonical : CatalogSuppress(c)
  <2>1. relation' = relation
    BY <1>15 DEF TagCreate, TagUpdate, HideLabel, RestoreLabel, SaveAiTag, CatalogSuppress
  <2> QED BY <1>1, <2>1
<1> HIDE DEF Marks
<1>16. ASSUME NEW w \in Workers,
              \/ \E t \in Tag : TagDeleteRead(w, t) \/ CatalogDeleteRead(w, t) \/ AssignRead(w, t)
              \/ \E s, t \in Tag : TagMergeRead(w, s, t) \/ CatalogMergeRead(w, s, t)
              \/ \E t \in Tag, n \in TagName : CatalogRename(w, t, n)
              \/ \E c \in Canonical, n \in TagName : CatalogAdopt(w, c, n)
              \/ \E f \in File : AssignCommit(w, f)
              \/ TagDeleteCommit(w) \/ TagMergeCommit(w) \/ CatalogMergeCommit(w)
              \/ CatalogLink(w) \/ TagAbort(w)
       PROVE  Marks
  BY <1>5, <1>6, <1>12, <1>14, <1>16, Zenon DEF TagMergeCommit, CatalogMergeCommit
<1> QED
  BY <1>7, <1>8, <1>9, <1>13, <1>15, <1>16, ZenonT(40) DEF TagsNext, Marks

(* Labels are canonical keys. *)
LEMMA LabelsStep ==
    ASSUME RowsInv, TagsNext
    PROVE  DOMAIN label' = File /\ \A f \in File : label'[f] \subseteq Canonical
<1>1. ASSUME NEW w \in Workers, \/ CatalogLink(w) \/ TagAbort(w)
                                \/ \E f \in File : AssignCommit(w, f)
                                \/ \E t \in Tag : \/ TagDeleteRead(w, t) \/ CatalogDeleteRead(w, t)
                                                \/ AssignRead(w, t)
                                \/ \E s, t \in Tag : TagMergeRead(w, s, t) \/ CatalogMergeRead(w, s, t)
      PROVE  label' = label
  BY <1>1 DEF CatalogLink, TagAbort, AssignCommit, TagDeleteRead, CatalogDeleteRead, AssignRead,
              TagMergeRead, CatalogMergeRead, Read, OpenTags
<1>2. ASSUME NEW w \in Workers, \/ TagDeleteCommit(w) \/ TagMergeCommit(w) \/ CatalogMergeCommit(w)
                                \/ \E t \in Tag, n \in TagName : CatalogRename(w, t, n)
                                \/ \E c \in Canonical, n \in TagName : CatalogAdopt(w, c, n)
      PROVE  label' = label
  BY <1>2, EndsWork DEF Ends, CatalogRename, CatalogAdopt
<1>3. CASE \/ TagCreate \/ \E t \in Tag, n \in TagName : TagUpdate(t, n) \/ PromoteLegacy(n, t)
           \/ \E c \in Canonical : CatalogSuppress(c)
           \/ \E n \in TagName : CatalogDeleteName(n)
  BY <1>3 DEF RowsInv, TagCreate, TagUpdate, PromoteLegacy, CatalogSuppress, CatalogDeleteName
<1>4. CASE \/ \E f \in File, t \in Tag : TagRemove(f, t) \/ HideTag(f, t) \/ RestoreTag(f, t)
           \/ \E f \in File, c \in Canonical : HideLabel(f, c) \/ RestoreLabel(f, c)
           \/ \E f \in File, n \in TagName : HideName(f, n) \/ RestoreName(f, n)
  BY <1>4 DEF RowsInv, TagRemove, HideTag, RestoreTag, HideLabel, RestoreLabel, HideName, RestoreName
<1>5. CASE \E f \in File, c \in Canonical : SaveAiTag(f, c)
  BY <1>5 DEF RowsInv, SaveAiTag
<1>6. CASE label' = label
  BY <1>6 DEF RowsInv
<1> QED BY <1>1, <1>2, <1>3, <1>4, <1>5, <1>6, ZenonT(40) DEF TagsNext

LEMMA RowsInvariant == Spec => []RowsInv
<1>1. Init => RowsInv
  BY DEF Init, TagsInit, RowsInv, NoTagRow
<1>2. TagsInv /\ RowsInv /\ [Next]_vars => RowsInv'
  <2> SUFFICES ASSUME TagsInv, RowsInv, [Next]_vars PROVE RowsInv'
    OBVIOUS
  <2>1. CASE UNCHANGED tagVars
    BY <2>1 DEF RowsInv, tagVars
  <2>2. ASSUME NEW f \in File, TagsOfDeleted(f) PROVE RowsInv'
    BY <2>2 DEF RowsInv, TagsOfDeleted, TagsInv, TagsShape
  <2>3. CASE TagsNext
    BY <2>3, NamesStep, MarksStep, LabelsStep DEF RowsInv
  <2> QED BY <2>1, <2>2, <2>3, LibraryTagsStep
<1> QED BY <1>1, <1>2, TagsInvariant, PTL DEF Spec

(* What leaves a session to link: the first commit of a rename or merge.   *)
LEMMA LinkOpened ==
    ASSUME TagsInv, TagsNext, NEW w \in Workers, tagwork[w].op # "link", tagwork'[w].op = "link"
    PROVE  CatalogMergeCommit(w) \/ \E t \in Tag, n \in TagName : CatalogRename(w, t, n)
<1>0. DOMAIN tagwork = Workers /\ NoTagWork.op = "idle"
  BY TagWorkFields DEF TagsInv, TagsShape
<1>1. tagwork' # tagwork /\ ~\E v \in Workers : tagwork' = [tagwork EXCEPT ![v] = NoTagWork]
  BY <1>0
<1>2. ASSUME NEW v \in Workers, NEW k, tagwork' = [tagwork EXCEPT ![v] = k] PROVE v = w /\ k.op = "link"
  BY <1>0, <1>2
<1>3. ~\E v \in Workers : \/ TagDeleteCommit(v) \/ TagMergeCommit(v) \/ CatalogLink(v) \/ TagAbort(v)
                          \/ \E f \in File : AssignCommit(v, f)
  BY <1>1 DEF TagDeleteCommit, TagMergeCommit, CatalogLink, TagAbort, AssignCommit
<1>4. ASSUME NEW v \in Workers, NEW t \in Tag, AssignRead(v, t) PROVE FALSE
  BY <1>2, <1>4, TagWorkFields DEF AssignRead, OpenTags
<1>5. ASSUME NEW v \in Workers, \/ \E t \in Tag : TagDeleteRead(v, t) \/ CatalogDeleteRead(v, t)
                                \/ \E s, t \in Tag : TagMergeRead(v, s, t) \/ CatalogMergeRead(v, s, t)
      PROVE  FALSE
  <2>1. PICK op, s, t, keys, adds : Opens(v, op, s, t, keys, adds)
    BY <1>5, ReadOpens
  <2>2. ReadWork(op, s, t, keys, adds).op # "link"
    BY <2>1, ReadFields DEF Opens
  <2> QED BY <1>2, <2>1, <2>2 DEF Opens, OpenTags
<1>6. ASSUME NEW v \in Workers, CatalogMergeCommit(v) PROVE v = w
  BY <1>2, <1>6 DEF CatalogMergeCommit
<1>7. ASSUME NEW v \in Workers, NEW c \in Canonical, NEW n \in TagName, CatalogAdopt(v, c, n) PROVE FALSE
  <2> DEFINE t == CHOOSE t \in (IF Named(n) # {} THEN Named(n) ELSE {t \in Tag : tag[t].st = "none"}) : TRUE
             k == [NoTagWork EXCEPT !.op = "adopt", !.tag = t, !.keys = {c}]
  <2>1. tagwork' = tagwork \/ tagwork' = [tagwork EXCEPT ![v] = k]
    BY <1>7 DEF CatalogAdopt
  <2>2. k.op = "adopt"
    BY TagWorkFields
  <2> HIDE DEF k
  <2> QED BY <1>1, <1>2, <2>1, <2>2
<1>8. ASSUME NEW v \in Workers, NEW t \in Tag, NEW n \in TagName, CatalogRename(v, t, n) PROVE v = w
  BY <1>2, <1>8 DEF CatalogRename
<1>9. /\ ~TagCreate /\ ~\E t \in Tag, n \in TagName : TagUpdate(t, n) \/ PromoteLegacy(n, t)
      /\ ~\E f \in File, t \in Tag : TagRemove(f, t) \/ HideTag(f, t) \/ RestoreTag(f, t)
      /\ ~\E f \in File, c \in Canonical : HideLabel(f, c) \/ RestoreLabel(f, c) \/ SaveAiTag(f, c)
      /\ ~\E f \in File, n \in TagName : HideName(f, n) \/ RestoreName(f, n)
      /\ ~\E c \in Canonical : CatalogSuppress(c)
      /\ ~\E n \in TagName : CatalogDeleteName(n)
  BY <1>1 DEF TagCreate, TagUpdate, PromoteLegacy, TagRemove, HideTag, RestoreTag, HideLabel, RestoreLabel,
              SaveAiTag, HideName, RestoreName, CatalogSuppress, CatalogDeleteName
<1> QED
  BY <1>3, <1>4, <1>5, <1>6, <1>7, <1>8, <1>9, ZenonT(60) DEF TagsNext

(* The tag a session deletes or merges keeps its name, and is live until   *)
(* the session ends it: all others wait for its lock.                      *)
LEMMA HeldTag ==
    ASSUME TagsInv, TagsNext, NEW w \in Workers, Locks(tagwork[w])
    PROVE  /\ tag'[tagwork[w].tag].name = tag[tagwork[w].tag].name
           /\ tag'[tagwork[w].tag].st = "live" \/ Ends(w)
<1> DEFINE s == tagwork[w].tag
           Stays == tag'[s].name = tag[s].name /\ (tag'[s].st = "live" \/ Ends(w))
<1>0. /\ s \in LiveTags /\ s \in Tag /\ s \in TagsOf(tagwork[w]) /\ Locked(s)
      /\ tag[s].st = "live" /\ DOMAIN tag = Tag /\ {"st", "name", "rev"} \subseteq DOMAIN tag[s]
  BY LockedTag DEF TagsInv, TagsShape, HoldsLive, LiveTags, TagsOf
<1>1. CASE tag'[s] = tag[s]
  BY <1>0, <1>1
<1>2. ASSUME NEW t, t # s, NEW row, tag' = [tag EXCEPT ![t] = row] PROVE Stays
  BY <1>0, <1>2
<1>3. CASE TagCreate
  BY <1>0, <1>2, <1>3 DEF TagCreate
<1>4. ASSUME NEW t \in Tag, NEW n \in TagName, TagUpdate(t, n) \/ \E v \in Workers : CatalogRename(v, t, n)
      PROVE  Stays
  <2>1. t # s /\ tag' = [tag EXCEPT ![t].name = n, ![t].rev = @ + 1]
    BY <1>0, <1>4 DEF TagUpdate, CatalogRename
  <2> QED BY <1>0, <2>1
<1>5. ASSUME NEW v \in Workers, NEW c \in Canonical, NEW n \in TagName, CatalogAdopt(v, c, n) PROVE Stays
  <2> DEFINE t == CHOOSE t \in (IF Named(n) # {} THEN Named(n) ELSE {t \in Tag : tag[t].st = "none"}) : TRUE
             row == [st |-> "live", name |-> n, rev |-> tag[t].rev + 1]
  <2>1. tag' = tag \/ (t \notin LiveTags /\ tag' = [tag EXCEPT ![t] = row])
    BY <1>5 DEF CatalogAdopt
  <2> HIDE DEF t, row
  <2> QED BY <1>0, <1>1, <1>2, <2>1
<1>6. ASSUME NEW v \in Workers, Ends(v) PROVE Stays
  <2> DEFINE a == tagwork[v].tag
             b == tagwork[v].to
  <2>1. \/ tag' = [tag EXCEPT ![a].st = "dead", ![a].rev = @ + 1]
        \/ tag' = [tag EXCEPT ![a].st = "dead", ![a].rev = @ + 1, ![b].rev = @ + 1]
    BY <1>6 DEF Ends, TagDeleteCommit, TagMergeCommit, CatalogMergeCommit, MergeTags
  <2>2. v # w => a # s
    BY <1>0, <1>6, EndsWork DEF TagsInv, TagsOf
  <2> HIDE DEF a, b
  <2> QED BY <1>0, <1>6, <2>1, <2>2
<1>7. ASSUME NEW v \in Workers, \/ CatalogLink(v) \/ TagAbort(v)
                                \/ \E f \in File : AssignCommit(v, f)
                                \/ \E t \in Tag : \/ TagDeleteRead(v, t) \/ CatalogDeleteRead(v, t)
                                                \/ AssignRead(v, t)
                                \/ \E a, t \in Tag : TagMergeRead(v, a, t) \/ CatalogMergeRead(v, a, t)
      PROVE  Stays
  <2>1. tag' = tag
    BY <1>7 DEF CatalogLink, TagAbort, AssignCommit, TagDeleteRead, CatalogDeleteRead, AssignRead,
                TagMergeRead, CatalogMergeRead, Read, OpenTags
  <2> QED BY <1>1, <2>1
<1>8. CASE \/ \E t \in Tag, n \in TagName : PromoteLegacy(n, t)
           \/ \E f \in File, t \in Tag : TagRemove(f, t) \/ HideTag(f, t) \/ RestoreTag(f, t)
           \/ \E f \in File, c \in Canonical : HideLabel(f, c) \/ RestoreLabel(f, c) \/ SaveAiTag(f, c)
           \/ \E f \in File, n \in TagName : HideName(f, n) \/ RestoreName(f, n)
           \/ \E c \in Canonical : CatalogSuppress(c)
           \/ \E n \in TagName : CatalogDeleteName(n)
  <2>1. tag' = tag
    BY <1>8 DEF PromoteLegacy, TagRemove, HideTag, RestoreTag, HideLabel, RestoreLabel, SaveAiTag, HideName,
                RestoreName, CatalogSuppress, CatalogDeleteName
  <2> QED BY <1>1, <2>1
<1> HIDE DEF Stays
<1> QED
  BY <1>3, <1>4, <1>5, <1>6, <1>7, <1>8, ZenonT(60) DEF TagsNext, Ends, Stays, s

(* What a merge of the catalog has read keeps the keys of its source's     *)
(* name: they are linked to the target with it.                            *)
KeysInv ==
    \A w \in Workers : tagwork[w].op = "fold" => RuleOf[tag[tagwork[w].tag].name] \subseteq tagwork[w].keys

LEMMA FoldOpened ==
    ASSUME TagsInv, TagsNext, NEW w \in Workers, tagwork'[w].op = "fold"
    PROVE  \/ tagwork'[w] = tagwork[w]
           \/ tag' = tag /\ RuleOf[tag[tagwork'[w].tag].name] \subseteq tagwork'[w].keys
<1> DEFINE Right == \/ tagwork'[w] = tagwork[w]
                    \/ tag' = tag /\ RuleOf[tag[tagwork'[w].tag].name] \subseteq tagwork'[w].keys
<1>0. DOMAIN tagwork = Workers /\ NoTagWork.op = "idle"
  BY TagWorkFields DEF TagsInv, TagsShape
<1>1. ASSUME NEW v \in Workers, NEW k, tagwork' = [tagwork EXCEPT ![v] = k], k.op # "fold" PROVE Right
  BY <1>0, <1>1
<1>2. ASSUME NEW v \in Workers, \/ \E t \in Tag : TagDeleteRead(v, t) \/ CatalogDeleteRead(v, t)
                                \/ \E s, t \in Tag : TagMergeRead(v, s, t) \/ CatalogMergeRead(v, s, t)
      PROVE  Right
  <2>1. PICK op, s, t, keys, adds : Opens(v, op, s, t, keys, adds)
    BY <1>2, ReadOpens
  <2> DEFINE k == ReadWork(op, s, t, keys, adds)
  <2>2. tagwork' = [tagwork EXCEPT ![v] = k] /\ tag' = tag
    BY <2>1 DEF Opens, OpenTags
  <2>4. k.op = op /\ k.tag = s /\ k.keys = keys
    BY DEF ReadWork, NoTagWork
  <2> HIDE DEF k
  <2>3. op = "fold" => RuleOf[tag[s].name] \subseteq keys
    BY <2>1 DEF Opens, References
  <2> QED BY <1>0, <2>2, <2>3, <2>4
<1>3. ASSUME NEW v \in Workers, Ends(v) PROVE Right
  <2>1. PICK k : tagwork' = [tagwork EXCEPT ![v] = k] /\ (k = NoTagWork \/ k = LinkWork(tagwork[v]))
    BY <1>3, EndsWork
  <2>2. k.op # "fold"
    BY <2>1, LinkFields
  <2> QED BY <1>1, <2>1, <2>2
<1>4. ASSUME NEW v \in Workers, \/ CatalogLink(v) \/ TagAbort(v) \/ \E f \in File : AssignCommit(v, f)
      PROVE  Right
  BY <1>0, <1>1, <1>4 DEF CatalogLink, TagAbort, AssignCommit
<1>5. ASSUME NEW v \in Workers, NEW t \in Tag, AssignRead(v, t) PROVE Right
  BY <1>1, <1>5, TagWorkFields DEF AssignRead, OpenTags
<1>6. ASSUME NEW v \in Workers, NEW t \in Tag, NEW n \in TagName, CatalogRename(v, t, n) PROVE Right
  BY <1>1, <1>6, TagWorkFields DEF CatalogRename
<1>7. ASSUME NEW v \in Workers, NEW c \in Canonical, NEW n \in TagName, CatalogAdopt(v, c, n) PROVE Right
  <2> DEFINE t == CHOOSE t \in (IF Named(n) # {} THEN Named(n) ELSE {t \in Tag : tag[t].st = "none"}) : TRUE
             k == [NoTagWork EXCEPT !.op = "adopt", !.tag = t, !.keys = {c}]
  <2>1. tagwork' = tagwork \/ tagwork' = [tagwork EXCEPT ![v] = k]
    BY <1>7 DEF CatalogAdopt
  <2>2. k.op = "adopt"
    BY TagWorkFields
  <2> HIDE DEF k
  <2> QED BY <1>1, <2>1, <2>2
<1>8. CASE \/ TagCreate \/ \E t \in Tag, n \in TagName : TagUpdate(t, n) \/ PromoteLegacy(n, t)
           \/ \E f \in File, t \in Tag : TagRemove(f, t) \/ HideTag(f, t) \/ RestoreTag(f, t)
           \/ \E f \in File, c \in Canonical : HideLabel(f, c) \/ RestoreLabel(f, c) \/ SaveAiTag(f, c)
           \/ \E f \in File, n \in TagName : HideName(f, n) \/ RestoreName(f, n)
           \/ \E c \in Canonical : CatalogSuppress(c)
           \/ \E n \in TagName : CatalogDeleteName(n)
  <2>1. tagwork' = tagwork
    BY <1>8, ZenonT(60) DEF TagCreate, TagUpdate, PromoteLegacy, TagRemove, HideTag, RestoreTag, HideLabel,
       RestoreLabel, SaveAiTag, HideName, RestoreName, CatalogSuppress, CatalogDeleteName
  <2> QED BY <2>1
<1> HIDE DEF Right
<1> QED
  BY <1>2, <1>3, <1>4, <1>5, <1>6, <1>7, <1>8, ZenonT(60) DEF TagsNext, Ends, Right

LEMMA KeysInvariant == Spec => []KeysInv
<1>1. Init => KeysInv
  BY TagWorkFields DEF Init, TagsInit, KeysInv
<1>2. TagsInv /\ KeysInv /\ [Next]_vars => KeysInv'
  <2> SUFFICES ASSUME TagsInv, KeysInv, [Next]_vars PROVE KeysInv'
    OBVIOUS
  <2>1. CASE UNCHANGED tagVars \/ \E f \in File : TagsOfDeleted(f)
    BY <2>1 DEF KeysInv, tagVars, TagsOfDeleted
  <2>2. CASE TagsNext
    <3> SUFFICES ASSUME NEW w \in Workers, tagwork'[w].op = "fold"
                 PROVE  RuleOf[tag'[tagwork'[w].tag].name] \subseteq tagwork'[w].keys
      BY DEF KeysInv
    <3>1. CASE tagwork'[w] = tagwork[w]
      <4>1. tag'[tagwork[w].tag].name = tag[tagwork[w].tag].name
        BY <2>2, <3>1, HeldTag DEF Locks
      <4> QED BY <3>1, <4>1 DEF KeysInv
    <3> QED BY <2>2, <3>1, FoldOpened
  <2> QED BY <2>1, <2>2, LibraryTagsStep
<1> QED BY <1>1, <1>2, TagsInvariant, PTL DEF Spec

(* A key that shows as a tag is linked to it or is one of its name's.      *)
LEMMA ShownReferenced ==
    ASSUME LinksInv, NEW t \in Tag, NEW c \in Canonical, ShownAs(c) = t
    PROVE  c \in References(t)
<1>1. t # NoTag
  BY TagsAssumption
<1>2. CASE override[c].st = "link"
  <2>1. override[c].tag = t
    BY <1>1, <1>2 DEF ShownAs
  <2>2. override[c] = [st |-> "link", tag |-> t]
    BY <1>2, <2>1 DEF LinksInv, OverrideOK, NoOverride
  <2> QED BY <2>2 DEF References
<1>3. CASE override[c].st # "link"
  <2> DEFINE named == {u \in LiveTags : c \in RuleOf[tag[u].name]}
  <2>1. ShownAs(c) = IF named = {} THEN NoTag ELSE CHOOSE u \in named : TRUE
    BY <1>3 DEF ShownAs
  <2>2. t \in named
    BY <1>1, <2>1
  <2> QED BY <2>2 DEF References
<1> QED BY <1>2, <1>3

(* A photo keeps the label it has under a tag when the keys of the tag go  *)
(* to a live one, and the photo has no relation with either.               *)
LEMMA LabelKept ==
    ASSUME LinksInv, RowsInv, NEW f \in File, NEW t \in Tag, NEW c \in Curated(f) \ hidden[f],
           override'[c] = [st |-> "link", tag |-> t], tag'[t].st = "live",
           label' = label, relation'[f] = relation[f], hidden'[f] = hidden[f],
           \A k \in Tag \cup TagName : relation[f][k] # "none" => TextOf(k)' = TextOf(k)
    PROVE  TagOnPhoto(f, t)'
<1>1. Curated(f)' = Curated(f)
  BY DEF Curated
<1>2. ShownAs(c)' = t
  BY DEF ShownAs, LiveTags
<1> QED
  BY <1>1, <1>2 DEF TagOnPhoto

(* The first commit of a rename: a photo that had the tag by a relation    *)
(* has it still, one that had it by a label has a key that is linked now.  *)
LEMMA RenameKeeps ==
    ASSUME TagsInv, LinksInv, RowsInv, NEW w, NEW t \in Tag, NEW n \in TagName, CatalogRename(w, t, n),
           NEW f \in File, TagOnPhoto(f, t), relation[f][t] # "off"
    PROVE  TagOnPhoto(f, t)' \/ References(t)' \cap hidden'[f] # {}
<1> DEFINE keys == References(t)
           C == keys \cup RuleOf[n]
<1>1. /\ t \in LiveTags /\ hidden' = Propagated(C) /\ override' = Linked(keys, t)
      /\ tag' = [tag EXCEPT ![t].name = n, ![t].rev = @ + 1]
      /\ relation' = relation /\ label' = label
  BY DEF CatalogRename
<1>2. /\ tag'[t].name = n /\ tag'[t].st = "live"
      /\ \A u \in Tag : u # t => tag'[u] = tag[u]
  BY <1>1 DEF TagsInv, TagsShape, LiveTags
<1>3. keys \subseteq Canonical
  BY <1>1, TagsAssumption DEF References, RowsInv, LiveTags
<1>4. References(t)' = C
  BY <1>1, <1>2, <1>3 DEF References, Linked
<1>5. CASE hidden[f] \cap C # {}
  BY <1>1, <1>4, <1>5 DEF Propagated
<1>6. CASE hidden[f] \cap C = {}
  <2>1. hidden'[f] = hidden[f]
    BY <1>1, <1>6 DEF Propagated
  <2>2. CASE relation[f][t] = "on"
    BY <1>1, <1>4, <1>6, <2>1, <2>2 DEF TagOnPhoto
  <2>3. CASE relation[f][t] # "on"
    <3>1. PICK c \in Curated(f) \ hidden[f] : override[c].st # "hidden" /\ ShownAs(c) = t
      BY <2>3 DEF TagOnPhoto
    <3>2. c \in Canonical
      BY DEF Curated, RowsInv
    <3>3. c \in keys
      BY <3>1, <3>2, ShownReferenced
    <3>4. override'[c] = [st |-> "link", tag |-> t]
      BY <1>1, <3>2, <3>3 DEF Linked
    <3>5. relation[f][t] = "none"
      BY <2>3 DEF RowsInv
    <3>6. \A k \in Tag \cup TagName : relation[f][k] # "none" => TextOf(k)' = TextOf(k)
      BY <1>2, <3>5 DEF TextOf
    <3> QED BY <1>1, <1>2, <2>1, <3>4, <3>6, LabelKept
  <2> QED BY <2>2, <2>3
<1> QED BY <1>5, <1>6

(* Of a merge: the relations it has read move to the other tag, and so do  *)
(* the keys of a merge of the catalog.  Nothing else is on the source: what *)
(* is assigned past its lock is a stray.                                   *)
LEMMA MergeKeeps ==
    ASSUME TagsInv, LinksInv, RowsInv, KeysInv, NEW w \in Workers,
           TagMergeCommit(w) \/ CatalogMergeCommit(w),
           NEW s, NEW t, s = tagwork[w].tag, t = tagwork[w].to,
           NEW f \in File, ~DecidedApart(w, f, s, t),
           relation[f][s] = "on" \/ (tagwork[w].op = "fold" /\ TagOnPhoto(f, s))
    PROVE  Kept(f, t)'
<1>0. Locks(tagwork[w]) /\ HoldsLive(tagwork[w]) /\ ReadsAll(tagwork[w])
  BY EndsWork DEF Ends, TagsInv
<1>1. /\ DOMAIN relation = File /\ DOMAIN relation[f] = Tag \cup TagName /\ DOMAIN tag = Tag
      /\ \A u \in Tag : {"st", "name", "rev"} \subseteq DOMAIN tag[u]
  BY DEF TagsInv, TagsShape
<1> DEFINE F == DOMAIN tagwork[w].rev
           had == tagwork[w].had
<1>2. /\ override' = Relinked(tagwork[w].keys, s, [st |-> "link", tag |-> t]) /\ label' = label
      /\ relation' = [g \in File |->
           IF g \in F THEN [relation[g] EXCEPT ![s] = "off", ![t] = IF g \in had THEN @ ELSE "on"]
           ELSE relation[g]]
      /\ tag' = [tag EXCEPT ![s].st = "dead", ![s].rev = @ + 1, ![t].rev = @ + 1]
  BY DEF TagMergeCommit, CatalogMergeCommit, MergeTags
<1>3. tagwork[w].op # "delete"
  BY DEF TagMergeCommit, CatalogMergeCommit
<1>4. s # t /\ s \in LiveTags /\ t \in LiveTags /\ s \in Tag /\ t \in Tag
  BY <1>0, <1>3 DEF HoldsLive, LiveTags
<1>5. tag'[t].st = "live" /\ \A u \in Tag : tag'[u].name = tag[u].name
  BY <1>1, <1>2, <1>4 DEF LiveTags
<1>6. <<f, s>> \notin stray /\ (f \in had => relation[f][t] = "on")
  BY <1>4 DEF DecidedApart
<1>a. relation[f][s] = "on" => f \in F
  BY <1>0, <1>6 DEF ReadsAll, OnTag
<1>7. CASE f \in F
  <2> HIDE DEF F, had
  <2>2. relation'[f] = [relation[f] EXCEPT ![s] = "off", ![t] = IF f \in had THEN @ ELSE "on"]
    BY <1>2, <1>7
  <2>3. relation'[f][t] = "on"
    BY <1>1, <1>4, <1>6, <2>2
  <2> QED BY <2>3 DEF Kept, TagOnPhoto
<1>8. CASE f \notin F
  <2>1. relation[f][s] # "on" /\ tagwork[w].op = "fold" /\ TagOnPhoto(f, s)
    BY <1>a, <1>8
  <2> HIDE DEF F, had
  <2>3. relation'[f] = relation[f]
    BY <1>2, <1>8
  <2>4. PICK c \in Curated(f) \ hidden[f] : override[c].st # "hidden" /\ ShownAs(c) = s
    BY <2>1 DEF TagOnPhoto
  <2>5. c \in Canonical
    BY DEF Curated, RowsInv
  <2>6. c \in References(s) /\ RuleOf[tag[s].name] \subseteq tagwork[w].keys
    BY <1>4, <2>1, <2>4, <2>5, ShownReferenced DEF KeysInv
  <2>7. override'[c] = [st |-> "link", tag |-> t]
    BY <1>2, <2>5, <2>6 DEF Relinked, References
  <2>8. c \in References(t)'
    BY <2>5, <2>7 DEF References
  <2>9. CASE c \in hidden'[f]
    BY <2>8, <2>9 DEF Kept
  <2>10. CASE c \notin hidden'[f]
    <3>1. \A k \in Tag \cup TagName : TextOf(k)' = TextOf(k)
      BY <1>5 DEF TextOf
    <3>2. Curated(f)' = Curated(f)
      BY <1>2, <2>3, <3>1 DEF Curated
    <3>3. ShownAs(c)' = t /\ override'[c].st # "hidden"
      BY <1>4, <1>5, <2>7 DEF ShownAs, LiveTags
    <3> QED BY <2>4, <2>10, <3>2, <3>3 DEF Kept, TagOnPhoto
  <2> QED BY <2>9, <2>10
<1> QED BY <1>7, <1>8

(* Renaming an entry through the catalog, or merging it into another, and  *)
(* merging a tag into another, keeps the photos: a rename links the keys   *)
(* in its first commit, and a merge takes along every relation of its      *)
(* source, read before without a lock, but those the user has decided      *)
(* about since.                                                            *)
THEOREM RenameKeepsPhotosHolds == Spec => RenameKeepsPhotos
<1> DEFINE Links(w, s, t) == /\ tagwork[w].op # "link" /\ tagwork'[w].op = "link"
                             /\ tagwork'[w].tag = t /\ tagwork'[w].to = s
           Merges(w, s, t) == /\ tagwork[w].op = "merge" /\ tagwork[w].tag = s /\ tagwork[w].to = t
                              /\ tag'[s].st = "dead"
           Keeps == \A w \in Workers, s, t \in Tag : \A f \in live :
                       (Links(w, s, t) /\ TagOnPhoto(f, s)) \/ (Merges(w, s, t) /\ relation[f][s] = "on") =>
                          DecidedApart(w, f, s, t) \/ Kept(f, t)'
<1>1. DatesInv /\ TagsInv /\ LinksInv /\ RowsInv /\ KeysInv /\ [Next]_vars => [Keeps]_tagVars
  <2> SUFFICES ASSUME DatesInv, TagsInv, LinksInv, RowsInv, KeysInv, [Next]_vars, tagVars' # tagVars,
                      NEW w \in Workers, NEW s \in Tag, NEW t \in Tag,
                      NEW f \in live, ~DecidedApart(w, f, s, t)
               PROVE  (Links(w, s, t) /\ TagOnPhoto(f, s)) \/ (Merges(w, s, t) /\ relation[f][s] = "on")
                         => Kept(f, t)'
    BY Zenon
  <2>1. f \in File /\ DOMAIN tagwork = Workers
    BY DEF DatesInv, DatesShape, TagsInv, TagsShape
  <2>2. ASSUME Links(w, s, t), TagOnPhoto(f, s) PROVE Kept(f, t)'
    <3>1. ~\E g \in File : TagsOfDeleted(g)
      BY <2>2 DEF TagsOfDeleted
    <3>2. TagsNext
      BY <3>1, LibraryTagsStep
    <3>3. ASSUME NEW u \in Tag, NEW n \in TagName, CatalogRename(w, u, n) PROVE Kept(f, t)'
      <4>1. u = t /\ u = s
        BY <2>1, <2>2, <3>3, TagWorkFields DEF CatalogRename
      <4>2. relation[f][t] # "off"
        BY <4>1 DEF DecidedApart
      <4> QED BY <2>1, <2>2, <3>3, <4>1, <4>2, RenameKeeps DEF Kept
    <3>4. ASSUME CatalogMergeCommit(w) PROVE Kept(f, t)'
      <4>1. tagwork'[w] = LinkWork(tagwork[w]) /\ tagwork[w].op = "fold"
        BY <2>1, <3>4 DEF CatalogMergeCommit, LinkWork
      <4>2. tagwork[w].to = t /\ tagwork[w].tag = s
        BY <2>2, <4>1, LinkFields
      <4> QED BY <2>1, <2>2, <3>4, <4>1, <4>2, MergeKeeps
    <3> QED BY <2>2, <3>2, <3>3, <3>4, LinkOpened
  <2>3. ASSUME Merges(w, s, t), relation[f][s] = "on" PROVE Kept(f, t)'
    <3>1. Locks(tagwork[w]) /\ HoldsLive(tagwork[w])
      BY <2>3 DEF Locks, TagsInv
    <3>2. tag[s].st = "live" /\ tag' # tag
      BY <2>3, <3>1 DEF HoldsLive, LiveTags
    <3>3. TagsNext
      BY <3>2, LibraryTagsStep DEF tagVars, TagsOfDeleted
    <3>4. Ends(w)
      BY <2>3, <3>1, <3>3, HeldTag
    <3>5. TagMergeCommit(w)
      BY <2>3, <3>4 DEF Ends, TagDeleteCommit, CatalogMergeCommit
    <3> QED BY <2>1, <2>3, <3>5, MergeKeeps
  <2> QED BY <2>2, <2>3
<1> QED
  BY <1>1, DatesInvariant, TagsInvariant, LinksInvariant, RowsInvariant, KeysInvariant, PTL
     DEF Spec, RenameKeepsPhotos

----------------------------------------------------------------------------
(* Revisions.                                                              *)

(* Revisions, stored or read by a session on tags, are numbers.            *)
RevInv ==
    /\ \A f \in File : date[f].rev \in Int
    /\ \A w \in Workers : Locks(tagwork[w]) =>
          \A f \in DOMAIN tagwork[w].rev : f \in File /\ tagwork[w].rev[f] \in Int

(* The next row of a photo counts on from this one.                        *)
CountsOn(row, next) == next.rev \in Int /\ next.rev >= row.rev

(* synchronize and the counting of a change. *)
LEMMA RevisionOf ==
    ASSUME NEW f, NEW r, NEW original, Columns(r), r.rev \in Int
    PROVE  /\ CountsOn(r, Synchronized(f, r, original))
           /\ CountsOn(r, Touched(r))
           /\ CountsOn(r, Touched(Synchronized(f, r, original)))
<1> DEFINE row == IF r = NoState THEN [r EXCEPT !.rev = 0] ELSE r
           p == Project(f, row, original)
           q == [row EXCEPT !.at = p.at, !.year = p.year, !.basis = p.basis]
<1>1. NoState.rev = -1
  BY DEF NoState
<1>2. row.rev \in Int /\ row.rev >= r.rev /\ Columns(row)
  BY <1>1 DEF Columns
<1> HIDE DEF row, p
<1>3. q.rev = row.rev
  <2>1. ASSUME NEW c, Columns(c), NEW x, NEW y, NEW z
        PROVE  [c EXCEPT !.at = x, !.year = y, !.basis = z].rev = c.rev
    BY <2>1 DEF Columns
  <2> QED BY <1>2, <2>1
<1>4. Synchronized(f, r, original) = q /\ Columns(q)
  BY SynchronizedProjects DEF Synchronized, row, p
<1> HIDE DEF q
<1>5. ASSUME NEW c, Columns(c) PROVE Touched(c).rev = c.rev + 1
  BY <1>5 DEF Touched, Columns
<1> QED BY <1>2, <1>3, <1>4, <1>5 DEF CountsOn

(* Writers of capture dates count on from the row they write to: they lock *)
(* it, or leave its revision out of the UPDATE.                            *)
LEMMA DatesCountOn ==
    ASSUME DatesInv, RevInv, DatesNext, NEW f \in File
    PROVE  CountsOn(date[f], date'[f])
<1> DEFINE Right == CountsOn(date[f], date'[f])
<1>0. Columns(date[f]) /\ date[f].rev \in Int /\ DOMAIN date = File
  BY DEF DatesInv, DatesShape, RevInv
<1>1. CASE date'[f] = date[f]
  BY <1>0, <1>1 DEF CountsOn
<1>2. ASSUME NEW F, NEW d, Override(F, d) PROVE Right
  <2>1. CASE f \notin F
    BY <1>1, <1>2, <2>1 DEF Override
  <2>2. CASE f \in F
    <3> DEFINE row == Synchronized(f, date[f], exif[f])
               edit == [row EXCEPT !.user = d]
    <3>1. Columns(row) /\ CountsOn(date[f], row)
      BY <1>0, SynchronizedProjects, RevisionOf
    <3>2. date'[f] = Touched(Synchronized(f, edit, exif[f]))
      BY <1>2, <2>2 DEF Override
    <3> HIDE DEF row
    <3>3. Columns(edit) /\ edit.rev = row.rev
      BY <3>1 DEF Columns
    <3> HIDE DEF edit
    <3>4. CountsOn(edit, date'[f])
      BY <3>1, <3>2, <3>3, RevisionOf DEF CountsOn
    <3> QED BY <1>0, <3>1, <3>3, <3>4 DEF CountsOn
  <2> QED BY <2>1, <2>2
<1>3. ASSUME NEW g \in File, PatchMetadata(g) PROVE Right
  <2>1. \/ date'[f] = date[f] \/ date'[f] = Touched(date[f])
        \/ date'[f] = Touched(Synchronized(f, date[f], exif[f]))
    BY <1>0, <1>3 DEF PatchMetadata
  <2> QED BY <1>0, <1>1, <2>1, RevisionOf
<1>4. ASSUME NEW w \in Workers, SessionCommit(w) PROVE Right
  <2> DEFINE s == session[w]
             new == Synchronized(s.file, s.snap, s.original)
             row == IF s.snap = NoState THEN new ELSE WriteColumns(date[s.file], s.snap, new)
  <2>1. /\ s.file \in File /\ Columns(s.snap) /\ (s.snap = NoState) = (date[s.file] = NoState)
        /\ date' = [date EXCEPT ![s.file] = row]
    BY <1>4 DEF SessionCommit, DatesInv, SessionOK
  <2>2. CASE f # s.file
    BY <1>0, <1>1, <2>1, <2>2
  <2>3. CASE f = s.file /\ s.snap = NoState
    <3>1. date'[f] = Synchronized(f, date[f], s.original)
      BY <1>0, <2>1, <2>3
    <3> QED BY <1>0, <3>1, RevisionOf
  <2>4. CASE f = s.file /\ s.snap # NoState
    <3>1. new.rev = s.snap.rev
      <4> DEFINE p == Project(f, s.snap, s.original)
      <4>1. new = [s.snap EXCEPT !.at = p.at, !.year = p.year, !.basis = p.basis]
        BY <2>4 DEF Synchronized
      <4> HIDE DEF p
      <4> QED BY <2>1, <4>1 DEF Columns
    <3>2. date'[f] = WriteColumns(date[f], s.snap, new)
      BY <1>0, <2>1, <2>4
    <3>3. date'[f].rev = date[f].rev
      BY <1>0, <3>1, <3>2 DEF WriteColumns, Columns
    <3> QED BY <1>0, <3>3 DEF CountsOn
  <2> QED BY <2>2, <2>3, <2>4
<1>5. ASSUME NEW s \in Scripts, ReconBatch(s) PROVE Right
  <2> DEFINE g == Min(recon[s].todo)
             edit == [date[f] EXCEPT !.src = plan[f].year]
  <2>1. date' = date \/ date' = [date EXCEPT ![g] = Reconciled(g)]
    BY <1>5 DEF ReconBatch
  <2>2. Columns(edit) /\ edit.rev = date[f].rev
    BY <1>0 DEF Columns
  <2>3. Reconciled(f) = Touched(Synchronized(f, edit, exif[f]))
    BY DEF Reconciled
  <2> HIDE DEF g, edit
  <2>4. CountsOn(date[f], Reconciled(f))
    BY <1>0, <2>2, <2>3, RevisionOf DEF CountsOn
  <2> QED BY <1>0, <1>1, <2>1, <2>4
<1>6. CASE BackfillApply
  <2> DEFINE g == CHOOSE x \in DOMAIN backfill.scan : TRUE
             fact == IF exif[g] = None THEN backfill.scan[g] ELSE exif[g]
  <2>1. date' = date \/ date' = [date EXCEPT ![g] = Synchronized(g, @, fact)]
    BY <1>6 DEF BackfillApply
  <2> HIDE DEF g, fact
  <2> QED BY <1>0, <1>1, <2>1, RevisionOf
<1>7. CASE \/ \E w \in Workers : \/ \E g \in File : SyncRead(w, g) \/ ExifRead(w, g)
                                 \/ StateRead(w) \/ SessionAbort(w)
           \/ AuditAndPlan \/ \E s \in Scripts : ReconVerify(s) \/ ReconStop(s)
           \/ BackfillStart \/ BackfillScan \/ BackfillEnd
  <2>1. date' = date
    BY <1>7 DEF SyncRead, ExifRead, StateRead, SessionAbort, Open, AuditAndPlan, ReconVerify, ReconStop,
                BackfillStart, BackfillScan, BackfillEnd
  <2> QED BY <1>1, <2>1
<1> QED
  BY <1>2, <1>3, <1>4, <1>5, <1>6, <1>7 DEF DatesNext

(* Handlers of tags, too, but for the commit of a deletion or merge.       *)
LEMMA TagsCountOn ==
    ASSUME DatesInv, TagsInv, RevInv, TagsNext, NEW f \in File
    PROVE  date'[f].rev \in Int /\ (date'[f].rev >= date[f].rev \/ \E w \in Workers : Overtakes(w, f))
<1> DEFINE Right == date'[f].rev \in Int /\ (date'[f].rev >= date[f].rev \/ \E w \in Workers : Overtakes(w, f))
<1>0. Columns(date[f]) /\ date[f].rev \in Int /\ DOMAIN date = File
  BY DEF DatesInv, DatesShape, RevInv
<1>1. ASSUME CountsOn(date[f], date'[f]) PROVE Right
  BY <1>1 DEF CountsOn
<1>2. ASSUME date'[f] = date[f] PROVE Right
  BY <1>0, <1>2
<1>3. ASSUME NEW g \in File, CountRevision(g) PROVE Right
  <2>1. \/ date'[f] = date[f] \/ date'[f] = Touched(date[f])
        \/ date'[f] = Touched(Synchronized(f, date[f], exif[f]))
    BY <1>0, <1>3 DEF CountRevision
  <2> QED BY <1>0, <1>1, <1>2, <2>1, RevisionOf
<1>4. ASSUME NEW w \in Workers, Ends(w) PROVE Right
  <2> DEFINE k == tagwork[w]
  <2>0. Revisions(w) /\ Locks(k) /\ Locks(tagwork[w]) /\ ~Locks(tagwork'[w])
    BY <1>4, EndsWork, LinkFields DEF TagsInv, TagsShape
  <2>1. CASE f \in DOMAIN k.rev /\ date[f] # NoState
    <3>1. date'[f] = [date[f] EXCEPT !.rev = k.rev[f] + 1]
      BY <2>0, <2>1 DEF Revisions
    <3>2. k.rev[f] \in Int
      BY <2>0, <2>1 DEF RevInv
    <3>3. date'[f].rev = k.rev[f] + 1
      BY <1>0, <3>1 DEF Columns
    <3>4. k.rev[f] # date[f].rev => Overtakes(w, f)
      BY <2>0, <2>1 DEF Overtakes, Locks, Holding
    <3> QED BY <1>0, <3>2, <3>3, <3>4
  <2>2. CASE ~(f \in DOMAIN k.rev /\ date[f] # NoState)
    BY <1>2, <2>0, <2>2 DEF Revisions
  <2> QED BY <2>1, <2>2
<1>7. ASSUME NEW w \in Workers, NEW g \in File, AssignCommit(w, g) PROVE Right
  BY <1>3, <1>7 DEF AssignCommit
<1>8. ASSUME NEW g \in File, \/ \E t \in Tag : TagRemove(g, t) \/ HideTag(g, t) \/ RestoreTag(g, t)
                             \/ \E c \in Canonical : HideLabel(g, c) \/ RestoreLabel(g, c)
                             \/ \E n \in TagName : HideName(g, n) \/ RestoreName(g, n)
      PROVE  Right
  BY <1>3, <1>8 DEF TagRemove, HideTag, RestoreTag, HideLabel, RestoreLabel, HideName, RestoreName
<1>9. ASSUME NEW w \in Workers, \/ \E t \in Tag : \/ TagDeleteRead(w, t) \/ CatalogDeleteRead(w, t)
                                                \/ AssignRead(w, t)
                                \/ \E s, t \in Tag : TagMergeRead(w, s, t) \/ CatalogMergeRead(w, s, t)
                                \/ CatalogLink(w) \/ TagAbort(w)
      PROVE  Right
  <2>1. date' = date
    BY <1>9 DEF TagDeleteRead, CatalogDeleteRead, AssignRead, TagMergeRead, CatalogMergeRead, Read,
                OpenTags, CatalogLink, TagAbort
  <2> QED BY <1>2, <2>1
<1>10. ASSUME NEW w \in Workers, NEW n \in TagName, \/ \E t \in Tag : CatalogRename(w, t, n)
                                                    \/ \E c \in Canonical : CatalogAdopt(w, c, n)
       PROVE  Right
  <2>1. date' = date
    BY <1>10 DEF CatalogRename, CatalogAdopt
  <2> QED BY <1>2, <2>1
<1>11. CASE \/ TagCreate \/ \E t \in Tag, n \in TagName : TagUpdate(t, n) \/ PromoteLegacy(n, t)
            \/ \E g \in File, c \in Canonical : SaveAiTag(g, c)
            \/ \E c \in Canonical : CatalogSuppress(c)
            \/ \E n \in TagName : CatalogDeleteName(n)
  <2>1. date' = date
    BY <1>11 DEF TagCreate, TagUpdate, PromoteLegacy, SaveAiTag, CatalogSuppress, CatalogDeleteName
  <2> QED BY <1>2, <2>1
<1> HIDE DEF Right
<1>12. ASSUME NEW w \in Workers,
              \/ \E t \in Tag : TagDeleteRead(w, t) \/ CatalogDeleteRead(w, t) \/ AssignRead(w, t)
              \/ \E s, t \in Tag : TagMergeRead(w, s, t) \/ CatalogMergeRead(w, s, t)
              \/ \E t \in Tag, n \in TagName : CatalogRename(w, t, n)
              \/ \E c \in Canonical, n \in TagName : CatalogAdopt(w, c, n)
              \/ \E g \in File : AssignCommit(w, g)
              \/ TagDeleteCommit(w) \/ TagMergeCommit(w) \/ CatalogMergeCommit(w)
              \/ CatalogLink(w) \/ TagAbort(w)
       PROVE  Right
  BY <1>4, <1>7, <1>9, <1>10, <1>12, ZenonT(40) DEF Ends
<1> QED
  BY <1>8, <1>11, <1>12, ZenonT(40) DEF TagsNext, Right

(* A revision that a session has read stays a number. *)
LEMMA WorkCounts ==
    ASSUME TagsInv, RevInv, TagsNext, NEW w \in Workers, Locks(tagwork'[w])
    PROVE  \A f \in DOMAIN tagwork'[w].rev : f \in File /\ tagwork'[w].rev[f] \in Int
<1> DEFINE Right == \A f \in DOMAIN tagwork'[w].rev : f \in File /\ tagwork'[w].rev[f] \in Int
<1>0. DOMAIN tagwork = Workers /\ ~Locks(NoTagWork)
  BY DEF TagsInv, TagsShape, Locks, NoTagWork
<1>1. ASSUME NEW v \in Workers, NEW k, tagwork' = [tagwork EXCEPT ![v] = k], ~Locks(k) PROVE Right
  BY <1>0, <1>1 DEF RevInv
<1>2. ASSUME tagwork' = tagwork PROVE Right
  BY <1>2 DEF RevInv
<1>3. ASSUME NEW v \in Workers, \/ Ends(v) \/ CatalogLink(v) \/ TagAbort(v)
                                \/ \E f \in File : AssignCommit(v, f)
      PROVE  Right
  <2>1. CASE Ends(v)
    BY <1>1, <2>1, EndsWork, LinkFields
  <2>2. CASE ~Ends(v)
    <3>1. tagwork' = [tagwork EXCEPT ![v] = NoTagWork]
      BY <1>3, <2>2 DEF CatalogLink, TagAbort, AssignCommit
    <3> QED BY <1>0, <1>1, <3>1
  <2> QED BY <2>1, <2>2
<1>5. ASSUME NEW v \in Workers, \/ \E t \in Tag : TagDeleteRead(v, t) \/ CatalogDeleteRead(v, t)
                                \/ \E s, t \in Tag : TagMergeRead(v, s, t) \/ CatalogMergeRead(v, s, t)
      PROVE  Right
  <2>1. PICK op, s, t, keys, adds : Opens(v, op, s, t, keys, adds)
    BY <1>5, ReadOpens
  <2> DEFINE k == ReadWork(op, s, t, keys, adds)
  <2>2. tagwork' = [tagwork EXCEPT ![v] = k]
    BY <2>1 DEF Opens, OpenTags
  <2>3. k.rev = [f \in On(s) |-> date[f].rev]
    BY ReadFields
  <2> HIDE DEF k
  <2>4. \A f \in DOMAIN k.rev : f \in File /\ k.rev[f] \in Int
    BY <2>3 DEF On, RevInv
  <2>5. tagwork'[w] = k \/ tagwork'[w] = tagwork[w]
    BY <1>0, <2>2
  <2> QED BY <2>4, <2>5 DEF RevInv
<1>6. ASSUME NEW v \in Workers, NEW t \in Tag, AssignRead(v, t) PROVE Right
  <2> DEFINE k == [NoTagWork EXCEPT !.op = "assign", !.tag = t]
  <2>1. tagwork' = [tagwork EXCEPT ![v] = k]
    BY <1>6 DEF AssignRead, OpenTags
  <2>2. ~Locks(k)
    BY TagWorkFields DEF Locks
  <2> QED BY <1>1, <2>1, <2>2
<1>7. ASSUME NEW v \in Workers, NEW t, NEW n, CatalogRename(v, t, n) PROVE Right
  <2> DEFINE k == [NoTagWork EXCEPT !.op = "link", !.tag = t, !.to = t, !.keys = References(t)]
  <2>1. tagwork' = [tagwork EXCEPT ![v] = k]
    BY <1>7 DEF CatalogRename
  <2>2. ~Locks(k)
    BY TagWorkFields DEF Locks
  <2> QED BY <1>1, <2>1, <2>2
<1>9. ASSUME NEW v \in Workers, NEW c, NEW n, CatalogAdopt(v, c, n) PROVE Right
  <2> DEFINE t == CHOOSE t \in (IF Named(n) # {} THEN Named(n) ELSE {t \in Tag : tag[t].st = "none"}) : TRUE
             k == [NoTagWork EXCEPT !.op = "adopt", !.tag = t, !.keys = {c}]
  <2>1. tagwork' = tagwork \/ tagwork' = [tagwork EXCEPT ![v] = k]
    BY <1>9 DEF CatalogAdopt
  <2>2. ~Locks(k)
    BY TagWorkFields DEF Locks
  <2> HIDE DEF k
  <2> QED BY <1>1, <1>2, <2>1, <2>2
<1>10. CASE \/ TagCreate \/ \E t \in Tag, n \in TagName : TagUpdate(t, n) \/ PromoteLegacy(n, t)
            \/ \E f \in File, t \in Tag : TagRemove(f, t) \/ HideTag(f, t) \/ RestoreTag(f, t)
            \/ \E f \in File, c \in Canonical : HideLabel(f, c) \/ RestoreLabel(f, c) \/ SaveAiTag(f, c)
            \/ \E f \in File, n \in TagName : HideName(f, n) \/ RestoreName(f, n)
            \/ \E c \in Canonical : CatalogSuppress(c)
            \/ \E n \in TagName : CatalogDeleteName(n)
  <2>1. tagwork' = tagwork
    BY <1>10, ZenonT(60) DEF TagCreate, TagUpdate, PromoteLegacy, TagRemove, HideTag, RestoreTag, HideLabel,
                             RestoreLabel, SaveAiTag, HideName, RestoreName, CatalogSuppress, CatalogDeleteName
  <2> QED BY <1>2, <2>1
<1> HIDE DEF Right
<1>11. ASSUME NEW v \in Workers,
              \/ \E t \in Tag : TagDeleteRead(v, t) \/ CatalogDeleteRead(v, t) \/ AssignRead(v, t)
              \/ \E s, t \in Tag : TagMergeRead(v, s, t) \/ CatalogMergeRead(v, s, t)
              \/ \E t \in Tag, n \in TagName : CatalogRename(v, t, n)
              \/ \E c \in Canonical, n \in TagName : CatalogAdopt(v, c, n)
              \/ \E f \in File : AssignCommit(v, f)
              \/ TagDeleteCommit(v) \/ TagMergeCommit(v) \/ CatalogMergeCommit(v)
              \/ CatalogLink(v) \/ TagAbort(v)
       PROVE  Right
  BY <1>3, <1>5, <1>6, <1>7, <1>9, <1>11, ZenonT(40) DEF Ends
<1> QED
  BY <1>10, <1>11, ZenonT(40) DEF TagsNext, Right

(* The steps of the library. *)
LEMMA RevStep ==
    ASSUME DatesInv, TagsInv, RevInv, [Next]_vars
    PROVE  /\ RevInv'
           /\ \A f \in live \cap live' : date'[f].rev >= date[f].rev \/ \E w \in Workers : Overtakes(w, f)
<1>0. DOMAIN date = File /\ live \subseteq File /\ NoState.rev = -1
  BY DEF DatesInv, DatesShape, NoState
<1>1. ASSUME UNCHANGED tagwork, \A f \in File : CountsOn(date[f], date'[f])
      PROVE  RevInv' /\ \A f \in live \cap live' : date'[f].rev >= date[f].rev
  BY <1>0, <1>1 DEF RevInv, CountsOn
<1>2. CASE TagsNext
  <2>1. \A w \in Workers : Locks(tagwork[w])' =>
          \A f \in DOMAIN tagwork'[w].rev : f \in File /\ tagwork'[w].rev[f] \in Int
    BY <1>2, WorkCounts DEF Locks
  <2> QED BY <1>0, <1>2, <2>1, TagsCountOn DEF RevInv
<1>3. CASE DatesNext /\ UNCHANGED tagVars
  BY <1>1, <1>3, DatesCountOn DEF tagVars
<1>4. ASSUME NEW f \in File, PatchMetadata(f), UNCHANGED tagVars
      PROVE  \A g \in File : CountsOn(date[g], date'[g])
  BY <1>4, DatesCountOn DEF DatesNext
<1>5. CASE UNCHANGED dateVars /\ UNCHANGED tagVars
  BY <1>0, <1>1, <1>5 DEF dateVars, tagVars, CountsOn, RevInv
<1>6. ASSUME NEW f \in File, UploadPhoto(f) PROVE \A g \in File : CountsOn(date[g], date'[g])
  <2>1. date' = [date EXCEPT ![f] = Synchronized(f, @, None)]
    BY <1>6 DEF UploadPhoto, DateOfNew
  <2> QED BY <1>0, <2>1, RevisionOf DEF DatesInv, DatesShape, RevInv, CountsOn
<1>7. ASSUME NEW f \in File, DeletePhoto(f)
      PROVE  RevInv' /\ \A g \in live \cap live' : date'[g].rev >= date[g].rev
  <2>1. date' = [date EXCEPT ![f] = NoState] /\ tagwork' = tagwork /\ live' = live \ {f}
    BY <1>7 DEF DeletePhoto, DateOfDeleted, TagsOfDeleted
  <2> QED BY <1>0, <2>1 DEF RevInv
<1>8. CASE \E f \in File : UploadPhoto(f)
  BY <1>1, <1>6, <1>8 DEF UploadPhoto, tagVars
<1>9. CASE \E f \in File : PatchMetadata(f) /\ UNCHANGED tagVars
  BY <1>1, <1>4, <1>9 DEF tagVars
<1>10. \/ \E f \in File : UploadPhoto(f) \/ DeletePhoto(f)
       \/ TagsNext
       \/ UNCHANGED tagVars /\ (DatesNext \/ UNCHANGED dateVars \/ \E f \in File : PatchMetadata(f))
  <2>1. CASE TagsNext
    BY <2>1
  <2>2. CASE ~TagsNext /\ ~\E f \in File : UploadPhoto(f) \/ DeletePhoto(f)
    <3>1. UNCHANGED tagVars
      BY <2>2 DEF Next, vars
    <3> QED BY <1>0, <2>2, <3>1, LibraryDatesStep
  <2> QED BY <2>1, <2>2
<1> QED BY <1>2, <1>3, <1>5, <1>7, <1>8, <1>9, <1>10

LEMMA RevInitial == Init => RevInv
<1> SUFFICES ASSUME Init PROVE RevInv
  OBVIOUS
<1>1. ASSUME NEW f \in File PROVE date[f].rev \in Int
  <2>1. NoState.rev = -1 /\ Columns(NoState)
    BY DEF NoState, Columns
  <2>2. ASSUME NEW y PROVE Synchronized(f, [NoState EXCEPT !.rev = 0, !.src = y], None).rev \in Int
    <3> DEFINE r == [NoState EXCEPT !.rev = 0, !.src = y]
    <3>1. Columns(r) /\ r.rev = 0
      <4>1. Columns([NoState EXCEPT !.rev = 0]) /\ [NoState EXCEPT !.rev = 0].rev = 0
        BY <2>1, TouchedKeeps DEF Columns
      <4>2. ASSUME NEW q, Columns(q) PROVE Columns([q EXCEPT !.src = y]) /\ [q EXCEPT !.src = y].rev = q.rev
        BY <4>2 DEF Columns
      <4>3. r = [[NoState EXCEPT !.rev = 0] EXCEPT !.src = y]
        OBVIOUS
      <4> QED BY <4>1, <4>2, <4>3
    <3> HIDE DEF r
    <3>2. Synchronized(f, r, None).rev \in Int
      BY <3>1, RevisionOf DEF CountsOn
    <3> QED BY <3>2 DEF r
  <2>3. date[f] \in FirstStates(f) \cup {NoState}
    BY DEF Init, DatesInit
  <2>4. date[f] = NoState \/ \E y : date[f] = Synchronized(f, [NoState EXCEPT !.rev = 0, !.src = y], None)
    BY <2>3 DEF FirstStates
  <2>5. CASE date[f] = NoState
    BY <2>1, <2>5
  <2>6. ASSUME NEW y, date[f] = Synchronized(f, [NoState EXCEPT !.rev = 0, !.src = y], None)
        PROVE  date[f].rev \in Int
    BY <2>2, <2>6, Zenon
  <2> QED BY <2>4, <2>5, <2>6
<1>2. \A w \in Workers : ~Locks(tagwork[w])
  BY DEF Init, TagsInit, NoTagWork, Locks
<1> QED BY <1>1, <1>2 DEF RevInv

(* The revision of a photo's state never goes back while the photo is      *)
(* there, except where a tag deletion or merge commits a revision it read  *)
(* before another change: all others count on from the row they lock, and  *)
(* the flush of an upload that locks nothing leaves the column alone.      *)
THEOREM RevisionGrowsHolds == Spec => RevisionGrows
<1> DEFINE Grows == \A f \in live \cap live' : date[f] # NoState =>
                       date'[f].rev >= date[f].rev \/ \E w \in Workers : Overtakes(w, f)
<1>1. DatesInv /\ TagsInv /\ RevInv /\ [Next]_vars => RevInv'
  BY RevStep
<1>2. DatesInv /\ TagsInv /\ RevInv /\ [Next]_vars => [Grows]_<<date, live>>
  BY RevStep
<1> QED
  BY <1>1, <1>2, RevInitial, DatesInvariant, TagsInvariant, PTL DEF Spec, RevisionGrows

(***************************************************************************)
(* METADATA                                                                *)
(***************************************************************************)

RowColumns == {"id", "locked", "value"}
StageColumns == {"stage", "file", "srcs", "row", "hist"}

(* A row exists when it has an id; its id is the number of the commit that *)
(* made it.                                                                *)
RowOK(row, n) ==
    /\ DOMAIN row = RowColumns /\ DOMAIN row.value = Field
    /\ row.id \in Nat /\ row.id <= n
    /\ row.id = 0 => row = NoMeta

MetaShape ==
    /\ changes \in Nat /\ live \subseteq File
    /\ DOMAIN meta = File /\ DOMAIN latest = File /\ DOMAIN said = File /\ DOMAIN due = File
    /\ \A f \in File : RowOK(meta[f], changes) /\ DOMAIN latest[f] = Field /\ DOMAIN said[f] = Field
    /\ DOMAIN metawork = Workers

(* A worker in a stage. *)
StageOK(k, n) ==
    k.stage # "none" =>
       /\ DOMAIN k = StageColumns /\ k.file \in File
       /\ RowOK(k.row, n) /\ DOMAIN k.hist = Field
       /\ k.stage = "restored" => "SYSTEM" \in k.srcs

(* Nothing has put the user's value of the field at risk. *)
Sure(f, a) == said[f][a] # Unsaid /\ <<f, a>> \notin unsure

(* What a stage has read of such a field is still so: its history, and,    *)
(* while the row is the same, the user's value in it.                      *)
StageKnows(k) ==
    k.stage # "none" => \A a \in Field : Sure(k.file, a) =>
       /\ k.hist[a] = latest[k.file][a]
       /\ k.row.id = meta[k.file].id /\ k.row.value[a] = said[k.file][a]
             => meta[k.file].value[a] = said[k.file][a]

Stands(f, a) ==
    Sure(f, a) =>
       /\ latest[f][a] = [src |-> "USER", val |-> said[f][a]]
       /\ f \in live /\ ~Restoring(f) => meta[f].value[a] = said[f][a]

(* Of a photo that never was, the user has said nothing. *)
MetaInv ==
    /\ MetaShape
    /\ \A w \in Workers : StageOK(metawork[w], changes) /\ StageKnows(metawork[w])
    /\ \A f \in File, a \in Field : Stands(f, a)
    /\ \A f \in File \ (live \cup tomb), a \in Field : said[f][a] = Unsaid

----------------------------------------------------------------------------
(* upsert_fields writes no field whose latest history is the user's; in a  *)
(* restoration it brings that value back.                                  *)
LEMMA UpsertKeepsUser ==
    ASSUME NEW s, NEW src \in Source, NEW restore \in BOOLEAN, NEW a \in Field,
           DOMAIN s = StageColumns, DOMAIN s.row = RowColumns, DOMAIN s.row.value = Field,
           DOMAIN s.hist = Field, s.hist[a].src = "USER"
    PROVE  LET n == Upsert(s, src, restore) IN
           /\ DOMAIN n = StageColumns /\ DOMAIN n.row = RowColumns /\ DOMAIN n.row.value = Field
           /\ DOMAIN n.hist = Field /\ n.hist[a] = s.hist[a]
           /\ n.row.value[a] = IF restore THEN s.hist[a].val ELSE s.row.value[a]
<1> DEFINE row == IF restore THEN Replayed(s.row, s.hist) ELSE s.row
           writes == {b \in Field :
                     /\ Says[src][b] # NoValue /\ ~IsUpdateBlocked(row, restore)
                     /\ ~(restore /\ s.hist[b].src = "USER")
                     /\ \/ restore /\ row.value[b] = NoValue
                        \/ Priority[src] > Priority[s.hist[b].src]
                     /\ row.value[b] # Says[src][b]}
           value == [b \in Field |-> IF b \in writes THEN Says[src][b] ELSE row.value[b]]
           hist == [b \in Field |-> IF b \in writes THEN [src |-> src, val |-> Says[src][b]] ELSE s.hist[b]]
<1>1. DOMAIN row = RowColumns /\ DOMAIN row.value = Field
        /\ row.value[a] = IF restore THEN s.hist[a].val ELSE s.row.value[a]
  BY DEF Replayed, RowColumns
<1>2. a \notin writes
  <2>1. ~(Priority[src] > Priority["USER"])
    BY DEF Priority, Source
  <2> HIDE DEF row
  <2> QED BY <2>1
<1>3. Upsert(s, src, restore) = [s EXCEPT !.row = [row EXCEPT !.value = value], !.hist = hist]
  BY Zenon DEF Upsert
<1> DEFINE newrow == [row EXCEPT !.value = value]
<1>4. /\ DOMAIN value = Field /\ value[a] = row.value[a]
      /\ DOMAIN hist = Field /\ hist[a] = s.hist[a]
  BY <1>2
<1> HIDE DEF row, value, hist, writes
<1>5. DOMAIN newrow = RowColumns /\ newrow.value = value
  BY <1>1 DEF RowColumns
<1> HIDE DEF newrow
<1>6. Upsert(s, src, restore) = [s EXCEPT !.row = newrow, !.hist = hist]
  BY <1>3 DEF newrow
<1> QED BY <1>1, <1>4, <1>5, <1>6 DEF StageColumns

(* A stage writes nothing in a field whose latest history, as it has read  *)
(* it, is the user's; a restoration brings that value back.                *)
LEMMA ExtractedKeepsUser ==
    ASSUME NEW k, NEW n, NEW a \in Field, k.stage # "none", StageOK(k, n), k.hist[a].src = "USER"
    PROVE  LET e == Extracted(k) IN
           /\ DOMAIN e = StageColumns /\ DOMAIN e.row = RowColumns /\ DOMAIN e.row.value = Field
           /\ DOMAIN e.hist = Field /\ e.hist[a] = k.hist[a]
           /\ e.row.value[a] = IF k.stage = "restored" THEN k.hist[a].val ELSE k.row.value[a]
<1> DEFINE restore == k.stage = "restored"
           upsert(s, src) == IF src \in k.srcs THEN Upsert(s, src, restore) ELSE s
           Good(s) == /\ DOMAIN s = StageColumns /\ DOMAIN s.row = RowColumns /\ DOMAIN s.row.value = Field
                      /\ DOMAIN s.hist = Field /\ s.hist[a] = k.hist[a]
           value == IF restore THEN k.hist[a].val ELSE k.row.value[a]
<1>1. ASSUME NEW s, NEW src \in Source, Good(s), s.row.value[a] \in {value, k.row.value[a]}
      PROVE  /\ Good(upsert(s, src)) /\ upsert(s, src).row.value[a] \in {value, s.row.value[a]}
             /\ src \in k.srcs => upsert(s, src).row.value[a] = value
  <2>1. CASE src \in k.srcs
    <3>1. upsert(s, src) = Upsert(s, src, restore)
      BY <2>1
    <3>2. /\ DOMAIN s = StageColumns /\ DOMAIN s.row = RowColumns /\ DOMAIN s.row.value = Field
          /\ DOMAIN s.hist = Field /\ s.hist[a].src = "USER" /\ restore \in BOOLEAN
      BY <1>1
    <3> DEFINE u == Upsert(s, src, restore)
    <3> HIDE DEF restore
    <3>3. /\ DOMAIN u = StageColumns /\ DOMAIN u.row = RowColumns /\ DOMAIN u.row.value = Field
          /\ DOMAIN u.hist = Field /\ u.hist[a] = s.hist[a]
          /\ u.row.value[a] = IF restore THEN s.hist[a].val ELSE s.row.value[a]
      BY <3>2, UpsertKeepsUser
    <3> HIDE DEF u
    <3>4. u.row.value[a] = value
      BY <1>1, <3>3
    <3> HIDE DEF value, upsert
    <3>5. upsert(s, src) = u
      BY <3>1 DEF u
    <3> QED BY <1>1, <2>1, <3>3, <3>4, <3>5
  <2>2. CASE src \notin k.srcs
    <3>1. upsert(s, src) = s
      BY <2>2
    <3> HIDE DEF value, upsert, restore
    <3> QED BY <1>1, <2>2, <3>1
  <2> QED BY <2>1, <2>2
<1>2. Good(k) /\ (restore => "SYSTEM" \in k.srcs) /\ (~restore => value = k.row.value[a])
  BY DEF StageOK, RowOK
<1>3. Extracted(k) = upsert(upsert(upsert(k, "SYSTEM"), "EXIF"), "GPS")
  BY Zenon DEF Extracted
<1> DEFINE s1 == upsert(k, "SYSTEM")
           s2 == upsert(s1, "EXIF")
           s3 == upsert(s2, "GPS")
<1>4. "SYSTEM" \in Source /\ "EXIF" \in Source /\ "GPS" \in Source
  BY DEF Source
<1> HIDE DEF upsert, Good, value
<1>5. /\ Good(s1) /\ s1.row.value[a] \in {value, k.row.value[a]}
      /\ "SYSTEM" \in k.srcs => s1.row.value[a] = value
  BY <1>1, <1>2, <1>4
<1> HIDE DEF s1
<1>6. Good(s2) /\ s2.row.value[a] \in {value, s1.row.value[a]}
  BY <1>1, <1>4, <1>5
<1> HIDE DEF s2
<1>7. Good(s3) /\ s3.row.value[a] \in {value, s2.row.value[a]}
  BY <1>1, <1>4, <1>5, <1>6
<1>8. s3.row.value[a] = value
  BY <1>2, <1>5, <1>6, <1>7
<1>9. Extracted(k) = s3
  BY <1>3 DEF s1, s2, s3
<1> HIDE DEF s3
<1> QED BY <1>7, <1>8, <1>9 DEF Good, value

----------------------------------------------------------------------------
(* The number of commits only grows. *)
Counts == changes' = changes \/ Count

LEMMA PlacesCount == PlacesNext => Counts
<1>1. PlaceCreate => Counts
  BY Zenon DEF PlaceCreate, Counts
<1>2. ASSUME NEW p, NEW q
      PROVE  PlaceUpdate(p) \/ PlaceDelete(p) \/ PlaceMerge(p, q) => Counts
  BY Zenon DEF PlaceUpdate, PlaceDelete, PlaceMerge, Counts
<1>3. ASSUME NEW F, NEW p, NEW daily, NEW w
      PROVE  AssignPlace(F, p) \/ SetCategory(F, daily) \/ PendingRead(w, F, p) => Counts
  BY Zenon DEF AssignPlace, SetCategory, PendingRead, Start, Counts
<1>4. ASSUME NEW w, NEW f, NEW g, NEW p, NEW again
      PROVE  AutoRead(w, f) \/ AutoReadKnown(w, f) \/ GpsRead(w, f, g) \/ ReclassifyRead(w, p, again) => Counts
  BY Zenon DEF AutoRead, AutoReadKnown, GpsRead, ReclassifyRead, Start, Counts
<1>5. ASSUME NEW w
      PROVE  ResolveCandidate(w) \/ Finish(w) \/ PlaceGiveUp(w) => Counts
  BY ZenonT(30) DEF ResolveCandidate, ResolveAs, Finish, PlaceGiveUp, Counts
<1> QED BY <1>1, <1>2, <1>3, <1>4, <1>5 DEF PlacesNext

LEMMA DatesCount == DatesNext => Counts
<1>1. ASSUME NEW F, NEW d, NEW f
      PROVE  Override(F, d) \/ PatchMetadata(f) => Counts
  BY Zenon DEF Override, PatchMetadata, Counts
<1>2. ASSUME NEW w, NEW f
      PROVE  SyncRead(w, f) \/ ExifRead(w, f) \/ StateRead(w) => Counts
  BY Zenon DEF SyncRead, ExifRead, StateRead, Open, Counts
<1>3. ASSUME NEW w
      PROVE  SessionCommit(w) \/ SessionAbort(w) => Counts
  BY Zenon DEF SessionCommit, SessionAbort, Open, Counts
<1>4. AuditAndPlan => Counts
  BY Zenon DEF AuditAndPlan, Counts
<1>5. ASSUME NEW s
      PROVE  ReconVerify(s) \/ ReconBatch(s) \/ ReconStop(s) => Counts
  BY Zenon DEF ReconVerify, ReconBatch, ReconStop, Counts
<1>6. BackfillStart \/ BackfillScan \/ BackfillApply \/ BackfillEnd => Counts
  BY Zenon DEF BackfillStart, BackfillScan, BackfillApply, BackfillEnd, Counts
<1> QED BY <1>1, <1>2, <1>3, <1>4, <1>5, <1>6 DEF DatesNext

LEMMA TagsCountCommits == TagsNext => Counts
<1>1. TagCreate => Counts
  BY Zenon DEF TagCreate, Counts
<1>2. ASSUME NEW t, NEW n
      PROVE  TagUpdate(t, n) \/ PromoteLegacy(n, t) => Counts
  BY Zenon DEF TagUpdate, PromoteLegacy, Counts
<1>3. ASSUME NEW w, NEW s, NEW t
      PROVE  /\ TagDeleteRead(w, t) \/ CatalogDeleteRead(w, t) \/ AssignRead(w, t) => Counts
             /\ TagMergeRead(w, s, t) \/ CatalogMergeRead(w, s, t) => Counts
  BY Zenon DEF TagDeleteRead, CatalogDeleteRead, AssignRead, TagMergeRead, CatalogMergeRead, Read, OpenTags,
               Counts
<1>4. ASSUME NEW w, NEW t, NEW n, NEW c
      PROVE  CatalogRename(w, t, n) \/ CatalogAdopt(w, c, n) => Counts
  BY Zenon DEF CatalogRename, CatalogAdopt, OpenTags, Counts
<1>5. ASSUME NEW w, NEW f
      PROVE  AssignCommit(w, f) \/ TagDeleteCommit(w) \/ TagMergeCommit(w) \/ CatalogMergeCommit(w) => Counts
  BY Zenon DEF AssignCommit, TagDeleteCommit, TagMergeCommit, CatalogMergeCommit, MergeTags, Counts
<1>6. ASSUME NEW w
      PROVE  CatalogLink(w) \/ TagAbort(w) => Counts
  BY Zenon DEF CatalogLink, TagAbort, Counts
<1>7. ASSUME NEW f, NEW t
      PROVE  TagRemove(f, t) \/ HideTag(f, t) \/ RestoreTag(f, t) => Counts
  BY Zenon DEF TagRemove, HideTag, RestoreTag, Counts
<1>8. ASSUME NEW f, NEW c, NEW n
      PROVE  HideLabel(f, c) \/ SaveAiTag(f, c) \/ CatalogSuppress(c) \/ CatalogDeleteName(n) => Counts
  BY Zenon DEF HideLabel, SaveAiTag, CatalogSuppress, CatalogDeleteName, Counts
<1>9. ASSUME NEW f, NEW c, NEW n
      PROVE  RestoreLabel(f, c) \/ HideName(f, n) \/ RestoreName(f, n) => Counts
  BY Zenon DEF RestoreLabel, HideName, RestoreName, Counts
<1> QED BY <1>1, <1>2, <1>3, <1>4, <1>5, <1>6, <1>7, <1>8, <1>9, ZenonT(40) DEF TagsNext

LEMMA MetaCount == MetaNext => Counts
<1>1. ASSUME NEW w, NEW f, NEW stage
      PROVE  StageCommit(w) \/ StageAbort(w) \/ StageSkip(f, stage) \/ StageRead(w, f, stage) => Counts
  BY Zenon DEF StageCommit, StageAbort, StageSkip, StageRead, Counts
<1>2. ASSUME NEW f, NEW values
      PROVE  PatchFields(f, values) => Counts
  BY Zenon DEF PatchFields, PatchMetadata, Counts
<1>3. ASSUME NEW f
      PROVE  ExifFillRead(f) \/ PhotoFillRead(f) => Counts
  BY Zenon DEF ExifFillRead, PhotoFillRead, Fill, Counts
<1>4. FillWrite \/ FillEnd => Counts
  BY Zenon DEF FillWrite, FillEnd, Counts
<1> QED BY <1>1, <1>2, <1>3, <1>4 DEF MetaNext

LEMMA CommitsGrow ==
    ASSUME changes \in Nat, [Next]_vars
    PROVE  changes' \in Nat /\ changes <= changes'
<1>1. ASSUME NEW f
      PROVE  UploadPhoto(f) \/ DeletePhoto(f) => Counts
  BY Zenon DEF UploadPhoto, DeletePhoto, Counts
<1>2. Counts
  BY <1>1, PlacesCount, DatesCount, TagsCountCommits, MetaCount DEF Next, vars, Counts
<1> QED BY <1>2 DEF Counts, Count

----------------------------------------------------------------------------
LEMMA RowKept ==
    ASSUME NEW m \in Nat, NEW n \in Nat, m <= n
    PROVE  /\ \A row : RowOK(row, m) => RowOK(row, n)
           /\ \A k : StageOK(k, m) => StageOK(k, n)
<1>1. \A row : RowOK(row, m) => RowOK(row, n)
  BY DEF RowOK
<1> QED BY <1>1 DEF StageOK

(* A step that leaves alone what the users have said, or puts it at risk.  *)
(* Rows change only together with their id, or where the value is the      *)
(* user's afterwards.                                                      *)
LEMMA MetaStays ==
    ASSUME MetaInv, changes' \in Nat, changes <= changes', UNCHANGED <<live, said, metawork>>,
           DOMAIN meta' = File, DOMAIN latest' = File,
           \A f \in File : meta'[f] = meta[f] /\ latest'[f] = latest[f],
           unsure \subseteq unsure', tomb' = tomb, DOMAIN due' = File,
           \A f \in File : "restored" \in due[f] => "restored" \in due'[f]
                                                    \/ \A a \in Field : <<f, a>> \in unsure'
    PROVE  MetaInv'
<1>1. MetaShape'
  BY RowKept DEF MetaInv, MetaShape
<1>2. \A f \in File, a \in Field : Sure(f, a)' => Sure(f, a)
  BY DEF Sure
<1>3. \A w \in Workers : StageOK(metawork[w], changes)' /\ StageKnows(metawork[w])'
  <2> TAKE w \in Workers
  <2>1. StageOK(metawork[w], changes) /\ StageKnows(metawork[w])
    BY DEF MetaInv
  <2>2. StageOK(metawork'[w], changes')
    BY <2>1, RowKept DEF MetaInv, MetaShape
  <2>3. StageKnows(metawork[w])'
    BY <2>1, <1>2 DEF StageKnows, StageOK
  <2> QED BY <2>2, <2>3
<1>4. \A f \in File, a \in Field : Stands(f, a)'
  <2> TAKE f \in File, a \in Field
  <2>1. Stands(f, a)
    BY DEF MetaInv
  <2>2. Sure(f, a)' /\ ~Restoring(f)' => ~Restoring(f)
    BY DEF Restoring, Sure
  <2> QED BY <1>2, <2>1, <2>2 DEF Stands
<1> QED BY <1>1, <1>3, <1>4 DEF MetaInv

LEMMA StageReads ==
    ASSUME MetaInv, NEW w \in Workers, NEW f \in File, NEW stage \in {"new", "restored", "gps"},
           StageRead(w, f, stage), live' = live
    PROVE  MetaInv'
<1>1. PICK srcs \in SourcesOf(stage) :
        metawork' = [metawork EXCEPT ![w] = [stage |-> stage, file |-> f, srcs |-> srcs,
                                             row |-> meta[f], hist |-> latest[f]]]
  BY DEF StageRead
<1> DEFINE k == [stage |-> stage, file |-> f, srcs |-> srcs, row |-> meta[f], hist |-> latest[f]]
<1>2. /\ UNCHANGED <<live, meta, latest, tomb, said, unsure, changes>>
      /\ due' = [due EXCEPT ![f] = @ \ {stage}] /\ metawork[w] = NoMetaWork
  BY DEF StageRead
<1>3. \A v \in Workers : metawork'[v] = IF v = w THEN k ELSE metawork[v]
  BY <1>1 DEF MetaInv, MetaShape
<1>4. k.stage = "restored" => "SYSTEM" \in k.srcs
  BY DEF SourcesOf, Source
<1>5. MetaShape'
  BY <1>1, <1>2 DEF MetaInv, MetaShape
<1>6. \A v \in Workers : StageOK(metawork[v], changes)' /\ StageKnows(metawork[v])'
  <2> TAKE v \in Workers
  <2>1. CASE v = w
    <3>1. metawork'[v] = k /\ DOMAIN k = StageColumns
      BY <1>3, <2>1 DEF StageColumns
    <3>2. StageOK(k, changes)
      BY <1>4, <3>1 DEF StageOK, MetaInv, MetaShape
    <3>3. StageKnows(metawork[v])'
      BY <1>2, <3>1 DEF StageKnows
    <3> QED BY <1>2, <3>1, <3>2, <3>3
  <2>2. CASE v # w
    BY <1>2, <1>3, <2>2 DEF MetaInv, StageKnows, Sure
  <2> QED BY <2>1, <2>2
<1>7. \A g \in File, a \in Field : Stands(g, a)'
  <2> TAKE g \in File, a \in Field
  <2>1. Stands(g, a)
    BY DEF MetaInv
  <2>2. NoMetaWork.stage = "none"
    BY DEF NoMetaWork
  <2>3. Restoring(g) => Restoring(g)'
    <3>1. CASE "restored" \in due[g]
      <4>1. CASE g = f /\ stage = "restored"
        BY <1>3, <4>1 DEF Restoring
      <4>2. CASE g # f \/ stage # "restored"
        BY <1>2, <3>1, <4>2 DEF Restoring, MetaInv, MetaShape
      <4> QED BY <4>1, <4>2
    <3>2. ASSUME NEW v \in Workers, metawork[v].stage = "restored", metawork[v].file = g
          PROVE  Restoring(g)'
      <4>1. v # w
        BY <1>2, <2>2, <3>2
      <4> QED BY <1>3, <3>2, <4>1 DEF Restoring
    <3> QED BY <3>1, <3>2 DEF Restoring
  <2> QED BY <1>2, <2>1, <2>3 DEF Stands, Sure
<1> QED BY <1>2, <1>5, <1>6, <1>7 DEF MetaInv

(* A stage that fails, or is not run: a restoration that was cut short     *)
(* puts every field of its photo at risk.                                  *)
LEMMA StageSkips ==
    ASSUME MetaInv, NEW f \in File, NEW stage, StageSkip(f, stage), live' = live
    PROVE  MetaInv'
<1>1. /\ UNCHANGED <<live, meta, latest, tomb, metawork, said, changes>>
      /\ due' = [due EXCEPT ![f] = @ \ {stage}] /\ unsure' = Forgone(f, stage)
  BY DEF StageSkip
<1>2. unsure \subseteq unsure' /\ (stage = "restored" => \A a \in Field : <<f, a>> \in unsure')
  BY <1>1 DEF Forgone
<1>3. changes' \in Nat /\ changes <= changes'
  BY <1>1 DEF MetaInv, MetaShape
<1>4. DOMAIN due' = File /\ \A g \in File : "restored" \in due[g] =>
         "restored" \in due'[g] \/ \A a \in Field : <<g, a>> \in unsure'
  BY <1>1, <1>2 DEF MetaInv, MetaShape
<1>5. /\ DOMAIN meta' = File /\ DOMAIN latest' = File
      /\ \A g \in File : meta'[g] = meta[g] /\ latest'[g] = latest[g]
  BY <1>1 DEF MetaInv, MetaShape
<1> QED BY <1>1, <1>2, <1>3, <1>4, <1>5, MetaStays

LEMMA StageAborts ==
    ASSUME MetaInv, NEW w \in Workers, StageAbort(w), live' = live
    PROVE  MetaInv'
<1> DEFINE k == metawork[w]
<1>1. /\ UNCHANGED <<live, meta, latest, tomb, due, said, changes>>
      /\ metawork' = [metawork EXCEPT ![w] = NoMetaWork] /\ unsure' = Forgone(k.file, k.stage)
  BY DEF StageAbort
<1>2. \A v \in Workers : metawork'[v] = IF v = w THEN NoMetaWork ELSE metawork[v]
  BY <1>1 DEF MetaInv, MetaShape
<1>3. NoMetaWork.stage = "none"
  BY DEF NoMetaWork
<1>4. \A g \in File, a \in Field : Sure(g, a)' => Sure(g, a)
  BY <1>1 DEF Sure, Forgone
<1>5. MetaShape'
  BY <1>1 DEF MetaInv, MetaShape
<1>6. \A v \in Workers : StageOK(metawork[v], changes)' /\ StageKnows(metawork[v])'
  <2> TAKE v \in Workers
  <2>1. CASE v = w
    BY <1>2, <1>3, <2>1 DEF StageOK, StageKnows
  <2>2. CASE v # w
    <3>1. metawork'[v] = metawork[v] /\ StageOK(metawork[v], changes) /\ StageKnows(metawork[v])
      BY <1>2, <2>2 DEF MetaInv
    <3> QED BY <1>1, <1>4, <3>1 DEF StageKnows, StageOK
  <2> QED BY <2>1, <2>2
<1>7. \A g \in File, a \in Field : Stands(g, a)'
  <2> TAKE g \in File, a \in Field
  <2>1. Stands(g, a)
    BY DEF MetaInv
  <2>2. Sure(g, a)' /\ Restoring(g) => Restoring(g)'
    <3>1. ASSUME NEW v \in Workers, metawork[v].stage = "restored", metawork[v].file = g, Sure(g, a)'
          PROVE  Restoring(g)'
      <4>1. v # w
        BY <1>1, <3>1 DEF Forgone, Sure
      <4> QED BY <1>2, <3>1, <4>1 DEF Restoring
    <3> QED BY <1>1, <3>1 DEF Restoring
  <2> QED BY <1>1, <1>4, <2>1, <2>2 DEF Stands
<1> QED BY <1>1, <1>5, <1>6, <1>7 DEF MetaInv

(* The commit of a stage. *)
LEMMA StageCommits ==
    ASSUME MetaInv, NEW w \in Workers, StageCommit(w), live' = live
    PROVE  MetaInv'
<1> DEFINE k == metawork[w]
           f == k.file
           new == Extracted(k)
           written == {a \in Field : new.hist[a] # k.hist[a]}
           value == WriteColumns(meta[f].value, k.row.value, new.row.value)
           id == IF k.row = NoMeta THEN changes + 1 ELSE k.row.id
           row == [id |-> id,
                   locked |-> IF new.row.locked # k.row.locked THEN new.row.locked ELSE meta[f].locked,
                   value |-> value]
<1>1. /\ k.stage # "none" /\ meta[f].id = k.row.id /\ changes' = changes + 1
      /\ meta' = [meta EXCEPT ![f] = row]
      /\ latest' = [latest EXCEPT ![f] = [a \in Field |-> IF a \in written THEN new.hist[a] ELSE @[a]]]
      /\ due' = [due EXCEPT ![f] = @ \cup StagesAfter[k.stage]]
      /\ metawork' = [metawork EXCEPT ![w] = NoMetaWork]
      /\ UNCHANGED <<tomb, said, unsure>>
  BY DEF StageCommit, Count
<1>2. /\ StageOK(k, changes) /\ StageKnows(k) /\ f \in File
      /\ changes \in Nat /\ RowOK(meta[f], changes)
  BY <1>1 DEF MetaInv, MetaShape, StageOK
<1>3. \A v \in Workers : metawork'[v] = IF v = w THEN NoMetaWork ELSE metawork[v]
  BY <1>1 DEF MetaInv, MetaShape
<1>4. /\ DOMAIN meta' = File /\ meta'[f] = row
      /\ \A g \in File \ {f} : meta'[g] = meta[g]
  <2> HIDE DEF row, f
  <2> QED BY <1>1, <1>2 DEF MetaInv, MetaShape
<1>5. /\ DOMAIN latest' = File /\ DOMAIN latest'[f] = Field
      /\ \A g \in File \ {f} : latest'[g] = latest[g]
      /\ \A a \in Field \ written : latest'[f][a] = latest[f][a]
  <2> HIDE DEF written, f, new
  <2> QED BY <1>1, <1>2 DEF MetaInv, MetaShape
<1>6. DOMAIN value = Field /\ \A a \in Field :
        value[a] = IF new.row.value[a] # k.row.value[a] THEN new.row.value[a] ELSE meta[f].value[a]
  BY <1>2 DEF WriteColumns, RowOK
(* The user's value: the stage's own idea of it, or what is in the row.    *)
<1>7. ASSUME NEW a \in Field, Sure(f, a)
      PROVE  /\ latest'[f][a] = latest[f][a] /\ latest[f][a] = [src |-> "USER", val |-> said[f][a]]
             /\ value[a] = IF k.stage = "restored" THEN said[f][a] ELSE meta[f].value[a]
  <2>1. latest[f][a] = [src |-> "USER", val |-> said[f][a]]
    BY <1>2, <1>7 DEF MetaInv, Stands
  <2>2. /\ k.hist[a] = latest[f][a]
        /\ k.row.value[a] = said[f][a] => meta[f].value[a] = said[f][a]
    BY <1>1, <1>2, <1>7 DEF StageKnows
  <2>3. k.hist[a].src = "USER" /\ k.hist[a].val = said[f][a]
    BY <2>1, <2>2
  <2>4. /\ new.hist[a] = k.hist[a]
        /\ new.row.value[a] = IF k.stage = "restored" THEN k.hist[a].val ELSE k.row.value[a]
    <3> HIDE DEF k
    <3> QED BY <1>1, <1>2, <2>3, ExtractedKeepsUser
  <2> HIDE DEF new, k, value, f
  <2>5. a \notin written
    BY <2>4
  <2> QED BY <1>5, <1>6, <2>1, <2>2, <2>3, <2>4, <2>5
<1>8. /\ DOMAIN row = RowColumns /\ row.value = value /\ row.id = id
      /\ id \in Nat /\ id <= changes' /\ id # 0
  <2>1. k.row.id \in Nat /\ k.row.id <= changes /\ (k.row.id = 0 => k.row = NoMeta)
    BY <1>1, <1>2 DEF StageOK, RowOK
  <2>2. id \in Nat /\ id <= changes' /\ id # 0
    <3> HIDE DEF k
    <3> QED BY <1>1, <1>2, <2>1
  <2> HIDE DEF id, value
  <2> QED BY <2>2 DEF RowColumns
<1>9. id = meta[f].id \/ id = changes + 1
  BY <1>1
<1> HIDE DEF new, written, value, id, row
<1>10. MetaShape'
  <2>1. RowOK(row, changes')
    BY <1>6, <1>8 DEF RowOK
  <2>2. \A g \in File : RowOK(meta'[g], changes')
    BY <1>1, <1>2, <1>4, <2>1, RowKept DEF MetaInv, MetaShape
  <2>3. DOMAIN due' = File /\ DOMAIN metawork' = Workers /\ changes' \in Nat
    BY <1>1, <1>2 DEF MetaInv, MetaShape
  <2> QED BY <1>1, <1>4, <1>5, <2>2, <2>3 DEF MetaInv, MetaShape
<1>11. \A g \in File, a \in Field : Sure(g, a)' = Sure(g, a)
  BY <1>1 DEF Sure
<1>12. \A v \in Workers : StageOK(metawork[v], changes)' /\ StageKnows(metawork[v])'
  <2> TAKE v \in Workers
  <2>1. CASE v = w
    <3>1. NoMetaWork.stage = "none"
      BY DEF NoMetaWork
    <3> QED BY <1>3, <2>1, <3>1 DEF StageOK, StageKnows
  <2>2. CASE v # w
    <3> DEFINE q == metawork[v]
    <3>1. metawork'[v] = q /\ StageOK(q, changes) /\ StageKnows(q)
      BY <1>3, <2>2 DEF MetaInv
    <3>2. StageOK(q, changes')
      BY <1>1, <1>2, <3>1, RowKept
    <3>3. ASSUME q.stage # "none", NEW a \in Field, Sure(q.file, a)
          PROVE  /\ q.hist[a] = latest'[q.file][a]
                 /\ q.row.id = meta'[q.file].id /\ q.row.value[a] = said[q.file][a]
                       => meta'[q.file].value[a] = said[q.file][a]
      <4>0. /\ q.file \in File /\ q.row.id \in Nat /\ q.row.id <= changes
            /\ q.hist[a] = latest[q.file][a]
            /\ q.row.id = meta[q.file].id /\ q.row.value[a] = said[q.file][a]
                  => meta[q.file].value[a] = said[q.file][a]
        BY <3>1, <3>3 DEF StageOK, RowOK, StageKnows
      <4> HIDE DEF q, k
      <4>1. CASE q.file # f
        BY <1>4, <1>5, <4>0, <4>1
      <4>2. CASE q.file = f
        <5>1. latest'[f][a] = latest[f][a] /\ value[a] \in {said[f][a], meta[f].value[a]}
          BY <1>7, <3>3, <4>2
        <5>2. q.row.id = row.id => q.row.id = meta[f].id
          BY <1>2, <1>8, <1>9, <4>0
        <5> QED BY <1>4, <1>8, <4>0, <4>2, <5>1, <5>2
      <4> QED BY <4>1, <4>2
    <3>4. StageKnows(metawork[v])'
      <4>1. q.stage # "none" => q.file \in File
        BY <3>1 DEF StageOK
      <4>2. said' = said
        BY <1>1
      <4> QED BY <1>11, <3>1, <3>3, <4>1, <4>2 DEF StageKnows
    <3> QED BY <3>1, <3>2, <3>4
  <2> QED BY <2>1, <2>2
<1>13. \A g \in File, a \in Field : Stands(g, a)'
  <2> TAKE g \in File, a \in Field
  <2>1. Stands(g, a) /\ said' = said
    BY <1>1 DEF MetaInv
  <2>2. g # f \/ k.stage # "restored" => (Restoring(g) => Restoring(g)')
    <3>1. "restored" \in due[g] => "restored" \in due'[g]
      BY <1>1, <1>2 DEF MetaInv, MetaShape
    <3>2. ASSUME NEW v \in Workers, metawork[v].stage = "restored", metawork[v].file = g,
                 g # f \/ k.stage # "restored"
          PROVE  Restoring(g)'
      <4>1. v # w
        BY <3>2
      <4> QED BY <1>3, <3>2, <4>1 DEF Restoring
    <3> QED BY <3>1, <3>2 DEF Restoring
  <2> HIDE DEF k, f
  <2>3. CASE g # f
    BY <1>4, <1>5, <1>11, <2>1, <2>2, <2>3 DEF Stands
  <2>4. CASE g = f
    <3>1. CASE k.stage = "restored"
      BY <1>4, <1>7, <1>8, <1>11, <2>1, <2>4, <3>1 DEF Stands
    <3>2. CASE k.stage # "restored"
      BY <1>4, <1>7, <1>8, <1>11, <2>1, <2>2, <2>4, <3>2 DEF Stands
    <3> QED BY <3>1, <3>2
  <2> QED BY <2>3, <2>4
<1>14. \A g \in File \ (live' \cup tomb'), a \in Field : said'[g][a] = Unsaid
  BY <1>1 DEF MetaInv
<1> QED BY <1>10, <1>12, <1>13, <1>14 DEF MetaInv

(* A step that changes one photo's row and history outside of a stage.     *)
LEMMA RowChanges ==
    ASSUME MetaInv, NEW f \in File, changes' \in Nat, changes <= changes',
           UNCHANGED <<tomb, due, metawork>>, live' = live, f \in live \/ said' = said,
           DOMAIN meta' = File, DOMAIN latest' = File, DOMAIN said' = File,
           \A g \in File \ {f} : meta'[g] = meta[g] /\ latest'[g] = latest[g] /\ said'[g] = said[g],
           \A g \in File, a \in Field : g # f /\ <<g, a>> \in unsure => <<g, a>> \in unsure',
           RowOK(meta'[f], changes'), DOMAIN latest'[f] = Field, DOMAIN said'[f] = Field,
           meta'[f].id = meta[f].id \/ meta'[f].id > changes,
           \A a \in Field : Sure(f, a)' =>
              \/ /\ Sure(f, a) /\ said'[f][a] = said[f][a] /\ latest'[f][a] = latest[f][a]
                 /\ meta'[f].value[a] = meta[f].value[a]
              \/ /\ \A w \in Workers : metawork[w].stage # "none" => metawork[w].file # f
                 /\ latest'[f][a] = [src |-> "USER", val |-> said'[f][a]]
                 /\ meta'[f].value[a] = said'[f][a]
    PROVE  MetaInv'
<1>1. MetaShape'
  <2>1. \A g \in File : RowOK(meta'[g], changes')
    BY RowKept DEF MetaInv, MetaShape
  <2> QED BY <2>1 DEF MetaInv, MetaShape
<1>2. \A g \in File \ {f}, a \in Field : Sure(g, a)' => Sure(g, a)
  BY DEF Sure
<1>3. \A w \in Workers : StageOK(metawork[w], changes)' /\ StageKnows(metawork[w])'
  <2> TAKE w \in Workers
  <2> DEFINE q == metawork[w]
  <2>1. metawork'[w] = q /\ StageOK(q, changes) /\ StageKnows(q)
    BY DEF MetaInv
  <2>2. StageOK(q, changes')
    BY <2>1, RowKept DEF MetaInv, MetaShape
  <2>3. ASSUME q.stage # "none", NEW a \in Field, Sure(q.file, a)'
        PROVE  /\ q.hist[a] = latest'[q.file][a]
               /\ q.row.id = meta'[q.file].id /\ q.row.value[a] = said'[q.file][a]
                     => meta'[q.file].value[a] = said'[q.file][a]
    <3>1. q.file \in File /\ q.row.id \in Nat /\ q.row.id <= changes
      BY <2>1, <2>3 DEF StageOK, RowOK
    <3>2. Sure(q.file, a) =>
            /\ q.hist[a] = latest[q.file][a]
            /\ q.row.id = meta[q.file].id /\ q.row.value[a] = said[q.file][a]
                  => meta[q.file].value[a] = said[q.file][a]
      BY <2>1, <2>3 DEF StageKnows
    <3>3. CASE q.file # f
      BY <1>2, <2>3, <3>1, <3>2, <3>3
    <3>4. CASE q.file = f
      <4>1. /\ Sure(f, a) /\ said'[f][a] = said[f][a] /\ latest'[f][a] = latest[f][a]
            /\ meta'[f].value[a] = meta[f].value[a]
        BY <2>3, <3>4
      <4>2. q.row.id = meta'[f].id => q.row.id = meta[f].id
        BY <3>1 DEF MetaInv, MetaShape
      <4> QED BY <3>2, <3>4, <4>1, <4>2
    <3> QED BY <3>3, <3>4
  <2>4. StageKnows(metawork[w])'
    <3>1. q.stage # "none" => q.file \in File
      BY <2>1 DEF StageOK
    <3> QED BY <2>1, <2>3, <3>1 DEF StageKnows
  <2> QED BY <2>1, <2>2, <2>4
<1>4. \A g \in File, a \in Field : Stands(g, a)'
  <2> TAKE g \in File, a \in Field
  <2>1. Stands(g, a) /\ (Restoring(g)' <=> Restoring(g))
    BY DEF MetaInv, Restoring
  <2>2. CASE g # f
    BY <1>2, <2>1, <2>2 DEF Stands
  <2>3. CASE g = f
    BY <2>1, <2>3 DEF Stands
  <2> QED BY <2>2, <2>3
<1>5. \A g \in File \ (live' \cup tomb'), a \in Field : said'[g][a] = Unsaid
  BY DEF MetaInv
<1> QED BY <1>1, <1>3, <1>4, <1>5 DEF MetaInv

(* patch_metadata: the user says what the fields are. *)
LEMMA FieldsPatched ==
    ASSUME MetaInv, NEW f \in File, NEW A \in SUBSET Patchable,
           NEW values \in [A -> Value \cup {NoValue}], PatchFields(f, values), f \in live, live' = live
    PROVE  MetaInv'
<1> DEFINE row == meta[f]
           changed == {a \in DOMAIN values : values[a] # row.value[a]}
           open == \E w \in Workers : metawork[w].stage # "none" /\ metawork[w].file = f
           id == IF row = NoMeta THEN changes + 1 ELSE row.id
           value == Over(values, row.value)
           hist == Over([a \in changed |-> [src |-> "USER", val |-> values[a]]], latest[f])
           says == Over([a \in changed |-> values[a]], said[f])
           new == [id |-> id, locked |-> TRUE, value |-> value]
<1>1. /\ meta' = [meta EXCEPT ![f] = new]
      /\ latest' = [latest EXCEPT ![f] = Over([a \in changed |-> [src |-> "USER", val |-> values[a]]], @)]
      /\ said' = [said EXCEPT ![f] = Over([a \in changed |-> values[a]], @)]
      /\ unsure' = IF open THEN unsure \cup ({f} \X changed) ELSE unsure \ ({f} \X changed)
      /\ UNCHANGED <<tomb, due, metawork>>
  BY DEF PatchFields
<1>2. changes' = changes + 1 /\ changes \in Nat
  BY DEF PatchFields, PatchMetadata, Count, MetaInv, MetaShape
<1>3. DOMAIN values = A /\ A \subseteq Field /\ changed \subseteq A
  BY MetadataAssumption
<1>4. RowOK(row, changes) /\ DOMAIN latest[f] = Field /\ DOMAIN said[f] = Field
  BY DEF MetaInv, MetaShape
<1>5. /\ DOMAIN value = Field
      /\ \A a \in Field : value[a] = IF a \in changed THEN values[a] ELSE row.value[a]
  BY <1>3, <1>4 DEF Over, RowOK
<1>6. /\ DOMAIN hist = Field
      /\ \A a \in Field : hist[a] = IF a \in changed THEN [src |-> "USER", val |-> values[a]] ELSE latest[f][a]
  BY <1>3, <1>4 DEF Over
<1>7. /\ DOMAIN says = Field
      /\ \A a \in Field : says[a] = IF a \in changed THEN values[a] ELSE said[f][a]
  BY <1>3, <1>4 DEF Over
<1>8. id \in Nat /\ id <= changes' /\ id # 0 /\ (id = row.id \/ id > changes)
  BY <1>2, <1>4 DEF RowOK
<1>9. latest' = [latest EXCEPT ![f] = hist] /\ said' = [said EXCEPT ![f] = says]
  BY <1>1
<1> HIDE DEF value, hist, says, id
<1>10. RowOK(new, changes') /\ new.id = id /\ new.value = value
  BY <1>5, <1>8 DEF RowOK, RowColumns
<1> HIDE DEF new, row
<1>11. /\ DOMAIN meta' = File /\ DOMAIN latest' = File /\ DOMAIN said' = File
       /\ meta'[f] = new /\ latest'[f] = hist /\ said'[f] = says
       /\ \A g \in File \ {f} : meta'[g] = meta[g] /\ latest'[g] = latest[g] /\ said'[g] = said[g]
  BY <1>1, <1>9 DEF MetaInv, MetaShape
<1>12. ASSUME NEW a \in Field, Sure(f, a)'
       PROVE  \/ /\ Sure(f, a) /\ said'[f][a] = said[f][a] /\ latest'[f][a] = latest[f][a]
                 /\ meta'[f].value[a] = meta[f].value[a]
              \/ /\ \A w \in Workers : metawork[w].stage # "none" => metawork[w].file # f
                 /\ latest'[f][a] = [src |-> "USER", val |-> said'[f][a]]
                 /\ meta'[f].value[a] = said'[f][a]
  <2>1. CASE a \in changed
    <3>1. ~open
      BY <1>1, <1>12, <2>1 DEF Sure
    <3> QED BY <1>5, <1>6, <1>7, <1>10, <1>11, <2>1, <3>1
  <2>2. CASE a \notin changed
    <3>1. Sure(f, a)
      BY <1>1, <1>7, <1>11, <1>12, <2>2 DEF Sure
    <3> QED BY <1>5, <1>6, <1>7, <1>10, <1>11, <2>2, <3>1 DEF row
  <2> QED BY <2>1, <2>2
<1>13. \A g \in File, a \in Field : g # f /\ <<g, a>> \in unsure => <<g, a>> \in unsure'
  BY <1>1
<1>14. changes' \in Nat /\ changes <= changes'
  BY <1>2
<1>15. meta'[f].id = meta[f].id \/ meta'[f].id > changes
  BY <1>8, <1>10, <1>11 DEF row
<1> QED BY <1>1, <1>6, <1>7, <1>10, <1>11, <1>12, <1>13, <1>14, <1>15, RowChanges

(* A backfill's write: a field the user has spoken of is at risk after it. *)
LEMMA BlanksFilled ==
    ASSUME MetaInv, FillWrite, live' = live
    PROVE  MetaInv'
<1>0. PICK f : f = filler.file
  OBVIOUS
<1> DEFINE fills == filler.fields \cap Blanks(f)
           values == [a \in fills |-> Says[filler.src][a]]
           id == IF meta[f].id = 0 THEN changes + 1 ELSE meta[f].id
           value == Over(values, meta[f].value)
           hist == Over([a \in fills |-> [src |-> filler.src, val |-> values[a]]], latest[f])
<1>1. /\ meta' = [meta EXCEPT ![f].id = IF @ = 0 THEN changes + 1 ELSE @, ![f].value = Over(values, @)]
      /\ latest' = [latest EXCEPT ![f] = Over([a \in fills |-> [src |-> filler.src, val |-> values[a]]], @)]
      /\ unsure' = unsure \cup ({f} \X {a \in fills : said[f][a] # Unsaid})
      /\ UNCHANGED <<tomb, due, metawork, said>>
  BY <1>0 DEF FillWrite
<1>2. changes' = changes + 1 /\ changes \in Nat
  BY DEF FillWrite, Count, MetaInv, MetaShape
<1>3. fills \subseteq Field
  BY DEF Blanks
<1>4. CASE f \notin File
  <2>1. /\ DOMAIN meta' = File /\ DOMAIN latest' = File
        /\ \A g \in File : meta'[g] = meta[g] /\ latest'[g] = latest[g]
    BY <1>1, <1>4 DEF MetaInv, MetaShape
  <2>2. changes' \in Nat /\ changes <= changes' /\ DOMAIN due' = File
    BY <1>1, <1>2 DEF MetaInv, MetaShape
  <2> QED BY <1>1, <2>1, <2>2, MetaStays
<1>5. CASE f \in File
  <2>1. RowOK(meta[f], changes) /\ DOMAIN latest[f] = Field
    BY <1>5 DEF MetaInv, MetaShape
  <2>2. /\ DOMAIN value = Field
        /\ \A a \in Field \ fills : value[a] = meta[f].value[a]
    BY <1>3, <2>1 DEF Over, RowOK
  <2>3. /\ DOMAIN hist = Field
        /\ \A a \in Field \ fills : hist[a] = latest[f][a]
    BY <1>3, <2>1 DEF Over
  <2>4. id \in Nat /\ id <= changes' /\ id # 0 /\ (id = meta[f].id \/ id > changes)
    BY <1>2, <2>1 DEF RowOK
  <2>5. latest' = [latest EXCEPT ![f] = hist]
    BY <1>1
  <2>6. /\ DOMAIN meta' = File /\ \A g \in File \ {f} : meta'[g] = meta[g]
        /\ meta'[f].id = id /\ meta'[f].value = value /\ DOMAIN meta'[f] = RowColumns
    BY <1>1, <1>5, <2>1 DEF MetaInv, MetaShape, RowOK, RowColumns
  <2> HIDE DEF value, hist, id, fills
  <2>7. RowOK(meta'[f], changes')
    BY <2>2, <2>4, <2>6 DEF RowOK
  <2>8. /\ DOMAIN latest' = File /\ latest'[f] = hist
        /\ \A g \in File \ {f} : latest'[g] = latest[g]
    BY <1>5, <2>5 DEF MetaInv, MetaShape
  <2>9. ASSUME NEW a \in Field, Sure(f, a)'
        PROVE  /\ Sure(f, a) /\ said'[f][a] = said[f][a] /\ latest'[f][a] = latest[f][a]
               /\ meta'[f].value[a] = meta[f].value[a]
    <3>1. Sure(f, a) /\ a \notin fills
      BY <1>1, <2>9 DEF Sure
    <3> QED BY <1>1, <2>2, <2>3, <2>6, <2>8, <3>1
  <2>10. \A g \in File, a \in Field : g # f /\ <<g, a>> \in unsure => <<g, a>> \in unsure'
    BY <1>1
  <2>11. changes' \in Nat /\ changes <= changes' /\ said' = said
    BY <1>1, <1>2
  <2>12. meta'[f].id = meta[f].id \/ meta'[f].id > changes
    BY <2>4, <2>6
  <2>13. DOMAIN said' = File /\ DOMAIN said'[f] = Field /\ DOMAIN latest'[f] = Field
    BY <1>5, <2>3, <2>8, <2>11 DEF MetaInv, MetaShape
  <2> QED BY <1>1, <1>5, <2>6, <2>7, <2>8, <2>9, <2>10, <2>11, <2>12, <2>13, RowChanges, ZenonT(40)
<1> QED BY <1>4, <1>5

(* delete: the row goes, the history and what the user said stay. *)
LEMMA MetaDeleted ==
    ASSUME MetaInv, NEW f \in File, MetaOfDeleted(f), live' = live \ {f},
           changes' \in Nat, changes <= changes'
    PROVE  MetaInv'
<1>1. /\ ~Held(f) /\ meta' = [meta EXCEPT ![f] = NoMeta] /\ tomb' = tomb \cup {f}
      /\ UNCHANGED <<latest, due, metawork, filler, said, unsure>>
  BY DEF MetaOfDeleted
<1>2. RowOK(NoMeta, changes') /\ NoMeta.id = 0
  BY DEF RowOK, NoMeta, RowColumns
<1>3. \A g \in File : meta'[g] = IF g = f THEN NoMeta ELSE meta[g]
  BY <1>1 DEF MetaInv, MetaShape
<1>4. MetaShape'
  <2>1. \A g \in File : RowOK(meta'[g], changes')
    BY <1>2, <1>3, RowKept DEF MetaInv, MetaShape
  <2> QED BY <1>1, <2>1 DEF MetaInv, MetaShape
<1>5. \A w \in Workers : StageOK(metawork[w], changes)' /\ StageKnows(metawork[w])'
  <2> TAKE w \in Workers
  <2>1. metawork'[w] = metawork[w] /\ StageOK(metawork[w], changes) /\ StageKnows(metawork[w])
    BY <1>1 DEF MetaInv
  <2>2. StageOK(metawork[w], changes')
    BY <2>1, RowKept DEF MetaInv, MetaShape
  <2>3. metawork[w].stage # "none" /\ metawork[w].file = f => metawork[w].row.id # 0
    BY <1>1, <2>1 DEF Held, StageOK, RowOK
  <2>4. StageKnows(metawork[w])'
    BY <1>1, <1>2, <1>3, <2>1, <2>3 DEF StageKnows, StageOK, Sure
  <2> QED BY <2>1, <2>2, <2>4
<1>6. \A g \in File, a \in Field : Stands(g, a)'
  BY <1>1, <1>3 DEF MetaInv, Stands, Sure, Restoring
<1> QED BY <1>1, <1>4, <1>5, <1>6 DEF MetaInv

(* upload: deleted content is restored from its history. *)
LEMMA MetaUploaded ==
    ASSUME MetaInv, NEW f \in File, MetaOfNew(f), f \notin live, live' = live \cup {f},
           changes' \in Nat, changes <= changes'
    PROVE  MetaInv'
<1>1. /\ due' = [due EXCEPT ![f] = @ \cup {IF f \in tomb THEN "restored" ELSE "new"}]
      /\ tomb' = tomb \ {f}
      /\ UNCHANGED <<meta, latest, metawork, filler, said, unsure>>
  BY DEF MetaOfNew
<1>2. MetaShape'
  BY <1>1, RowKept DEF MetaInv, MetaShape
<1>3. \A w \in Workers : StageOK(metawork[w], changes)' /\ StageKnows(metawork[w])'
  <2> TAKE w \in Workers
  <2>1. metawork'[w] = metawork[w] /\ StageOK(metawork[w], changes) /\ StageKnows(metawork[w])
    BY <1>1 DEF MetaInv
  <2>2. StageOK(metawork[w], changes')
    BY <2>1, RowKept DEF MetaInv, MetaShape
  <2>3. StageKnows(metawork[w])'
    BY <1>1, <2>1 DEF StageKnows, Sure
  <2> QED BY <2>1, <2>2, <2>3
<1>4. \A g \in File, a \in Field : Stands(g, a)'
  <2> TAKE g \in File, a \in Field
  <2>1. Stands(g, a) /\ (Restoring(g) => Restoring(g)')
    BY <1>1 DEF MetaInv, MetaShape, Restoring
  <2>2. CASE g = f /\ f \in tomb
    <3>1. Restoring(g)'
      BY <1>1, <2>2 DEF MetaInv, MetaShape, Restoring
    <3> QED BY <1>1, <2>1, <3>1 DEF Stands, Sure
  <2>3. CASE g = f /\ f \notin tomb
    <3>1. said[g][a] = Unsaid
      BY <2>3 DEF MetaInv
    <3> QED BY <1>1, <3>1 DEF Stands, Sure
  <2>4. CASE g # f
    BY <1>1, <2>1, <2>4 DEF Stands, Sure
  <2> QED BY <2>2, <2>3, <2>4
<1>5. \A g \in File \ (live' \cup tomb'), a \in Field : said'[g][a] = Unsaid
  BY <1>1 DEF MetaInv
<1> QED BY <1>2, <1>3, <1>4, <1>5 DEF MetaInv

LEMMA MetaStep ==
    ASSUME MetaInv, [Next]_vars
    PROVE  MetaInv'
<1>1. changes' \in Nat /\ changes <= changes'
  BY CommitsGrow DEF MetaInv, MetaShape
<1>2. ASSUME UNCHANGED <<live, meta, latest, tomb, due, metawork, said, unsure>>
      PROVE  MetaInv'
  BY <1>1, <1>2, MetaStays DEF MetaInv, MetaShape
<1>3. CASE MetaNext /\ UNCHANGED live
  <2>1. ASSUME NEW w \in Workers, StageCommit(w) \/ StageAbort(w)
        PROVE  MetaInv'
    BY <1>3, <2>1, StageCommits, StageAborts
  <2>2. ASSUME NEW f \in File, NEW stage \in {"new", "restored", "gps"},
               StageSkip(f, stage) \/ \E w \in Workers : StageRead(w, f, stage)
        PROVE  MetaInv'
    BY <1>3, <2>2, StageSkips, StageReads
  <2>3. ASSUME NEW f \in live, NEW A \in SUBSET Patchable, NEW values \in [A -> Value \cup {NoValue}],
               PatchFields(f, values)
        PROVE  MetaInv'
    <3>1. f \in File
      BY DEF MetaInv, MetaShape
    <3> QED BY <1>3, <2>3, <3>1, FieldsPatched
  <2>4. CASE FillWrite
    BY <1>3, <2>4, BlanksFilled
  <2>5. CASE FillEnd \/ \E f \in File : ExifFillRead(f) \/ PhotoFillRead(f)
    <3>1. UNCHANGED <<meta, latest, tomb, due, metawork, said, unsure>>
      BY <2>5 DEF FillEnd, ExifFillRead, PhotoFillRead, Fill
    <3> QED BY <1>2, <1>3, <3>1
  <2> QED BY <1>3, <2>1, <2>2, <2>3, <2>4, <2>5 DEF MetaNext
<1>4. ASSUME NEW f \in File, UploadPhoto(f)
      PROVE  MetaInv'
  BY <1>1, <1>4, MetaUploaded DEF UploadPhoto
<1>5. ASSUME NEW f \in File, DeletePhoto(f)
      PROVE  MetaInv'
  BY <1>1, <1>5, MetaDeleted DEF DeletePhoto
<1>6. CASE UNCHANGED <<live, metaVars>>
  BY <1>2, <1>6 DEF metaVars
<1>7. CASE Next
  <2>1. CASE \/ PlacesNext /\ UNCHANGED <<live, dateVars, tagVars, metaVars>>
             \/ DatesNext /\ UNCHANGED <<live, placeVars, tagVars, metaVars>>
             \/ TagsNext /\ UNCHANGED <<live, placeVars, metaVars>>
    BY <1>6, <2>1
  <2> QED BY <1>3, <1>4, <1>5, <1>7, <2>1 DEF Next
<1> QED BY <1>6, <1>7 DEF vars

LEMMA MetaInvariant == Spec => []MetaInv
<1>1. ASSUME Init
      PROVE  MetaInv
  <2>1. /\ changes = 0 /\ live \subseteq File
        /\ meta = [f \in File |-> NoMeta]
        /\ latest = [f \in File |-> [a \in Field |-> NoHistory]]
        /\ metawork = [w \in Workers |-> NoMetaWork]
        /\ due = [f \in File |-> {}]
        /\ said = [f \in File |-> [a \in Field |-> Unsaid]]
    BY <1>1 DEF Init, MetaInit
  <2>2. RowOK(NoMeta, changes)
    BY <2>1 DEF RowOK, NoMeta, RowColumns
  <2>3. MetaShape
    BY <2>1, <2>2 DEF MetaShape
  <2>4. \A w \in Workers : StageOK(metawork[w], changes) /\ StageKnows(metawork[w])
    BY <2>1 DEF StageOK, StageKnows, NoMetaWork
  <2>5. \A f \in File, a \in Field : ~Sure(f, a) /\ said[f][a] = Unsaid
    BY <2>1 DEF Sure
  <2> QED BY <2>3, <2>4, <2>5 DEF MetaInv, Stands
<1>2. MetaInv /\ [Next]_vars => MetaInv'
  BY MetaStep
<1> QED BY <1>1, <1>2, PTL DEF Spec

(* What the user last made of a field stands, through uploads, deletions   *)
(* and restorations, except where it is recorded as at risk                *)
(* (Metadata.UserValueStands).                                             *)
THEOREM UserValueStandsHolds == Spec => []UserValueStands
<1>1. MetaInv => UserValueStands
  BY MetadataAssumption DEF MetaInv, Stands, Sure, UserValueStands
<1> QED BY <1>1, MetaInvariant, PTL

=============================================================================
