--------------------------- MODULE ReadersProofs ---------------------------
(***************************************************************************)
(* Proofs about what reads the library and about the files behind it:      *)
(*                                                                         *)
(*   - the files on disk are those the rows name (AssetsMatchRows), by an  *)
(*     invariant that says what each photo's files are while an upload, a  *)
(*     deletion or a script is under way (AssetsInv);                      *)
(*   - a client that pages through the gallery has seen what its filter    *)
(*     finds, once each (PagesExact), by what it has seen at each cursor   *)
(*     (PagerInv) and the order of the rows (NumbersInv);                  *)
(*   - the requests behind an aggregate's counts find as many photos as    *)
(*     it counts (OpensAsCounted), from what rel and place promise         *)
(*     (PlacesInv).                                                        *)
(***************************************************************************)
EXTENDS Projections, Derivatives, LibraryProofs, PlacesProofs, WellFoundedInduction

(***************************************************************************)
(* THE FILES OF A PHOTO                                                    *)
(***************************************************************************)

(* The files a script has made for a photo and not named in its row yet. *)
Unnamed(f) == {k \in Derivative : \E s \in Scripts : maker[s].file = f /\ k \in maker[s].new}

(* A photo that is there: every file its row names exists, unless a        *)
(* deletion has failed, and no others but those a script is about to name. *)
Served(f) ==
    /\ made[f] = NotMade
    /\ f \notin damaged => \A k \in Targets(f) \cup Unnamed(f) : disk[f][k] # "none"
    /\ \A k \in DOMAIN NoFiles : disk[f][k] # "none" => k \in Targets(f) \cup Unnamed(f)

(* A photo that is not there: nobody works on it, and what there is of it  *)
(* belongs to an upload.                                                   *)
Absent(f) ==
    /\ path[f] = {} /\ ~UnderWork(f)
    /\ made[f] = NotMade => disk[f] = NoFiles
    /\ made[f] # NotMade =>
          /\ disk[f].original = "none"
          /\ \A k \in Derivative : disk[f][k] # "none" <=> k \in made[f]

PhotoFiles(f) == f \notin astray => IF f \in live THEN Served(f) ELSE Absent(f)

(* A script that replaces a preview has found it in the row. *)
ReplacesNamed(s) == maker[s].pc \in {"assessed", "staged"} => "preview" \in path[maker[s].file]

MakerOK(k) ==
    /\ k.file \in File \cup {None} /\ k.new \subseteq Derivative
    /\ k.file = None => k = NoMaker
    /\ k.pc \in {"read", "assessed", "staged"} => k.new = {}

(* A photo's files, one of each kind. *)
Whole(d) == d = [k \in DOMAIN NoFiles |-> d[k]]

AssetsInv ==
    /\ live \subseteq File
    /\ DOMAIN disk = File /\ \A f \in File : Whole(disk[f])
    /\ path \in [File -> SUBSET Derivative]
    /\ made \in [File -> (SUBSET Derivative) \cup {NotMade}]
    /\ DOMAIN maker = Scripts /\ \A s \in Scripts : MakerOK(maker[s])
    /\ \A f \in File : PhotoFiles(f)
    /\ \A s \in Scripts : maker[s].file \notin astray => ReplacesNamed(s)

----------------------------------------------------------------------------
(* Steps of one photo's files leave the others' as they are.               *)
LEMMA FilesKept ==
    ASSUME NEW f \in File, PhotoFiles(f),
           f \in live' <=> f \in live, f \in damaged' <=> f \in damaged, f \notin astray' => f \notin astray,
           disk'[f] = disk[f], path'[f] = path[f], made'[f] = made[f],
           \A s \in Scripts : maker[s].file = f \/ maker'[s].file = f => maker'[s] = maker[s]
    PROVE  PhotoFiles(f)'
<1>1. Unnamed(f)' = Unnamed(f) /\ (UnderWork(f)' <=> UnderWork(f))
  BY DEF Unnamed, UnderWork
<1>2. Targets(f)' = Targets(f)
  BY DEF Targets
<1>3. (Served(f) => Served(f)') /\ (Absent(f) => Absent(f)')
  BY <1>1, <1>2 DEF Served, Absent
<1> QED BY <1>3 DEF PhotoFiles

(* Deriving what a file on disk becomes. *)
LEMMA DiskWritten ==
    ASSUME NEW f \in File, NEW K, DOMAIN disk = File, \A g \in File : Whole(disk[g])
    PROVE  /\ DOMAIN Generated(f, K) = File /\ DOMAIN Unlinked(f, K) = File
           /\ \A g \in File : Whole(Generated(f, K)[g]) /\ Whole(Unlinked(f, K)[g])
           /\ \A g \in File \ {f} : Generated(f, K)[g] = disk[g] /\ Unlinked(f, K)[g] = disk[g]
           /\ \A k \in DOMAIN NoFiles :
                 /\ Generated(f, K)[f][k] = IF k \in K THEN "good" ELSE disk[f][k]
                 /\ Unlinked(f, K)[f][k] = IF k \in K THEN "none" ELSE disk[f][k]
  BY DEF Generated, Unlinked, Whole

(* What a row names, and what a script is about to name, are kinds of file. *)
LEMMA KindsOf ==
    ASSUME AssetsInv, NEW f \in File
    PROVE  Targets(f) \subseteq DOMAIN NoFiles /\ Unnamed(f) \subseteq DOMAIN NoFiles
  BY DEF AssetsInv, Targets, Unnamed, NoFiles

(* An upload makes its derivatives, or is cut short. *)
LEMMA UploadFiles ==
    ASSUME AssetsInv, NEW f \in File, PreviewPlugin(f) \/ UploadCut(f)
    PROVE  AssetsInv'
<1>0. UNCHANGED <<live, path, maker, damaged>>
  BY DEF PreviewPlugin, UploadCut, vars
<1>1. CASE UploadCut(f)
  <2>1. made' = [made EXCEPT ![f] = NotMade] /\ astray' = astray \cup {f} /\ disk' = disk
    BY <1>1 DEF UploadCut
  <2>2. \A g \in File : PhotoFiles(g)'
    BY <1>0, <2>1, FilesKept DEF AssetsInv, PhotoFiles
  <2> QED BY <1>0, <2>1, <2>2 DEF AssetsInv, ReplacesNamed
<1>2. CASE PreviewPlugin(f)
  <2>1. PICK K \in SUBSET Wanted(f) : disk' = Generated(f, K) /\ made' = [made EXCEPT ![f] = K]
    BY <1>2 DEF PreviewPlugin
  <2>2. f \notin live /\ made[f] = NotMade /\ UNCHANGED astray /\ K \subseteq Derivative
    BY <1>2 DEF PreviewPlugin, Wanted, Derivative
  <2>3. PhotoFiles(f)'
    <3> SUFFICES ASSUME f \notin astray PROVE Absent(f)'
      BY <1>0, <2>2 DEF PhotoFiles
    <3>1. Absent(f) /\ disk[f] = NoFiles
      BY <2>2 DEF AssetsInv, PhotoFiles, Absent
    <3>2. \A k \in DOMAIN NoFiles : disk'[f][k] = IF k \in K THEN "good" ELSE "none"
      BY <2>1, <3>1, DiskWritten DEF AssetsInv, NoFiles
    <3>3. path'[f] = {} /\ ~UnderWork(f)'
      BY <1>0, <3>1 DEF Absent, UnderWork
    <3>4. made'[f] = K /\ K # NotMade
      BY <2>1, <2>2 DEF AssetsInv, NotMade, Derivative
    <3> QED BY <2>2, <3>2, <3>3, <3>4 DEF Absent, NoFiles, Derivative
  <2>4. \A g \in File \ {f} : PhotoFiles(g)'
    BY <1>0, <2>1, <2>2, FilesKept, DiskWritten DEF AssetsInv
  <2>5. DOMAIN disk' = File /\ \A g \in File : Whole(disk'[g])
    BY <2>1, DiskWritten DEF AssetsInv
  <2> QED BY <1>0, <2>1, <2>2, <2>3, <2>4, <2>5 DEF AssetsInv, ReplacesNamed
<1> QED BY <1>1, <1>2

(* StoragePlugin names the derivatives that were made. *)
LEMMA RegisterFiles ==
    ASSUME AssetsInv, NEW f \in File, Register(f)
    PROVE  AssetsInv'
<1>1. /\ f \notin live /\ live' = live \cup {f} /\ made[f] # NotMade
      /\ disk' = [disk EXCEPT ![f].original = "good"]
      /\ path' = [path EXCEPT ![f] = made[f]]
      /\ made' = [made EXCEPT ![f] = NotMade]
      /\ UNCHANGED <<maker, damaged, astray>>
  BY DEF Register, UploadPhoto
<1>2. made[f] \in SUBSET Derivative
  BY <1>1 DEF AssetsInv
<1>3. /\ DOMAIN disk' = File /\ \A g \in File : Whole(disk'[g])
      /\ \A g \in File \ {f} : disk'[g] = disk[g]
      /\ \A k \in DOMAIN NoFiles : disk'[f][k] = IF k = "original" THEN "good" ELSE disk[f][k]
  BY <1>1 DEF AssetsInv, Whole
<1>4. PhotoFiles(f)'
  <2> SUFFICES ASSUME f \notin astray PROVE Served(f)'
    BY <1>1 DEF PhotoFiles
  <2>1. Absent(f)
    BY <1>1 DEF AssetsInv, PhotoFiles
  <2>2. Unnamed(f)' = {} /\ Targets(f)' = {"original"} \cup made[f]
    BY <1>1, <2>1 DEF AssetsInv, Absent, UnderWork, Unnamed, Targets
  <2>3. \A k \in Derivative : disk'[f][k] # "none" <=> k \in made[f]
    BY <1>1, <1>3, <2>1 DEF Absent, Derivative, NoFiles
  <2>4. disk'[f]["original"] = "good"
    BY <1>3 DEF NoFiles
  <2>5. made'[f] = NotMade
    BY <1>1 DEF AssetsInv
  <2> QED BY <1>2, <2>2, <2>3, <2>4, <2>5 DEF Served, NoFiles
<1>5. \A g \in File \ {f} : PhotoFiles(g)'
  BY <1>1, <1>3, FilesKept DEF AssetsInv
<1>6. \A s \in Scripts : maker'[s].file \notin astray' => ReplacesNamed(s)'
  <2> SUFFICES ASSUME NEW s \in Scripts, maker[s].file \notin astray PROVE ReplacesNamed(s)'
    BY <1>1
  <2>1. CASE maker[s].file = f
    BY <1>1, <2>1 DEF AssetsInv, PhotoFiles, Absent, UnderWork
  <2>2. CASE maker[s].file # f
    BY <1>1, <2>2 DEF AssetsInv, ReplacesNamed
  <2> QED BY <2>1, <2>2
<1> QED BY <1>1, <1>2, <1>3, <1>4, <1>5, <1>6 DEF AssetsInv

(* delete_common_file_assets and the commit. *)
LEMMA RemoveFiles ==
    ASSUME AssetsInv, NEW f \in File, RemovePhoto(f)
    PROVE  AssetsInv'
<1>1. /\ f \in live /\ live' = live \ {f}
      /\ disk' = Unlinked(f, Targets(f)) /\ path' = [path EXCEPT ![f] = {}]
      /\ damaged' = damaged \ {f} /\ UNCHANGED <<made, maker>>
      /\ astray' = IF UnderWork(f) THEN astray \cup {f} ELSE astray
  BY DEF RemovePhoto, DeletePhoto
<1>2. /\ DOMAIN disk' = File /\ \A g \in File : Whole(disk'[g])
      /\ \A g \in File \ {f} : disk'[g] = disk[g]
      /\ \A k \in DOMAIN NoFiles : disk'[f][k] = IF k \in Targets(f) THEN "none" ELSE disk[f][k]
  BY <1>1, DiskWritten DEF AssetsInv
<1>3. PhotoFiles(f)'
  <2> SUFFICES ASSUME f \notin astray' PROVE Absent(f)'
    BY <1>1 DEF PhotoFiles
  <2>1. ~UnderWork(f) /\ f \notin astray
    BY <1>1
  <2>2. Served(f) /\ Unnamed(f) = {}
    BY <1>1, <2>1 DEF AssetsInv, PhotoFiles, Unnamed, UnderWork
  <2>3. \A k \in DOMAIN NoFiles : disk'[f][k] = "none"
    BY <1>2, <2>2 DEF Served
  <2>4. disk'[f] = NoFiles
    <3>1. NoFiles = [k \in DOMAIN NoFiles |-> "none"]
      BY DEF NoFiles
    <3>2. disk'[f] = [k \in DOMAIN NoFiles |-> disk'[f][k]]
      BY <1>2 DEF Whole
    <3>3. [k \in DOMAIN NoFiles |-> disk'[f][k]] = [k \in DOMAIN NoFiles |-> "none"]
      BY <2>3
    <3> QED BY <3>1, <3>2, <3>3
  <2>5. path'[f] = {} /\ ~UnderWork(f)' /\ made'[f] = NotMade
    BY <1>1, <2>1, <2>2 DEF AssetsInv, UnderWork, Served
  <2> QED BY <2>4, <2>5 DEF Absent
<1>5. \A g \in File \ {f} : PhotoFiles(g)'
  BY <1>1, <1>2, FilesKept DEF AssetsInv
<1>6. \A s \in Scripts : maker'[s].file \notin astray' => ReplacesNamed(s)'
  BY <1>1 DEF AssetsInv, ReplacesNamed, UnderWork
<1> QED BY <1>1, <1>2, <1>3, <1>5, <1>6 DEF AssetsInv

(* A deletion fails half-way. *)
LEMMA RemoveFailsFiles ==
    ASSUME AssetsInv, NEW f \in File, RemoveFails(f)
    PROVE  AssetsInv'
<1>1. /\ f \in live /\ damaged' = damaged \cup {f}
      /\ UNCHANGED <<live, path, made, maker, astray>>
  BY DEF RemoveFails, vars
<1>2. PICK K \in SUBSET Targets(f) : disk' = Unlinked(f, K)
  BY DEF RemoveFails
<1>3. /\ DOMAIN disk' = File /\ \A g \in File : Whole(disk'[g])
      /\ \A g \in File \ {f} : disk'[g] = disk[g]
      /\ \A k \in DOMAIN NoFiles : disk'[f][k] = IF k \in K THEN "none" ELSE disk[f][k]
  BY <1>2, DiskWritten DEF AssetsInv
<1>4. PhotoFiles(f)'
  <2>1. Targets(f)' = Targets(f) /\ Unnamed(f)' = Unnamed(f)
    BY <1>1 DEF Targets, Unnamed
  <2>2. f \notin astray => Served(f)
    BY <1>1 DEF AssetsInv, PhotoFiles
  <2>3. Served(f) => Served(f)'
    BY <1>1, <1>3, <2>1 DEF Served
  <2> QED BY <1>1, <2>2, <2>3 DEF PhotoFiles
<1>5. \A g \in File \ {f} : PhotoFiles(g)'
  BY <1>1, <1>3, FilesKept DEF AssetsInv
<1> QED BY <1>1, <1>3, <1>4, <1>5 DEF AssetsInv, ReplacesNamed

(* A script takes up a photo. *)
LEMMA BeginFiles ==
    ASSUME AssetsInv, NEW s \in Scripts, NEW f \in File,
           Regenerate(s, f) \/ BackfillMedia(s, f) \/ Outdated(s, f)
    PROVE  AssetsInv'
<1>1. PICK op, pc, seen : /\ Begin(s, op, f, pc, seen)
                          /\ pc \in {"assessed", "staged"} => "preview" \in path[f]
  BY DEF Regenerate, BackfillMedia, Outdated
<1> DEFINE k == [op |-> op, pc |-> pc, file |-> f, seen |-> seen, new |-> {}]
<1>2. /\ maker[s] = NoMaker /\ f \in live /\ maker' = [maker EXCEPT ![s] = k]
      /\ UNCHANGED <<live, disk, path, made, damaged, astray>>
  BY <1>1 DEF Begin, vars
<1>3. k.file = f /\ k.new = {} /\ k.pc = pc /\ NoMaker.file = None /\ NoMaker.new = {} /\ None \notin File
  BY PhotosAssumption DEF NoMaker, None
<1> HIDE DEF k
<1>4. maker'[s] = k /\ \A u \in Scripts \ {s} : maker'[u] = maker[u]
  BY <1>2 DEF AssetsInv
<1>5. PhotoFiles(f)'
  <2>1. Unnamed(f)' = Unnamed(f)
    BY <1>2, <1>3, <1>4 DEF Unnamed
  <2>2. Served(f) => Served(f)'
    BY <1>2, <2>1 DEF Served, Targets
  <2> QED BY <1>2, <2>2 DEF AssetsInv, PhotoFiles
<1>6. \A g \in File \ {f} : PhotoFiles(g)'
  BY <1>2, <1>3, <1>4, FilesKept DEF AssetsInv
<1>7. \A u \in Scripts : MakerOK(maker'[u])
  BY <1>3, <1>4 DEF AssetsInv, MakerOK
<1>8. \A u \in Scripts : maker'[u].file \notin astray' => ReplacesNamed(u)'
  BY <1>1, <1>2, <1>3, <1>4 DEF AssetsInv, ReplacesNamed
<1> QED BY <1>2, <1>5, <1>6, <1>7, <1>8 DEF AssetsInv

(* A script goes on with the same photo and the same files. *)
LEMMA GoesOn ==
    ASSUME AssetsInv, NEW s \in Scripts, NEW pc, maker[s].file # None,
           maker' = [maker EXCEPT ![s].pc = pc],
           pc \in {"named", "staged"}, pc = "staged" => maker[s].pc = "assessed",
           UNCHANGED <<live, disk, path, made, damaged, astray>>
    PROVE  AssetsInv'
<1>1. \A u \in Scripts : maker'[u].file = maker[u].file /\ maker'[u].new = maker[u].new
  BY DEF AssetsInv, MakerOK
<1>2. \A g \in File : Unnamed(g)' = Unnamed(g) /\ (UnderWork(g)' <=> UnderWork(g)) /\ Targets(g)' = Targets(g)
  BY <1>1 DEF Unnamed, UnderWork, Targets
<1>3. \A g \in File : (Served(g) => Served(g)') /\ (Absent(g) => Absent(g)')
  BY <1>2 DEF Served, Absent
<1>4. \A g \in File : PhotoFiles(g)'
  BY <1>3 DEF AssetsInv, PhotoFiles
<1>5. DOMAIN maker' = Scripts /\ \A u \in Scripts : MakerOK(maker'[u])
  BY <1>1 DEF AssetsInv, MakerOK
<1>6. \A u \in Scripts : maker'[u].file \notin astray' => ReplacesNamed(u)'
  BY <1>1 DEF AssetsInv, ReplacesNamed
<1> QED BY <1>4, <1>5, <1>6 DEF AssetsInv

(* A script goes on with the photo it works on, without a file of its own. *)
LEMMA WorkGoesOn ==
    ASSUME AssetsInv, NEW s \in Scripts, CheckActive(s) \/ StagePreview(s)
    PROVE  AssetsInv'
<1>1. NoMaker.pc = "idle" /\ (maker[s].file = None => maker[s] = NoMaker)
  BY DEF NoMaker, AssetsInv, MakerOK
<1>2. CASE CheckActive(s)
  <2>1. maker[s].pc = "made" /\ maker' = [maker EXCEPT ![s].pc = "named"]
        /\ UNCHANGED <<live, disk, path, made, damaged, astray>>
    BY <1>2 DEF CheckActive, vars
  <2> QED BY <1>1, <2>1, GoesOn
<1>3. CASE StagePreview(s)
  <2>1. maker[s].pc = "assessed" /\ maker' = [maker EXCEPT ![s].pc = "staged"]
        /\ UNCHANGED <<live, disk, path, made, damaged, astray>>
    BY <1>3 DEF StagePreview, vars
  <2> QED BY <1>1, <2>1, GoesOn
<1> QED BY <1>2, <1>3

(* A script writes the files it is to name. *)
LEMMA MakeFiles ==
    ASSUME AssetsInv, NEW s \in Scripts, NEW f, f = maker[s].file, Make(s)
    PROVE  AssetsInv'
<1>1. PICK K \in SUBSET Derivative, pc \in {"made", "named"} :
         /\ disk' = Generated(f, K) /\ maker[s].pc = "read"
         /\ maker' = [maker EXCEPT ![s].pc = pc, ![s].new = K]
         /\ UNCHANGED <<live, path, made, damaged, astray>>
  BY DEF Make, Wanted, Derivative, vars
<1>2. f \in File
  BY <1>1 DEF AssetsInv, MakerOK, NoMaker
<1>3. /\ maker'[s].file = f /\ maker'[s].new = K /\ maker'[s].pc = pc
      /\ \A u \in Scripts \ {s} : maker'[u] = maker[u]
  BY <1>1, <1>2 DEF AssetsInv, MakerOK
<1>4. /\ DOMAIN disk' = File /\ \A g \in File : Whole(disk'[g])
      /\ \A g \in File \ {f} : disk'[g] = disk[g]
      /\ \A k \in DOMAIN NoFiles : disk'[f][k] = IF k \in K THEN "good" ELSE disk[f][k]
  BY <1>1, <1>2, DiskWritten DEF AssetsInv
<1>5. PhotoFiles(f)'
  <2> SUFFICES ASSUME f \notin astray PROVE PhotoFiles(f)'
    BY <1>1 DEF PhotoFiles
  <2>1. f \in live /\ Served(f)
    BY <1>2 DEF AssetsInv, PhotoFiles, Absent, UnderWork
  <2>2. maker[s].new = {} /\ Targets(f)' = Targets(f) /\ made'[f] = made[f]
    BY <1>1 DEF AssetsInv, MakerOK, Targets
  <2>3. Unnamed(f)' = Unnamed(f) \cup K
    BY <1>3, <2>2 DEF Unnamed
  <2>5. K \subseteq DOMAIN NoFiles /\ Targets(f) \cup Unnamed(f) \subseteq DOMAIN NoFiles
    BY <1>1, <1>2, KindsOf DEF NoFiles
  <2>6. \A k \in DOMAIN NoFiles : disk'[f][k] # "none" <=> k \in K \/ disk[f][k] # "none"
    BY <1>4
  <2>7. Targets(f)' \cup Unnamed(f)' = Targets(f) \cup Unnamed(f) \cup K
    BY <2>2, <2>3
  <2>4. Served(f)'
    BY <1>1, <2>1, <2>2, <2>5, <2>6, <2>7 DEF Served
  <2> QED BY <1>1, <2>1, <2>4 DEF PhotoFiles
<1>6. \A g \in File \ {f} : PhotoFiles(g)'
  BY <1>1, <1>3, <1>4, FilesKept DEF AssetsInv
<1>7. DOMAIN maker' = Scripts /\ \A u \in Scripts : MakerOK(maker'[u])
  BY <1>1, <1>2, <1>3, PhotosAssumption DEF AssetsInv, MakerOK, None
<1>8. \A u \in Scripts : maker'[u].file \notin astray' => ReplacesNamed(u)'
  BY <1>1, <1>3 DEF AssetsInv, ReplacesNamed
<1> QED BY <1>1, <1>4, <1>5, <1>6, <1>7, <1>8 DEF AssetsInv

(* A script names its files in the row. *)
LEMMA NameFiles ==
    ASSUME AssetsInv, NEW s \in Scripts, NEW f, f = maker[s].file, NEW K, K = maker[s].new, NamePaths(s)
    PROVE  AssetsInv'
<1>1. /\ maker[s].pc = "named" /\ path' = [path EXCEPT ![f] = @ \cup K]
      /\ maker' = [maker EXCEPT ![s] = NoMaker]
      /\ UNCHANGED <<live, disk, made, damaged, astray>>
  BY DEF NamePaths
<1>2. f \in File /\ K \subseteq Derivative /\ NoMaker.file = None /\ None \notin File
      /\ NoMaker.new = {} /\ NoMaker.pc = "idle"
  BY <1>1, PhotosAssumption DEF AssetsInv, MakerOK, NoMaker, None
<1>3. maker'[s] = NoMaker /\ \A u \in Scripts \ {s} : maker'[u] = maker[u]
  BY <1>1 DEF AssetsInv
<1>4. path' \in [File -> SUBSET Derivative] /\ path'[f] = path[f] \cup K
      /\ \A g \in File \ {f} : path'[g] = path[g]
  BY <1>1, <1>2 DEF AssetsInv
<1>5. PhotoFiles(f)'
  <2> SUFFICES ASSUME f \notin astray PROVE PhotoFiles(f)'
    BY <1>1 DEF PhotoFiles
  <2>1. f \in live /\ Served(f)
    BY <1>2 DEF AssetsInv, PhotoFiles, Absent, UnderWork
  <2>2. Targets(f)' = Targets(f) \cup K
    BY <1>4 DEF Targets
  <2>3. Unnamed(f) = Unnamed(f)' \cup K
    BY <1>2, <1>3 DEF Unnamed
  <2>4. Targets(f)' \cup Unnamed(f)' = Targets(f) \cup Unnamed(f)
    BY <2>2, <2>3
  <2>5. Served(f)'
    BY <1>1, <2>1, <2>4 DEF Served
  <2> QED BY <1>1, <2>1, <2>5 DEF PhotoFiles
<1>6. \A g \in File \ {f} : PhotoFiles(g)'
  BY <1>1, <1>2, <1>3, <1>4, FilesKept DEF AssetsInv
<1>7. DOMAIN maker' = Scripts /\ \A u \in Scripts : MakerOK(maker'[u])
  BY <1>1, <1>2, <1>3 DEF AssetsInv, MakerOK
<1>8. \A u \in Scripts : maker'[u].file \notin astray' => ReplacesNamed(u)'
  <2> SUFFICES ASSUME NEW u \in Scripts \ {s}, maker[u].file \notin astray PROVE ReplacesNamed(u)'
    BY <1>1, <1>2, <1>3 DEF ReplacesNamed
  <2> QED BY <1>3, <1>4 DEF AssetsInv, ReplacesNamed, MakerOK, NoMaker
<1> QED BY <1>1, <1>4, <1>5, <1>6, <1>7, <1>8 DEF AssetsInv

(* A script replaces a preview that the row names. *)
LEMMA ReplaceFiles ==
    ASSUME AssetsInv, NEW s \in Scripts, NEW f, f = maker[s].file, ReplacePreview(s)
    PROVE  AssetsInv'
<1>1. /\ maker[s].pc = "staged" /\ disk' = Generated(f, {"preview"})
      /\ maker' = [maker EXCEPT ![s] = NoMaker]
      /\ UNCHANGED <<live, path, made, damaged, astray>>
  BY DEF ReplacePreview, vars
<1>2. f \in File /\ NoMaker.file = None /\ None \notin File /\ NoMaker.new = {} /\ NoMaker.pc = "idle"
  BY <1>1, PhotosAssumption DEF AssetsInv, MakerOK, NoMaker, None
<1>3. maker'[s] = NoMaker /\ \A u \in Scripts \ {s} : maker'[u] = maker[u]
  BY <1>1 DEF AssetsInv
<1>4. /\ DOMAIN disk' = File /\ \A g \in File : Whole(disk'[g])
      /\ \A g \in File \ {f} : disk'[g] = disk[g]
      /\ \A k \in DOMAIN NoFiles : disk'[f][k] = IF k = "preview" THEN "good" ELSE disk[f][k]
  BY <1>1, <1>2, DiskWritten DEF AssetsInv
<1>5. PhotoFiles(f)'
  <2> SUFFICES ASSUME f \notin astray PROVE PhotoFiles(f)'
    BY <1>1 DEF PhotoFiles
  <2>1. f \in live /\ Served(f) /\ "preview" \in path[f]
    BY <1>1, <1>2 DEF AssetsInv, PhotoFiles, Absent, UnderWork, ReplacesNamed
  <2>2. maker[s].new = {} /\ Targets(f)' = Targets(f) /\ "preview" \in Targets(f)
    BY <1>1, <2>1 DEF AssetsInv, MakerOK, Targets
  <2>3. Unnamed(f)' = Unnamed(f)
    BY <1>2, <1>3, <2>2 DEF Unnamed
  <2>4. Served(f)'
    BY <1>1, <1>2, <1>4, <2>1, <2>2, <2>3, KindsOf DEF Served
  <2> QED BY <1>1, <2>1, <2>4 DEF PhotoFiles
<1>6. \A g \in File \ {f} : PhotoFiles(g)'
  BY <1>1, <1>2, <1>3, <1>4, FilesKept DEF AssetsInv
<1>7. DOMAIN maker' = Scripts /\ \A u \in Scripts : MakerOK(maker'[u])
  BY <1>1, <1>2, <1>3 DEF AssetsInv, MakerOK
<1>8. \A u \in Scripts : maker'[u].file \notin astray' => ReplacesNamed(u)'
  BY <1>1, <1>2, <1>3 DEF AssetsInv, ReplacesNamed
<1> QED BY <1>1, <1>4, <1>5, <1>6, <1>7, <1>8 DEF AssetsInv

(* A script lets go of its photo. *)
LEMMA EndFiles ==
    ASSUME AssetsInv, NEW s \in Scripts, NEW f, f = maker[s].file, MakerEnd(s)
    PROVE  AssetsInv'
<1>1. /\ maker[s] # NoMaker /\ maker' = [maker EXCEPT ![s] = NoMaker]
      /\ astray' = IF maker[s].new \subseteq path[f] THEN astray ELSE astray \cup {f}
      /\ UNCHANGED <<live, disk, path, made, damaged>>
  BY DEF MakerEnd, vars
<1>2. f \in File /\ NoMaker.file = None /\ None \notin File /\ NoMaker.new = {} /\ NoMaker.pc = "idle"
  BY <1>1, PhotosAssumption DEF AssetsInv, MakerOK, NoMaker, None
<1>3. maker'[s] = NoMaker /\ \A u \in Scripts \ {s} : maker'[u] = maker[u]
  BY <1>1 DEF AssetsInv
<1>5. PhotoFiles(f)'
  <2> SUFFICES ASSUME f \notin astray' PROVE PhotoFiles(f)'
    BY DEF PhotoFiles
  <2>1. f \notin astray /\ maker[s].new \subseteq path[f]
    BY <1>1
  <2>2. f \in live /\ Served(f)
    BY <1>2, <2>1 DEF AssetsInv, PhotoFiles, Absent, UnderWork
  <2>3. Targets(f)' = Targets(f) /\ maker[s].new \subseteq Targets(f)
    BY <1>1, <2>1 DEF Targets
  <2>4. Unnamed(f)' \subseteq Unnamed(f) /\ Unnamed(f) \subseteq Unnamed(f)' \cup maker[s].new
    BY <1>2, <1>3 DEF Unnamed
  <2>5. Targets(f)' \cup Unnamed(f)' = Targets(f) \cup Unnamed(f)
    BY <2>3, <2>4
  <2>6. Served(f)'
    BY <1>1, <2>2, <2>5 DEF Served
  <2> QED BY <1>1, <2>2, <2>6 DEF PhotoFiles
<1>6. \A g \in File \ {f} : PhotoFiles(g)'
  BY <1>1, <1>2, <1>3, FilesKept DEF AssetsInv
<1>7. DOMAIN maker' = Scripts /\ \A u \in Scripts : MakerOK(maker'[u])
  BY <1>1, <1>2, <1>3 DEF AssetsInv, MakerOK
<1>8. \A u \in Scripts : maker'[u].file \notin astray' => ReplacesNamed(u)'
  BY <1>1, <1>2, <1>3 DEF AssetsInv, ReplacesNamed
<1> QED BY <1>1, <1>5, <1>6, <1>7, <1>8 DEF AssetsInv

(* The steps of the library that are neither an upload nor a deletion.     *)
LEMMA AssetsStay ==
    ASSUME AssetsInv, UNCHANGED <<live, assetVars>>
    PROVE  AssetsInv'
<1>1. UNCHANGED <<live, disk, path, made, maker, damaged, astray>>
  BY DEF assetVars
<1> QED BY <1>1, FilesKept DEF AssetsInv, ReplacesNamed

(* Every step that changes files, rows or the library's photos. *)
LEMMA AssetsStep ==
    ASSUME AssetsInv, AssetsNext
    PROVE  AssetsInv'
<1>1. ASSUME NEW f \in File, \/ PreviewPlugin(f) \/ UploadCut(f) \/ Register(f)
                             \/ RemovePhoto(f) \/ RemoveFails(f)
                             \/ \E s \in Scripts : Regenerate(s, f) \/ BackfillMedia(s, f) \/ Outdated(s, f)
      PROVE  AssetsInv'
  BY <1>1, UploadFiles, RegisterFiles, RemoveFiles, RemoveFailsFiles, BeginFiles
<1>2. ASSUME NEW s \in Scripts, \/ Make(s) \/ CheckActive(s) \/ NamePaths(s)
                                \/ StagePreview(s) \/ ReplacePreview(s) \/ MakerEnd(s)
      PROVE  AssetsInv'
  BY <1>2, MakeFiles, WorkGoesOn, NameFiles, ReplaceFiles, EndFiles
<1> QED BY <1>1, <1>2 DEF AssetsNext

(* Photos from before have what was wanted of them, or nothing.            *)
LEMMA AssetsStart ==
    ASSUME Init, AssetsInit
    PROVE  AssetsInv
<1>1. live \subseteq File /\ made = [f \in File |-> NotMade] /\ maker = [s \in Scripts |-> NoMaker]
  BY DEF Init, AssetsInit
<1>2. path \in [File -> SUBSET Derivative] /\ \A f \in File \ live : path[f] = {}
  <2>1. PICK L \in SUBSET {f \in live : Media[f] # "image"} :
          path = [f \in File |-> IF f \in live \ L THEN Wanted(f) ELSE {}]
    BY DEF AssetsInit
  <2> QED BY <2>1 DEF Wanted, Derivative
<1>3. PICK O \in SUBSET {f \in live : "preview" \in path[f]} :
        disk = [f \in File |-> IF f \notin live THEN NoFiles
                 ELSE [k \in DOMAIN NoFiles |-> IF k \notin Targets(f) THEN "none"
                                               ELSE IF f \in O /\ k = "preview" THEN "old" ELSE "good"]]
  BY DEF AssetsInit
<1>4. \A f \in File : disk[f] = IF f \notin live THEN NoFiles
                 ELSE [k \in DOMAIN NoFiles |-> IF k \notin Targets(f) THEN "none"
                                               ELSE IF f \in O /\ k = "preview" THEN "old" ELSE "good"]
  BY <1>3
<1>5. DOMAIN disk = File /\ \A f \in File : Whole(disk[f])
  BY <1>3, <1>4 DEF Whole, NoFiles
<1>6. \A s \in Scripts : MakerOK(maker[s]) /\ ReplacesNamed(s) /\ maker[s].file = None /\ maker[s].new = {}
  BY <1>1 DEF MakerOK, ReplacesNamed, NoMaker
<1>7. ASSUME NEW f \in File PROVE PhotoFiles(f)
  <2>1. ~UnderWork(f) /\ Unnamed(f) = {} /\ made[f] = NotMade
    BY <1>1, <1>6, PhotosAssumption DEF UnderWork, Unnamed, None
  <2>2. CASE f \notin live
    BY <1>2, <1>4, <2>1, <2>2 DEF PhotoFiles, Absent
  <2>3. CASE f \in live
    <3>1. Targets(f) \subseteq DOMAIN NoFiles
      BY <1>2 DEF Targets, NoFiles
    <3>2. \A k \in DOMAIN NoFiles : disk[f][k] # "none" <=> k \in Targets(f)
      BY <1>4, <2>3
    <3> QED BY <2>1, <2>3, <3>1, <3>2 DEF PhotoFiles, Served
  <2> QED BY <2>2, <2>3
<1> QED BY <1>1, <1>2, <1>5, <1>6, <1>7 DEF AssetsInv

(* What each photo's files are holds in every state. *)
LEMMA AssetsInvHolds == AssetsSpec => []AssetsInv
<1>1. Init /\ AssetsInit => AssetsInv
  BY AssetsStart
<1>2. AssetsInv /\ [AssetsNext \/ (Next /\ UNCHANGED <<live, assetVars>>)]_<<vars, assetVars>> => AssetsInv'
  <2>1. UNCHANGED <<vars, assetVars>> => UNCHANGED <<live, assetVars>>
    BY DEF vars
  <2> QED BY <2>1, AssetsStep, AssetsStay
<1> QED BY <1>1, <1>2, PTL DEF AssetsSpec

(* Whatever scripts run while photos come and go, what a photo's row names *)
(* is on disk and nothing is left of a deleted photo, but for the cases    *)
(* that the property excepts (Derivatives.AssetsMatchRows).                *)
THEOREM AssetsMatchRowsHolds == AssetsSpec => []AssetsMatchRows
<1>1. AssetsInv => AssetsMatchRows
  <2> SUFFICES ASSUME AssetsInv, NEW f \in File \ astray
               PROVE  /\ f \in live \ damaged => \A kind \in Targets(f) : kind \in GetMedia(f, kind)
                      /\ f \notin live /\ made[f] = NotMade => path[f] = {} /\ disk[f] = NoFiles
    BY DEF AssetsMatchRows
  <2>1. IF f \in live THEN Served(f) ELSE Absent(f)
    BY DEF AssetsInv, PhotoFiles
  <2> QED BY <2>1 DEF Served, Absent, GetMedia, MediaCandidates
<1> QED BY <1>1, AssetsInvHolds, PTL

(* A file is missing, old or good; only a photo that is there has had a    *)
(* deletion that failed.                                                   *)
FileStates ==
    /\ \A f \in File : \A k \in DOMAIN NoFiles : disk[f][k] \in {"none", "old", "good"}
    /\ damaged \subseteq live /\ astray \subseteq File

LEMMA FileStatesWritten ==
    ASSUME AssetsInv, FileStates, NEW f \in File, NEW K,
           disk' \in {disk, Generated(f, K), Unlinked(f, K), [disk EXCEPT ![f].original = "good"]},
           damaged' \subseteq live', astray' \subseteq File
    PROVE  FileStates'
<1>1. ASSUME disk' = [disk EXCEPT ![f].original = "good"]
      PROVE  \A g \in File : \A k \in DOMAIN NoFiles : disk'[g][k] \in {"none", "old", "good"}
  <2>1. ASSUME NEW g \in File, NEW k \in DOMAIN NoFiles PROVE disk'[g][k] \in {"none", "old", "good"}
    <3>1. disk'[g][k] = IF g = f /\ k = "original" THEN "good" ELSE disk[g][k]
      BY <1>1, <2>1 DEF AssetsInv, Whole
    <3> QED BY <3>1 DEF FileStates
  <2> QED BY <2>1
<1>2. ASSUME disk' \in {disk, Generated(f, K), Unlinked(f, K)}, NEW g \in File, NEW k \in DOMAIN NoFiles
      PROVE  disk'[g][k] \in {"none", "old", "good"}
  <2>1. disk'[g][k] \in {disk[g][k], "good", "none"}
    BY <1>2, DiskWritten DEF AssetsInv
  <2> QED BY <2>1 DEF FileStates
<1> QED BY <1>1, <1>2 DEF FileStates

LEMMA FileStatesStep ==
    ASSUME AssetsInv, FileStates, AssetsNext
    PROVE  FileStates'
<1>1. damaged \subseteq live /\ astray \subseteq File /\ live \subseteq File
  BY DEF FileStates, AssetsInv
<1>2. ASSUME NEW f \in File, \/ PreviewPlugin(f) \/ UploadCut(f) \/ Register(f)
                             \/ RemovePhoto(f) \/ RemoveFails(f)
                             \/ \E s \in Scripts : Regenerate(s, f) \/ BackfillMedia(s, f) \/ Outdated(s, f)
      PROVE  FileStates'
  <2>1. \E K : disk' \in {disk, Generated(f, K), Unlinked(f, K), [disk EXCEPT ![f].original = "good"]}
    BY <1>2 DEF PreviewPlugin, UploadCut, Register, RemovePhoto, RemoveFails, Regenerate, BackfillMedia,
                Outdated, Begin
  <2>2. damaged' \subseteq live'
    BY <1>1, <1>2 DEF PreviewPlugin, UploadCut, Register, UploadPhoto, RemovePhoto, DeletePhoto, RemoveFails,
                      Regenerate, BackfillMedia, Outdated, Begin, vars
  <2>3. astray' \subseteq File
    BY <1>1, <1>2 DEF PreviewPlugin, UploadCut, Register, RemovePhoto, RemoveFails, Regenerate, BackfillMedia,
                      Outdated, Begin
  <2> QED BY <2>1, <2>2, <2>3, FileStatesWritten
<1>3. ASSUME NEW s \in Scripts, \/ Make(s) \/ CheckActive(s) \/ NamePaths(s)
                                \/ StagePreview(s) \/ ReplacePreview(s) \/ MakerEnd(s)
      PROVE  FileStates'
  <2>1. maker[s].file \in File
    <3>1. maker[s] # NoMaker
      BY <1>3 DEF Make, CheckActive, NamePaths, StagePreview, ReplacePreview, MakerEnd, NoMaker
    <3> QED BY <3>1 DEF AssetsInv, MakerOK
  <2>2. \E K : disk' \in {disk, Generated(maker[s].file, K)}
    BY <1>3 DEF Make, CheckActive, NamePaths, StagePreview, ReplacePreview, MakerEnd
  <2>3. damaged' = damaged /\ live' = live
    BY <1>3 DEF Make, CheckActive, NamePaths, StagePreview, ReplacePreview, MakerEnd, vars
  <2>4. astray' \subseteq File
    BY <1>1, <1>3, <2>1 DEF Make, CheckActive, NamePaths, StagePreview, ReplacePreview, MakerEnd
  <2> QED BY <1>1, <2>1, <2>2, <2>3, <2>4, FileStatesWritten
<1> QED BY <1>2, <1>3 DEF AssetsNext

(* The files, paths and histories of photos have their types               *)
(* (Derivatives.AssetsTypeOK).                                             *)
THEOREM AssetsTypeCorrect == AssetsSpec => []AssetsTypeOK
<1>1. Init /\ AssetsInit => FileStates
  <2> SUFFICES ASSUME Init, AssetsInit PROVE FileStates
    OBVIOUS
  <2>1. PICK O \in SUBSET {f \in live : "preview" \in path[f]} :
          disk = [f \in File |-> IF f \notin live THEN NoFiles
                   ELSE [k \in DOMAIN NoFiles |-> IF k \notin Targets(f) THEN "none"
                                                 ELSE IF f \in O /\ k = "preview" THEN "old" ELSE "good"]]
    BY DEF AssetsInit
  <2>2. ASSUME NEW f \in File, NEW k \in DOMAIN NoFiles PROVE disk[f][k] \in {"none", "old", "good"}
    BY <2>1, <2>2 DEF NoFiles
  <2> QED BY <2>2 DEF AssetsInit, FileStates
<1>2. AssetsInv /\ FileStates /\ [AssetsNext \/ (Next /\ UNCHANGED <<live, assetVars>>)]_<<vars, assetVars>>
        => FileStates'
  <2>1. UNCHANGED <<vars, assetVars>> => UNCHANGED <<live, assetVars>>
    BY DEF vars
  <2>2. FileStates /\ UNCHANGED <<live, assetVars>> => FileStates'
    BY DEF FileStates, assetVars
  <2> QED BY <2>1, <2>2, FileStatesStep
<1>3. AssetsInv /\ FileStates => AssetsTypeOK
  <2> SUFFICES ASSUME AssetsInv, FileStates PROVE AssetsTypeOK
    OBVIOUS
  <2>1. ASSUME NEW f \in File PROVE disk[f] \in [Derivative \cup {"original"} -> {"none", "old", "good"}]
    <3>1. disk[f] = [k \in DOMAIN NoFiles |-> disk[f][k]] /\ DOMAIN NoFiles = Derivative \cup {"original"}
      BY DEF AssetsInv, Whole, NoFiles
    <3> QED BY <3>1 DEF FileStates
  <2> QED BY <2>1 DEF AssetsInv, FileStates, AssetsTypeOK
<1> QED BY <1>1, <1>2, <1>3, AssetsInvHolds, PTL DEF AssetsSpec

(***************************************************************************)
(* PAGES                                                                   *)
(***************************************************************************)

(* Dates, years and ids are numbers. *)
Numbers(r) == r.user \in Nat /\ r.src \in Nat /\ r.at \in Nat /\ r.year \in Nat

SessionNumbers(s) == s.pc # "idle" => s.original \in Nat /\ Numbers(s.snap)

(* What the backfill has scanned is one photo's date. *)
ScanNumbers == backfill.pc = "apply" => \E f \in File, d \in Nat : backfill.scan = [x \in {f} |-> d]

NumbersInv ==
    /\ \A f \in File : Numbers(date[f]) /\ exif[f] \in Nat
    /\ \A w \in Workers : SessionNumbers(session[w])
    /\ DOMAIN backfill = {"pc", "cursor", "high", "scan"} /\ ScanNumbers

(* A set of numbers has a least one. *)
LEMMA LeastExists ==
    ASSUME NEW S, S \subseteq Nat, S # {}
    PROVE  \E x \in S : \A y \in S : x <= y
<1>1. PICK x \in S : \A y \in S : ~(<<y, x>> \in OpToRel(<, Nat))
  <2> DEFINE R == OpToRel(<, Nat)
  <2>1. IsWellFoundedOn(R, Nat)
    BY NatLessThanWellFounded
  <2> HIDE DEF R
  <2>2. \E x \in S : \A y \in S : ~(<<y, x>> \in R)
    BY <2>1, WFMin
  <2> QED BY <2>2 DEF R
<1>2. \A y \in S : ~(y < x)
  BY <1>1 DEF OpToRel
<1> QED BY <1>2

(* Setting the user's date or the source year keeps a row in shape. *)
LEMMA NumbersWith ==
    ASSUME NEW r, NEW n \in Nat, Columns(r), Numbers(r)
    PROVE  /\ Columns([r EXCEPT !.user = n]) /\ Numbers([r EXCEPT !.user = n])
           /\ Columns([r EXCEPT !.src = n]) /\ Numbers([r EXCEPT !.src = n])
  BY DEF Columns, Numbers

(* What synchronize stores are numbers, as what it reads. *)
LEMMA SynchronizedNumbers ==
    ASSUME NEW f \in File, NEW r, NEW original \in Nat, Columns(r), Numbers(r)
    PROVE  Numbers(Synchronized(f, r, original))
<1> DEFINE row == IF r = NoState THEN [r EXCEPT !.rev = 0] ELSE r
           p == Project(f, row, original)
           t == Synchronized(f, r, original)
<1>1. Columns(row) /\ row.user = r.user /\ row.src = r.src
  BY DEF Columns, NoState
<1>2. p.at \in Nat /\ p.year \in Nat
  <2>1. row.user \in Nat /\ row.src \in Nat /\ ImportedAt[f] \in Nat /\ CreatedAt[f] \in Nat /\ None \in Nat
    BY <1>1, DatesAssumption DEF Numbers, None
  <2>2. \A d \in Nat : YearOf(d) \in Nat
    BY DEF YearOf
  <2> HIDE DEF row
  <2> QED
    BY <2>1, <2>2 DEF Project, Calculate, Projection
<1>3. t = [row EXCEPT !.at = p.at, !.year = p.year, !.basis = p.basis]
  BY DEF Synchronized
<1> HIDE DEF row, p, t
<1>4. t.user = r.user /\ t.src = r.src /\ t.at = p.at /\ t.year = p.year
  BY <1>1, <1>3 DEF Columns
<1> QED BY <1>2, <1>4 DEF Numbers, t

(* So is what a row becomes that is synchronized and counted. *)
LEMMA ResyncedNumbers ==
    ASSUME NEW f \in File, NEW r, NEW original \in Nat, NEW t, Columns(r), Numbers(r),
           Resynced(t, f, r, original)
    PROVE  Numbers(t)
<1> DEFINE q == Synchronized(f, r, original)
<1>1. Columns(q) /\ Numbers(q)
  BY SynchronizedProjects, SynchronizedNumbers
<1>2. ASSUME NEW n, t = [q EXCEPT !.rev = n] PROVE Numbers(t)
  <2> HIDE DEF q
  <2> QED BY <1>1, <1>2 DEF Columns, Numbers
<1> QED BY <1>1, <1>2 DEF Resynced

(* A tag or a metadata patch writes numbers. *)
LEMMA CountedNumbers ==
    ASSUME DatesInv, NumbersInv, NEW f \in File, Counted(f)
    PROVE  Numbers(date'[f])
<1>1. Columns(date[f]) /\ Numbers(date[f]) /\ exif[f] \in Nat
  BY DEF DatesInv, DatesShape, NumbersInv
<1>2. ASSUME NEW n, date'[f] = [date[f] EXCEPT !.rev = n] PROVE Numbers(date'[f])
  BY <1>1, <1>2 DEF Columns, Numbers
<1>3. CASE Resynced(date'[f], f, date[f], exif[f])
  BY <1>1, <1>3, ResyncedNumbers
<1> QED BY <1>1, <1>2, <1>3 DEF Counted

(* A session writes what it has computed from the numbers it has read. *)
LEMMA CommitNumbers ==
    ASSUME DatesInv, NumbersInv, NEW w \in Workers, SessionCommit(w)
    PROVE  NumbersInv'
<1> DEFINE s == session[w]
           f == s.file
           new == Synchronized(f, s.snap, s.original)
           row == IF s.snap = NoState THEN new ELSE WriteColumns(date[f], s.snap, new)
           fact == IF s.op = "exif" THEN s.original ELSE exif[f]
<1>1. /\ f \in File /\ Columns(s.snap) /\ Columns(date[f])
      /\ s.original \in Nat /\ Numbers(s.snap) /\ Numbers(date[f]) /\ exif[f] \in Nat
  BY DEF SessionCommit, DatesInv, DatesShape, SessionOK, NumbersInv, SessionNumbers
<1>2. /\ date' = [date EXCEPT ![f] = row] /\ exif' = [exif EXCEPT ![f] = fact]
      /\ session' = [session EXCEPT ![w] = NoSession] /\ backfill' = backfill
  BY DEF SessionCommit
<1>3. Columns(new) /\ Numbers(new)
  BY <1>1, SynchronizedNumbers, SynchronizedProjects
<1> HIDE DEF new
<1>4. Numbers(row)
  <2>1. CASE s.snap = NoState
    BY <1>3, <2>1
  <2>2. CASE s.snap # NoState
    <3> DEFINE now == date[f]
               snap == s.snap
    <3>1. row = WriteColumns(now, snap, new) /\ Columns(now) /\ Numbers(now)
      BY <1>1, <2>2
    <3> HIDE DEF now, snap, row
    <3> QED BY <1>3, <3>1 DEF WriteColumns, Columns, Numbers
  <2> QED BY <2>1, <2>2
<1> HIDE DEF row
<1>5. \A g \in File : Numbers(date'[g]) /\ exif'[g] \in Nat
  BY <1>1, <1>2, <1>4 DEF NumbersInv, DatesInv, DatesShape
<1>6. \A v \in Workers : SessionNumbers(session'[v])
  BY <1>2 DEF NumbersInv, SessionNumbers, NoSession, DatesInv, DatesShape
<1> QED BY <1>2, <1>5, <1>6 DEF NumbersInv, ScanNumbers

(* A session reads numbers. *)
LEMMA ReadNumbers ==
    ASSUME DatesInv, NumbersInv, NEW w \in Workers,
           \/ \E f \in File : SyncRead(w, f) \/ ExifRead(w, f)
           \/ StateRead(w) \/ SessionAbort(w)
    PROVE  NumbersInv'
<1>1. UNCHANGED <<date, exif, backfill>>
  BY DEF SyncRead, ExifRead, StateRead, SessionAbort, Open
<1>2. \E s : session' = [session EXCEPT ![w] = s] /\ SessionNumbers(s)
  <2>0. Numbers(NoState)
    BY DEF Numbers, NoState, None
  <2>1. ASSUME NEW f \in File, SyncRead(w, f)
        PROVE  \E s : session' = [session EXCEPT ![w] = s] /\ SessionNumbers(s)
    <3> DEFINE s == [NoSession EXCEPT !.pc = "read", !.op = "sync", !.file = f,
                       !.read = exif[f], !.original = exif[f]]
    <3>1. s.original = exif[f] /\ s.snap = NoState /\ session' = [session EXCEPT ![w] = s]
      BY <2>1 DEF SyncRead, Open, NoSession
    <3> HIDE DEF s
    <3> QED BY <2>0, <3>1 DEF NumbersInv, SessionNumbers
  <2>2. ASSUME NEW f \in File, ExifRead(w, f)
        PROVE  \E s : session' = [session EXCEPT ![w] = s] /\ SessionNumbers(s)
    <3> DEFINE s == [NoSession EXCEPT !.pc = "read", !.op = "exif", !.file = f,
                       !.read = exif[f], !.original = FileExif[f]]
    <3>1. s.original = FileExif[f] /\ s.snap = NoState /\ session' = [session EXCEPT ![w] = s]
      BY <2>2 DEF ExifRead, Open, NoSession
    <3> HIDE DEF s
    <3> QED BY <2>0, <3>1, DatesAssumption DEF SessionNumbers
  <2>3. CASE StateRead(w)
    <3> DEFINE s == [session[w] EXCEPT !.pc = "computed", !.snap = date[session[w].file]]
    <3>1. SessionOK(session[w]) /\ session[w].pc # "idle" /\ SessionNumbers(session[w])
      BY <2>3 DEF StateRead, DatesInv, NumbersInv
    <3>2. s.original = session[w].original /\ s.snap = date[session[w].file]
      BY <3>1, SessionWith
    <3>3. session' = [session EXCEPT ![w] = s]
      BY <2>3 DEF StateRead, Open
    <3> HIDE DEF s
    <3>4. SessionNumbers(s)
      BY <3>1, <3>2 DEF SessionNumbers, SessionOK, NumbersInv
    <3> QED BY <3>3, <3>4
  <2>4. CASE SessionAbort(w)
    <3>1. NoSession.pc = "idle" /\ session' = [session EXCEPT ![w] = NoSession]
      BY <2>4 DEF SessionAbort, Open, NoSession
    <3>2. SessionNumbers(NoSession)
      BY <3>1 DEF SessionNumbers
    <3> QED BY <3>1, <3>2
  <2> QED BY <2>1, <2>2, <2>3, <2>4
<1>3. \A v \in Workers : SessionNumbers(session'[v])
  BY <1>2 DEF NumbersInv, DatesInv, DatesShape
<1> QED BY <1>1, <1>3 DEF NumbersInv, ScanNumbers

(* The backfill writes what it has scanned, a date or none. *)
LEMMA BackfillNumbers ==
    ASSUME DatesInv, NumbersInv, BackfillStart \/ BackfillScan \/ BackfillApply \/ BackfillEnd
    PROVE  NumbersInv'
<1>1. CASE BackfillScan
  <2> DEFINE f == Min(NotYetScanned)
  <2>1. f \in File
    <3>1. NotYetScanned \subseteq File /\ NotYetScanned \subseteq Nat /\ NotYetScanned # {}
      BY <1>1, PhotosAssumption DEF BackfillScan, NotYetScanned, DatesInv, DatesShape
    <3>2. \E x \in NotYetScanned : \A y \in NotYetScanned : x <= y
      BY <3>1, LeastExists
    <3>3. f \in NotYetScanned
      BY <3>2 DEF Min
    <3> QED BY <3>1, <3>3
  <2>2. PICK found \in {None, IF exif[f] = None THEN FileExif[f] ELSE None} :
           backfill' = [backfill EXCEPT !.pc = "apply", !.cursor = f, !.scan = [x \in {f} |-> found]]
    BY <1>1 DEF BackfillScan
  <2>3. UNCHANGED <<date, exif, session>>
    BY <1>1 DEF BackfillScan
  <2> HIDE DEF f
  <2>4. found \in Nat
    BY <2>1, <2>2, DatesAssumption DEF None
  <2>5. backfill'.scan = [x \in {f} |-> found] /\ DOMAIN backfill' = DOMAIN backfill
    BY <2>2 DEF NumbersInv
  <2>6. ScanNumbers'
    BY <2>1, <2>4, <2>5 DEF ScanNumbers
  <2> QED BY <2>3, <2>5, <2>6 DEF NumbersInv
<1>2. CASE BackfillApply
  <2> DEFINE f == CHOOSE x \in DOMAIN backfill.scan : TRUE
             fact == IF exif[f] = None THEN backfill.scan[f] ELSE exif[f]
  <2>1. /\ exif' = IF f \in live THEN [exif EXCEPT ![f] = fact] ELSE exif
        /\ date' = IF f \in live THEN [date EXCEPT ![f] = Synchronized(f, @, fact)] ELSE date
        /\ backfill' = [backfill EXCEPT !.pc = "load", !.scan = << >>] /\ UNCHANGED session
    BY <1>2 DEF BackfillApply, Current
  <2>2. f \in File /\ backfill.scan[f] \in Nat
    <3>1. PICK g \in File, d \in Nat : backfill.scan = [x \in {g} |-> d]
      BY <1>2 DEF BackfillApply, NumbersInv, ScanNumbers
    <3>2. f = g
      BY <3>1
    <3> QED BY <3>1, <3>2
  <2>3. fact \in Nat
    BY <2>2 DEF NumbersInv
  <2> HIDE DEF f, fact
  <2>4. Numbers(Synchronized(f, date[f], fact))
    BY <2>2, <2>3, SynchronizedNumbers DEF NumbersInv, DatesInv, DatesShape
  <2>5. \A g \in File : Numbers(date'[g]) /\ exif'[g] \in Nat
    BY <2>1, <2>2, <2>3, <2>4 DEF NumbersInv, DatesInv, DatesShape
  <2>6. backfill'.pc = "load" /\ DOMAIN backfill' = DOMAIN backfill
    BY <2>1 DEF NumbersInv
  <2> QED BY <2>1, <2>5, <2>6 DEF NumbersInv, ScanNumbers
<1>3. CASE BackfillStart \/ BackfillEnd
  <2>1. UNCHANGED <<date, exif, session>>
    BY <1>3 DEF BackfillStart, BackfillEnd
  <2>2. DOMAIN backfill' = {"pc", "cursor", "high", "scan"} /\ backfill'.pc # "apply"
    <3>1. CASE BackfillStart
      BY <3>1 DEF BackfillStart, NoBackfill
    <3>2. CASE BackfillEnd
      BY <3>2 DEF BackfillEnd, NoBackfill
    <3> QED BY <1>3, <3>1, <3>2
  <2> QED BY <2>1, <2>2 DEF NumbersInv, ScanNumbers
<1> QED BY <1>1, <1>2, <1>3

(* Steps that rewrite rows with numbers and read nothing new. *)
LEMMA RowsNumbers ==
    ASSUME NumbersInv, UNCHANGED <<session, backfill>>,
           \A f \in File : Numbers(date'[f]) /\ exif'[f] \in Nat
    PROVE  NumbersInv'
  BY DEF NumbersInv, ScanNumbers

(* One lemma for the steps of the capture dates, one step per action. *)
LEMMA DatesNumbers ==
    ASSUME DatesInv, OnceInv, NumbersInv, DatesNext
    PROVE  NumbersInv'
<1>0. ASSUME NEW f \in File PROVE Columns(date[f]) /\ Numbers(date[f]) /\ exif[f] \in Nat
  BY DEF DatesInv, DatesShape, NumbersInv
<1>1. ASSUME NEW F \in SUBSET File, NEW d \in UserDate \cup {None}, Override(F, d) PROVE NumbersInv'
  <2>1. ASSUME NEW f \in File PROVE Numbers(date'[f])
    <3>1. CASE f \notin F
      BY <1>0, <1>1, <3>1 DEF Override
    <3>2. CASE f \in F
      <4> DEFINE row == Synchronized(f, date[f], exif[f])
                 edit == [row EXCEPT !.user = d]
      <4>1. Columns(row) /\ Numbers(row)
        BY <1>0, SynchronizedProjects, SynchronizedNumbers
      <4>2. d \in Nat
        BY DatesAssumption DEF None
      <4>3. date'[f] = Touched(Synchronized(f, edit, exif[f]))
        BY <1>1, <3>2 DEF Override
      <4> HIDE DEF row
      <4>4. Columns(edit) /\ Numbers(edit)
        BY <4>1, <4>2, NumbersWith
      <4> HIDE DEF edit
      <4>5. Resynced(date'[f], f, edit, exif[f])
        BY <4>3 DEF Touched, Resynced
      <4> QED BY <1>0, <4>4, <4>5, ResyncedNumbers
    <3> QED BY <3>1, <3>2
  <2>2. UNCHANGED <<exif, session, backfill>>
    BY <1>1 DEF Override
  <2> QED BY <1>0, <2>1, <2>2, RowsNumbers
<1>2. ASSUME NEW f \in File, PatchMetadata(f) PROVE NumbersInv'
  <2>1. \A g \in File : Counted(g)
    BY <1>2 DEF PatchMetadata, Counted, Resynced, Touched, DatesInv, DatesShape
  <2>2. UNCHANGED <<exif, session, backfill>>
    BY <1>2 DEF PatchMetadata
  <2> QED BY <1>0, <2>1, <2>2, CountedNumbers, RowsNumbers
<1>3. ASSUME NEW w \in Workers,
             \/ \E f \in File : SyncRead(w, f) \/ ExifRead(w, f)
             \/ StateRead(w) \/ SessionCommit(w) \/ SessionAbort(w)
      PROVE  NumbersInv'
  BY <1>3, ReadNumbers, CommitNumbers
<1>4. CASE AuditAndPlan
  BY <1>4, RowsNumbers, <1>0 DEF AuditAndPlan
<1>5. ASSUME NEW s \in Scripts, ReconVerify(s) \/ ReconBatch(s) \/ ReconStop(s) PROVE NumbersInv'
  <2>1. CASE ReconBatch(s)
    <3> DEFINE f == Min(recon[s].todo)
    <3>1. /\ f \in File /\ plan[f].action # "EXCLUDE" /\ UNCHANGED <<exif, session, backfill>>
          /\ date' = IF Verify(f) = "READY" THEN [date EXCEPT ![f] = Reconciled(f)] ELSE date
      BY <2>1, BatchWrites DEF DatesInv, ReconBatch
    <3> HIDE DEF f
    <3>2. plan[f].year \in Nat
      BY <3>1, DatesAssumption DEF OnceInv
    <3> DEFINE r == [date[f] EXCEPT !.src = plan[f].year]
    <3>3. Columns(r) /\ Numbers(r)
      BY <1>0, <3>1, <3>2, NumbersWith
    <3>4. Resynced(Reconciled(f), f, r, exif[f])
      BY DEF Reconciled, Touched, Resynced
    <3> HIDE DEF r
    <3>5. Numbers(Reconciled(f))
      BY <1>0, <3>1, <3>3, <3>4, ResyncedNumbers
    <3>6. \A g \in File : Numbers(date'[g])
      BY <1>0, <3>1, <3>5 DEF DatesInv, DatesShape
    <3> QED BY <1>0, <3>1, <3>6, RowsNumbers
  <2>2. CASE ReconVerify(s) \/ ReconStop(s)
    BY <1>0, <2>2, RowsNumbers DEF ReconVerify, ReconStop
  <2> QED BY <1>5, <2>1, <2>2
<1>6. CASE BackfillStart \/ BackfillScan \/ BackfillApply \/ BackfillEnd
  BY <1>6, BackfillNumbers
<1> QED
  BY <1>1, <1>2, <1>3, <1>4, <1>5, <1>6 DEF DatesNext

(* In every state of the library dates, years and ids are numbers, so that *)
(* rows can be ordered by them.                                            *)
LEMMA NumbersInvariant == Spec => []NumbersInv
<1>1. Init => NumbersInv
  <2> SUFFICES ASSUME Init PROVE NumbersInv
    OBVIOUS
  <2>1. /\ \A f \in File : date[f] \in IF f \in live THEN FirstStates(f) ELSE {NoState}
        /\ exif = [f \in File |-> None] /\ session = [w \in Workers |-> NoSession] /\ backfill = NoBackfill
    BY DEF Init, DatesInit
  <2>2. Numbers(NoState) /\ Columns(NoState)
    BY DEF Numbers, Columns, NoState, None
  <2>3. ASSUME NEW f \in File, NEW y \in {None} \cup (IF Cardinality(SourceYears[f]) = 1 THEN SourceYears[f] ELSE {})
        PROVE  Numbers(Synchronized(f, [NoState EXCEPT !.rev = 0, !.src = y], None))
    <3> DEFINE r == [NoState EXCEPT !.rev = 0, !.src = y]
    <3>1. y \in Nat /\ None \in Nat
      BY DatesAssumption DEF None
    <3>2. Columns(r) /\ Numbers(r)
      <4> DEFINE q == [NoState EXCEPT !.rev = 0]
      <4>1. Columns(q) /\ Numbers(q)
        BY DEF Columns, Numbers, NoState, None
      <4>2. r = [q EXCEPT !.src = y]
        OBVIOUS
      <4> HIDE DEF q, r
      <4> QED BY <3>1, <4>1, <4>2, NumbersWith
    <3> HIDE DEF r
    <3> QED BY <3>1, <3>2, SynchronizedNumbers DEF r
  <2>4. \A f \in File : Numbers(date[f])
    BY <2>1, <2>2, <2>3 DEF FirstStates
  <2> QED BY <2>1, <2>4 DEF NumbersInv, SessionNumbers, ScanNumbers, NoSession, NoBackfill, None
<1>2. DatesInv /\ OnceInv /\ NumbersInv /\ [Next]_vars => NumbersInv'
  <2> SUFFICES ASSUME DatesInv, OnceInv, NumbersInv, [Next]_vars PROVE NumbersInv'
    OBVIOUS
  <2>0. \A f \in File : Numbers(date[f]) /\ exif[f] \in Nat /\ Columns(date[f])
    BY DEF NumbersInv, DatesInv, DatesShape
  <2>1. CASE DatesNext
    BY <2>1, DatesNumbers
  <2>2. CASE TagsNext
    <3>1. DOMAIN date = File
      BY DEF DatesInv, DatesShape
    <3>2. (\A f \in File : Counted(f)) /\ UNCHANGED <<exif, session, backfill>>
      BY <2>2, <3>1, TagsCount DEF DatesButState
    <3> QED BY <2>0, <3>2, CountedNumbers, RowsNumbers
  <2>3. CASE \E f \in File : PatchMetadata(f)
    BY <2>3, DatesNumbers DEF DatesNext
  <2>4. CASE UNCHANGED dateVars
    BY <2>0, <2>4, RowsNumbers DEF dateVars
  <2>5. ASSUME NEW f \in File, UploadPhoto(f) PROVE NumbersInv'
    <3>1. /\ date' = [date EXCEPT ![f] = Synchronized(f, NoState, None)]
          /\ UNCHANGED <<exif, session, backfill>>
      BY <2>5 DEF UploadPhoto, DateOfNew
    <3>2. Columns(NoState) /\ Numbers(NoState) /\ None \in Nat
      BY DEF Columns, Numbers, NoState, None
    <3>3. Numbers(Synchronized(f, NoState, None))
      BY <3>2, SynchronizedNumbers
    <3>4. \A g \in File : Numbers(date'[g])
      BY <2>0, <3>1, <3>3 DEF DatesInv, DatesShape
    <3> QED BY <2>0, <3>1, <3>4, RowsNumbers
  <2>6. ASSUME NEW f \in File, DeletePhoto(f) PROVE NumbersInv'
    <3>1. /\ date' = [date EXCEPT ![f] = NoState] /\ exif' = [exif EXCEPT ![f] = None]
          /\ UNCHANGED <<session, backfill>>
      BY <2>6 DEF DeletePhoto, DateOfDeleted
    <3>2. Numbers(NoState) /\ None \in Nat
      BY DEF Numbers, NoState, None
    <3>3. \A g \in File : Numbers(date'[g]) /\ exif'[g] \in Nat
      BY <2>0, <3>1, <3>2 DEF DatesInv, DatesShape
    <3> QED BY <3>1, <3>3, RowsNumbers
  <2> QED
    BY <2>1, <2>2, <2>3, <2>4, <2>5, <2>6, LibraryDatesStep DEF DatesInv, DatesShape
<1> QED
  BY <1>1, <1>2, DatesInvariant, OnceInvariant, PTL DEF Spec

(* What rows are ordered by: a year, a date and an id, each a number. *)
KeyOK(k) == k.year \in Nat /\ k.at \in Nat /\ k.id \in Nat

(* ORDER BY is a strict order: no row before itself, and transitive. *)
LEMMA PrecedesOrder ==
    ASSUME NEW o \in BOOLEAN, NEW j, NEW k, NEW l, KeyOK(j), KeyOK(k), KeyOK(l)
    PROVE  /\ ~Precedes(j, j, o)
           /\ Precedes(j, k, o) /\ Precedes(k, l, o) => Precedes(j, l, o)
           /\ j.id # k.id => Precedes(j, k, o) \/ Precedes(k, j, o)
<1>1. ~Precedes(j, j, o)
  BY DEF Precedes, KeyOK, None
<1>2. Precedes(j, k, o) /\ Precedes(k, l, o) => Precedes(j, l, o)
  BY DEF Precedes, KeyOK, None
<1>3. j.id # k.id => Precedes(j, k, o) \/ Precedes(k, j, o)
  BY DEF Precedes, KeyOK, None
<1> QED BY <1>1, <1>2, <1>3

(* The condition of the cursor is the order. *)
LEMMA BeyondCursor ==
    ASSUME NEW o \in BOOLEAN, NEW k, NEW c, KeyOK(k), KeyOK(c), c # NoCursor
    PROVE  Beyond(k, c, o) <=> Precedes(c, k, o)
  BY DEF Beyond, Precedes, KeyOK, None

(* Of finitely many sets of rows one contains no other. *)
LEMMA SmallestExists ==
    ASSUME NEW S, IsFiniteSet(S), S # {}, NEW t \in [S -> SUBSET S]
    PROVE  \E f \in S : \A g \in S : t[g] \subseteq t[f] => t[g] = t[f]
<1> DEFINE T == {t[f] : f \in S}
           R == StrictSubsetOrdering(S)
<1>1. IsWellFoundedOn(R, FiniteSubsetsOf(S))
  BY FS_StrictSubsetOrderingWellFounded
<1>2. T \subseteq FiniteSubsetsOf(S) /\ T # {}
  <2>1. ASSUME NEW f \in S PROVE t[f] \in FiniteSubsetsOf(S)
    <3>1. t[f] \in SUBSET S
      OBVIOUS
    <3>2. IsFiniteSet(t[f])
      BY <3>1, FS_Subset
    <3> QED BY <3>1, <3>2 DEF FiniteSubsetsOf
  <2> QED BY <2>1
<1> HIDE DEF T
<1>3. PICK x \in T : \A y \in T : ~(<<y, x>> \in R)
  BY <1>1, <1>2, WFMin
<1>4. PICK f \in S : x = t[f]
  BY DEF T
<1>5. ASSUME NEW g \in S, t[g] \subseteq t[f], t[g] # t[f] PROVE FALSE
  <2>1. t[g] \in T /\ <<t[g], t[f]>> \in R
    BY <1>5 DEF T, StrictSubsetOrdering
  <2> QED BY <1>3, <1>4, <2>1
<1> QED BY <1>5

(* Rows of photos have a first and a last one. *)
Rows(F) == F \subseteq File /\ IsFiniteSet(F) /\ \A f \in File : Numbers(date[f])

(* The sort key of a row is made of numbers, its id being the photo's. *)
LEMMA RowKeys ==
    ASSUME NEW F, Rows(F)
    PROVE  \A f \in F : f \in File /\ SortKey(f).id = f /\ KeyOK(SortKey(f))
  BY PhotosAssumption DEF Rows, KeyOK, SortKey, Numbers

(* Of the order one row has none before it and one has all the others. *)
LEMMA RowsEnd ==
    ASSUME NEW F, Rows(F), F # {}, NEW q, q.yearOnly \in BOOLEAN
    PROVE  /\ \E f \in F : Before(f, F, q) = {}
           /\ \E f \in F : Before(f, F, q) = F \ {f}
<1> DEFINE less(f, g) == Precedes(SortKey(f), SortKey(g), q.yearOnly)
<1>1. /\ \A f \in F : ~less(f, f)
      /\ \A f, g, h \in F : less(f, g) /\ less(g, h) => less(f, h)
      /\ \A f, g \in F : f # g => less(f, g) \/ less(g, f)
  <2>1. \A f \in F : KeyOK(SortKey(f)) /\ SortKey(f).id = f
    BY RowKeys
  <2> QED BY <2>1, PrecedesOrder
<1>2. \A f \in F : Before(f, F, q) = {g \in F : less(g, f)}
  BY DEF Before
<1> HIDE DEF less
<1>3. \E f \in F : Before(f, F, q) = {}
  <2> DEFINE t == [f \in F |-> {g \in F : less(g, f)}]
  <2>1. t \in [F -> SUBSET F] /\ \A f \in F : t[f] = {g \in F : less(g, f)}
    OBVIOUS
  <2> HIDE DEF t
  <2>2. PICK f \in F : \A g \in F : t[g] \subseteq t[f] => t[g] = t[f]
    BY <2>1, SmallestExists DEF Rows
  <2>3. ASSUME NEW g \in F, less(g, f) PROVE FALSE
    <3>1. t[g] \subseteq t[f] /\ g \in t[f] /\ g \notin t[g]
      BY <1>1, <2>1, <2>3
    <3> QED BY <2>2, <3>1
  <2> QED BY <1>2, <2>3
<1>4. \E f \in F : Before(f, F, q) = F \ {f}
  <2> DEFINE t == [f \in F |-> {g \in F : less(f, g)}]
  <2>1. t \in [F -> SUBSET F] /\ \A f \in F : t[f] = {g \in F : less(f, g)}
    OBVIOUS
  <2> HIDE DEF t
  <2>2. PICK f \in F : \A g \in F : t[g] \subseteq t[f] => t[g] = t[f]
    BY <2>1, SmallestExists DEF Rows
  <2>3. ASSUME NEW g \in F, less(f, g) PROVE FALSE
    <3>1. t[g] \subseteq t[f] /\ g \in t[f] /\ g \notin t[g]
      BY <1>1, <2>1, <2>3
    <3> QED BY <2>2, <3>1
  <2>4. {g \in F : less(g, f)} = F \ {f}
    BY <1>1, <2>3
  <2> QED BY <1>2, <2>4
<1> QED BY <1>3, <1>4

(* ORDER BY and LIMIT: all rows if there are not more than Limit, else     *)
(* those up to the last of the page.                                       *)
LEMMA PageRows ==
    ASSUME NEW F, Rows(F), NEW q, q.yearOnly \in BOOLEAN
    PROVE  LET P == Page(F, q)
               e == LastOf(P, q)
           IN /\ Cardinality(F) \in Nat /\ P \subseteq F
              /\ Cardinality(F) <= Limit => P = F
              /\ Cardinality(F) > Limit =>
                    /\ e \in P
                    /\ \A f \in F : f \in P <=> ~Precedes(SortKey(e), SortKey(f), q.yearOnly)
<1> DEFINE P == Page(F, q)
           e == LastOf(P, q)
           less(f, g) == Precedes(SortKey(f), SortKey(g), q.yearOnly)
<1>1. /\ \A f \in F : ~less(f, f)
      /\ \A f, g, h \in F : less(f, g) /\ less(g, h) => less(f, h)
      /\ \A f, g \in F : f # g => less(f, g) \/ less(g, f)
  <2>1. \A f \in F : KeyOK(SortKey(f)) /\ SortKey(f).id = f
    BY RowKeys
  <2> QED BY <2>1, PrecedesOrder
<1>2. /\ \A f, g \in F : g \in Before(f, F, q) <=> less(g, f)
      /\ \A f : Before(f, F, q) \subseteq F
  BY DEF Before
<1>3. Cardinality(F) \in Nat /\ Limit \in Nat \ {0} /\ IsFiniteSet(F)
  BY FS_CardinalityType, GalleryAssumption DEF Rows
<1>4. \A f \in F : Cardinality(Before(f, F, q)) \in Nat /\ IsFiniteSet(Before(f, F, q))
  BY <1>2, <1>3, FS_Subset, FS_CardinalityType
<1>5. P \subseteq F /\ \A f \in F : f \in P <=> Cardinality(Before(f, F, q)) < Limit
  BY DEF Page
<1>6. ASSUME Cardinality(F) <= Limit PROVE P = F
  <2>1. ASSUME NEW f \in F PROVE Cardinality(Before(f, F, q)) < Cardinality(F)
    <3>1. Before(f, F, q) \subseteq F /\ Before(f, F, q) # F
      BY <1>1, <1>2
    <3>2. Cardinality(Before(f, F, q)) <= Cardinality(F)
          /\ (Cardinality(Before(f, F, q)) = Cardinality(F) => Before(f, F, q) = F)
      BY <1>3, <3>1, FS_Subset
    <3> QED BY <1>3, <1>4, <3>1, <3>2
  <2> QED BY <1>3, <1>4, <1>5, <1>6, <2>1
<1>7. ASSUME Cardinality(F) > Limit
      PROVE  e \in P /\ \A f \in F : f \in P <=> ~less(e, f)
  <2>1. F # {}
    BY <1>3, <1>7, FS_EmptySet
  <2>2. P # {}
    <3>1. PICK f \in F : Before(f, F, q) = {}
      BY <2>1, RowsEnd
    <3>2. Cardinality(Before(f, F, q)) = 0
      BY <3>1, FS_EmptySet
    <3> QED BY <1>3, <1>5, <3>2
  <2>3. Rows(P)
    BY <1>3, <1>5, FS_Subset DEF Rows
  <2>4. e \in P /\ Before(e, P, q) = P \ {e}
    <3>1. \E f \in P : Before(f, P, q) = P \ {f}
      BY <2>2, <2>3, RowsEnd
    <3> QED BY <3>1 DEF LastOf
  <2>5. ASSUME NEW f \in P PROVE ~less(e, f)
    <3>1. f = e \/ less(f, e)
      BY <2>4 DEF Before
    <3> QED BY <1>1, <1>5, <2>4, <3>1
  <2>6. ASSUME NEW f \in F, ~less(e, f) PROVE f \in P
    <3>1. f = e \/ less(f, e)
      BY <1>1, <1>5, <2>4, <2>6
    <3>2. Before(f, F, q) \subseteq Before(e, F, q)
      BY <1>1, <1>2, <1>5, <2>4, <3>1
    <3>3. Cardinality(Before(f, F, q)) <= Cardinality(Before(e, F, q))
      BY <1>4, <1>5, <2>4, <3>2, FS_Subset
    <3> QED BY <1>3, <1>4, <1>5, <2>4, <3>3
  <2> QED BY <1>5, <2>4, <2>5, <2>6
<1> QED BY <1>3, <1>5, <1>6, <1>7

(* A client in the middle of its pages has every photo before its cursor   *)
(* that no change moved; one that is done has them all.                    *)
SeenTo(q) ==
    /\ q.yearOnly \in BOOLEAN
    /\ ~pager.strayed =>
       /\ pager.again \subseteq pager.moved
       /\ pager.pc = "paging" =>
          /\ KeyOK(pager.cursor) /\ pager.cursor.id # None
          /\ \A f \in File \ pager.moved :
                f \in pager.seen <=> Matches(f, q) /\ ~Beyond(SortKey(f), pager.cursor, q.yearOnly)
       /\ pager.pc = "done" => \A f \in File \ pager.moved : f \in pager.seen <=> Matches(f, q)

PagerInv ==
    /\ DOMAIN pager = DOMAIN NoPager
    /\ pager.pc \in {"idle", "paging", "done"}
    /\ pager.pc = "idle" => pager = NoPager
    /\ \E q \in {pager.q} : SeenTo(q)

(* What a filter finds and how it is sorted depends on the library only. *)
LEMMA MatchesKept ==
    ASSUME NEW f, NEW q, UNCHANGED vars
    PROVE  (Matches(f, q)' <=> Matches(f, q)) /\ SortKey(f)' = SortKey(f)
<1>1. UNCHANGED <<live, date, place, rel, category>>
  BY DEF vars, dateVars, placeVars
<1>2. \A g : Location(g)' = Location(g)
  BY <1>1 DEF Location, Live
<1>3. Complete(f)' <=> Complete(f)
  BY <1>2 DEF Complete
<1>4. /\ Unclassified(f)' <=> Unclassified(f)
      /\ Normal(f)' <=> Normal(f)
      /\ InGallery(f)' <=> InGallery(f)
      /\ DateUnclassified(f)' <=> DateUnclassified(f)
      /\ date'[f] = date[f] /\ category'[f] = category[f] /\ rel'[f] = rel[f]
  BY <1>1, <1>3 DEF Unclassified, Normal, InGallery, DateUnclassified
<1>5. AtLocation(f, q)' <=> AtLocation(f, q)
  BY <1>2, <1>4 DEF AtLocation
<1>6. Matches(f, q)' <=> Matches(f, q)
  BY <1>4, <1>5 DEF Matches
<1> QED BY <1>4, <1>6 DEF SortKey

(* A cursor of either version holds the key of a photo whose date nobody   *)
(* has torn from its year.                                                 *)
LEMMA CursorKept ==
    ASSUME DatesInv, NumbersInv, NEW f \in live \ torn, date[f] # NoState, NEW v
    PROVE  Decoded(v, SortKey(f)) = SortKey(f)
<1>1. f \in File /\ Effective(date[f]) = Project(f, date[f], exif[f]) /\ Numbers(date[f]) /\ exif[f] \in Nat
  BY DEF DatesInv, DatesShape, Coherent, NumbersInv
<1>2. date[f].at = Project(f, date[f], exif[f]).at /\ date[f].year = Project(f, date[f], exif[f]).year
  BY <1>1 DEF Effective, Projection
<1>3. date[f].at # None => date[f].year = YearOf(date[f].at)
  <2> DEFINE p == Project(f, date[f], exif[f])
  <2>1. p.at # None => p.year = YearOf(p.at)
    BY DEF Project, Calculate, Projection
  <2> HIDE DEF p
  <2> QED BY <1>2, <2>1 DEF p
<1> QED BY <1>3 DEF Decoded, SortKey

(* What a client asks for the page after a cursor with. *)
Asks(q, c, seen, again, moved) ==
    /\ q.yearOnly \in BOOLEAN
    /\ moved = IF c = NoCursor THEN {} ELSE pager.moved
    /\ c = NoCursor \/ (KeyOK(c) /\ c.id # None)
    /\ again \subseteq moved
    /\ \A f \in File \ moved : f \in seen <=> Matches(f, q) /\ ~Beyond(SortKey(f), c, q.yearOnly)

(* A page brings the client from what it has seen before one cursor to     *)
(* what is before the next.                                                *)
LEMMA PageSeen ==
    ASSUME DatesInv, NumbersInv, DOMAIN pager = DOMAIN NoPager, UNCHANGED vars,
           NEW q, NEW c, NEW seen, NEW again, NEW moved, Asks(q, c, seen, again, moved),
           PageOf(q, c, seen, again)
    PROVE  PagerInv'
<1> USE DEF Asks
<1> DEFINE o == q.yearOnly
           F == Found(q, c)
           P == Page(F, q)
           more == Cardinality(F) > Limit
           e == LastOf(P, q)
           key == SortKey(e)
<1>1. PICK version \in {1, 2} :
         pager' = [pager EXCEPT !.pc = IF more THEN "paging" ELSE "done", !.q = q,
                       !.cursor = IF more THEN Decoded(version, key) ELSE NoCursor,
                       !.seen = seen \cup P, !.again = again \cup (seen \cap P),
                       !.moved = IF c = NoCursor THEN {} ELSE @,
                       !.strayed = @ \/ (more /\ key.id \in torn /\ Decoded(version, key) # key)]
  BY DEF PageOf
<1>2. Rows(F) /\ F \subseteq File /\ \A f \in File : f \in F <=> Matches(f, q) /\ Beyond(SortKey(f), c, o)
  <2>1. F \subseteq File /\ \A f \in File : f \in F <=> Matches(f, q) /\ Beyond(SortKey(f), c, o)
    BY DEF Found, Matching
  <2>2. IsFiniteSet(F)
    BY <2>1, FS_Subset, GalleryAssumption
  <2> QED BY <2>1, <2>2 DEF Rows, NumbersInv
<1> HIDE DEF F
<1>3. /\ Cardinality(F) \in Nat /\ P \subseteq F
      /\ ~more => P = F
      /\ more => e \in P /\ \A f \in F : f \in P <=> ~Precedes(key, SortKey(f), o)
  BY <1>2, PageRows, GalleryAssumption
<1>4. more => /\ e \in F /\ key.id = e /\ e \in File /\ e # None /\ KeyOK(key)
              /\ e \in live /\ date[e] # NoState
  <2>1. more => e \in F /\ e \in File /\ key.id = e /\ KeyOK(key)
    BY <1>2, <1>3, RowKeys
  <2>2. more => Matches(e, q)
    BY <1>2, <2>1
  <2>3. e \in File => e # None
    BY PhotosAssumption DEF None
  <2> HIDE DEF e, key, more
  <2> QED BY <2>1, <2>2, <2>3 DEF Matches, InGallery
<1> HIDE DEF P, e, key
<1>5. /\ DOMAIN pager' = DOMAIN NoPager /\ pager'.q = q /\ pager'.moved = moved
      /\ pager'.pc = IF more THEN "paging" ELSE "done"
      /\ pager'.cursor = IF more THEN Decoded(version, key) ELSE NoCursor
      /\ pager'.seen = seen \cup P /\ pager'.again = again \cup (seen \cap P)
      /\ pager'.strayed <=> pager.strayed \/ (more /\ key.id \in torn /\ Decoded(version, key) # key)
  <2> HIDE DEF more
  <2> QED BY <1>1 DEF NoPager
<1> HIDE DEF more
<1>6. ASSUME ~pager'.strayed
      PROVE  /\ again \cup (seen \cap P) \subseteq moved
             /\ more => /\ Decoded(version, key) = key
                        /\ \A f \in File \ moved :
                              f \in seen \cup P <=> Matches(f, q) /\ ~Beyond(SortKey(f), key, o)
             /\ ~more => \A f \in File \ moved : f \in seen \cup P <=> Matches(f, q)
  <2>1. ~pager.strayed /\ ~(more /\ key.id \in torn /\ Decoded(version, key) # key)
    BY <1>5, <1>6
  <2>2. /\ again \subseteq moved
        /\ \A f \in File \ moved : f \in seen <=> Matches(f, q) /\ ~Beyond(SortKey(f), c, o)
    BY <2>1
  <2>3. more => Decoded(version, key) = key
    <3>1. CASE more /\ key.id \notin torn
      BY <1>4, <3>1, CursorKept DEF key
    <3> QED BY <2>1, <3>1
  <2>4. seen \cap P \subseteq moved
    BY <1>2, <1>3, <2>2
  <2>5. ~more => \A f \in File \ moved : f \in seen \cup P <=> Matches(f, q)
    BY <1>2, <1>3, <2>2
  <2>6. ASSUME more, NEW f \in File \ moved
        PROVE  f \in seen \cup P <=> Matches(f, q) /\ ~Beyond(SortKey(f), key, o)
    <3>1. KeyOK(SortKey(f)) /\ SortKey(f).id = f
      BY PhotosAssumption DEF KeyOK, SortKey, NumbersInv, Numbers
    <3>2. key # NoCursor
      BY <1>4, <2>6 DEF NoCursor
    <3>3. Beyond(SortKey(f), key, o) <=> Precedes(key, SortKey(f), o)
      BY <1>4, <2>6, <3>1, <3>2, BeyondCursor
    <3>4. Beyond(SortKey(f), key, o) => Beyond(SortKey(f), c, o)
      <4>1. CASE c = NoCursor
        BY <4>1 DEF Beyond
      <4>2. CASE c # NoCursor
        <5>1. KeyOK(c) /\ (Beyond(SortKey(f), c, o) <=> Precedes(c, SortKey(f), o))
          BY <3>1, <4>2, BeyondCursor
        <5>2. Beyond(key, c, o)
          BY <1>2, <1>4, <2>6 DEF key
        <5>3. Precedes(c, key, o)
          BY <1>4, <2>6, <4>2, <5>1, <5>2, BeyondCursor
        <5> QED BY <1>4, <2>6, <3>1, <3>3, <5>1, <5>3, PrecedesOrder
      <4> QED BY <4>1, <4>2
    <3>5. f \in P <=> Matches(f, q) /\ Beyond(SortKey(f), c, o) /\ ~Beyond(SortKey(f), key, o)
      BY <1>2, <1>3, <2>6, <3>3
    <3> QED BY <2>2, <3>4, <3>5
  <2> QED BY <2>2, <2>3, <2>4, <2>5, <2>6
<1>7. SeenTo(q)'
  <2>1. \A f : (Matches(f, q)' <=> Matches(f, q)) /\ SortKey(f)' = SortKey(f)
    BY MatchesKept
  <2>3. ASSUME ~pager'.strayed PROVE pager'.again \subseteq pager'.moved
    BY <1>5, <1>6, <2>3
  <2>4. ASSUME ~pager'.strayed, pager'.pc = "paging"
        PROVE  /\ KeyOK(pager'.cursor) /\ pager'.cursor.id # None
               /\ \A f \in File \ pager'.moved :
                     f \in pager'.seen <=> Matches(f, q)' /\ ~Beyond(SortKey(f)', pager'.cursor, o)
    <3>1. more /\ pager'.cursor = key
      BY <1>5, <1>6, <2>4
    <3> QED BY <1>4, <1>5, <1>6, <2>1, <2>4, <3>1
  <2>5. ASSUME ~pager'.strayed, pager'.pc = "done"
        PROVE  \A f \in File \ pager'.moved : f \in pager'.seen <=> Matches(f, q)'
    BY <1>5, <1>6, <2>1, <2>5
  <2>6. \A f : Beyond(SortKey(f), pager.cursor, q.yearOnly)' <=> Beyond(SortKey(f)', pager'.cursor, o)
    BY DEF Beyond
  <2>7. KeyOK(pager.cursor)' <=> KeyOK(pager'.cursor)
    BY DEF KeyOK
  <2> QED BY <2>3, <2>4, <2>5, <2>6, <2>7 DEF SeenTo
<1>8. pager'.pc \in {"paging", "done"}
  BY <1>5
<1> QED BY <1>5, <1>7, <1>8 DEF PagerInv

(* A change of the library moves what it moves. *)
LEMMA MeanwhileSeen ==
    ASSUME PagerInv, Meanwhile(Next)
    PROVE  PagerInv'
<1>1. CASE pager.pc = "idle"
  <2>1. pager' = pager /\ pager = NoPager
    BY <1>1 DEF Meanwhile, PagerInv
  <2>2. pager'.pc = "idle" /\ pager'.q = AnyPhoto /\ pager'.again = {} /\ AnyPhoto.yearOnly \in BOOLEAN
    BY <2>1 DEF NoPager, AnyPhoto
  <2>3. SeenTo(AnyPhoto)'
    BY <2>2 DEF SeenTo
  <2> QED BY <2>1, <2>2, <2>3 DEF PagerInv
<1>2. CASE pager.pc # "idle"
  <2>1. PICK q \in {pager.q} : pager' = [pager EXCEPT !.moved = @ \cup Moved(q)]
    BY <1>2 DEF Meanwhile
  <2>2. q = pager.q
    BY <2>1
  <2>3. /\ DOMAIN pager' = DOMAIN NoPager /\ pager'.q = q /\ pager'.pc = pager.pc
        /\ pager'.cursor = pager.cursor /\ pager'.seen = pager.seen /\ pager'.again = pager.again
        /\ pager'.strayed = pager.strayed /\ pager'.moved = pager.moved \cup Moved(q)
    BY <2>1, <2>2 DEF PagerInv, NoPager
  <2>4. \A f \in File \ pager'.moved :
           /\ f \in File \ pager.moved
           /\ Matches(f, q)' <=> Matches(f, q)
           /\ SortKey(f)' = SortKey(f)
    BY <2>3 DEF Moved
  <2>5. SeenTo(q)
    BY <2>2 DEF PagerInv
  <2>6. \A f : Beyond(SortKey(f), pager.cursor, q.yearOnly)' <=> Beyond(SortKey(f)', pager'.cursor, q.yearOnly)
    BY DEF Beyond
  <2>7. KeyOK(pager.cursor)' <=> KeyOK(pager'.cursor)
    BY DEF KeyOK
  <2>8. SeenTo(q)'
    BY <2>3, <2>4, <2>5, <2>6, <2>7 DEF SeenTo
  <2> QED BY <1>2, <2>3, <2>8 DEF PagerInv
<1> QED BY <1>1, <1>2

(* Every step of the library and of its client keeps PagerInv. *)
LEMMA PagerStep ==
    ASSUME DatesInv, NumbersInv, PagerInv, [GalleryNext]_galleryVars
    PROVE  PagerInv'
<1>1. CASE Meanwhile(Next)
  BY <1>1, MeanwhileSeen
<1>2. ASSUME NEW q \in Query, FirstPage(q) PROVE PagerInv'
  <2>1. pager = NoPager
    BY <1>2 DEF FirstPage, PagerInv
  <2>2. DOMAIN pager = DOMAIN NoPager /\ ~pager.strayed
    BY <2>1 DEF NoPager
  <2>3. q.yearOnly \in BOOLEAN
    <3>1. AnyPhoto.yearOnly \in BOOLEAN
      BY DEF AnyPhoto
    <3>2. ASSUME NEW y PROVE [AnyPhoto EXCEPT !.year = y, !.yearOnly = TRUE].yearOnly = TRUE
      BY DEF AnyPhoto
    <3>3. ASSUME NEW d PROVE [AnyPhoto EXCEPT !.category = d].yearOnly = AnyPhoto.yearOnly
      BY DEF AnyPhoto
    <3>4. [AnyPhoto EXCEPT !.unclassified = TRUE].yearOnly = AnyPhoto.yearOnly
      BY DEF AnyPhoto
    <3> QED BY <3>1, <3>2, <3>3, <3>4 DEF Query
  <2>4. \A f : f \in {} <=> Matches(f, q) /\ ~Beyond(SortKey(f), NoCursor, q.yearOnly)
    BY DEF Beyond
  <2>5. PageOf(q, NoCursor, {}, {}) /\ UNCHANGED vars
    BY <1>2 DEF FirstPage
  <2>6. {} = IF NoCursor = NoCursor THEN {} ELSE pager.moved
    OBVIOUS
  <2> DEFINE none == {}
  <2> HIDE DEF none
  <2>7. Asks(q, NoCursor, none, none, none) /\ PageOf(q, NoCursor, none, none)
    BY <2>3, <2>4, <2>5, <2>6 DEF none, Asks
  <2> QED BY <2>2, <2>5, <2>7, PageSeen
<1>3. CASE NextPage
  <2> DEFINE q == pager.q
             c == pager.cursor
  <2>1. SeenTo(q) /\ DOMAIN pager = DOMAIN NoPager /\ pager.pc = "paging"
    BY <1>3 DEF NextPage, PagerInv
  <2>2. PageOf(q, c, pager.seen, pager.again) /\ UNCHANGED vars
    BY <1>3 DEF NextPage
  <2>3. CASE pager.strayed
    <3>1. /\ DOMAIN pager' = DOMAIN NoPager /\ pager'.q = q /\ pager'.strayed
          /\ pager'.pc \in {"paging", "done"}
      BY <2>1, <2>2, <2>3 DEF PageOf, NoPager
    <3>2. SeenTo(q)'
      BY <2>1, <3>1 DEF SeenTo
    <3> QED BY <3>1, <3>2 DEF PagerInv
  <2>4. CASE ~pager.strayed
    <3>1. /\ q.yearOnly \in BOOLEAN /\ KeyOK(c) /\ c.id # None /\ pager.again \subseteq pager.moved
          /\ \A f \in File \ pager.moved :
                f \in pager.seen <=> Matches(f, q) /\ ~Beyond(SortKey(f), c, q.yearOnly)
      BY <2>1, <2>4 DEF SeenTo
    <3>2. c # NoCursor
      BY <3>1 DEF NoCursor
    <3> HIDE DEF q, c
    <3> DEFINE moved == pager.moved
               seen == pager.seen
               again == pager.again
    <3>3. moved = IF c = NoCursor THEN {} ELSE pager.moved
      BY <3>2
    <3>4. Asks(q, c, seen, again, moved) /\ PageOf(q, c, seen, again)
      BY <2>2, <3>1, <3>3 DEF Asks
    <3> HIDE DEF moved, seen, again
    <3> QED BY <2>1, <2>2, <3>4, PageSeen
  <2> QED BY <2>3, <2>4
<1>4. CASE PagingEnds
  <2>1. pager' = NoPager
    BY <1>4 DEF PagingEnds
  <2>2. NoPager.pc = "idle" /\ NoPager.q = AnyPhoto /\ NoPager.again = {} /\ AnyPhoto.yearOnly \in BOOLEAN
    BY DEF NoPager, AnyPhoto
  <2>3. SeenTo(AnyPhoto)'
    BY <2>1, <2>2 DEF SeenTo
  <2> QED BY <2>1, <2>2, <2>3 DEF PagerInv
<1>5. CASE UNCHANGED galleryVars
  <2>1. pager' = pager /\ UNCHANGED vars
    BY <1>5 DEF galleryVars
  <2>2. PICK q \in {pager.q} : SeenTo(q)
    BY DEF PagerInv
  <2>3. \A f : (Matches(f, q)' <=> Matches(f, q)) /\ SortKey(f)' = SortKey(f)
    BY <2>1, MatchesKept
  <2>4. \A f : Beyond(SortKey(f), pager.cursor, q.yearOnly)' <=> Beyond(SortKey(f)', pager'.cursor, q.yearOnly)
    BY DEF Beyond
  <2>5. SeenTo(q)'
    BY <2>1, <2>2, <2>3, <2>4 DEF SeenTo, KeyOK
  <2> QED BY <2>1, <2>2, <2>5 DEF PagerInv
<1> QED
  BY <1>1, <1>2, <1>3, <1>4, <1>5 DEF GalleryNext

(* The gallery's clients change nothing of the library. *)
LEMMA GalleryIsLibrary == GallerySpec => Spec
<1>1. [GalleryNext]_galleryVars => [Next]_vars
  BY DEF GalleryNext, Meanwhile, FirstPage, NextPage, PagingEnds, galleryVars
<1> QED BY <1>1, PTL DEF GallerySpec, GalleryInit, Spec

(* A client that follows the cursors to the end (photos, _photo_candidates)*)
(* has seen every photo of its filter that no change moved, none of them   *)
(* twice, and none that was never in it; but for one that holds a cursor   *)
(* of version 1 of a photo whose year a stale session has torn from its    *)
(* date.                                                                   *)
THEOREM PagesExactHolds == GallerySpec => []PagesExact
<1>1. GalleryInit => PagerInv
  <2>1. NoPager.pc = "idle" /\ NoPager.q = AnyPhoto /\ NoPager.again = {} /\ AnyPhoto.yearOnly \in BOOLEAN
    BY DEF NoPager, AnyPhoto
  <2> QED BY <2>1 DEF GalleryInit, PagerInv, SeenTo
<1>2. DatesInv /\ NumbersInv /\ PagerInv /\ [GalleryNext]_galleryVars => PagerInv'
  BY PagerStep
<1>3. PagerInv => PagesExact
  BY DEF PagerInv, SeenTo, PagesExact
<1>4. GallerySpec => []DatesInv /\ []NumbersInv
  BY GalleryIsLibrary, DatesInvariant, NumbersInvariant, PTL
<1> QED
  BY <1>1, <1>2, <1>3, <1>4, PTL DEF GallerySpec

(***************************************************************************)
(* AGGREGATES                                                              *)
(***************************************************************************)

(* The requests of a year without a location. *)
LEMMA AskedOfYear ==
    ASSUME NEW y, y # None
    PROVE  LET asked(q) == Matching([q EXCEPT !.year = y]) IN
           /\ asked([AnyPhoto EXCEPT !.category = "DAILY"]) = {f \in InYear(y) : category[f].daily}
           /\ asked([AnyPhoto EXCEPT !.unclassified = TRUE]) = {f \in InYear(y) : Unclassified(f)}
           /\ asked([AnyPhoto EXCEPT !.yearOnly = TRUE]) = {f \in InYear(y) : DateUnclassified(f)}
<1> DEFINE d == [[AnyPhoto EXCEPT !.category = "DAILY"] EXCEPT !.year = y]
           u == [[AnyPhoto EXCEPT !.unclassified = TRUE] EXCEPT !.year = y]
           o == [[AnyPhoto EXCEPT !.yearOnly = TRUE] EXCEPT !.year = y]
<1>1. /\ d.year = y /\ d.category = "DAILY" /\ ~d.unclassified /\ ~d.yearOnly
      /\ d.key = NoKey /\ d.country = NoLabel /\ d.region = NoLabel
  BY DEF AnyPhoto
<1>2. /\ u.year = y /\ u.category = "ANY" /\ u.unclassified /\ ~u.yearOnly
      /\ u.key = NoKey /\ u.country = NoLabel /\ u.region = NoLabel
  BY DEF AnyPhoto
<1>3. /\ o.year = y /\ o.category = "ANY" /\ ~o.unclassified /\ o.yearOnly
      /\ o.key = NoKey /\ o.country = NoLabel /\ o.region = NoLabel
  BY DEF AnyPhoto
<1> HIDE DEF d, u, o
<1>4. ASSUME NEW f, NEW q, q.key = NoKey, q.country = NoLabel, q.region = NoLabel PROVE AtLocation(f, q)
  <2>1. q.key.kind # "registered" /\ q.key.kind # "raw"
    BY <1>4 DEF NoKey
  <2> QED BY <1>4, <2>1 DEF AtLocation
<1>5. \A f \in File : f \in InYear(y) <=> InGallery(f) /\ date[f].year = y
  BY DEF InYear, Shown
<1>6. InYear(y) \subseteq File
  BY DEF InYear, Shown
<1>7. Matching(d) = {f \in InYear(y) : category[f].daily}
  <2>1. \A f \in File : Matches(f, d) <=> InGallery(f) /\ date[f].year = y /\ category[f].daily
    BY <1>1, <1>4 DEF Matches
  <2> QED BY <1>5, <1>6, <2>1 DEF Matching
<1>8. Matching(u) = {f \in InYear(y) : Unclassified(f)}
  <2>1. \A f \in File : Matches(f, u) <=> InGallery(f) /\ date[f].year = y /\ Unclassified(f)
    BY <1>2, <1>4 DEF Matches
  <2> QED BY <1>5, <1>6, <2>1 DEF Matching
<1>9. Matching(o) = {f \in InYear(y) : DateUnclassified(f)}
  <2>1. \A f \in File : Matches(f, o) <=> InGallery(f) /\ date[f].year = y /\ DateUnclassified(f)
    BY <1>3, <1>4 DEF Matches
  <2> QED BY <1>5, <1>6, <2>1 DEF Matching
<1> QED BY <1>7, <1>8, <1>9 DEF d, u, o

(* Keys of different kinds or contents are different. *)
LEMMA LocationKeys ==
    /\ \A p : Registered(p).kind = "registered" /\ Registered(p).place = p
    /\ \A loc : Raw(loc).kind = "raw" /\ Raw(loc).loc = loc
  BY DEF Registered, Raw, NoKey

(* Two photos of a registered place have its name. *)
LEMMA PlaceName ==
    ASSUME PlacesInv, NEW f \in File, NEW g \in File, rel[f].place # None, rel[g].place = rel[f].place
    PROVE  Location(f)["place"] = Location(g)["place"]
<1>1. rel[f].place \in Place /\ Live(rel[f].place)
  BY DEF PlacesInv, ReferenceOK, LivePlaces
<1> QED BY <1>1, GalleryAssumption DEF Location, Coalesce, Level

(* The request behind a leaf finds the photos it counts. *)
LEMMA LeafOpens ==
    ASSUME PlacesInv, NEW y, y # None, NEW l \in Leaves(y)
    PROVE  Matching(LeafQuery(y, l)) = {f \in InYear(y) : Normal(f) /\ Leaf(f) = l}
<1> DEFINE q == LeafQuery(y, l)
<1>1. PICK g \in InYear(y) : Normal(g) /\ l = Leaf(g)
  BY DEF Leaves
<1>2. InYear(y) \subseteq File /\ \A f \in File : f \in InYear(y) <=> InGallery(f) /\ date[f].year = y
  BY DEF InYear, Shown
<1>3. \A loc : Raw(loc).kind = "raw"
  BY LocationKeys
<1>4. /\ q.year = y /\ q.category = "ANY" /\ ~q.unclassified /\ ~q.yearOnly /\ q.key = l[3]
      /\ q.country = IF l[3].kind = "raw" THEN NoLabel ELSE l[1]
      /\ q.region = IF l[3].kind = "raw" THEN NoLabel ELSE l[2]
  <2>1. CASE l[3].kind = "raw"
    BY <2>1 DEF LeafQuery, AnyPhoto
  <2>2. CASE l[3].kind # "raw"
    BY <2>2 DEF LeafQuery, AnyPhoto
  <2> QED BY <2>1, <2>2
<1> HIDE DEF q
<1>5. \A f \in File : Matches(f, q) <=> f \in InYear(y) /\ AtLocation(f, q)
  BY <1>2, <1>4 DEF Matches
<1>6. ASSUME NEW f \in File, ~Unclassified(f), Normal(f)
      PROVE  Location(f)["country"] # NoLabel /\ Location(f)["region"] # NoLabel /\ Complete(f)
  BY <1>6 DEF Unclassified, Complete, Level
<1>7. ASSUME NEW f \in File, NEW h \in File, Location(f)["country"] = Location(h)["country"],
             Location(f)["region"] = Location(h)["region"], Location(f)["place"] = Location(h)["place"]
      PROVE  Location(f) = Location(h) /\ (Complete(f) <=> Complete(h))
  <2>1. Location(f) = Location(h)
    BY <1>7 DEF Location, Level
  <2> QED BY <2>1 DEF Complete
<1>8. ASSUME NEW f \in File PROVE AtLocation(f, q) <=> Normal(f) /\ Leaf(f) = l
  <2>1. CASE Unclassified(g)
    <3>1. l = <<NoLabel, NoLabel, Raw(NoLocation)>>
      BY <1>1, <2>1 DEF Leaf
    <3>2. q.key = Raw(NoLocation)
      BY <1>4, <3>1
    <3>3. AtLocation(f, q) <=> Unclassified(f)
      BY <3>2, LocationKeys DEF AtLocation
    <3>4. ASSUME Normal(f), ~Unclassified(f) PROVE Leaf(f) # l
      <4>1. Leaf(f)[1] = Location(f)["country"]
        BY <3>4 DEF Leaf
      <4> QED BY <1>6, <3>1, <3>4, <4>1
    <3>5. Unclassified(f) => Normal(f) /\ Leaf(f) = l
      BY <3>1 DEF Unclassified, Leaf
    <3> QED BY <3>3, <3>4, <3>5
  <2>2. CASE ~Unclassified(g) /\ rel[g].place # None
    <3> DEFINE p == rel[g].place
    <3>1. l = <<Location(g)["country"], Location(g)["region"], Registered(p)>>
      BY <1>1, <2>2 DEF Leaf
    <3>2. q.key.kind = "registered" /\ q.key.place = p
          /\ q.country = Location(g)["country"] /\ q.region = Location(g)["region"]
      BY <1>4, <3>1, LocationKeys
    <3>3. q.country # NoLabel /\ q.region # NoLabel /\ Complete(g) /\ g \in File
      BY <1>1, <1>2, <1>6, <2>2, <3>2
    <3>4. AtLocation(f, q) <=> /\ Normal(f) /\ rel[f].place = p
                               /\ Location(f)["country"] = Location(g)["country"]
                               /\ Location(f)["region"] = Location(g)["region"]
      BY <3>2, <3>3 DEF AtLocation
    <3>5. ASSUME AtLocation(f, q) PROVE Leaf(f) = l
      <4>1. Complete(f)
        BY <1>7, <2>2, <3>3, <3>4, <3>5, PlaceName
      <4>2. ~Unclassified(f)
        BY <4>1 DEF Unclassified
      <4> QED BY <2>2, <3>1, <3>4, <3>5, <4>2 DEF Leaf
    <3>6. ASSUME Normal(f), Leaf(f) = l PROVE AtLocation(f, q)
      <4>1. Leaf(f)[1] # NoLabel /\ Leaf(f)[3].kind = "registered" /\ Leaf(f)[3].place = p
        BY <3>1, <3>2, <3>3, <3>6, LocationKeys
      <4>2. ~Unclassified(f)
        BY <4>1 DEF Leaf
      <4>3. Leaf(f) = <<Location(f)["country"], Location(f)["region"],
                        IF rel[f].place # None THEN Registered(rel[f].place) ELSE Raw(Location(f))>>
        BY <4>2 DEF Leaf
      <4>4. rel[f].place = p
        BY <4>1, <4>3, LocationKeys
      <4> QED BY <3>1, <3>4, <3>6, <4>3, <4>4
    <3> QED BY <3>4, <3>5, <3>6
  <2>3. CASE ~Unclassified(g) /\ rel[g].place = None
    <3>1. l = <<Location(g)["country"], Location(g)["region"], Raw(Location(g))>>
      BY <1>1, <2>3 DEF Leaf
    <3>2. q.key.kind = "raw" /\ q.key.loc = Location(g)
      BY <1>4, <3>1, LocationKeys
    <3>3. Location(g)["country"] # NoLabel /\ Complete(g) /\ g \in File
      BY <1>1, <1>2, <1>6, <2>3
    <3>4. Location(g) # NoLocation
      BY <3>3 DEF NoLocation, Level
    <3>5. AtLocation(f, q) <=> Normal(f) /\ rel[f].place = None /\ Location(f) = Location(g)
      BY <3>2, <3>4 DEF AtLocation
    <3>6. ASSUME AtLocation(f, q) PROVE Leaf(f) = l
      <4>1. Complete(f)
        BY <3>3, <3>5, <3>6 DEF Complete
      <4>2. ~Unclassified(f)
        BY <4>1 DEF Unclassified
      <4> QED BY <3>1, <3>5, <3>6, <4>2 DEF Leaf
    <3>7. ASSUME Normal(f), Leaf(f) = l PROVE AtLocation(f, q)
      <4>1. Leaf(f)[1] # NoLabel /\ Leaf(f)[3].kind = "raw" /\ Leaf(f)[3].loc = Location(g)
        BY <3>1, <3>3, <3>7, LocationKeys
      <4>2. ~Unclassified(f)
        BY <4>1 DEF Leaf
      <4>3. Leaf(f) = <<Location(f)["country"], Location(f)["region"],
                        IF rel[f].place # None THEN Registered(rel[f].place) ELSE Raw(Location(f))>>
        BY <4>2 DEF Leaf
      <4>4. rel[f].place = None /\ Location(f) = Location(g)
        BY <4>1, <4>3, LocationKeys
      <4> QED BY <3>5, <3>7, <4>4
    <3> QED BY <3>5, <3>6, <3>7
  <2> QED BY <2>1, <2>2, <2>3
<1>9. \A f \in File : Matches(f, q) <=> f \in InYear(y) /\ Normal(f) /\ Leaf(f) = l
  BY <1>5, <1>8
<1> QED BY <1>2, <1>9 DEF Matching, q

(* The counts of a year follow, one request at a time. *)
LEMMA CountsOpen == PlacesInv => OpensAsCounted
<1> SUFFICES ASSUME PlacesInv PROVE OpensAsCounted
  OBVIOUS
<1>1. ASSUME NEW y \in YearsShown
      PROVE  LET node == YearNode(y)
                 leaves == Leaves(y)
                 asked(q) == Matching([q EXCEPT !.year = y])
                 behind(l) == Matching(LeafQuery(y, l))
             IN /\ node.daily = Cardinality(asked([AnyPhoto EXCEPT !.category = "DAILY"]))
                /\ node.unclassified = Cardinality(asked([AnyPhoto EXCEPT !.unclassified = TRUE]))
                /\ node.dateUnclassified = Cardinality(asked([AnyPhoto EXCEPT !.yearOnly = TRUE]))
                /\ \A l \in leaves : node.leaves[l] = Cardinality(behind(l))
                /\ \A f \in InYear(y) : Normal(f) => \E l \in leaves : f \in behind(l)
                /\ \A l, m \in leaves : l # m => behind(l) \cap behind(m) = {}
  <2> DEFINE leaves == Leaves(y)
             behind(l) == Matching(LeafQuery(y, l))
             node == YearNode(y)
  <2>1. y # None
    BY DEF YearsShown, Shown, InGallery
  <2>2. \A l \in leaves : behind(l) = {f \in InYear(y) : Normal(f) /\ Leaf(f) = l}
    BY <2>1, LeafOpens
  <2>3. \A l \in leaves : node.leaves[l] = Cardinality({f \in InYear(y) : Normal(f) /\ Leaf(f) = l})
    BY DEF YearNode
  <2>4. \A f \in InYear(y) : Normal(f) => Leaf(f) \in leaves
    BY DEF Leaves
  <2>5. /\ node.daily = Cardinality({f \in InYear(y) : category[f].daily})
        /\ node.unclassified = Cardinality({f \in InYear(y) : Unclassified(f)})
        /\ node.dateUnclassified = Cardinality({f \in InYear(y) : DateUnclassified(f)})
    BY DEF YearNode
  <2> HIDE DEF leaves, behind, node
  <2>6. \A l \in leaves : node.leaves[l] = Cardinality(behind(l))
    BY <2>2, <2>3
  <2>7. \A f \in InYear(y) : Normal(f) => \E l \in leaves : f \in behind(l)
    BY <2>2, <2>4
  <2>8. \A l, m \in leaves : l # m => behind(l) \cap behind(m) = {}
    BY <2>2
  <2> QED BY <2>1, <2>5, <2>6, <2>7, <2>8, AskedOfYear DEF leaves, behind, node
<1> QED BY <1>1 DEF OpensAsCounted

(* What an aggregate counts is what a client gets that opens it            *)
(* (hierarchy, photos): each count and each leaf of a year has that many   *)
(* photos behind its request, and no NORMAL photo of the year is missing   *)
(* from the leaves or behind two of them.                                  *)
THEOREM OpensAsCountedHolds == Spec => []OpensAsCounted
  BY CountsOpen, PlacesInvHolds, PTL

=============================================================================
