----------------------------- MODULE Derivatives -----------------------------
(***************************************************************************)
(* The files behind a photo: the original, and the preview and thumbnail   *)
(* made of it, whose paths are columns of common_files.  PreviewPlugin     *)
(* makes them before the photo is registered, three maintenance scripts    *)
(* make them again, and deleting the photo unlinks what its row names      *)
(* before the transaction ends.  The scripts take no lock: they read the   *)
(* row, write the file, and write the row.  The move and the insert of an  *)
(* upload are one step, and so are the unlinks and the commit of a         *)
(* deletion; a deletion that ends between them is RemoveFails.             *)
(***************************************************************************)
EXTENDS Library

CONSTANT Media  \* category of a photo: image, heic or video

ASSUME MediaAssumption == Media \in [File -> {"image", "heic", "video"}]

VARIABLES
    disk,     \* the files of a photo: none, old (a small preview) or good
    path,     \* the derivatives its row names
    made,     \* what PreviewPlugin made for an upload that is not registered yet
    maker,    \* maintenance scripts at work
    damaged,  \* history: photos whose deletion failed after unlinking files
    astray    \* history: photos deleted under a script; uploads and scripts cut short

assetVars == <<disk, path, made, maker, damaged, astray>>

NotMade == {"none"}
NoMaker == [op |-> "idle", pc |-> "idle", file |-> None, seen |-> {}, new |-> {}]
Derivative == {"preview", "thumb"}
NoFiles == [k \in Derivative \cup {"original"} |-> "none"]

(* generate: _generate_image makes both, _generate_video the thumbnail. *)
Wanted(f) == IF Media[f] = "video" THEN {"thumb"} ELSE Derivative

(* A decoder may fail for each of them; what is written replaces the file  *)
(* in one step (_save_image).                                              *)
Generated(f, K) == [disk EXCEPT ![f] = [k \in DOMAIN @ |-> IF k \in K THEN "good" ELSE @[k]]]

----------------------------------------------------------------------------
(* Uploads.                                                                *)

PreviewPlugin(f) ==
    /\ f \notin live /\ made[f] = NotMade
    /\ \E K \in SUBSET Wanted(f) : disk' = Generated(f, K) /\ made' = [made EXCEPT ![f] = K]
    /\ UNCHANGED <<path, maker, damaged, astray>> /\ UNCHANGED vars

UploadCut(f) ==
    /\ made[f] # NotMade
    /\ made' = [made EXCEPT ![f] = NotMade]
    /\ astray' = astray \cup {f}
    /\ UNCHANGED <<disk, path, maker, damaged>> /\ UNCHANGED vars

(* StoragePlugin moves the original and names the derivatives. *)
Register(f) ==
    /\ UploadPhoto(f) /\ made[f] # NotMade
    /\ disk' = [disk EXCEPT ![f].original = "good"]
    /\ path' = [path EXCEPT ![f] = made[f]]
    /\ made' = [made EXCEPT ![f] = NotMade]
    /\ UNCHANGED <<maker, damaged, astray>>

----------------------------------------------------------------------------
(* Deletion.                                                               *)

(* delete_common_file_assets: exactly the files the row names. *)
Targets(f) == {"original"} \cup path[f]

Unlinked(f, K) == [disk EXCEPT ![f] = [k \in DOMAIN @ |-> IF k \in K THEN "none" ELSE @[k]]]

UnderWork(f) == \E s \in Scripts : maker[s].file = f

(* Mutant of RemovePhoto: the thumbnail is forgotten. *)
RemoveButThumb(f) ==
    /\ DeletePhoto(f)
    /\ disk' = Unlinked(f, Targets(f) \ {"thumb"})
    /\ path' = [path EXCEPT ![f] = {}]
    /\ damaged' = damaged \ {f}
    /\ astray' = IF UnderWork(f) THEN astray \cup {f} ELSE astray
    /\ UNCHANGED <<made, maker>>

RemovePhoto(f) ==
    /\ DeletePhoto(f)
    /\ disk' = Unlinked(f, Targets(f))
    /\ path' = [path EXCEPT ![f] = {}]
    /\ damaged' = damaged \ {f}
    /\ astray' = IF UnderWork(f) THEN astray \cup {f} ELSE astray
    /\ UNCHANGED <<made, maker>>

(* One of the unlinks fails, or the transaction after them: the row stays  *)
(* as it was.                                                              *)
RemoveFails(f) ==
    /\ f \in live
    /\ \E K \in SUBSET Targets(f) : disk' = Unlinked(f, K)
    /\ damaged' = damaged \cup {f}
    /\ UNCHANGED <<path, made, maker, astray>> /\ UNCHANGED vars

----------------------------------------------------------------------------
(* Maintenance scripts, one photo at a time.                               *)

Begin(s, op, f, pc, seen) ==
    /\ maker[s] = NoMaker /\ f \in live
    /\ maker' = [maker EXCEPT ![s] = [op |-> op, pc |-> pc, file |-> f, seen |-> seen, new |-> {}]]
    /\ UNCHANGED <<disk, path, made, damaged, astray>> /\ UNCHANGED vars

Regenerate(s, f) == Begin(s, "regenerate", f, "read", path[f])

(* _asset_exists *)
AssetExists(f, k) == k \in path[f] /\ disk[f][k] # "none"

(* backfill_media_derivatives: HEIC and videos with a path missing. *)
BackfillMedia(s, f) ==
    /\ Media[f] # "image" /\ path[f] # Derivative
    /\ \E k \in Wanted(f) : ~AssetExists(f, k)
    /\ Begin(s, "backfill", f, "read", {k \in Wanted(f) : AssetExists(f, k)})

(* _assess_preview: the preview of an image is too small. *)
Outdated(s, f) ==
    /\ Media[f] # "video" /\ "preview" \in path[f]
    /\ disk[f].original # "none" /\ disk[f].preview = "old"
    /\ Begin(s, "outdated", f, "assessed", path[f])

(* What a script makes: everything, or what was missing.  The original has *)
(* to be there.                                                            *)
Make(s) ==
    LET k == maker[s]
        f == k.file
        kinds == IF k.op = "regenerate" THEN Wanted(f) ELSE Wanted(f) \ k.seen
    IN /\ k.pc = "read" /\ disk[f].original # "none"
       /\ \E K \in SUBSET kinds \ {{}} :
            /\ disk' = Generated(f, K)
            /\ maker' = [maker EXCEPT ![s].pc = IF k.op = "regenerate" THEN "made" ELSE "named", ![s].new = K]
       /\ UNCHANGED <<path, made, damaged, astray>> /\ UNCHANGED vars

(* regenerate_media_derivatives: a row that changes is looked up again,    *)
(* without a lock.                                                         *)
CheckActive(s) ==
    /\ maker[s].pc = "made" /\ ~(maker[s].new \subseteq maker[s].seen) /\ maker[s].file \in live
    /\ maker' = [maker EXCEPT ![s].pc = "named"]
    /\ UNCHANGED <<disk, path, made, damaged, astray>> /\ UNCHANGED vars

NamePaths(s) ==
    LET k == maker[s] IN
    /\ Count /\ k.pc = "named"
    /\ path' = [path EXCEPT ![k.file] = @ \cup k.new]
    /\ maker' = [maker EXCEPT ![s] = NoMaker]
    /\ UNCHANGED <<disk, made, damaged, astray>>
    /\ UNCHANGED <<live, placeVars, dateVars, tagVars, metaVars>>

(* _replace_preview_atomically: the preview is there when the staged one   *)
(* is made, and is replaced after that.                                    *)
StagePreview(s) ==
    /\ maker[s].pc = "assessed" /\ disk[maker[s].file].preview # "none"
    /\ disk[maker[s].file].original # "none"
    /\ maker' = [maker EXCEPT ![s].pc = "staged"]
    /\ UNCHANGED <<disk, path, made, damaged, astray>> /\ UNCHANGED vars

ReplacePreview(s) ==
    /\ maker[s].pc = "staged"
    /\ disk' = Generated(maker[s].file, {"preview"})
    /\ maker' = [maker EXCEPT ![s] = NoMaker]
    /\ UNCHANGED <<path, made, damaged, astray>> /\ UNCHANGED vars

(* A script that has nothing to do, fails or is stopped, perhaps with      *)
(* files made that no row names.                                           *)
MakerEnd(s) ==
    /\ maker[s] # NoMaker
    /\ astray' = IF maker[s].new \subseteq path[maker[s].file] THEN astray ELSE astray \cup {maker[s].file}
    /\ maker' = [maker EXCEPT ![s] = NoMaker]
    /\ UNCHANGED <<disk, path, made, damaged>> /\ UNCHANGED vars

----------------------------------------------------------------------------
(* get_media: the file of the kind a client asks for; a thumbnail falls    *)
(* back to the preview.                                                    *)
MediaCandidates(kind) == IF kind = "thumb" THEN {"thumb", "preview"} ELSE {kind}

GetMedia(f, kind) ==
    {k \in MediaCandidates(kind) : f \in live /\ k \in Targets(f) /\ disk[f][k] # "none"}

AssetsTypeOK ==
    /\ \A f \in File : disk[f] \in [Derivative \cup {"original"} -> {"none", "old", "good"}]
    /\ path \in [File -> SUBSET Derivative] /\ made \in [File -> (SUBSET Derivative) \cup {NotMade}]
    /\ damaged \subseteq live /\ astray \subseteq File

(* HEIC and videos from before there were derivatives of them; previews    *)
(* from before they were larger.                                           *)
AssetsInit ==
    /\ \E L \in SUBSET {f \in live : Media[f] # "image"} :
         path = [f \in File |-> IF f \in live \ L THEN Wanted(f) ELSE {}]
    /\ \E O \in SUBSET {f \in live : "preview" \in path[f]} :
         disk = [f \in File |-> IF f \notin live THEN NoFiles
                 ELSE [k \in DOMAIN NoFiles |-> IF k \notin Targets(f) THEN "none"
                                               ELSE IF f \in O /\ k = "preview" THEN "old" ELSE "good"]]
    /\ made = [f \in File |-> NotMade] /\ maker = [s \in Scripts |-> NoMaker]
    /\ damaged = {} /\ astray = {}

AssetsNext ==
    \/ \E f \in File : \/ PreviewPlugin(f) \/ UploadCut(f) \/ Register(f)
                       \/ RemovePhoto(f) \/ RemoveFails(f)
                       \/ \E s \in Scripts : Regenerate(s, f) \/ BackfillMedia(s, f) \/ Outdated(s, f)
    \/ \E s \in Scripts : \/ Make(s) \/ CheckActive(s) \/ NamePaths(s)
                          \/ StagePreview(s) \/ ReplacePreview(s) \/ MakerEnd(s)

(* The library with its files: a photo comes and goes by the steps above,  *)
(* everything else goes on beside them.                                    *)
AssetsSpec ==
    Init /\ AssetsInit
    /\ [][AssetsNext \/ (Next /\ UNCHANGED <<live, assetVars>>)]_<<vars, assetVars>>

----------------------------------------------------------------------------
(* Files and rows agree.  What the gallery offers of a photo, by its row,  *)
(* get_media has a file for, whatever scripts run at the same time, unless *)
(* a deletion of the photo failed half-way.  Deleting a photo leaves       *)
(* nothing on disk.  Excepted are photos deleted under a running script,   *)
(* which may write a file or a path after that, and uploads and scripts    *)
(* that were cut short between the file and the row.                       *)
AssetsMatchRows ==
    \A f \in File \ astray :
       /\ f \in live \ damaged => \A kind \in Targets(f) : kind \in GetMedia(f, kind)
       /\ f \notin live /\ made[f] = NotMade => path[f] = {} /\ disk[f] = NoFiles

=============================================================================
