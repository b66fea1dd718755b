------------------------------ MODULE Library ------------------------------
(***************************************************************************)
(* MemoryKeeper's library: places, capture dates, tags and metadata of     *)
(* the same photos, with the two operations that touch them all, the       *)
(* upload of a new photo and its deletion.                                 *)
(***************************************************************************)
EXTENDS Places, Tags, Metadata

vars == <<live, changes, placeVars, dateVars, tagVars, metaVars>>

(* StoragePlugin registers new content, or content deleted before. *)
UploadPhoto(f) ==
    /\ Count /\ f \notin live
    /\ live' = live \cup {f}
    /\ PlaceOfNew(f) /\ DateOfNew(f) /\ MetaOfNew(f) /\ UNCHANGED tagVars

(* MemoryKeeperFileService.delete of a photo that only MemoryKeeper links: *)
(* the cleanup is CLEANED, or ALREADY_CLEANED; a failed one rolls back.    *)
(* (With a link of another service the cleanup is PRESERVED_OTHER_SERVICE: *)
(* the delete commits too, but the row and the files stay.  Photos here    *)
(* have no such link.)                                                     *)
DeletePhoto(f) ==
    /\ Count /\ f \in live
    /\ live' = live \ {f}
    /\ PlaceOfDeleted(f) /\ DateOfDeleted(f) /\ TagsOfDeleted(f) /\ MetaOfDeleted(f)

LibraryTypeOK == live \subseteq File /\ changes \in Nat /\ PlacesTypeOK /\ DatesTypeOK /\ TagsTypeOK /\ MetaTypeOK

Init ==
    /\ live \in SUBSET File /\ changes = 0
    /\ PlacesInit /\ DatesInit /\ TagsInit /\ MetaInit

Next ==
    \/ \E f \in File : UploadPhoto(f) \/ DeletePhoto(f)
    \/ PlacesNext /\ UNCHANGED <<live, dateVars, tagVars, metaVars>>
    \/ DatesNext /\ UNCHANGED <<live, placeVars, tagVars, metaVars>>
    \/ TagsNext /\ UNCHANGED <<live, placeVars, metaVars>>
    \/ MetaNext /\ UNCHANGED <<live, placeVars, tagVars>>

Spec == Init /\ [][Next]_vars

=============================================================================
