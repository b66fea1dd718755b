----------------------------- MODULE MCLibrary -----------------------------
(* TLC instances of the library and its readers.  A behaviour stays with    *)
(* the places, the capture dates, the tags, the metadata, the files, or     *)
(* with a client that pages through the gallery; uploads, deletions and the *)
(* edits of a photo's state go with each of them.                           *)
EXTENDS Projections, Derivatives, TLC

CONSTANTS v1, v2, t1, t2, n1, n2, c1, c2, korea, seoul, park

VARIABLE part  \* which part of the library a behaviour is about

(* The first photo has a date in its file, the others have none. *)
MCFileExif == [f \in File |-> IF f = 1 THEN 21 ELSE None]
MCImportedAt == [f \in File |-> IF f = 3 THEN 32 ELSE 31]
MCCreatedAt == MCImportedAt
MCSourceYears == [f \in File |-> CASE f = 1 -> {2} [] f = 2 -> {3} [] OTHER -> {1, 2}]
MCGeoName == [f \in File |-> NoName]
MCRuleOf == [n \in TagName |-> IF n = n1 THEN {c1} ELSE IF n = n2 THEN {c2} ELSE {}]
MCSays == [src \in Source |-> [a \in Field |->
    CASE src = "GPS" /\ a = "country" -> v1
      [] src = "EXIF" /\ a = "camera" -> v1
      [] src = "SYSTEM" /\ a = "camera" -> v2
      [] OTHER -> NoValue]]
MCMedia == [f \in File |-> CASE f = 1 -> "image" [] f = 2 -> "heic" [] OTHER -> "video"]
MCRawLocation == [f \in File |-> [l \in Level |->
    CASE l = "country" -> IF f = 2 THEN NoLabel ELSE korea
      [] l = "region" -> IF f = 3 THEN Blank ELSE seoul
      [] OTHER -> park]]
MCPlaceLocation == [p \in Place |-> [l \in Level |->
    CASE l = "country" -> korea
      [] l = "region" -> IF p = 1 THEN NoLabel ELSE seoul
      [] OTHER -> park]]

----------------------------------------------------------------------------
NoPlaces == place = [p \in Place |-> NoPlaceRow]
AtOrigin == gps = [f \in File |-> IF f \in live THEN 0 ELSE NoGps]
FirstDates == date = [f \in File |-> IF f \in live THEN Synchronized(f, NoState, None) ELSE NoState]
(* Which of the tags are there, and with which names, up to renaming; a     *)
(* photo has them or bare names.                                            *)
FirstTags == /\ tag[t2].st = "live" => tag[t1].st = "live"
             /\ tag[t1].st = "live" => tag[t1].name = n1
             /\ \A f \in File : (\E t \in Tag : relation[f][t] = "on") =>
                                  \A n \in TagName : relation[f][n] = "none"
NoTags == tag = [t \in Tag |-> NoTagRow] /\ relation = [f \in File |-> [k \in Tag \cup TagName |-> "none"]]

AllServed == \A f \in live : path[f] = Wanted(f) /\ disk[f].preview # "old"

(* The second photo is there for the maintenance scripts and the gallery,   *)
(* the third one for the gallery only.                                      *)
MCInit ==
    /\ \/ part = "places" /\ live \in SUBSET {1} /\ FirstDates /\ NoTags
       \/ part = "dates" /\ live \in {{1}, {1, 2}} /\ NoPlaces /\ NoTags
       \/ part = "tags" /\ live \in SUBSET {1} /\ NoPlaces /\ FirstDates
       \/ part = "metadata" /\ live \in SUBSET {1} /\ NoPlaces /\ FirstDates /\ NoTags
       \/ part = "assets" /\ live \in {{f} : f \in File} /\ NoPlaces /\ FirstDates /\ NoTags
       \/ part = "gallery" /\ live \in SUBSET File /\ NoTags
    /\ AtOrigin /\ GalleryInit /\ AssetsInit
    /\ part = "tags" => FirstTags
    /\ part = "gallery" => place[2] = NoPlaceRow /\ \A f \in live : date[f] # NoState
    /\ part # "assets" => AllServed

(* The commits of a part. *)
Commits == [places |-> MaxChanges - 2, dates |-> MaxChanges - 1, tags |-> MaxChanges - 2,
            metadata |-> MaxChanges, assets |-> MaxChanges - 2, gallery |-> MaxChanges - 3]

(* Where no script is at work on the files, an upload makes and registers   *)
(* every derivative, and a deletion unlinks them all.                       *)
UploadWhole(f) ==
    /\ UploadPhoto(f)
    /\ disk' = Generated(f, Wanted(f) \cup {"original"})
    /\ path' = [path EXCEPT ![f] = Wanted(f)]
    /\ UNCHANGED <<made, maker, damaged, astray>>

ComeAndGo(F) == \E f \in F : UploadWhole(f) \/ RemovePhoto(f)

(* While a client pages, one photo at a time changes, by the requests that  *)
(* move it.                                                                 *)
MovePhoto ==
    \E f \in File :
       \/ \E d \in UserDate \cup {None} : Override({f}, d) /\ UNCHANGED <<live, placeVars, tagVars, metaVars>>
       \/ \E daily \in BOOLEAN : SetCategory({f}, daily) /\ UNCHANGED <<live, dateVars, tagVars, metaVars>>
       \/ \E p \in Place : AssignPlace({f}, p) /\ UNCHANGED <<live, dateVars, tagVars, metaVars>>

(* The second photo is for the source years only. *)
SourceYearsOfTwo == 2 \in live => backfill = NoBackfill /\ \A w \in Workers : session[w] = NoSession

PartStep ==
    \/ part = "places" /\ PlacesNext /\ UNCHANGED <<live, dateVars, tagVars, metaVars, assetVars>>
    \/ part = "places" /\ ComeAndGo({1})
    \/ part = "dates" /\ DatesNext /\ UNCHANGED <<live, placeVars, tagVars, metaVars, assetVars>> /\ SourceYearsOfTwo'
    \/ part = "dates" /\ ComeAndGo({1})
    \/ part = "tags" /\ TagsNext /\ UNCHANGED <<live, placeVars, metaVars, assetVars>>
    \/ part = "tags" /\ ComeAndGo({1})
    \/ part = "metadata" /\ MetaNext /\ UNCHANGED <<live, placeVars, tagVars, assetVars>>
    \/ part = "metadata" /\ ComeAndGo({1})
    \/ part = "gallery" /\ pager.pc # "idle" /\ ((MovePhoto /\ UNCHANGED assetVars) \/ ComeAndGo(File))

(* One photo comes and goes under the scripts. *)
TheOne == \A f \in File : made[f] # NotMade => f \in tomb

MCNext ==
    /\ \/ changes < Commits[part] /\ Meanwhile(PartStep)
       \/ part = "assets" /\ changes < Commits[part] /\ Meanwhile(AssetsNext) /\ TheOne'
       \/ part = "gallery" /\ changes = 0 /\ (\E q \in Query : FirstPage(q)) /\ UNCHANGED assetVars
       \/ (NextPage \/ PagingEnds) /\ UNCHANGED assetVars
    /\ UNCHANGED part

MCSpec == MCInit /\ [][MCNext]_<<galleryVars, assetVars, part>>

(* The totals of the aggregates are the sums of their parts (TotalsAdd) and *)
(* the memories of a day are distinct (MemoriesDistinct), in the behaviours *)
(* with several photos.  A client that pages comes to the end of it in      *)
(* every state of the library, so that the states without one are all.      *)
ReadersAgree == part = "gallery" /\ pager = NoPager => TotalsAdd /\ MemoriesDistinct

LibrarySymmetry == Permutations(Workers) \cup Permutations(Scripts)

=============================================================================
