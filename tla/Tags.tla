-------------------------------- MODULE Tags --------------------------------
(***************************************************************************)
(* MemoryKeeper tags.  A photo's tags come from two sides: labels of       *)
(* Vision, curated into canonical keys, and tags the user made and         *)
(* assigned.  An override gives a canonical key to a tag, or suppresses    *)
(* it; a file suppression hides a canonical key on one photo.              *)
(*                                                                         *)
(* assign, remove, hide and restore lock the file and count its revision;  *)
(* assign reads the tag without a lock.  Deleting and merging tags lock    *)
(* the tags, but read the relations and the revisions of the files they    *)
(* touch without one, and write what follows from what they have read; the *)
(* catalog deletes and merges through them.  The catalog's rename and its  *)
(* merge commit twice.  What the catalog reads of its entries before the   *)
(* tags are locked is one step with the lock.                              *)
(***************************************************************************)
EXTENDS CaptureDates

CONSTANTS
    Tag,        \* ids of tags
    TagName,    \* normalized names
    Canonical,  \* canonical keys of the vocabulary
    NoTag,      \* NULL
    RuleOf      \* rule_for: the canonical keys of a name (one, or none)

ASSUME TagsAssumption ==
    /\ NoTag \notin Tag /\ Tag \cap TagName = {}
    /\ RuleOf \in [TagName -> {C \in SUBSET Canonical : Cardinality(C) <= 1}]

VARIABLES
    tag,       \* rows of mk_tags
    relation,  \* USER rows of common_file_tags: of a tag, or (legacy) of a bare name
    label,     \* AI rows of common_file_tags, by canonical key
    override,  \* rows of mk_tag_canonical_overrides
    hidden,    \* rows of mk_file_tag_suppressions
    tagwork,   \* open sessions on tags
    stray      \* history: <<file, tag>> assigned from a stale read of the tag

tagVars == <<tag, relation, label, override, hidden, tagwork, stray>>

NoTagRow == [st |-> "none", name |-> "none", rev |-> 0]
NoOverride == [st |-> "none", tag |-> NoTag]
NoTagWork == [op |-> "idle", tag |-> NoTag, to |-> NoTag, keys |-> {}, rev |-> << >>,
              had |-> {}, adds |-> << >>]

(* Sessions that hold the locks of their tags: delete, merge, and fold,    *)
(* the merge of the catalog.                                               *)
Holding == {"delete", "merge", "fold"}

----------------------------------------------------------------------------
(* The catalog.                                                            *)

LiveTags == {t \in Tag : tag[t].st = "live"}

(* _find_normalized; names are unique, deleted tags included. *)
Named(n) == {t \in Tag : tag[t].st # "none" /\ tag[t].name = n}

(* _canonical_references_for_tag *)
References(t) ==
    RuleOf[tag[t].name] \cup {c \in Canonical : override[c] = [st |-> "link", tag |-> t]}

(* The text of a user's relation: the name of its tag, or a bare name. *)
TextOf(k) == IF k \in Tag THEN tag[k].name ELSE k

(* curate: labels the user has decided about, deleted relations included,  *)
(* leave the Vision side to the user's.  The other limits of the           *)
(* vocabulary (confidence, categories, five tags) are met.                 *)
Curated(f) ==
    label[f] \ UNION {RuleOf[TextOf(k)] : k \in {k \in Tag \cup TagName : relation[f][k] # "none"}}

(* project_curated_tags and _entries: the tag a canonical key shows as,    *)
(* NoTag for its own entry.                                                *)
ShownAs(c) ==
    CASE override[c].st = "link" ->
           IF override[c].tag \in LiveTags THEN override[c].tag ELSE NoTag
      [] OTHER -> LET named == {t \in LiveTags : c \in RuleOf[tag[t].name]}
                  IN IF named = {} THEN NoTag ELSE CHOOSE t \in named : TRUE

(* The photos of a tag's entry: by its own relations, or by a label.       *)
TagOnPhoto(f, t) ==
    \/ relation[f][t] = "on" /\ References(t) \cap hidden[f] = {}
    \/ \E c \in Curated(f) \ hidden[f] : override[c].st # "hidden" /\ ShownAs(c) = t

(* A bare name shows as the live tag of that name, too, but stays a bare   *)
(* name.                                                                   *)
ByName(f, t) == relation[f][tag[t].name] = "on" /\ References(t) \cap hidden[f] = {}

----------------------------------------------------------------------------
Locked(t) == \E w \in Workers : t \in {tagwork[w].tag, tagwork[w].to}
                                /\ tagwork[w].op \in Holding

(* The photo's revision counts the change (get_state, revision + 1). *)
CountRevision(f) ==
    date' = [date EXCEPT ![f] = Touched(IF @ = NoState THEN Synchronized(f, @, exif[f]) ELSE @)]

(* _restore_file_suppressions: the keys of a tag the photo has again are   *)
(* no longer hidden on it.                                                 *)
Unhidden(f, t) == [hidden EXCEPT ![f] = @ \ References(t)]

(* _ensure_user_relation: made, or restored. *)
Regained(f, t) == [relation EXCEPT ![f][t] = "on"]

(* _remove_user_relation: marked deleted, where it is there. *)
Dropped(f, t) == [relation EXCEPT ![f][t] = IF @ = "on" THEN "off" ELSE @]

DatesButState == <<exif, session, plan, recon, backfill, torn, applied, promised>>

TagCreate ==
    \E t \in Tag, n \in TagName :
       /\ Count /\ tag[t].st = "none" /\ Named(n) = {}
       /\ tag' = [tag EXCEPT ![t] = [st |-> "live", name |-> n, rev |-> 1]]
       /\ UNCHANGED <<relation, label, override, hidden, tagwork, stray, date>>
       /\ UNCHANGED DatesButState

(* update: a new name, written to every relation of the tag too. *)
TagUpdate(t, n) ==
    /\ Count /\ tag[t].st = "live" /\ ~Locked(t) /\ Named(n) = {}
    /\ tag' = [tag EXCEPT ![t].name = n, ![t].rev = @ + 1]
    /\ UNCHANGED <<relation, label, override, hidden, tagwork, stray, date>>
    /\ UNCHANGED DatesButState

----------------------------------------------------------------------------
(* Sessions: delete, merge, assign.                                        *)

OpenTags(w, s) ==
    /\ tagwork[w] = NoTagWork
    /\ tagwork' = [tagwork EXCEPT ![w] = s]
    /\ UNCHANGED <<tag, relation, label, override, hidden, stray, changes, date>>
    /\ UNCHANGED DatesButState

On(t) == {f \in File : relation[f][t] = "on"}

(* The relations of s and the revisions of their photos are read; where    *)
(* the relation to the target t is on already, it is left as it is.        *)
Read(w, op, s, t, keys, adds) ==
    OpenTags(w, [NoTagWork EXCEPT !.op = op, !.tag = s, !.to = t, !.keys = keys, !.adds = adds,
                   !.rev = [f \in On(s) |-> date[f].rev],
                   !.had = {f \in On(s) : t \in Tag /\ relation[f][t] = "on"}])

TagDeleteRead(w, t) == t \in LiveTags /\ ~Locked(t) /\ Read(w, "delete", t, NoTag, {}, << >>)

TagMergeRead(w, s, t) ==
    /\ s # t /\ {s, t} \subseteq LiveTags /\ ~Locked(s) /\ ~Locked(t)
    /\ Read(w, "merge", s, t, {}, << >>)

(* _propagate_merged_suppressions: what is hidden under one key of the     *)
(* result is hidden under all of them.                                     *)
Unpropagated(C) == [f \in File |-> IF hidden[f] \cap C # {} THEN C \ hidden[f] ELSE {}]

(* The catalog's delete of a tag: its canonical keys are linked to it,     *)
(* then it is deleted.                                                     *)
CatalogDeleteRead(w, t) ==
    t \in LiveTags /\ ~Locked(t) /\ Read(w, "delete", t, NoTag, References(t), << >>)

(* rename_or_merge of a tag to the name of another: the suppressions to    *)
(* add are read, the keys of the source are linked to it, then it is       *)
(* merged.                                                                 *)
CatalogMergeRead(w, s, t) ==
    /\ s # t /\ {s, t} \subseteq LiveTags /\ ~Locked(s) /\ ~Locked(t)
    /\ Read(w, "fold", s, t, References(s), Unpropagated(References(s) \cup References(t)))

(* What a tag session writes to the states of the photos it touches: the   *)
(* revision it has read plus one.                                          *)
Revisions(w) ==
    LET k == tagwork[w]
        touched == {f \in DOMAIN k.rev : date[f] # NoState}
    IN date' = [f \in File |-> IF f \in touched THEN [date[f] EXCEPT !.rev = k.rev[f] + 1] ELSE date[f]]

(* A relation that was read is still there to be written: a photo that was *)
(* deleted since fails the session.                                        *)
StillThere(w) == \A f \in DOMAIN tagwork[w].rev : relation[f][tagwork[w].tag] # "none"

(* Mutant of Relinked: only the links that are there already. *)
RelinkedWritten(keys, t, row) ==
    [c \in Canonical |-> IF override[c] = [st |-> "link", tag |-> t] THEN row ELSE override[c]]

(* The overrides of a tag go with it, the ones the catalog has linked to   *)
(* it included: a deleted tag's are suppressed, a merged one's move.       *)
Relinked(keys, t, row) ==
    [c \in Canonical |-> IF c \in keys \/ override[c] = [st |-> "link", tag |-> t] THEN row
                         ELSE override[c]]

(* Mutant of TagDeleteCommit: the relations keep the deleted tag. *)
TagDeleteCommitKeeping(w) ==
    LET t == tagwork[w].tag IN
    /\ Count /\ tagwork[w].op = "delete" /\ StillThere(w)
    /\ Revisions(w)
    /\ override' = Relinked(tagwork[w].keys, t, [st |-> "hidden", tag |-> NoTag])
    /\ tag' = [tag EXCEPT ![t].st = "dead", ![t].rev = @ + 1]
    /\ tagwork' = [tagwork EXCEPT ![w] = NoTagWork]
    /\ UNCHANGED <<relation, label, hidden, stray>> /\ UNCHANGED DatesButState

TagDeleteCommit(w) ==
    LET t == tagwork[w].tag
        F == DOMAIN tagwork[w].rev
    IN /\ Count /\ tagwork[w].op = "delete" /\ StillThere(w)
       /\ relation' = [f \in File |-> IF f \in F THEN [relation[f] EXCEPT ![t] = "off"] ELSE relation[f]]
       /\ Revisions(w)
       /\ override' = Relinked(tagwork[w].keys, t, [st |-> "hidden", tag |-> NoTag])
       /\ tag' = [tag EXCEPT ![t].st = "dead", ![t].rev = @ + 1]
       /\ tagwork' = [tagwork EXCEPT ![w] = NoTagWork]
       /\ UNCHANGED <<label, hidden, stray>> /\ UNCHANGED DatesButState

(* The photos whose relation to the source was read get the target, a      *)
(* relation the user has taken off since included.                         *)
MergeTags(w) ==
    LET s == tagwork[w].tag
        t == tagwork[w].to
        F == DOMAIN tagwork[w].rev
    IN /\ Count /\ StillThere(w)
       /\ relation' = [f \in File |->
            IF f \in F THEN [relation[f] EXCEPT ![s] = "off",
                                                ![t] = IF f \in tagwork[w].had THEN @ ELSE "on"]
            ELSE relation[f]]
       /\ Revisions(w)
       /\ override' = Relinked(tagwork[w].keys, s, [st |-> "link", tag |-> t])
       /\ tag' = [tag EXCEPT ![s].st = "dead", ![s].rev = @ + 1, ![t].rev = @ + 1]
       /\ UNCHANGED <<label, stray>> /\ UNCHANGED DatesButState

TagMergeCommit(w) ==
    /\ tagwork[w].op = "merge" /\ MergeTags(w)
    /\ tagwork' = [tagwork EXCEPT ![w] = NoTagWork]
    /\ hidden' = hidden

(* The commit of the catalog's merge is the merge's.  The links are made   *)
(* once more after it.                                                     *)
CatalogMergeCommit(w) ==
    /\ tagwork[w].op = "fold" /\ MergeTags(w)
    /\ tagwork' = [tagwork EXCEPT ![w] = [NoTagWork EXCEPT !.op = "link", !.tag = tagwork[w].to,
                                            !.to = tagwork[w].tag, !.keys = tagwork[w].keys]]
    /\ hidden' = [f \in File |-> hidden[f] \cup tagwork[w].adds[f]]

(* assign: the file is locked, the tag is only read. *)
AssignRead(w, t) == t \in LiveTags /\ OpenTags(w, [NoTagWork EXCEPT !.op = "assign", !.tag = t])

(* Then the relation is made or restored; the canonical keys of the tag    *)
(* are no longer hidden on the photo.  A new relation waits for whoever    *)
(* holds the tag.                                                          *)
AssignCommit(w, f) ==
    LET t == tagwork[w].tag IN
    /\ Count /\ tagwork[w].op = "assign" /\ f \in live /\ FileFree(f)
    /\ relation[f][t] = "none" => ~Locked(t)
    /\ relation' = Regained(f, t)
    /\ hidden' = Unhidden(f, t)
    /\ stray' = IF t \in LiveTags /\ ~Locked(t) THEN stray ELSE stray \cup {<<f, t>>}
    /\ tagwork' = [tagwork EXCEPT ![w] = NoTagWork]
    /\ CountRevision(f)
    /\ UNCHANGED <<tag, label, override>> /\ UNCHANGED DatesButState

TagAbort(w) ==
    /\ tagwork[w] # NoTagWork
    /\ tagwork' = [tagwork EXCEPT ![w] = NoTagWork]
    /\ UNCHANGED <<tag, relation, label, override, hidden, stray, changes, date>>
    /\ UNCHANGED DatesButState

----------------------------------------------------------------------------
(* The tags of one photo.                                                  *)

TagRemove(f, t) ==
    /\ Count /\ f \in live /\ FileFree(f) /\ relation[f][t] = "on"
    /\ relation' = Dropped(f, t)
    /\ stray' = stray \ {<<f, t>>}
    /\ CountRevision(f)
    /\ UNCHANGED <<tag, label, override, hidden, tagwork>> /\ UNCHANGED DatesButState

(* hide: the relation goes, every canonical key of the entry is hidden.    *)
(* Where a bare name puts the photo on the entry, only the keys are.       *)
HideTag(f, t) ==
    /\ Count /\ f \in live /\ FileFree(f) /\ t \in LiveTags
    /\ TagOnPhoto(f, t) \/ (ByName(f, t) /\ References(t) # {})
    /\ relation' = Dropped(f, t)
    /\ hidden' = [hidden EXCEPT ![f] = @ \cup References(t)]
    /\ CountRevision(f)
    /\ UNCHANGED <<tag, label, override, tagwork, stray>> /\ UNCHANGED DatesButState

HideLabel(f, c) ==
    /\ Count /\ f \in live /\ FileFree(f)
    /\ c \in Curated(f) \ hidden[f] /\ override[c].st # "hidden" /\ ShownAs(c) = NoTag
    /\ hidden' = [hidden EXCEPT ![f] = @ \cup {c}]
    /\ CountRevision(f)
    /\ UNCHANGED <<tag, relation, label, override, tagwork, stray>>
    /\ UNCHANGED DatesButState

(* The entry of a bare name that is no live tag's. *)
HideName(f, n) ==
    /\ Count /\ f \in live /\ FileFree(f) /\ Named(n) \cap LiveTags = {}
    /\ relation[f][n] = "on" /\ RuleOf[n] \cap hidden[f] = {}
    /\ relation' = Dropped(f, n)
    /\ hidden' = [hidden EXCEPT ![f] = @ \cup RuleOf[n]]
    /\ CountRevision(f)
    /\ UNCHANGED <<tag, label, override, tagwork, stray>> /\ UNCHANGED DatesButState

(* restore: the entry of a tag gets its relation back, or a new one, which *)
(* waits for whoever holds the tag (then it is a late AssignCommit).       *)
RestoreTag(f, t) ==
    /\ Count /\ f \in live /\ FileFree(f) /\ t \in LiveTags
    /\ relation[f][t] = "none" => ~Locked(t)
    /\ relation' = Regained(f, t)
    /\ hidden' = Unhidden(f, t)
    /\ stray' = IF Locked(t) THEN stray \cup {<<f, t>>} ELSE stray
    /\ CountRevision(f)
    /\ UNCHANGED <<tag, label, override, tagwork>> /\ UNCHANGED DatesButState

(* The entry of a bare name gets a relation back that is there.  An entry  *)
(* is there as long as some photo shows it.                                *)
RestoreName(f, n) ==
    /\ Count /\ f \in live /\ FileFree(f) /\ Named(n) \cap LiveTags = {}
    /\ \E g \in live : relation[g][n] = "on"
    /\ relation[f][n] # "none" \/ RuleOf[n] \cap hidden[f] # {}
    /\ relation' = [relation EXCEPT ![f][n] = IF @ = "none" THEN @ ELSE "on"]
    /\ hidden' = [hidden EXCEPT ![f] = @ \ RuleOf[n]]
    /\ CountRevision(f)
    /\ UNCHANGED <<tag, label, override, tagwork, stray>> /\ UNCHANGED DatesButState

RestoreLabel(f, c) ==
    /\ Count /\ f \in live /\ FileFree(f) /\ c \in hidden[f]
    /\ override[c].st # "hidden" /\ ShownAs(c) = NoTag /\ \E g \in live : c \in Curated(g)
    /\ hidden' = [hidden EXCEPT ![f] = @ \ {c}]
    /\ CountRevision(f)
    /\ UNCHANGED <<tag, relation, label, override, tagwork, stray>>
    /\ UNCHANGED DatesButState

(* save_ai_tag *)
SaveAiTag(f, c) ==
    /\ Count /\ f \in live /\ c \notin label[f]
    /\ label' = [label EXCEPT ![f] = @ \cup {c}]
    /\ UNCHANGED <<tag, relation, override, hidden, tagwork, stray, date>>
    /\ UNCHANGED DatesButState

----------------------------------------------------------------------------
(* The catalog: rename, merge and delete of an entry.                      *)

Linked(C, t) == [c \in Canonical |-> IF c \in C THEN [st |-> "link", tag |-> t] ELSE override[c]]

Propagated(C) ==
    [f \in File |-> IF hidden[f] \cap C # {} THEN hidden[f] \cup C ELSE hidden[f]]

(* Mutant of CatalogRename: the links are left to the second commit. *)
CatalogRenameLate(w, t, n) ==
    LET keys == References(t) IN
    /\ Count /\ tagwork[w] = NoTagWork /\ t \in LiveTags /\ ~Locked(t) /\ Named(n) = {}
    /\ hidden' = Propagated(keys \cup RuleOf[n])
    /\ override' = override
    /\ tag' = [tag EXCEPT ![t].name = n, ![t].rev = @ + 1]
    /\ tagwork' = [tagwork EXCEPT ![w] = [NoTagWork EXCEPT !.op = "link", !.tag = t, !.to = t, !.keys = keys]]
    /\ UNCHANGED <<relation, label, stray, date>> /\ UNCHANGED DatesButState

(* rename_or_merge of a tag to a free name.  Its canonical keys are linked *)
(* to the tag in the commit of the rename, and again after it.             *)
CatalogRename(w, t, n) ==
    LET keys == References(t) IN
    /\ Count /\ tagwork[w] = NoTagWork /\ t \in LiveTags /\ ~Locked(t) /\ Named(n) = {}
    /\ hidden' = Propagated(keys \cup RuleOf[n])
    /\ override' = Linked(keys, t)
    /\ tag' = [tag EXCEPT ![t].name = n, ![t].rev = @ + 1]
    /\ tagwork' = [tagwork EXCEPT ![w] = [NoTagWork EXCEPT !.op = "link", !.tag = t, !.to = t, !.keys = keys]]
    /\ UNCHANGED <<relation, label, stray, date>> /\ UNCHANGED DatesButState

(* ... of a canonical key.  A target tag that is there takes it in one     *)
(* commit; otherwise _ensure_target commits a new or revived tag first.    *)
CatalogAdopt(w, c, n) ==
    LET free == {t \in Tag : tag[t].st = "none"}
        found == IF Named(n) # {} THEN Named(n) ELSE free
        t == CHOOSE t \in found : TRUE
        there == t \in LiveTags
    IN /\ Count /\ tagwork[w] = NoTagWork /\ found # {} /\ ~Locked(t)
       /\ \E f \in live : c \in Curated(f)
       /\ override[c].st # "hidden" /\ ShownAs(c) = NoTag
       /\ tag' = IF there THEN tag
                 ELSE [tag EXCEPT ![t] = [st |-> "live", name |-> n, rev |-> @.rev + 1]]
       /\ hidden' = Propagated({c} \cup RuleOf[n] \cup (IF there THEN References(t) ELSE {}))
       /\ override' = IF there THEN Linked({c}, t) ELSE override
       /\ tagwork' = IF there THEN tagwork
                     ELSE [tagwork EXCEPT ![w] = [NoTagWork EXCEPT !.op = "adopt", !.tag = t, !.keys = {c}]]
       /\ UNCHANGED <<relation, label, stray, date>> /\ UNCHANGED DatesButState

(* ... of a bare name: its relations become the tag's, in one commit when  *)
(* the tag is there.                                                       *)
PromoteLegacy(n, t) ==
    LET F == {f \in File : relation[f][n] = "on"} IN
    /\ Count /\ t \in LiveTags /\ tag[t].name # n /\ Named(n) \cap LiveTags = {} /\ F # {}
    /\ relation' = [f \in File |-> IF f \in F THEN [relation[f] EXCEPT ![n] = "none", ![t] = "on"]
                                   ELSE relation[f]]
    /\ stray' = IF Locked(t) THEN stray \cup (F \X {t}) ELSE stray
    /\ hidden' = Propagated(RuleOf[n] \cup References(t))
    /\ override' = Linked(RuleOf[n], t)
    /\ UNCHANGED <<tag, label, tagwork, date>> /\ UNCHANGED DatesButState

(* The second commit of rename_or_merge. *)
CatalogLink(w) ==
    /\ Count /\ tagwork[w].op \in {"link", "adopt"}
    /\ override' = Linked(tagwork[w].keys, tagwork[w].tag)
    /\ tagwork' = [tagwork EXCEPT ![w] = NoTagWork]
    /\ UNCHANGED <<tag, relation, label, hidden, stray, date>> /\ UNCHANGED DatesButState

(* delete of a canonical key and of a bare name (CatalogDeleteRead and     *)
(* TagDeleteCommit are the delete of a tag).                               *)
CatalogSuppress(c) ==
    /\ Count /\ ShownAs(c) = NoTag /\ override[c].st # "hidden"
    /\ \E f \in live : c \in Curated(f)
    /\ override' = [override EXCEPT ![c] = [st |-> "hidden", tag |-> NoTag]]
    /\ UNCHANGED <<tag, relation, label, hidden, tagwork, stray, date>>
    /\ UNCHANGED DatesButState

CatalogDeleteName(n) ==
    /\ Count /\ Named(n) \cap LiveTags = {} /\ \E f \in live : relation[f][n] = "on"
    /\ relation' = [f \in File |-> IF relation[f][n] = "on" THEN [relation[f] EXCEPT ![n] = "off"]
                                   ELSE relation[f]]
    /\ UNCHANGED <<tag, label, override, hidden, tagwork, stray, date>>
    /\ UNCHANGED DatesButState

----------------------------------------------------------------------------
(* delete of the photo: the cleanup removes its tag rows, the suppressions *)
(* are marked deleted.                                                     *)
TagsOfDeleted(f) ==
    /\ relation' = [relation EXCEPT ![f] = [k \in Tag \cup TagName |-> "none"]]
    /\ label' = [label EXCEPT ![f] = {}]
    /\ hidden' = [hidden EXCEPT ![f] = {}]
    /\ stray' = {p \in stray : p[1] # f}
    /\ UNCHANGED <<tag, override, tagwork>>

TagsTypeOK ==
    /\ \A t \in Tag : tag[t].st \in {"none", "live", "dead"} /\ tag[t].rev \in Nat
    /\ relation \in [File -> [Tag \cup TagName -> {"none", "on", "off"}]]
    /\ label \in [File -> SUBSET Canonical] /\ hidden \in [File -> SUBSET Canonical]
    /\ \A c \in Canonical : override[c].st = "link" <=> override[c].tag # NoTag
    /\ stray \subseteq File \X Tag

(* Some tags are there, on some photos; relations of bare names are from   *)
(* before the tags had a table.                                            *)
TagsInit ==
    /\ tag \in [Tag -> {NoTagRow} \cup {[st |-> "live", name |-> n, rev |-> 1] : n \in TagName}]
    /\ \A t, u \in LiveTags : t # u => tag[t].name # tag[u].name
    /\ relation \in {r \in [File -> [Tag \cup TagName -> {"none", "on"}]] :
                       \A f \in File, k \in Tag \cup TagName : r[f][k] = "on" => f \in live /\ k \in TagName \cup LiveTags}
    /\ label = [f \in File |-> {}]
    /\ override = [c \in Canonical |-> NoOverride]
    /\ hidden = [f \in File |-> {}]
    /\ tagwork = [w \in Workers |-> NoTagWork]
    /\ stray = {}

TagsNext ==
    \/ TagCreate
    \/ \E t \in Tag, n \in TagName : TagUpdate(t, n) \/ PromoteLegacy(n, t)
    \/ \E w \in Workers :
          \/ \E t \in Tag : TagDeleteRead(w, t) \/ CatalogDeleteRead(w, t) \/ AssignRead(w, t)
          \/ \E s, t \in Tag : TagMergeRead(w, s, t) \/ CatalogMergeRead(w, s, t)
          \/ \E t \in Tag, n \in TagName : CatalogRename(w, t, n)
          \/ \E c \in Canonical, n \in TagName : CatalogAdopt(w, c, n)
          \/ \E f \in File : AssignCommit(w, f)
          \/ TagDeleteCommit(w) \/ TagMergeCommit(w) \/ CatalogMergeCommit(w)
          \/ CatalogLink(w) \/ TagAbort(w)
    \/ \E f \in File, t \in Tag : TagRemove(f, t) \/ HideTag(f, t) \/ RestoreTag(f, t)
    \/ \E f \in File, c \in Canonical : HideLabel(f, c) \/ RestoreLabel(f, c) \/ SaveAiTag(f, c)
    \/ \E f \in File, n \in TagName : HideName(f, n) \/ RestoreName(f, n)
    \/ \E c \in Canonical : CatalogSuppress(c)
    \/ \E n \in TagName : CatalogDeleteName(n)

----------------------------------------------------------------------------
(* A deleted or merged tag is on no photo - except where an assignment     *)
(* read the tag before it went and wrote after that.                       *)
DeletedTagsUnused ==
    \A f \in live, t \in Tag : relation[f][t] = "on" /\ <<f, t>> \notin stray => tag[t].st = "live"

(* The photo is on the entry of t, or on no entry because it hides t's.    *)
Kept(f, t) == TagOnPhoto(f, t) \/ References(t) \cap hidden[f] # {}

(* The user of a photo has decided about it apart: the tag to rename was   *)
(* taken off (labels of its new name are then the user's, too), the source *)
(* of a merge was assigned under its lock (stray), or its target was taken *)
(* off since the merge has read it as on.                                  *)
DecidedApart(w, f, s, t) ==
    \/ s = t /\ relation[f][s] = "off"
    \/ s # t /\ <<f, s>> \in stray
    \/ f \in tagwork[w].had /\ relation[f][t] # "on"

(* Renaming an entry through the catalog, or merging it into another,      *)
(* keeps its photos, those it has by a label of Vision included, from the  *)
(* first of the two commits on; a merge of two tags keeps the photos of    *)
(* its source.  The relations were read before, without a lock.            *)
RenameKeepsPhotos ==
    [][\A w \in Workers, s, t \in Tag :
          LET links == /\ tagwork[w].op # "link" /\ tagwork'[w].op = "link"
                       /\ tagwork'[w].tag = t /\ tagwork'[w].to = s
              merges == /\ tagwork[w].op = "merge" /\ tagwork[w].tag = s /\ tagwork[w].to = t
                        /\ tag'[s].st = "dead"
          IN \A f \in live :
                (links /\ TagOnPhoto(f, s)) \/ (merges /\ relation[f][s] = "on") =>
                   DecidedApart(w, f, s, t) \/ Kept(f, t)']_tagVars

(* A session on tags that commits and writes a revision to f that it read  *)
(* before another change of f.                                             *)
Overtakes(w, f) ==
    /\ tagwork[w].op \in Holding /\ tagwork'[w] # tagwork[w]
    /\ f \in DOMAIN tagwork[w].rev /\ tagwork[w].rev[f] # date[f].rev

(* The revision of a photo's state only grows, and clients that compare it *)
(* see every change - except for the revisions that a tag deletion or      *)
(* merge read before another change and wrote after it.                    *)
RevisionGrows ==
    [][\A f \in live \cap live' : date[f] # NoState =>
          date'[f].rev >= date[f].rev \/ \E w \in Workers : Overtakes(w, f)]_<<date, live>>

=============================================================================
