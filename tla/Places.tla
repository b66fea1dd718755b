------------------------------- MODULE Places -------------------------------
(***************************************************************************)
(* MemoryKeeper places: the registered places, the place of every photo    *)
(* and the photo's category.  Three kinds of writers meet on the relation  *)
(* of a photo to its place (columns of common_file_metadata):              *)
(*                                                                         *)
(*   - handlers that lock place, file and metadata rows before they check  *)
(*     (assign, batch, category, merge, delete): one atomic step each;     *)
(*   - handlers that lock the files but read their metadata without a lock *)
(*     (pending, GPS patch);                                               *)
(*   - the upload worker's automatic matcher and reclassify, which lock    *)
(*     nothing but the place they are about to write.                      *)
(*                                                                         *)
(* The last two read first and commit later.  Their session keeps what it  *)
(* read (SQLAlchemy's identity map), and the commit writes the columns     *)
(* that differ from what was read.                                         *)
(*                                                                         *)
(* The earth is a line: Position holds its points.                         *)
(***************************************************************************)
EXTENDS Photos

CONSTANTS
    Place,      \* place ids, positive numbers (ordered)
    Position,   \* coordinates
    Name,       \* canonical names of places
    NoName,     \* a photo without a geocoded name
    GeoName     \* the geocoded name of each photo

ASSUME PlacesAssumption ==
    /\ Place \subseteq Nat \ {0} /\ Position \subseteq Nat
    /\ NoName \notin Name
    /\ GeoName \in [File -> Name \cup {NoName}]

VARIABLES
    place,     \* the rows of memorykeeper_places
    rel,       \* each photo's place relation
    category,  \* each photo's category and its revision
    gps,       \* each photo's coordinates
    work,      \* what the open sessions have read and mean to write
    decided,   \* history: the last decision a user made for each photo
    raced      \* history: photos that an automatic commit overtook

placeVars == <<place, rel, category, gps, work, decided, raced>>

NoGps == -1      \* gps_lat, gps_lon IS NULL
NoDistance == -1
Undecided == -1  \* no decision of a user stands

PlaceRow == [st: {"none", "live", "dead"}, active: BOOLEAN, rev: Nat, pos: Position \cup {NoGps},
             name: Name \cup {NoName}, auto: BOOLEAN]

NoPlaceRow == [st |-> "none", active |-> FALSE, rev |-> 0, pos |-> NoGps, name |-> NoName,
               auto |-> FALSE]

PlaceMatchSource == {"NONE", "USER", "CANONICAL_NAME", "RADIUS", "AUTO_CREATED", "AUTO_PLACE_MATCH"}

Relation == [place: Place \cup {None}, source: PlaceMatchSource, distance: Int, rev: Nat]

Idle == [pc |-> "idle", op |-> "none", files |-> {}, snap |-> << >>, new |-> << >>,
         need |-> None, held |-> None, gps |-> << >>, row |-> NoPlaceRow,
         late |-> FALSE]  \* late: history, the decision is older than the relation

----------------------------------------------------------------------------
(* The matcher *)

Live(p) == place[p].st = "live"
LivePlaces == {p \in Place : Live(p)}
ActivePlaces == {p \in LivePlaces : place[p].active}

DistanceM(a, b) == IF a > b THEN a - b ELSE b - a

(* The radius of a place: its spot and the neighbouring ones. *)
RadiusM == 1

Distance(g, p) == IF p = None \/ g = NoGps THEN NoDistance ELSE DistanceM(g, place[p].pos)

Nearest(g, S) ==
    CHOOSE p \in S : \A q \in S : \/ Distance(g, p) < Distance(g, q)
                                  \/ Distance(g, p) = Distance(g, q) /\ p <= q

(* match: the canonical name first, then the nearest place whose radius    *)
(* holds the photo.                                                        *)
Match(g, name) ==
    LET named == {p \in ActivePlaces : name # NoName /\ place[p].name = name}
        near == {p \in ActivePlaces : Distance(g, p) <= RadiusM}
    IN CASE named # {} -> [place |-> Min(named), source |-> "CANONICAL_NAME"]
         [] named = {} /\ near # {} -> [place |-> Nearest(g, near), source |-> "RADIUS"]
         [] OTHER -> [place |-> None, source |-> "NONE"]

(* blocks_automatic_place_change *)
Blocked(f) == category[f].daily \/ rel[f].source = "USER"

(* _set_relation computes the new values from what the session holds; if   *)
(* nothing but the revision would change it leaves them alone.             *)
SetRelation(old, p, source, distance) ==
    LET new == [place |-> p, source |-> source, distance |-> distance, rev |-> old.rev + 1]
    IN IF [new EXCEPT !.rev = old.rev] = old THEN old ELSE new

----------------------------------------------------------------------------
(* Row locks that outlast a step: files and the place of pending, files of *)
(* a GPS patch.                                                            *)
FilesFree(F) == \A w \in Workers : work[w].files \cap F = {}
PlaceFree(p) == \A w \in Workers : work[w].held # p

Assignable(p) == Live(p) /\ place[p].active

(* A user's category change to NORMAL and its revision. *)
AsNormal(c) == IF c.daily THEN [daily |-> FALSE, rev |-> c.rev + 1] ELSE c

(* A place as its user registers it. *)
RegisteredRow(x, n) ==
    [st |-> "live", active |-> TRUE, rev |-> 1, pos |-> x, name |-> n, auto |-> FALSE]

RegisteredRows == {RegisteredRow(x, n) : x \in Position, n \in Name}

PlaceCreate ==
    \E p \in Place, r \in RegisteredRows :
       /\ Count /\ place[p].st = "none" /\ \A q \in Place : q < p => place[q].st # "none"
       /\ place' = [place EXCEPT ![p] = r]
       /\ UNCHANGED <<rel, category, gps, work, decided, raced>>

(* PATCH: a conditional UPDATE on the revision. *)
PlaceUpdate(p) ==
    \E on \in BOOLEAN, x \in Position :
       /\ Count /\ PlaceFree(p) /\ Live(p)
       /\ place' = [place EXCEPT ![p].active = on, ![p].pos = x, ![p].rev = @ + 1]
       /\ UNCHANGED <<rel, category, gps, work, decided, raced>>

Buried(r) == [r EXCEPT !.st = "dead", !.active = FALSE, !.auto = FALSE, !.rev = @ + 1]

(* Mutant of PlaceDelete: only the photos of active files count. *)
PlaceDeleteUsed(p) ==
    /\ Count /\ PlaceFree(p) /\ Live(p)
    /\ place' = [place EXCEPT ![p] = Buried(@)]
    /\ UNCHANGED <<rel, category, gps, work, decided, raced>>

(* DELETE: only a place no metadata row names. *)
PlaceDelete(p) ==
    /\ Count /\ PlaceFree(p) /\ Live(p)
    /\ \A f \in File : rel[f].place # p
    /\ place' = [place EXCEPT ![p] = Buried(@)]
    /\ UNCHANGED <<rel, category, gps, work, decided, raced>>

(* _merge_blocking_reasons *)
MergeBlocked(s, t) == s = t \/ ~Assignable(s) \/ ~Assignable(t)

(* merge: every relation moves to the target with its source, the source   *)
(* place is buried.                                                        *)
PlaceMerge(s, t) ==
    LET moved == {f \in File : rel[f].place = s}
        source(f) == IF rel[f].source = "NONE" THEN "USER" ELSE rel[f].source
    IN /\ Count /\ ~MergeBlocked(s, t) /\ PlaceFree(s) /\ PlaceFree(t)
       /\ FilesFree({f \in File : rel[f].place \in {s, t}})
       /\ rel' = [f \in File |-> IF f \in moved
                                 THEN SetRelation(rel[f], t, source(f), Distance(gps[f], t))
                                 ELSE rel[f]]
       /\ place' = [place EXCEPT ![s] = Buried(@), ![t].rev = @ + 1]
       /\ decided' = [f \in File |-> IF decided[f] = s THEN t ELSE decided[f]]
       /\ UNCHANGED <<category, gps, work, raced>>

(* assign_file and the batch: all files or none; p may be None for one     *)
(* file.  The revisions named by the client are the current ones.          *)
AssignPlace(F, p) ==
    /\ Count /\ F \subseteq live /\ FilesFree(F)
    /\ p # None => PlaceFree(p) /\ Assignable(p)
    /\ p = None => Cardinality(F) = 1
    /\ rel' = [f \in File |-> IF f \in F THEN SetRelation(rel[f], p, "USER", Distance(gps[f], p))
                                         ELSE rel[f]]
    /\ category' = [f \in File |-> IF f \in F /\ p # None THEN AsNormal(category[f]) ELSE category[f]]
    /\ decided' = [f \in File |-> IF f \in F THEN p ELSE decided[f]]
    /\ raced' = raced \ F
    /\ UNCHANGED <<place, gps, work>>

(* The category of a set of files.  DAILY takes the place away for good;   *)
(* back to NORMAL, a photo without a place may be matched again.           *)
SetCategory(F, daily) ==
    LET old(f) == rel[f]
        new(f) == CASE daily -> SetRelation(old(f), None, "USER", NoDistance)
                    [] ~daily /\ category[f].daily /\ old(f).place = None /\ old(f).source = "USER"
                         -> SetRelation(old(f), None, "AUTO_PLACE_MATCH", NoDistance)
                    [] OTHER -> old(f)
    IN /\ Count /\ F \subseteq live /\ FilesFree(F)
       /\ category' = [f \in File |-> IF f \in F /\ category[f].daily # daily
                                      THEN [daily |-> daily, rev |-> category[f].rev + 1]
                                      ELSE category[f]]
       /\ rel' = [f \in File |-> IF f \in F THEN new(f) ELSE rel[f]]
       /\ decided' = [f \in File |->
            CASE f \in F /\ daily -> None
              [] f \in F /\ new(f).source # "USER" -> Undecided
              [] OTHER -> decided[f]]
       /\ raced' = IF daily THEN raced \ F ELSE raced
       /\ UNCHANGED <<place, gps, work>>

----------------------------------------------------------------------------
(* Handlers that read, then commit.                                        *)

Start(w, r) ==
    /\ work[w].pc = "idle"
    /\ work' = [work EXCEPT ![w] = r]
    /\ UNCHANGED <<place, rel, category, gps, decided, raced, changes>>

(* pending.assign_place: photos without a place and not DAILY. *)
PendingRead(w, F, p) ==
    /\ F \subseteq live /\ FilesFree(F) /\ PlaceFree(p) /\ Assignable(p)
    /\ \A f \in F : rel[f].place = None /\ ~category[f].daily
    /\ Start(w, [Idle EXCEPT !.pc = "ready", !.op = "pending", !.files = F, !.snap = rel,
                   !.new = [f \in F |-> SetRelation(rel[f], p, "USER", Distance(gps[f], p))],
                   !.need = p, !.held = p])

(* patch_metadata with coordinates: a user's place keeps its photo, with a *)
(* new distance; otherwise the photo is matched again, or loses its place  *)
(* with its coordinates.  A place that its user has deactivated refuses    *)
(* the new distance, and the PATCH with it.                                *)
GpsRelation(f, g) ==
    LET m == Match(g, GeoName[f]) IN
    CASE category[f].daily -> rel[f]
      [] ~category[f].daily /\ rel[f].source = "USER" ->
           IF rel[f].place = None THEN rel[f]
           ELSE SetRelation(rel[f], rel[f].place, "USER", Distance(g, rel[f].place))
      [] ~category[f].daily /\ rel[f].source # "USER" /\ (g = NoGps \/ m.place = None) ->
           SetRelation(rel[f], None, "AUTO_PLACE_MATCH", NoDistance)
      [] OTHER -> SetRelation(rel[f], m.place, m.source, Distance(g, m.place))

GpsRead(w, f, g) ==
    LET new == GpsRelation(f, g) IN
    /\ f \in live /\ FilesFree({f})
    /\ ~category[f].daily /\ new.place # None => Assignable(new.place)
    /\ Start(w, [Idle EXCEPT !.pc = "ready", !.op = "gps", !.files = {f}, !.snap = rel,
                   !.new = [x \in {f} |-> new], !.gps = [x \in {f} |-> g],
                   !.need = IF new = rel[f] THEN None ELSE new.place])

(* reclassify: every photo that is not the user's, against one place. *)
ReclassifyRead(w, p, reassign) ==
    LET inside(f) == gps[f] # NoGps /\ Distance(gps[f], p) <= RadiusM
        free == {f \in live : gps[f] # NoGps /\ ~Blocked(f)}
        out == {f \in free : rel[f].place = p /\ ~inside(f)}
        take == {f \in free : inside(f) /\ (rel[f].place = None \/ (reassign /\ rel[f].place # p))}
    IN /\ Assignable(p)
       /\ out \cup take # {}
       /\ Start(w, [Idle EXCEPT !.pc = "ready", !.op = "auto", !.snap = rel,
                      !.new = [f \in out \cup take |->
                         IF f \in out THEN SetRelation(rel[f], None, "AUTO_PLACE_MATCH", NoDistance)
                         ELSE SetRelation(rel[f], p, "RADIUS", Distance(gps[f], p))],
                      !.need = IF take = {} THEN None ELSE p])

(* Mutant of AutoRead: the user's decision is not looked at. *)
AutoReadBlind(w, f) ==
    LET m == Match(gps[f], GeoName[f])
        read == [Idle EXCEPT !.op = "auto", !.snap = rel]
    IN /\ f \in live /\ gps[f] # NoGps
       /\ Start(w, IF m.place = None
                   THEN [read EXCEPT !.pc = "lookup", !.new = [x \in {f} |-> rel[f]]]
                   ELSE [read EXCEPT !.pc = "ready", !.need = m.place,
                           !.new = [x \in {f} |-> SetRelation(rel[f], m.place, m.source,
                                                              Distance(gps[f], m.place))]])

(* auto_match_file: the photo is matched; without a match the worker asks  *)
(* Google for a name first, an HTTP request.                               *)
AutoRead(w, f) ==
    LET m == Match(gps[f], GeoName[f])
        read == [Idle EXCEPT !.op = "auto", !.snap = rel]
    IN /\ f \in live /\ gps[f] # NoGps /\ ~Blocked(f)
       /\ Start(w, IF m.place = None
                   THEN [read EXCEPT !.pc = "lookup", !.new = [x \in {f} |-> rel[f]]]
                   ELSE [read EXCEPT !.pc = "ready", !.need = m.place,
                           !.new = [x \in {f} |-> SetRelation(rel[f], m.place, m.source,
                                                              Distance(gps[f], m.place))]])

(* auto_match_file of the repair scripts, which create no place: a photo   *)
(* without a match loses the place it has.                                 *)
AutoReadKnown(w, f) ==
    /\ f \in live /\ gps[f] # NoGps /\ ~Blocked(f)
    /\ Match(gps[f], GeoName[f]).place = None /\ rel[f].place # None
    /\ Start(w, [Idle EXCEPT !.pc = "ready", !.op = "auto", !.snap = rel,
                   !.new = [x \in {f} |-> SetRelation(rel[f], None, "AUTO_PLACE_MATCH", NoDistance)]])

(* choose: the best known spot nearby by the map service's ranking, or the *)
(* photo's own locality.  It may be any name.                              *)
ChosenNames(f) == Name

(* _auto_dedup_key: a place that was made for the same candidate. *)
Twin(f, n) == {p \in Place : Live(p) /\ place[p].auto /\ place[p].name = n /\ place[p].pos = gps[f]}

(* _resolve_or_create_candidate.  A place with the same name or within     *)
(* reach is taken; otherwise one is made.                                  *)
(* The unique auto_dedup_key makes the second of two equal inserts wait    *)
(* and take the first one's place; if that one is inactive it gives up.    *)
(* The lookup may have committed its usage counter, which makes the        *)
(* session read the relation again - but not the decision.                 *)
ResolveAs(w, f, n, fresh) ==
    LET m == Match(gps[f], n)
        snap == IF fresh THEN rel ELSE work[w].snap
        here == m.place
        unused == {p \in Place : place[p].st = "none"
                                 /\ \A v \in Workers : work[v].held # p}
        row == [st |-> "live", active |-> TRUE, rev |-> 1, pos |-> gps[f], name |-> n, auto |-> TRUE]
    IN /\ work[w].pc = "lookup" /\ gps[f] # NoGps
       /\ \A v \in Workers \ {w} : work[v].row # row
       /\ \/ /\ here # None
             /\ work' = [work EXCEPT ![w] = [@ EXCEPT !.pc = "ready", !.snap = snap, !.need = here,
                   !.late = fresh /\ Blocked(f),
                   !.new = [x \in {f} |-> SetRelation(snap[f], here, m.source, Distance(gps[f], here))]]]
          \/ \E p \in unused :
             /\ here = None /\ Twin(f, n) = {} /\ \A q \in unused : p <= q
             /\ work' = [work EXCEPT ![w] = [@ EXCEPT !.pc = "ready", !.snap = snap,
                   !.late = fresh /\ Blocked(f),
                   !.held = p, !.row = row,
                   !.new = [x \in {f} |-> SetRelation(snap[f], p, "AUTO_CREATED", 0)]]]
       /\ UNCHANGED <<place, rel, category, gps, decided, raced, changes>>

ResolveCandidate(w) ==
    \E f \in DOMAIN work[w].new : \E n \in ChosenNames(f), fresh \in BOOLEAN : ResolveAs(w, f, n, fresh)

(* The end: _set_relation locks the place, which must not be deleted by    *)
(* now, and the commit writes.  A place that was deactivated meanwhile     *)
(* passes: the session still holds it as active.  The history rows of a    *)
(* change wait for whoever has locked the file.                            *)
Finish(w) ==
    LET k == work[w]
        written == {f \in DOMAIN k.new : k.new[f] # k.snap[f]}
        overtaken == {f \in written : k.op = "auto" /\ (rel[f] # k.snap[f] \/ k.late)}
    IN /\ Count /\ k.pc = "ready"
       /\ \A v \in Workers \ {w} : work[v].files \cap written = {}
       /\ k.need # None => k.need \in LivePlaces /\ \A v \in Workers \ {w} : work[v].held # k.need
       /\ rel' = [f \in File |-> IF f \in written THEN WriteColumns(rel[f], k.snap[f], k.new[f]) ELSE rel[f]]
       /\ place' = IF k.row = NoPlaceRow THEN place ELSE [place EXCEPT ![k.held] = k.row]
       /\ category' = IF k.op = "pending"
                      THEN [f \in File |-> IF f \in k.files THEN AsNormal(category[f]) ELSE category[f]]
                      ELSE category
       /\ gps' = [f \in File |-> IF f \in DOMAIN k.gps THEN k.gps[f] ELSE gps[f]]
       /\ decided' = IF k.op = "pending"
                     THEN [f \in File |-> IF f \in k.files THEN k.need ELSE decided[f]]
                     ELSE decided
       /\ raced' = raced \cup overtaken
       /\ work' = [work EXCEPT ![w] = Idle]

(* A deleted place is an HTTPException; a handler may also fail or crash. *)
PlaceGiveUp(w) ==
    /\ work[w].pc # "idle"
    /\ work' = [work EXCEPT ![w] = Idle]
    /\ UNCHANGED <<place, rel, category, gps, decided, raced, changes>>

NoRelation == [place |-> None, source |-> "NONE", distance |-> NoDistance, rev |-> 0]

(* A new photo has no place yet; its coordinates come from the file. *)
PlaceOfNew(f) ==
    /\ \E g \in Position : gps' = [gps EXCEPT ![f] = g]
    /\ UNCHANGED <<place, rel, category, work, decided, raced>>

(* delete unlinks the place and the cleanup removes the metadata row.  The *)
(* commit of a session that has read it finds no row and fails.            *)
PlaceOfDeleted(f) ==
    /\ FilesFree({f})
    /\ rel' = [rel EXCEPT ![f] = NoRelation]
    /\ category' = [category EXCEPT ![f] = [daily |-> FALSE, rev |-> 0]]
    /\ gps' = [gps EXCEPT ![f] = NoGps]
    /\ work' = [w \in Workers |-> IF f \in DOMAIN work[w].new THEN Idle ELSE work[w]]
    /\ decided' = [decided EXCEPT ![f] = Undecided]
    /\ raced' = raced \ {f}
    /\ UNCHANGED place

----------------------------------------------------------------------------
PlacesTypeOK ==
    /\ place \in [Place -> PlaceRow]
    /\ rel \in [File -> Relation]
    /\ category \in [File -> [daily: BOOLEAN, rev: Nat]]
    /\ gps \in [File -> Position \cup {NoGps}]
    /\ decided \in [File -> Place \cup {None, Undecided}]
    /\ raced \subseteq File

(* Some places are registered, no photo has been matched yet. *)
PlacesInit ==
    /\ place \in [Place -> {NoPlaceRow} \cup RegisteredRows]
    /\ \A p, q \in Place : p < q /\ place[p] = NoPlaceRow => place[q] = NoPlaceRow
    /\ rel = [f \in File |-> NoRelation]
    /\ category = [f \in File |-> [daily |-> FALSE, rev |-> 0]]
    /\ gps \in {g \in [File -> Position \cup {NoGps}] : \A f \in File : f \in live <=> g[f] # NoGps}
    /\ work = [w \in Workers |-> Idle]
    /\ decided = [f \in File |-> Undecided]
    /\ raced = {}

PlacesNext ==
    \/ PlaceCreate
    \/ \E p \in Place : PlaceUpdate(p) \/ PlaceDelete(p) \/ \E q \in Place : PlaceMerge(p, q)
    \/ \E F \in SUBSET File \ {{}} :
          \/ \E p \in Place \cup {None} : AssignPlace(F, p)
          \/ \E daily \in BOOLEAN : SetCategory(F, daily)
          \/ \E w \in Workers, p \in Place : PendingRead(w, F, p)
    \/ \E w \in Workers :
          \/ \E f \in File : \/ AutoRead(w, f) \/ AutoReadKnown(w, f)
                            \/ \E g \in Position \cup {NoGps} : GpsRead(w, f, g)
          \/ \E p \in Place, again \in BOOLEAN : ReclassifyRead(w, p, again)
          \/ ResolveCandidate(w) \/ Finish(w) \/ PlaceGiveUp(w)

----------------------------------------------------------------------------
(* A photo's place exists: no order of matching, merging and deleting      *)
(* leaves a photo on a deleted place.                                      *)
ReferencesLive == \A f \in File : rel[f].place # None => Live(rel[f].place)

(* A user's decision (a place, no place, or DAILY) stands until the user   *)
(* changes it or the place is merged away - unless an automatic writer had *)
(* read the photo before the decision and committed after it.              *)
UserDecisionStands ==
    \A f \in File \ raced : decided[f] # Undecided =>
       /\ rel[f].place = decided[f] /\ rel[f].source = "USER"
       /\ category[f].daily => rel[f].place = None

(* "An explicit USER assignment or unlink is authoritative and is never    *)
(* replaced by the upload worker's automatic matcher."                     *)
UserDecisionIsFinal ==
    [][\A f \in live' : rel[f].source = "USER" /\ decided'[f] = decided[f] =>
          rel'[f].source = "USER" /\ rel'[f].place = rel[f].place]_placeVars

============================================================================
