------------------------------ MODULE Gallery ------------------------------
(***************************************************************************)
(* What clients read of the library while it changes: the pages of the     *)
(* gallery, its hierarchy of years and places, and the travel records.     *)
(*                                                                         *)
(* A page is one query.  Between two pages the client holds a cursor, the  *)
(* sort key of the last photo it was given, and anybody may change the     *)
(* library.                                                                *)
(***************************************************************************)
EXTENDS Library, Functions

CONSTANTS
    Label,          \* names of countries, regions and places
    NoLabel,        \* NULL
    Blank,          \* a label of white space
    RawLocation,    \* country, region and place in each photo's metadata
    PlaceLocation,  \* country, region and display name of each place
    Limit,          \* photos on a page
    Today           \* the reference date of the memories

Level == {"country", "region", "place"}

ASSUME GalleryAssumption ==
    /\ IsFiniteSet(File) /\ Limit \in Nat \ {0} /\ Today \in Nat
    /\ RawLocation \in [File -> [Level -> Label \cup {NoLabel, Blank}]]
    /\ PlaceLocation \in [Place -> [Level -> Label \cup {NoLabel, Blank}]]
    /\ \A p \in Place : PlaceLocation[p]["place"] # NoLabel  \* display_name is not nullable

VARIABLE pager  \* the client that pages through the photos of a filter

galleryVars == <<vars, pager>>

----------------------------------------------------------------------------
(* The location of a photo: its place's labels first, then its own.        *)

Coalesce(a, b) == IF a # NoLabel THEN a ELSE b

Location(f) ==
    [l \in Level |-> LET p == rel[f].place
                     IN IF p # None /\ Live(p) THEN Coalesce(PlaceLocation[p][l], RawLocation[f][l])
                        ELSE RawLocation[f][l]]

NoLocation == [l \in Level |-> NoLabel]

(* normal_photo_condition, location_hierarchy_complete_condition,          *)
(* location_hierarchy_incomplete_condition                                 *)
Normal(f) == ~category[f].daily
Complete(f) == \A l \in Level : Location(f)[l] \notin {NoLabel, Blank}
Unclassified(f) == Normal(f) /\ ~Complete(f)

(* The photos the gallery knows: live, linked, with a year. *)
InGallery(f) == f \in live /\ date[f] # NoState /\ date[f].year # None

(* Precision YEAR, no exact date. *)
DateUnclassified(f) == date[f].at = None /\ date[f].basis = "SOURCE_YEAR"

----------------------------------------------------------------------------
(* /photos: filters, order, cursor.                                        *)

NoKey == [kind |-> "none", place |-> None, loc |-> NoLocation]
Registered(p) == [NoKey EXCEPT !.kind = "registered", !.place = p]
Raw(loc) == [NoKey EXCEPT !.kind = "raw", !.loc = loc]

(* year None, category "ANY", a country or region NoLabel: no condition. *)
AnyPhoto == [year |-> None, category |-> "ANY", unclassified |-> FALSE, yearOnly |-> FALSE,
             key |-> NoKey, country |-> NoLabel, region |-> NoLabel]

(* _validate_date_unclassified, _validate_category_parameters,             *)
(* _validate_unclassified_parameters                                       *)
Valid(q) ==
    /\ q.yearOnly => q.year # None
    /\ q.category = "DAILY" => ~q.unclassified /\ q.key = NoKey /\ q.country = NoLabel /\ q.region = NoLabel
    /\ q.unclassified => q.key = NoKey

(* The conditions on the location; any of them asks for a NORMAL photo. *)
AtLocation(f, q) ==
    LET loc == Location(f)
        refined == q.country \in {NoLabel, loc["country"]} /\ q.region \in {NoLabel, loc["region"]}
    IN CASE q.key.kind = "registered" -> Normal(f) /\ rel[f].place = q.key.place /\ refined
         [] q.key.kind = "raw" -> IF q.key.loc = NoLocation THEN Unclassified(f)
                                  ELSE Normal(f) /\ rel[f].place = None /\ loc = q.key.loc
         [] OTHER -> refined /\ (q.country # NoLabel \/ q.region # NoLabel => Normal(f))

Matches(f, q) ==
    /\ InGallery(f)
    /\ q.yearOnly => DateUnclassified(f)
    /\ q.year \in {None, date[f].year}
    /\ q.category # "ANY" => (q.category = "DAILY" <=> category[f].daily)
    /\ q.unclassified => Unclassified(f)
    /\ AtLocation(f, q)

Matching(q) == {f \in File : Matches(f, q)}

(* The order: year, then date (none last), then id, each descending; by id *)
(* alone among the photos of precision YEAR.                               *)
SortKey(f) == [year |-> date[f].year, at |-> date[f].at, id |-> f]

NoCursor == [year |-> None, at |-> None, id |-> None]

(* Mutant of Beyond: photos without a date do not follow those with one. *)
BeyondExact(k, c, yearOnly) ==
    \/ c = NoCursor
    \/ c # NoCursor /\ yearOnly /\ k.id < c.id
    \/ c # NoCursor /\ ~yearOnly /\
         \/ k.year < c.year
         \/ /\ k.year = c.year
            /\ IF c.at = None THEN k.at = None /\ k.id < c.id
               ELSE k.at # None /\ (k.at < c.at \/ (k.at = c.at /\ k.id < c.id))

(* The condition of the cursor. *)
Beyond(k, c, yearOnly) ==
    \/ c = NoCursor
    \/ c # NoCursor /\ yearOnly /\ k.id < c.id
    \/ c # NoCursor /\ ~yearOnly /\
         \/ k.year < c.year
         \/ /\ k.year = c.year
            /\ IF c.at = None THEN k.at = None /\ k.id < c.id
               ELSE k.at = None \/ k.at < c.at \/ (k.at = c.at /\ k.id < c.id)

Precedes(j, k, yearOnly) ==
    IF yearOnly THEN j.id > k.id
    ELSE \/ j.year > k.year
         \/ /\ j.year = k.year
            /\ \/ j.at # None /\ (k.at = None \/ j.at > k.at)
               \/ j.at = k.at /\ j.id > k.id

(* The rows after the cursor; ORDER BY and LIMIT: those that fewer than    *)
(* Limit others come before; the last of them.                             *)
Found(q, c) == {f \in Matching(q) : Beyond(SortKey(f), c, q.yearOnly)}

Before(f, F, q) == {g \in F : Precedes(SortKey(g), SortKey(f), q.yearOnly)}

Page(F, q) == {f \in F : Cardinality(Before(f, F, q)) < Limit}

LastOf(P, q) == CHOOSE f \in P : Before(f, P, q) = P \ {f}

(* encode_cursor and decode_cursor keep the three values; a cursor of      *)
(* version 1 holds a date and the year is the date's.                      *)
Decoded(version, k) == IF version = 1 /\ k.at # None THEN [k EXCEPT !.year = YearOf(k.at)] ELSE k

NoPager == [pc |-> "idle", q |-> AnyPhoto, cursor |-> NoCursor, seen |-> {}, again |-> {}, moved |-> {},
            strayed |-> FALSE]

(* MemoryKeeperFastGalleryService.photos.  The client asks for the first   *)
(* page, then for the page after its cursor, until there is no cursor.     *)
(* strayed: history, a cursor of version 1 was made of a photo whose year  *)
(* a stale session has torn from its date.                                 *)
PageOf(q, c, seen, again) ==
    LET found == Found(q, c)
        page == Page(found, q)
        more == Cardinality(found) > Limit
        key == SortKey(LastOf(page, q))
    IN \E version \in {1, 2} :
          pager' = [pager EXCEPT !.pc = IF more THEN "paging" ELSE "done", !.q = q,
                       !.cursor = IF more THEN Decoded(version, key) ELSE NoCursor,
                       !.seen = seen \cup page, !.again = again \cup (seen \cap page),
                       !.moved = IF c = NoCursor THEN {} ELSE @,
                       !.strayed = @ \/ (more /\ key.id \in torn /\ Decoded(version, key) # key)]

FirstPage(q) ==
    /\ pager.pc = "idle" /\ Valid(q)
    /\ PageOf(q, NoCursor, {}, {})
    /\ UNCHANGED vars

NextPage ==
    /\ pager.pc = "paging"
    /\ PageOf(pager.q, pager.cursor, pager.seen, pager.again)
    /\ UNCHANGED vars

PagingEnds ==
    /\ pager.pc = "done"
    /\ pager' = NoPager
    /\ UNCHANGED vars

(* History: the photos that a change moves within, into or out of what the *)
(* client pages through.                                                   *)
Moved(q) == {f \in File : ~(Matches(f, q) <=> Matches(f, q)') \/ SortKey(f) # SortKey(f)'}

GalleryInit == Init /\ pager = NoPager

(* What the client may ask for: all of it, a year's photos without a date, *)
(* without a location, or of one category.                                 *)
Query == {AnyPhoto} \cup {[AnyPhoto EXCEPT !.category = c] : c \in {"DAILY", "NORMAL"}}
                    \cup {[AnyPhoto EXCEPT !.year = y, !.yearOnly = TRUE] : y \in UNION Range(SourceYears)}
                    \cup {[AnyPhoto EXCEPT !.unclassified = TRUE]}

(* A change of the library, whatever the client is doing. *)
Meanwhile(A) ==
    /\ A
    /\ \E q \in {pager.q} :
          pager' = IF pager.pc = "idle" THEN pager ELSE [pager EXCEPT !.moved = @ \cup Moved(q)]

GalleryNext ==
    \/ Meanwhile(Next)
    \/ \E q \in Query : FirstPage(q)
    \/ NextPage \/ PagingEnds

GallerySpec == GalleryInit /\ [][GalleryNext]_galleryVars

(* A client that pages to the end has seen every photo of its filter that  *)
(* no change moved, none of them twice, and no photo that was never in it; *)
(* but for one that holds a cursor of version 1 with another year than the *)
(* photo's.                                                                *)
PagesExact ==
    ~pager.strayed =>
       /\ pager.again \subseteq pager.moved
       /\ pager.pc = "done" =>
            \A f \in File \ pager.moved : f \in pager.seen <=> Matches(f, pager.q)

=============================================================================
