---------------------------- MODULE PlacesProofs ----------------------------
(***************************************************************************)
(* What TLAPS proves of the places, as part of the library, for every set  *)
(* of photos, places, positions, names and sessions and any number of      *)
(* commits: a photo's place exists (ReferencesLive), and what a user has   *)
(* decided stands unless an automatic writer is known to have overtaken    *)
(* the decision (UserDecisionStands).                                      *)
(*                                                                         *)
(* Both rest on what a session that reads first and commits later may      *)
(* rely on: the photos whose files it has locked are as it has read them,  *)
(* no automatic session has read a user's decision, and what it writes is  *)
(* the place it checks again at the end.                                   *)
(***************************************************************************)
EXTENDS Library, TLAPS

(* The columns of a relation. *)
RelationColumns(r) == r = [place |-> r.place, source |-> r.source, distance |-> r.distance, rev |-> r.rev]

(* The columns of a place that the steps change one by one. *)
PlaceColumns == {"st", "active", "pos", "rev", "auto"}

SessionFields == {"pc", "op", "files", "snap", "new", "need", "held", "gps", "row", "late"}

(* live, and every table, has its rows with their columns. *)
PlacesShape ==
    /\ live \subseteq File
    /\ DOMAIN place = Place /\ \A p \in Place : PlaceColumns \subseteq DOMAIN place[p]
    /\ DOMAIN rel = File /\ \A f \in File : RelationColumns(rel[f])
    /\ DOMAIN category = File /\ \A f \in File : {"daily", "rev"} \subseteq DOMAIN category[f]
    /\ DOMAIN decided = File
    /\ DOMAIN work = Workers /\ \A w \in Workers : DOMAIN work[w] = SessionFields

ReferenceOK(r) == r.place # None => r.place \in LivePlaces

(* A session's new relations lead to a place that it locks and checks      *)
(* again (need), to one that it makes (held), to none, or nowhere else     *)
(* than before.                                                            *)
Destinations(k) ==
    {None, k.need} \cup (IF k.row = NoPlaceRow THEN {} ELSE {k.held})

DestinationOK(k) ==
    /\ k.row # NoPlaceRow => /\ k.held \in Place /\ k.row.st = "live"
                             /\ PlaceColumns \subseteq DOMAIN k.row
    /\ k.pc = "ready" => \A f \in DOMAIN k.new :
          k.new[f].place = k.snap[f].place \/ k.new[f].place \in Destinations(k)

(* What a session has read of the photos it writes, and what it means to   *)
(* do about a user's decision.                                             *)
DecisionOK(k) ==
    /\ k.op = "pending" =>
          /\ k.pc = "ready" /\ DOMAIN k.new = k.files
          /\ \A f \in k.files : k.new[f].place = k.need /\ k.new[f].source = "USER"
    /\ k.op = "gps" =>
          /\ k.pc = "ready" /\ DOMAIN k.new = k.files
          /\ \A f \in k.files : k.snap[f].source = "USER" =>
                k.new[f].place = k.snap[f].place /\ k.new[f].source = "USER"
    /\ k.op \notin {"pending", "gps"} =>
          /\ k.op = "auto" /\ k.files = {}
          /\ k.pc = "lookup" => ~k.late
          /\ ~k.late => \A f \in DOMAIN k.new : k.snap[f].source # "USER"

ReadOK(k) ==
    /\ DOMAIN k.snap = File /\ \A f \in File : RelationColumns(k.snap[f])
    /\ DOMAIN k.new \subseteq File /\ \A f \in DOMAIN k.new : RelationColumns(k.new[f])
    /\ k.files \subseteq File

PlaceSessionOK(k) ==
    IF k.pc = "idle" THEN k.files = {} ELSE ReadOK(k) /\ DestinationOK(k) /\ DecisionOK(k)

(* A file that a session has locked is as the session has read it. *)
LockedOK(k) == k.pc # "idle" => \A f \in k.files : rel[f] = k.snap[f]

DecisionStands(f) ==
    f \notin raced /\ decided[f] # Undecided =>
       /\ rel[f].place = decided[f] /\ rel[f].source = "USER"
       /\ category[f].daily => rel[f].place = None

PlacesInv ==
    /\ PlacesShape
    /\ \A f \in File : ReferenceOK(rel[f])
    /\ \A w \in Workers : PlaceSessionOK(work[w]) /\ LockedOK(work[w])
    /\ \A v, w \in Workers : v # w => work[v].files \cap work[w].files = {}
    /\ \A f \in File : DecisionStands(f)

----------------------------------------------------------------------------
(* _set_relation writes the place and the source it is given. *)
LEMMA SetRelationSets ==
    ASSUME NEW old, NEW p, NEW source, NEW distance, RelationColumns(old)
    PROVE  LET new == SetRelation(old, p, source, distance) IN
           RelationColumns(new) /\ new.place = p /\ new.source = source
<1> DEFINE new == [place |-> p, source |-> source, distance |-> distance, rev |-> old.rev + 1]
           same == [new EXCEPT !.rev = old.rev]
<1>1. RelationColumns(new) /\ new.place = p /\ new.source = source
  BY DEF RelationColumns
<1>2. same.place = p /\ same.source = source
  OBVIOUS
<1>3. SetRelation(old, p, source, distance) = IF same = old THEN old ELSE new
  BY DEF SetRelation
<1> HIDE DEF new, same
<1> QED BY <1>1, <1>2, <1>3

(* A commit writes the columns that differ from what was read. *)
LEMMA WriteRelation ==
    ASSUME NEW now, NEW snap, NEW new, RelationColumns(now), RelationColumns(snap), RelationColumns(new)
    PROVE  LET row == WriteColumns(now, snap, new) IN
           /\ RelationColumns(row)
           /\ row.place = IF new.place # snap.place THEN new.place ELSE now.place
           /\ row.source = IF new.source # snap.source THEN new.source ELSE now.source
  BY DEF RelationColumns, WriteColumns

----------------------------------------------------------------------------
(* A change of the tables that leaves alone the photos some session has    *)
(* locked.                                                                 *)
LEMMA SessionsStay ==
    ASSUME PlacesInv, PlacesShape', work' = work,
           \A f \in File : ReferenceOK(rel[f])',
           \A f \in File : DecisionStands(f)',
           \A f \in File : rel'[f] # rel[f] => \A w \in Workers : f \notin work[w].files
    PROVE  PlacesInv'
<1>1. \A w \in Workers : PlaceSessionOK(work[w])' /\ LockedOK(work[w])'
  <2> TAKE w \in Workers
  <2>1. PlaceSessionOK(work[w]) /\ LockedOK(work[w])
    BY DEF PlacesInv
  <2>2. work[w].files \subseteq File
    BY <2>1 DEF PlaceSessionOK, ReadOK
  <2> QED BY <2>1, <2>2 DEF LockedOK, PlaceSessionOK, ReadOK, DestinationOK, DecisionOK, Destinations
<1> QED BY <1>1 DEF PlacesInv

(* A session that has just read, or has come to its end. *)
LEMMA SessionStarts ==
    ASSUME PlacesInv, NEW w \in Workers, NEW k, work' = [work EXCEPT ![w] = k],
           UNCHANGED <<live, place, rel, category, decided, raced>>,
           DOMAIN k = SessionFields, PlaceSessionOK(k), LockedOK(k), FilesFree(k.files) \/ k.files = work[w].files
    PROVE  PlacesInv'
<1>1. PlacesShape'
  BY DEF PlacesInv, PlacesShape
<1>2. \A f \in File : ReferenceOK(rel[f])' /\ DecisionStands(f)'
  BY DEF PlacesInv, ReferenceOK, DecisionStands, LivePlaces, Live
<1>3. \A v \in Workers : work'[v] = IF v = w THEN k ELSE work[v]
  BY DEF PlacesInv, PlacesShape
<1>4. \A v \in Workers : PlaceSessionOK(work[v])' /\ LockedOK(work[v])'
  <2> TAKE v \in Workers
  <2>1. PlaceSessionOK(work'[v])
    BY <1>3 DEF PlacesInv
  <2>2. LockedOK(work[v])'
    BY <1>3 DEF PlacesInv, LockedOK
  <2> QED BY <2>1, <2>2 DEF LockedOK, PlaceSessionOK, ReadOK, DestinationOK, DecisionOK, Destinations
<1>5. \A u, v \in Workers : u # v => work'[u].files \cap work'[v].files = {}
  BY <1>3 DEF PlacesInv, FilesFree
<1> QED BY <1>1, <1>2, <1>4, <1>5 DEF PlacesInv

LEMMA IdleSession ==
    DOMAIN Idle = SessionFields /\ PlaceSessionOK(Idle) /\ LockedOK(Idle) /\ Idle.files = {}
  BY DEF Idle, SessionFields, PlaceSessionOK, LockedOK

(* Ids: None names no place, and no decision is not a decision for none. *)
LEMMA PlaceIds == None \notin Place /\ Undecided \notin Place /\ Undecided # None
  BY PlacesAssumption DEF None, Undecided

LEMMA RegisteredColumns ==
    /\ \A r \in RegisteredRows : PlaceColumns \subseteq DOMAIN r /\ r.st = "live"
    /\ PlaceColumns \subseteq DOMAIN NoPlaceRow
<1>1. \A x, n : PlaceColumns \subseteq DOMAIN RegisteredRow(x, n) /\ RegisteredRow(x, n).st = "live"
  BY DEF RegisteredRow, PlaceColumns
<1>2. PlaceColumns \subseteq DOMAIN NoPlaceRow
  BY DEF NoPlaceRow, PlaceColumns
<1> QED BY <1>1, <1>2 DEF RegisteredRows

(* A new or a changed place stays where the photos' relations find it. *)
LEMMA PlaceRegistered ==
    ASSUME PlacesInv, PlaceCreate, live' = live
    PROVE  PlacesInv'
<1> PICK p \in Place, r \in RegisteredRows : place' = [place EXCEPT ![p] = r]
  BY DEF PlaceCreate
<1>0. PlaceColumns \subseteq DOMAIN r /\ r.st = "live"
  BY RegisteredColumns
<1>1. UNCHANGED <<rel, category, work, decided, raced>>
  BY DEF PlaceCreate
<1>2. PlacesShape'
  BY <1>0, <1>1 DEF PlacesInv, PlacesShape
<1>3. LivePlaces \subseteq LivePlaces'
  BY <1>0 DEF PlacesInv, PlacesShape, LivePlaces, Live
<1>4. \A f \in File : ReferenceOK(rel[f])'
  BY <1>1, <1>3 DEF PlacesInv, ReferenceOK
<1>5. \A f \in File : DecisionStands(f)'
  BY <1>1 DEF PlacesInv, DecisionStands
<1> QED BY <1>1, <1>2, <1>4, <1>5, SessionsStay

LEMMA PlaceChanged ==
    ASSUME PlacesInv, NEW p \in Place, PlaceUpdate(p), live' = live
    PROVE  PlacesInv'
<1> PICK on \in BOOLEAN, x \in Position :
      place' = [place EXCEPT ![p].active = on, ![p].pos = x, ![p].rev = @ + 1]
  BY DEF PlaceUpdate
<1>1. UNCHANGED <<rel, category, work, decided, raced>>
  BY DEF PlaceUpdate
<1>2. /\ DOMAIN place' = Place
      /\ \A q \in Place : DOMAIN place'[q] = DOMAIN place[q] /\ place'[q].st = place[q].st
  BY DEF PlacesInv, PlacesShape
<1>3. PlacesShape'
  BY <1>1, <1>2 DEF PlacesInv, PlacesShape
<1>4. LivePlaces' = LivePlaces
  BY <1>2 DEF LivePlaces, Live
<1>5. \A f \in File : ReferenceOK(rel[f])'
  BY <1>1, <1>4 DEF PlacesInv, ReferenceOK
<1>6. \A f \in File : DecisionStands(f)'
  BY <1>1 DEF PlacesInv, DecisionStands
<1> QED BY <1>1, <1>3, <1>5, <1>6, SessionsStay

(* delete: no photo is on the place. *)
LEMMA PlaceDeleted ==
    ASSUME PlacesInv, NEW p \in Place, PlaceDelete(p), live' = live
    PROVE  PlacesInv'
<1>1. /\ UNCHANGED <<rel, category, work, decided, raced>>
      /\ place' = [place EXCEPT ![p] = Buried(@)]
      /\ \A f \in File : rel[f].place # p
  BY DEF PlaceDelete
<1>2. /\ DOMAIN place' = Place
      /\ \A q \in Place : DOMAIN place'[q] = DOMAIN place[q] /\ (q # p => place'[q] = place[q])
  BY <1>1 DEF PlacesInv, PlacesShape, Buried
<1>3. PlacesShape'
  BY <1>1, <1>2 DEF PlacesInv, PlacesShape
<1>4. LivePlaces \ {p} \subseteq LivePlaces'
  BY <1>2 DEF LivePlaces, Live
<1>5. \A f \in File : ReferenceOK(rel[f])'
  BY <1>1, <1>4 DEF PlacesInv, ReferenceOK
<1>6. \A f \in File : DecisionStands(f)'
  BY <1>1 DEF PlacesInv, DecisionStands
<1> QED BY <1>1, <1>3, <1>5, <1>6, SessionsStay

(* merge: the photos of the source follow it to the target, and so do the  *)
(* decisions for it.                                                       *)
LEMMA PlaceMerged ==
    ASSUME PlacesInv, NEW s \in Place, NEW t \in Place, PlaceMerge(s, t), live' = live
    PROVE  PlacesInv'
<1> DEFINE source(f) == IF rel[f].source = "NONE" THEN "USER" ELSE rel[f].source
           moved == {f \in File : rel[f].place = s}
<1>1. /\ UNCHANGED <<category, work, raced>>
      /\ s # t /\ Live(t)
      /\ FilesFree({f \in File : rel[f].place \in {s, t}})
      /\ rel' = [f \in File |-> IF f \in moved
                                THEN SetRelation(rel[f], t, source(f), Distance(gps[f], t))
                                ELSE rel[f]]
      /\ place' = [place EXCEPT ![s] = Buried(@), ![t].rev = @ + 1]
      /\ decided' = [f \in File |-> IF decided[f] = s THEN t ELSE decided[f]]
  BY DEF PlaceMerge, MergeBlocked, Assignable
<1>2. /\ DOMAIN place' = Place
      /\ \A q \in Place : DOMAIN place'[q] = DOMAIN place[q] /\ (q # s => place'[q].st = place[q].st)
  BY <1>1 DEF PlacesInv, PlacesShape, PlaceColumns, Buried
<1>3. \A f \in File :
        /\ RelationColumns(rel'[f])
        /\ f \in moved => rel'[f].place = t /\ rel'[f].source = source(f)
        /\ f \notin moved => rel'[f] = rel[f]
  <2> TAKE f \in File
  <2>1. CASE f \in moved
    <3>1. rel'[f] = SetRelation(rel[f], t, source(f), Distance(gps[f], t)) /\ RelationColumns(rel[f])
      BY <1>1, <2>1 DEF PlacesInv, PlacesShape
    <3> HIDE DEF source
    <3> QED BY <2>1, <3>1, SetRelationSets
  <2>2. CASE f \notin moved
    BY <1>1, <2>2 DEF PlacesInv, PlacesShape
  <2> QED BY <2>1, <2>2
<1>4. PlacesShape'
  BY <1>1, <1>2, <1>3 DEF PlacesInv, PlacesShape
<1>5. LivePlaces \ {s} \subseteq LivePlaces' /\ t \in LivePlaces'
  BY <1>1, <1>2 DEF LivePlaces, Live
<1>6. \A f \in File : ReferenceOK(rel[f])'
  BY <1>3, <1>5 DEF PlacesInv, ReferenceOK
<1>7. \A f \in File : DecisionStands(f)'
  <2> TAKE f \in File
  <2>1. DecisionStands(f) /\ decided'[f] = IF decided[f] = s THEN t ELSE decided[f]
    BY <1>1 DEF PlacesInv
  <2> QED BY <1>1, <1>3, <2>1, PlaceIds DEF DecisionStands
<1>8. \A f \in File : rel'[f] # rel[f] => \A w \in Workers : f \notin work[w].files
  BY <1>1, <1>3 DEF FilesFree
<1> HIDE DEF moved, source
<1> QED BY <1>1, <1>4, <1>6, <1>7, <1>8, SessionsStay

(* assign: a user's decision for a live place, or for none. *)
LEMMA PlaceAssigned ==
    ASSUME PlacesInv, NEW F \in SUBSET File, NEW p \in Place \cup {None}, AssignPlace(F, p), live' = live
    PROVE  PlacesInv'
<1>1. /\ UNCHANGED <<place, work>>
      /\ FilesFree(F) /\ (p # None => Live(p))
      /\ rel' = [f \in File |-> IF f \in F THEN SetRelation(rel[f], p, "USER", Distance(gps[f], p))
                                           ELSE rel[f]]
      /\ category' = [f \in File |-> IF f \in F /\ p # None THEN AsNormal(category[f]) ELSE category[f]]
      /\ decided' = [f \in File |-> IF f \in F THEN p ELSE decided[f]]
      /\ raced' = raced \ F
  BY DEF AssignPlace, Assignable
<1>2. \A f \in File :
        /\ RelationColumns(rel'[f])
        /\ f \in F => rel'[f].place = p /\ rel'[f].source = "USER"
        /\ f \notin F => rel'[f] = rel[f]
  <2> TAKE f \in File
  <2>1. CASE f \in F
    <3>1. rel'[f] = SetRelation(rel[f], p, "USER", Distance(gps[f], p)) /\ RelationColumns(rel[f])
      BY <1>1, <2>1 DEF PlacesInv, PlacesShape
    <3> QED BY <2>1, <3>1, SetRelationSets
  <2>2. CASE f \notin F
    BY <1>1, <2>2 DEF PlacesInv, PlacesShape
  <2> QED BY <2>1, <2>2
<1>3. \A f \in File :
        /\ {"daily", "rev"} \subseteq DOMAIN category'[f]
        /\ f \in F /\ p # None => ~category'[f].daily
        /\ f \notin F => category'[f] = category[f]
  BY <1>1 DEF PlacesInv, PlacesShape, AsNormal
<1>4. PlacesShape'
  BY <1>1, <1>2, <1>3 DEF PlacesInv, PlacesShape
<1>5. \A f \in File : ReferenceOK(rel[f])'
  BY <1>1, <1>2 DEF PlacesInv, ReferenceOK, LivePlaces, Live
<1>6. \A f \in File : DecisionStands(f)'
  BY <1>1, <1>2, <1>3 DEF PlacesInv, DecisionStands
<1>7. \A f \in File : rel'[f] # rel[f] => \A w \in Workers : f \notin work[w].files
  BY <1>1, <1>2 DEF FilesFree
<1> QED BY <1>1, <1>4, <1>5, <1>6, <1>7, SessionsStay

(* The category: DAILY decides for no place; NORMAL takes that decision    *)
(* back.                                                                   *)
LEMMA CategoryChanged ==
    ASSUME PlacesInv, NEW F \in SUBSET File, NEW daily \in BOOLEAN, SetCategory(F, daily), live' = live
    PROVE  PlacesInv'
<1> DEFINE new(f) ==
             CASE daily -> SetRelation(rel[f], None, "USER", NoDistance)
               [] ~daily /\ category[f].daily /\ rel[f].place = None /\ rel[f].source = "USER"
                    -> SetRelation(rel[f], None, "AUTO_PLACE_MATCH", NoDistance)
               [] OTHER -> rel[f]
<1>1. /\ UNCHANGED <<place, work>>
      /\ FilesFree(F)
      /\ category' = [f \in File |-> IF f \in F /\ category[f].daily # daily
                                     THEN [daily |-> daily, rev |-> category[f].rev + 1]
                                     ELSE category[f]]
      /\ rel' = [f \in File |-> IF f \in F THEN new(f) ELSE rel[f]]
      /\ decided' = [f \in File |->
           CASE f \in F /\ daily -> None
             [] f \in F /\ new(f).source # "USER" -> Undecided
             [] OTHER -> decided[f]]
      /\ raced' = IF daily THEN raced \ F ELSE raced
  BY DEF SetCategory
<1>2. \A f \in File :
        /\ RelationColumns(new(f))
        /\ daily => new(f).place = None /\ new(f).source = "USER"
        /\ ~daily => new(f) = rel[f] \/ (new(f).place = None /\ new(f).source = "AUTO_PLACE_MATCH")
  <2> TAKE f \in File
  <2>1. RelationColumns(rel[f])
    BY DEF PlacesInv, PlacesShape
  <2>2. /\ RelationColumns(SetRelation(rel[f], None, "USER", NoDistance))
        /\ SetRelation(rel[f], None, "USER", NoDistance).place = None
        /\ SetRelation(rel[f], None, "USER", NoDistance).source = "USER"
    BY <2>1, SetRelationSets
  <2>3. /\ RelationColumns(SetRelation(rel[f], None, "AUTO_PLACE_MATCH", NoDistance))
        /\ SetRelation(rel[f], None, "AUTO_PLACE_MATCH", NoDistance).place = None
        /\ SetRelation(rel[f], None, "AUTO_PLACE_MATCH", NoDistance).source = "AUTO_PLACE_MATCH"
    BY <2>1, SetRelationSets
  <2> QED BY <2>1, <2>2, <2>3
<1> HIDE DEF new
<1>3. \A f \in File :
        /\ {"daily", "rev"} \subseteq DOMAIN category'[f]
        /\ f \in F => category'[f].daily = daily
        /\ f \notin F => category'[f] = category[f]
  BY <1>1 DEF PlacesInv, PlacesShape
<1>4. PlacesShape'
  BY <1>1, <1>2, <1>3 DEF PlacesInv, PlacesShape
<1>5. \A f \in File : ReferenceOK(rel[f])'
  BY <1>1, <1>2 DEF PlacesInv, ReferenceOK, LivePlaces, Live
<1>6. \A f \in File : DecisionStands(f)'
  <2> TAKE f \in File
  <2>1. DecisionStands(f)
    BY DEF PlacesInv
  <2>2. CASE f \in F /\ daily
    BY <1>1, <1>2, <2>2 DEF DecisionStands
  <2>3. CASE f \in F /\ ~daily
    <3>1. decided'[f] = IF new(f).source # "USER" THEN Undecided ELSE decided[f]
      BY <1>1, <2>3
    <3>2. rel'[f] = new(f) /\ raced' = raced /\ ~category'[f].daily
      BY <1>1, <1>3, <2>3
    <3> QED BY <1>2, <2>1, <2>3, <3>1, <3>2 DEF DecisionStands
  <2>4. CASE f \notin F
    <3>1. decided'[f] = decided[f] /\ rel'[f] = rel[f] /\ category'[f] = category[f]
      BY <1>1, <1>3, <2>4
    <3>2. f \in raced <=> f \in raced'
      BY <1>1, <2>4
    <3> QED BY <2>1, <3>1, <3>2 DEF DecisionStands
  <2> QED BY <2>2, <2>3, <2>4
<1>7. \A f \in File : rel'[f] # rel[f] => \A w \in Workers : f \notin work[w].files
  BY <1>1 DEF FilesFree
<1> QED BY <1>1, <1>4, <1>5, <1>6, <1>7, SessionsStay

----------------------------------------------------------------------------
(* The handlers that read first: what a session has just read is how the   *)
(* photos are.                                                             *)
LEMMA PendingReads ==
    ASSUME PlacesInv, NEW w \in Workers, NEW F \in SUBSET File, NEW p \in Place,
           PendingRead(w, F, p), live' = live
    PROVE  PlacesInv'
<1> DEFINE new == [f \in F |-> SetRelation(rel[f], p, "USER", Distance(gps[f], p))]
           k == [Idle EXCEPT !.pc = "ready", !.op = "pending", !.files = F, !.snap = rel,
                   !.new = new, !.need = p, !.held = p]
<1>1. /\ work' = [work EXCEPT ![w] = k] /\ FilesFree(F)
      /\ UNCHANGED <<live, place, rel, category, decided, raced>>
  BY DEF PendingRead, Start
<1>2. \A f \in F : RelationColumns(new[f]) /\ new[f].place = p /\ new[f].source = "USER"
  <2> TAKE f \in F
  <2>1. new[f] = SetRelation(rel[f], p, "USER", Distance(gps[f], p)) /\ RelationColumns(rel[f])
    BY DEF PlacesInv, PlacesShape
  <2> HIDE DEF new
  <2> QED BY <2>1, SetRelationSets
<1>3. DOMAIN new = F
  OBVIOUS
<1> HIDE DEF new
<1>4. /\ k.pc = "ready" /\ k.op = "pending" /\ k.files = F /\ k.snap = rel /\ k.new = new
      /\ k.need = p /\ k.row = NoPlaceRow
      /\ DOMAIN k = SessionFields
  BY DEF Idle, SessionFields
<1> HIDE DEF k
<1>5. PlaceSessionOK(k)
  <2>1. ReadOK(k)
    BY <1>2, <1>3, <1>4 DEF ReadOK, PlacesInv, PlacesShape
  <2>2. DestinationOK(k)
    BY <1>2, <1>3, <1>4 DEF DestinationOK, Destinations
  <2>3. DecisionOK(k)
    BY <1>2, <1>3, <1>4 DEF DecisionOK
  <2> QED BY <2>1, <2>2, <2>3, <1>4 DEF PlaceSessionOK
<1>6. LockedOK(k)
  BY <1>4 DEF LockedOK
<1> QED BY <1>1, <1>4, <1>5, <1>6, SessionStarts

(* A user's place, or a user's decision for none, survives new             *)
(* coordinates.                                                            *)
LEMMA GpsKeepsDecision ==
    ASSUME PlacesInv, NEW f \in File, NEW g
    PROVE  /\ RelationColumns(GpsRelation(f, g))
           /\ rel[f].source = "USER" =>
                 GpsRelation(f, g).place = rel[f].place /\ GpsRelation(f, g).source = "USER"
<1> DEFINE m == Match(g, GeoName[f])
           kept == SetRelation(rel[f], rel[f].place, "USER", Distance(g, rel[f].place))
           lost == SetRelation(rel[f], None, "AUTO_PLACE_MATCH", NoDistance)
           found == SetRelation(rel[f], m.place, m.source, Distance(g, m.place))
<1>1. RelationColumns(rel[f])
  BY DEF PlacesInv, PlacesShape
<1>2. RelationColumns(kept) /\ kept.place = rel[f].place /\ kept.source = "USER"
  BY <1>1, SetRelationSets
<1>3. RelationColumns(lost)
  BY <1>1, SetRelationSets
<1>4. RelationColumns(found)
  <2> HIDE DEF m
  <2> QED BY <1>1, SetRelationSets
<1>5. GpsRelation(f, g) =
        CASE category[f].daily -> rel[f]
          [] ~category[f].daily /\ rel[f].source = "USER" ->
               IF rel[f].place = None THEN rel[f] ELSE kept
          [] ~category[f].daily /\ rel[f].source # "USER" /\ (g = NoGps \/ m.place = None) -> lost
          [] OTHER -> found
  BY DEF GpsRelation
<1> HIDE DEF m, kept, lost, found
<1> QED BY <1>1, <1>2, <1>3, <1>4, <1>5

LEMMA GpsReads ==
    ASSUME PlacesInv, NEW w \in Workers, NEW f \in File, NEW g, GpsRead(w, f, g), live' = live
    PROVE  PlacesInv'
<1> DEFINE r == GpsRelation(f, g)
           new == [x \in {f} |-> r]
           need == IF r = rel[f] THEN None ELSE r.place
           k == [Idle EXCEPT !.pc = "ready", !.op = "gps", !.files = {f}, !.snap = rel,
                   !.new = new, !.gps = [x \in {f} |-> g], !.need = need]
<1>1. /\ work' = [work EXCEPT ![w] = k] /\ FilesFree({f})
      /\ UNCHANGED <<live, place, rel, category, decided, raced>>
  BY DEF GpsRead, Start
<1>2. /\ RelationColumns(r)
      /\ rel[f].source = "USER" => r.place = rel[f].place /\ r.source = "USER"
  BY GpsKeepsDecision
<1> HIDE DEF r
<1>3. DOMAIN new = {f} /\ new[f] = r
  OBVIOUS
<1> HIDE DEF new
<1>4. /\ k.pc = "ready" /\ k.op = "gps" /\ k.files = {f} /\ k.snap = rel /\ k.new = new
      /\ k.need = need /\ k.row = NoPlaceRow
      /\ DOMAIN k = SessionFields
  BY DEF Idle, SessionFields
<1> HIDE DEF k
<1>5. PlaceSessionOK(k)
  <2>1. ReadOK(k)
    BY <1>2, <1>3, <1>4 DEF ReadOK, PlacesInv, PlacesShape
  <2>2. DestinationOK(k)
    BY <1>2, <1>3, <1>4 DEF DestinationOK, Destinations
  <2>3. DecisionOK(k)
    BY <1>2, <1>3, <1>4 DEF DecisionOK
  <2> QED BY <2>1, <2>2, <2>3, <1>4 DEF PlaceSessionOK
<1>6. LockedOK(k)
  BY <1>4 DEF LockedOK
<1> QED BY <1>1, <1>4, <1>5, <1>6, SessionStarts

(* reclassify takes no photo that is a user's. *)
LEMMA ReclassifyReads ==
    ASSUME PlacesInv, NEW w \in Workers, NEW p \in Place, NEW reassign \in BOOLEAN,
           ReclassifyRead(w, p, reassign), live' = live
    PROVE  PlacesInv'
<1> DEFINE inside(f) == gps[f] # NoGps /\ Distance(gps[f], p) <= RadiusM
           free == {f \in live : gps[f] # NoGps /\ ~Blocked(f)}
           out == {f \in free : rel[f].place = p /\ ~inside(f)}
           take == {f \in free : inside(f) /\ (rel[f].place = None \/ (reassign /\ rel[f].place # p))}
           new == [f \in out \cup take |->
                     IF f \in out THEN SetRelation(rel[f], None, "AUTO_PLACE_MATCH", NoDistance)
                     ELSE SetRelation(rel[f], p, "RADIUS", Distance(gps[f], p))]
           need == IF take = {} THEN None ELSE p
           k == [Idle EXCEPT !.pc = "ready", !.op = "auto", !.snap = rel, !.new = new, !.need = need]
<1>1. /\ work' = [work EXCEPT ![w] = k]
      /\ UNCHANGED <<live, place, rel, category, decided, raced>>
  BY DEF ReclassifyRead, Start
<1>2. /\ out \cup take \subseteq File
      /\ \A f \in out \cup take : rel[f].source # "USER"
  BY DEF PlacesInv, PlacesShape, Blocked
<1>3. DOMAIN new = out \cup take
  OBVIOUS
<1>4. \A f \in DOMAIN new : RelationColumns(new[f]) /\ new[f].place \in {None, need}
  <2> TAKE f \in DOMAIN new
  <2>1. RelationColumns(rel[f])
    BY <1>2, <1>3 DEF PlacesInv, PlacesShape
  <2>2. CASE f \in out
    <3>1. new[f] = SetRelation(rel[f], None, "AUTO_PLACE_MATCH", NoDistance)
      BY <2>2
    <3> HIDE DEF new, out, take, need
    <3> QED BY <2>1, <3>1, SetRelationSets
  <2>3. CASE f \notin out
    <3>1. new[f] = SetRelation(rel[f], p, "RADIUS", Distance(gps[f], p))
      BY <2>3
    <3>2. need = p
      BY <2>3
    <3> HIDE DEF new, out, take, need
    <3> QED BY <2>1, <3>1, <3>2, SetRelationSets
  <2> QED BY <2>2, <2>3
<1> HIDE DEF new, out, take, need
<1>5. /\ k.pc = "ready" /\ k.op = "auto" /\ k.files = {} /\ k.snap = rel /\ k.new = new
      /\ k.need = need /\ k.row = NoPlaceRow
      /\ DOMAIN k = SessionFields
  BY DEF Idle, SessionFields
<1> HIDE DEF k
<1>6. PlaceSessionOK(k)
  <2>1. ReadOK(k)
    BY <1>2, <1>3, <1>4, <1>5 DEF ReadOK, PlacesInv, PlacesShape
  <2>2. DestinationOK(k)
    BY <1>4, <1>5 DEF DestinationOK, Destinations
  <2>3. DecisionOK(k)
    BY <1>2, <1>3, <1>5 DEF DecisionOK
  <2> QED BY <2>1, <2>2, <2>3, <1>5 DEF PlaceSessionOK
<1>7. LockedOK(k) /\ FilesFree(k.files)
  BY <1>5 DEF LockedOK, FilesFree
<1> QED BY <1>1, <1>5, <1>6, <1>7, SessionStarts

(* auto_match_file takes no photo that is a user's. *)
LEMMA AutoReads ==
    ASSUME PlacesInv, NEW w \in Workers, NEW f \in File, AutoRead(w, f), live' = live
    PROVE  PlacesInv'
<1> DEFINE m == Match(gps[f], GeoName[f])
           matched == SetRelation(rel[f], m.place, m.source, Distance(gps[f], m.place))
           read == [Idle EXCEPT !.op = "auto", !.snap = rel]
           asks == [read EXCEPT !.pc = "lookup", !.new = [x \in {f} |-> rel[f]]]
           knows == [read EXCEPT !.pc = "ready", !.need = m.place, !.new = [x \in {f} |-> matched]]
<1>1. /\ work' = [work EXCEPT ![w] = IF m.place = None THEN asks ELSE knows]
      /\ ~Blocked(f)
      /\ UNCHANGED <<live, place, rel, category, decided, raced>>
  BY DEF AutoRead, Start
<1>2. RelationColumns(rel[f]) /\ rel[f].source # "USER"
  BY <1>1 DEF PlacesInv, PlacesShape, Blocked
<1>3. RelationColumns(matched) /\ matched.place = m.place
  <2> HIDE DEF m
  <2> QED BY <1>2, SetRelationSets
<1> HIDE DEF m, matched
<1>4. CASE m.place = None
  <2>1. /\ asks.pc = "lookup" /\ asks.op = "auto" /\ asks.files = {} /\ asks.snap = rel
        /\ DOMAIN asks.new = {f} /\ asks.new[f] = rel[f] /\ asks.row = NoPlaceRow /\ asks.late = FALSE
        /\ DOMAIN asks = SessionFields
    BY DEF Idle, SessionFields
  <2>2. work' = [work EXCEPT ![w] = asks]
    BY <1>1, <1>4
  <2> HIDE DEF asks
  <2>3. PlaceSessionOK(asks) /\ LockedOK(asks) /\ FilesFree(asks.files)
    BY <1>2, <2>1 DEF PlaceSessionOK, ReadOK, DestinationOK, Destinations, DecisionOK, LockedOK,
                      FilesFree, PlacesInv, PlacesShape
  <2> QED BY <1>1, <2>1, <2>2, <2>3, SessionStarts
<1>5. CASE m.place # None
  <2>1. /\ knows.pc = "ready" /\ knows.op = "auto" /\ knows.files = {} /\ knows.snap = rel
        /\ DOMAIN knows.new = {f} /\ knows.new[f] = matched /\ knows.need = m.place
        /\ knows.row = NoPlaceRow /\ DOMAIN knows = SessionFields
    BY DEF Idle, SessionFields
  <2>2. work' = [work EXCEPT ![w] = knows]
    BY <1>1, <1>5
  <2> HIDE DEF knows
  <2>3. PlaceSessionOK(knows) /\ LockedOK(knows) /\ FilesFree(knows.files)
    BY <1>2, <1>3, <2>1 DEF PlaceSessionOK, ReadOK, DestinationOK, Destinations, DecisionOK, LockedOK,
                            FilesFree, PlacesInv, PlacesShape
  <2> QED BY <1>1, <2>1, <2>2, <2>3, SessionStarts
<1> QED BY <1>4, <1>5

(* auto_match_file without a candidate takes the place away. *)
LEMMA KnownReads ==
    ASSUME PlacesInv, NEW w \in Workers, NEW f \in File, AutoReadKnown(w, f), live' = live
    PROVE  PlacesInv'
<1> DEFINE unmatched == SetRelation(rel[f], None, "AUTO_PLACE_MATCH", NoDistance)
           k == [Idle EXCEPT !.pc = "ready", !.op = "auto", !.snap = rel,
                   !.new = [x \in {f} |-> unmatched]]
<1>1. /\ work' = [work EXCEPT ![w] = k] /\ ~Blocked(f)
      /\ UNCHANGED <<live, place, rel, category, decided, raced>>
  BY DEF AutoReadKnown, Start
<1>2. RelationColumns(rel[f]) /\ rel[f].source # "USER"
  BY <1>1 DEF PlacesInv, PlacesShape, Blocked
<1>3. RelationColumns(unmatched) /\ unmatched.place = None
  BY <1>2, SetRelationSets
<1> HIDE DEF unmatched
<1>4. /\ k.pc = "ready" /\ k.op = "auto" /\ k.files = {} /\ k.snap = rel
      /\ DOMAIN k.new = {f} /\ k.new[f] = unmatched /\ k.need = None
      /\ k.row = NoPlaceRow /\ DOMAIN k = SessionFields
  BY DEF Idle, SessionFields
<1> HIDE DEF k
<1>5. PlaceSessionOK(k) /\ LockedOK(k) /\ FilesFree(k.files)
  BY <1>2, <1>3, <1>4 DEF PlaceSessionOK, ReadOK, DestinationOK, Destinations, DecisionOK, LockedOK,
                          FilesFree, PlacesInv, PlacesShape
<1> QED BY <1>1, <1>4, <1>5, SessionStarts

(* The lookup has its answer: a place that is there, or one to make.       *)
LEMMA CandidateResolved ==
    ASSUME PlacesInv, NEW w \in Workers, ResolveCandidate(w), live' = live
    PROVE  PlacesInv'
<1> DEFINE q == work[w]
<1>1. PICK f \in DOMAIN q.new : \E n \in ChosenNames(f), fresh \in BOOLEAN : ResolveAs(w, f, n, fresh)
  BY DEF ResolveCandidate
<1>2. PICK n \in ChosenNames(f), fresh \in BOOLEAN : ResolveAs(w, f, n, fresh)
  BY <1>1
<1> DEFINE m == Match(gps[f], n)
           snap == IF fresh THEN rel ELSE q.snap
           late == fresh /\ Blocked(f)
           row == [st |-> "live", active |-> TRUE, rev |-> 1, pos |-> gps[f], name |-> n, auto |-> TRUE]
<1>3. UNCHANGED <<live, place, rel, category, decided, raced>>
  BY <1>2 DEF ResolveAs
<1>4. /\ DOMAIN q = SessionFields /\ q.pc = "lookup" /\ PlaceSessionOK(q)
      /\ ReadOK(q) /\ DestinationOK(q) /\ DecisionOK(q)
  BY <1>2 DEF ResolveAs, PlacesInv, PlacesShape, PlaceSessionOK
<1>5. /\ f \in File /\ q.files = {} /\ q.op = "auto" /\ ~q.late /\ q.snap[f].source # "USER"
      /\ q.row # NoPlaceRow => /\ q.held \in Place /\ q.row.st = "live"
                               /\ PlaceColumns \subseteq DOMAIN q.row
  BY <1>4 DEF ReadOK, DestinationOK, DecisionOK
<1>6. /\ DOMAIN snap = File /\ \A x \in File : RelationColumns(snap[x])
      /\ ~late => snap[f].source # "USER"
  BY <1>4, <1>5 DEF PlacesInv, PlacesShape, ReadOK, Blocked
<1>7. ASSUME NEW k, DOMAIN k = SessionFields, work' = [work EXCEPT ![w] = k],
             k.pc = "ready", k.snap = snap, k.late = late, k.files = q.files, k.op = q.op,
             DOMAIN k.new = {f}, RelationColumns(k.new[f]), k.new[f].place \in Destinations(k),
             k.row # NoPlaceRow => /\ k.held \in Place /\ k.row.st = "live"
                                   /\ PlaceColumns \subseteq DOMAIN k.row
      PROVE  PlacesInv'
  <2> HIDE DEF q, snap, late
  <2>1. ReadOK(k) /\ DestinationOK(k) /\ DecisionOK(k)
    BY <1>5, <1>6, <1>7 DEF ReadOK, DestinationOK, DecisionOK
  <2>2. PlaceSessionOK(k) /\ LockedOK(k) /\ FilesFree(k.files)
    BY <2>1, <1>5, <1>7 DEF PlaceSessionOK, LockedOK, FilesFree
  <2> QED BY <1>3, <1>7, <2>2, SessionStarts
<1>8. CASE work' = [work EXCEPT ![w] = [@ EXCEPT !.pc = "ready", !.snap = snap, !.need = m.place,
                     !.late = late,
                     !.new = [x \in {f} |-> SetRelation(snap[f], m.place, m.source,
                                                        Distance(gps[f], m.place))]]]
  <2> DEFINE r == SetRelation(snap[f], m.place, m.source, Distance(gps[f], m.place))
             k == [q EXCEPT !.pc = "ready", !.snap = snap, !.need = m.place, !.late = late,
                            !.new = [x \in {f} |-> r]]
  <2>1. RelationColumns(r) /\ r.place = m.place
    <3>1. RelationColumns(snap[f])
      BY <1>5, <1>6
    <3> HIDE DEF m, snap
    <3> QED BY <3>1, SetRelationSets
  <2>2. work' = [work EXCEPT ![w] = k]
    BY <1>8 DEF PlacesInv, PlacesShape
  <2> HIDE DEF r, m, snap, late, q
  <2>3. /\ DOMAIN k = SessionFields /\ k.pc = "ready" /\ k.snap = snap /\ k.late = late
        /\ k.files = q.files /\ k.op = q.op /\ k.row = q.row /\ k.held = q.held /\ k.need = m.place
        /\ DOMAIN k.new = {f} /\ k.new[f] = r
    BY <1>4 DEF SessionFields
  <2> HIDE DEF k
  <2>4. k.new[f].place \in Destinations(k) /\ RelationColumns(k.new[f])
    BY <2>1, <2>3 DEF Destinations
  <2>5. k.row # NoPlaceRow => /\ k.held \in Place /\ k.row.st = "live"
                              /\ PlaceColumns \subseteq DOMAIN k.row
    BY <2>3, <1>5
  <2> QED BY <2>2, <2>3, <2>4, <2>5, <1>7
<1>9. ASSUME NEW p \in Place,
             work' = [work EXCEPT ![w] = [@ EXCEPT !.pc = "ready", !.snap = snap,
                     !.late = late, !.held = p, !.row = row,
                     !.new = [x \in {f} |-> SetRelation(snap[f], p, "AUTO_CREATED", 0)]]]
      PROVE  PlacesInv'
  <2> DEFINE r == SetRelation(snap[f], p, "AUTO_CREATED", 0)
             k == [q EXCEPT !.pc = "ready", !.snap = snap, !.late = late, !.held = p, !.row = row,
                            !.new = [x \in {f} |-> r]]
  <2>1. RelationColumns(r) /\ r.place = p
    <3>1. RelationColumns(snap[f])
      BY <1>5, <1>6
    <3> HIDE DEF snap
    <3> QED BY <3>1, SetRelationSets
  <2>2. work' = [work EXCEPT ![w] = k]
    BY <1>9 DEF PlacesInv, PlacesShape
  <2>3. /\ row.st = "live" /\ PlaceColumns \subseteq DOMAIN row
        /\ row # NoPlaceRow
    <3>1. row.st = "live" /\ PlaceColumns \subseteq DOMAIN row
      BY DEF PlaceColumns
    <3>2. NoPlaceRow.st = "none"
      BY DEF NoPlaceRow
    <3> QED BY <3>1, <3>2
  <2> HIDE DEF r, m, snap, late, q, row
  <2>4. /\ DOMAIN k = SessionFields /\ k.pc = "ready" /\ k.snap = snap /\ k.late = late
        /\ k.files = q.files /\ k.op = q.op /\ k.row = row /\ k.held = p
        /\ DOMAIN k.new = {f} /\ k.new[f] = r
    BY <1>4 DEF SessionFields
  <2> HIDE DEF k
  <2>5. k.new[f].place \in Destinations(k) /\ RelationColumns(k.new[f])
    BY <2>1, <2>3, <2>4 DEF Destinations
  <2> QED BY <2>2, <2>3, <2>4, <2>5, <1>7
<1> QED BY <1>2, <1>8, <1>9, Zenon DEF ResolveAs

LEMMA SessionGivesUp ==
    ASSUME PlacesInv, NEW w \in Workers, PlaceGiveUp(w), live' = live
    PROVE  PlacesInv'
<1>1. work' = [work EXCEPT ![w] = Idle] /\ UNCHANGED <<live, place, rel, category, decided, raced>>
  BY DEF PlaceGiveUp
<1>2. FilesFree(Idle.files)
  BY IdleSession DEF FilesFree
<1> QED BY <1>1, <1>2, IdleSession, SessionStarts

(* A new photo changes no relation; a deleted one takes its relation and   *)
(* the sessions that have read it with it.                                 *)
LEMMA PhotoDeleted ==
    ASSUME PlacesInv, NEW f \in File, PlaceOfDeleted(f), live' \subseteq live
    PROVE  PlacesInv'
<1>1. /\ FilesFree({f}) /\ place' = place
      /\ rel' = [rel EXCEPT ![f] = NoRelation]
      /\ category' = [category EXCEPT ![f] = [daily |-> FALSE, rev |-> 0]]
      /\ work' = [w \in Workers |-> IF f \in DOMAIN work[w].new THEN Idle ELSE work[w]]
      /\ decided' = [decided EXCEPT ![f] = Undecided]
      /\ raced' = raced \ {f}
  BY DEF PlaceOfDeleted
<1>2. RelationColumns(NoRelation) /\ NoRelation.place = None
  BY DEF NoRelation, RelationColumns
<1>3. PlacesShape'
  BY <1>1, <1>2, IdleSession DEF PlacesInv, PlacesShape
<1>4. \A g \in File : ReferenceOK(rel[g])'
  BY <1>1, <1>2 DEF PlacesInv, PlacesShape, ReferenceOK, LivePlaces, Live
<1>5. \A g \in File : DecisionStands(g)'
  BY <1>1 DEF PlacesInv, PlacesShape, DecisionStands
<1>6. \A w \in Workers : work'[w] = Idle \/ work'[w] = work[w]
  BY <1>1
<1>7. \A w \in Workers : PlaceSessionOK(work[w])' /\ LockedOK(work[w])'
  <2> TAKE w \in Workers
  <2>1. PlaceSessionOK(work'[w])
    BY <1>6, IdleSession DEF PlacesInv
  <2>2. LockedOK(work[w])'
    <3>1. CASE work'[w] = Idle
      BY <3>1, IdleSession DEF LockedOK
    <3>2. CASE work'[w] = work[w]
      <4>1. f \notin work[w].files
        BY <1>1 DEF FilesFree
      <4>2. work[w].pc # "idle" => work[w].files \subseteq File /\ LockedOK(work[w])
        BY DEF PlacesInv, PlaceSessionOK, ReadOK
      <4>3. \A g \in File : g # f => rel'[g] = rel[g]
        BY <1>1 DEF PlacesInv, PlacesShape
      <4> QED BY <3>2, <4>1, <4>2, <4>3 DEF LockedOK
    <3> QED BY <1>6, <3>1, <3>2
  <2> QED BY <2>1, <2>2 DEF LockedOK, PlaceSessionOK, ReadOK, DestinationOK, DecisionOK, Destinations
<1>8. \A u, v \in Workers : u # v => work'[u].files \cap work'[v].files = {}
  BY <1>6, IdleSession DEF PlacesInv
<1> QED BY <1>3, <1>4, <1>5, <1>7, <1>8 DEF PlacesInv

LEMMA PhotoUploaded ==
    ASSUME PlacesInv, NEW f \in File, PlaceOfNew(f), live' = live \cup {f}
    PROVE  PlacesInv'
<1>1. UNCHANGED <<place, rel, category, work, decided, raced>>
  BY DEF PlaceOfNew
<1>2. PlacesShape'
  BY <1>1 DEF PlacesInv, PlacesShape
<1>3. \A g \in File : ReferenceOK(rel[g])' /\ DecisionStands(g)'
  BY <1>1 DEF PlacesInv, ReferenceOK, LivePlaces, Live, DecisionStands
<1> QED BY <1>1, <1>2, <1>3, SessionsStay

----------------------------------------------------------------------------
(* The commit.  A user's session writes what it has locked, as it has read *)
(* it; an automatic one writes over a decision only where the photo is     *)
(* recorded as overtaken.                                                  *)
LEMMA SessionFinishes ==
    ASSUME PlacesInv, NEW w \in Workers, Finish(w), live' = live
    PROVE  PlacesInv'
<1> DEFINE k == work[w]
           written == {f \in DOMAIN k.new : k.new[f] # k.snap[f]}
           late == {f \in written : k.op = "auto" /\ (rel[f] # k.snap[f] \/ k.late)}
<1>1. /\ k.pc = "ready"
      /\ \A v \in Workers \ {w} : work[v].files \cap written = {}
      /\ k.need # None => k.need \in LivePlaces
      /\ rel' = [f \in File |-> IF f \in written THEN WriteColumns(rel[f], k.snap[f], k.new[f]) ELSE rel[f]]
      /\ place' = IF k.row = NoPlaceRow THEN place ELSE [place EXCEPT ![k.held] = k.row]
      /\ category' = IF k.op = "pending"
                     THEN [f \in File |-> IF f \in k.files THEN AsNormal(category[f]) ELSE category[f]]
                     ELSE category
      /\ decided' = IF k.op = "pending"
                    THEN [f \in File |-> IF f \in k.files THEN k.need ELSE decided[f]]
                    ELSE decided
      /\ raced' = raced \cup late
      /\ work' = [work EXCEPT ![w] = Idle]
  BY DEF Finish
<1>2. DOMAIN k = SessionFields /\ ReadOK(k) /\ DestinationOK(k) /\ DecisionOK(k) /\ LockedOK(k)
  BY <1>1 DEF PlacesInv, PlacesShape, PlaceSessionOK
<1>3. \A f \in File : f \notin written => rel'[f] = rel[f]
  BY <1>1
<1>4. \A f \in written :
        /\ f \in File /\ f \in DOMAIN k.new /\ RelationColumns(rel'[f])
        /\ rel'[f].place = IF k.new[f].place # k.snap[f].place THEN k.new[f].place ELSE rel[f].place
        /\ rel'[f].source = IF k.new[f].source # k.snap[f].source THEN k.new[f].source ELSE rel[f].source
  <2> TAKE f \in written
  <2>1. f \in File /\ f \in DOMAIN k.new /\ RelationColumns(rel[f]) /\ RelationColumns(k.snap[f]) /\ RelationColumns(k.new[f])
    BY <1>2 DEF ReadOK, PlacesInv, PlacesShape
  <2>2. rel'[f] = WriteColumns(rel[f], k.snap[f], k.new[f])
    BY <1>1, <2>1
  <2> HIDE DEF k, written
  <2> QED BY <2>1, <2>2, WriteRelation
<1>5. \A f \in File : RelationColumns(rel'[f])
  BY <1>3, <1>4 DEF PlacesInv, PlacesShape
<1>6. \A f \in written : k.new[f].place = k.snap[f].place \/ k.new[f].place \in Destinations(k)
  BY <1>1, <1>2 DEF DestinationOK
<1>7. \A f \in written : f \in DOMAIN k.new /\ k.new[f] # k.snap[f]
  OBVIOUS
<1>8. \A f \in DOMAIN k.new \ written : k.new[f] = k.snap[f]
  OBVIOUS
<1>9. \A f \in late : f \in raced'
  BY <1>1
<1>10. \A f \in written : f \notin raced' /\ k.op = "auto" => rel[f] = k.snap[f] /\ ~k.late
  BY <1>1
<1> HIDE DEF written, late
<1>11. /\ DOMAIN place' = Place /\ LivePlaces \subseteq LivePlaces'
       /\ \A p \in Place : PlaceColumns \subseteq DOMAIN place'[p]
       /\ k.row # NoPlaceRow => k.held \in LivePlaces'
  <2>1. CASE k.row = NoPlaceRow
    <3>1. place' = place
      BY <1>1, <2>1
    <3> QED BY <2>1, <3>1 DEF PlacesInv, PlacesShape, LivePlaces, Live
  <2>2. CASE k.row # NoPlaceRow
    <3>1. /\ k.held \in Place /\ k.row.st = "live"
          /\ PlaceColumns \subseteq DOMAIN k.row
      BY <1>2, <2>2 DEF DestinationOK
    <3>2. place' = [place EXCEPT ![k.held] = k.row] /\ DOMAIN place = Place
      BY <1>1, <2>2 DEF PlacesInv, PlacesShape
    <3>3. \A p \in Place : place'[p] = IF p = k.held THEN k.row ELSE place[p]
      BY <3>2
    <3> QED BY <3>1, <3>2, <3>3 DEF PlacesInv, PlacesShape, LivePlaces, Live
  <2> QED BY <2>1, <2>2
<1>12. \A f \in File :
         /\ {"daily", "rev"} \subseteq DOMAIN category'[f]
         /\ category'[f].daily => category[f].daily
         /\ k.op = "pending" /\ f \in k.files => ~category'[f].daily
  BY <1>1 DEF AsNormal, PlacesInv, PlacesShape
<1>13. PlacesShape'
  <2>1. DOMAIN work' = Workers /\ \A v \in Workers : DOMAIN work'[v] = SessionFields
    BY <1>1, IdleSession DEF PlacesInv, PlacesShape
  <2>2. DOMAIN rel' = File /\ DOMAIN category' = File /\ DOMAIN decided' = File
    BY <1>1 DEF PlacesInv, PlacesShape
  <2> QED BY <1>5, <1>11, <1>12, <2>1, <2>2 DEF PlacesInv, PlacesShape
<1>14. \A f \in File : ReferenceOK(rel[f])'
  <2> TAKE f \in File
  <2>1. rel[f].place # None => rel[f].place \in LivePlaces'
    BY <1>11 DEF PlacesInv, ReferenceOK
  <2>2. ASSUME f \in written, rel'[f].place # rel[f].place, rel'[f].place # None
        PROVE  rel'[f].place \in LivePlaces'
    <3>1. rel'[f].place = k.new[f].place /\ k.new[f].place # k.snap[f].place
      BY <1>4, <2>2
    <3>2. rel'[f].place \in Destinations(k)
      BY <1>6, <2>2, <3>1
    <3> QED BY <1>1, <1>11, <2>2, <3>2 DEF Destinations
  <2>3. rel'[f].place # None => rel'[f].place \in LivePlaces'
    BY <1>3, <2>1, <2>2
  <2> QED BY <2>3 DEF ReferenceOK
<1>15. \A f \in File : DecisionStands(f)'
  <2> TAKE f \in File
  <2>1. DecisionStands(f) /\ (f \in raced => f \in raced')
    BY <1>1 DEF PlacesInv
  <2>2. CASE k.op = "pending"
    <3>1. \/ /\ k.new[f].place = k.need /\ k.new[f].source = "USER" /\ f \in DOMAIN k.new
             /\ rel[f] = k.snap[f] /\ decided'[f] = k.need /\ ~category'[f].daily
          \/ f \notin k.files /\ f \notin written /\ decided'[f] = decided[f]
      <4>1. DOMAIN k.new = k.files
        BY <1>2, <2>2 DEF DecisionOK
      <4>2. CASE f \in k.files
        <5>1. k.new[f].place = k.need /\ k.new[f].source = "USER"
          BY <1>2, <2>2, <4>2 DEF DecisionOK
        <5>2. rel[f] = k.snap[f]
          BY <1>1, <1>2, <4>2 DEF LockedOK
        <5>3. decided'[f] = k.need /\ ~category'[f].daily
          BY <1>1, <1>12, <2>2, <4>2
        <5> QED BY <4>1, <4>2, <5>1, <5>2, <5>3
      <4>3. CASE f \notin k.files
        BY <1>1, <1>7, <2>2, <4>1, <4>3
      <4> QED BY <4>2, <4>3
    <3>2. CASE f \notin k.files /\ f \notin written /\ decided'[f] = decided[f]
      BY <1>3, <1>12, <2>1, <3>2 DEF DecisionStands
    <3>3. CASE /\ k.new[f].place = k.need /\ k.new[f].source = "USER" /\ f \in DOMAIN k.new
               /\ rel[f] = k.snap[f] /\ decided'[f] = k.need /\ ~category'[f].daily
      <4>1. rel'[f].place = k.need /\ rel'[f].source = "USER"
        BY <1>3, <1>4, <1>8, <3>3
      <4> QED BY <3>3, <4>1 DEF DecisionStands
    <3> QED BY <3>1, <3>2, <3>3
  <2>3. CASE k.op = "gps"
    <3>1. decided'[f] = decided[f] /\ category' = category
      BY <1>1, <2>3
    <3>2. CASE f \notin written
      BY <1>3, <2>1, <3>1, <3>2 DEF DecisionStands
    <3>3. CASE f \in written
      <4>1. f \in k.files /\ rel[f] = k.snap[f]
        BY <1>1, <1>2, <1>7, <2>3, <3>3 DEF DecisionOK, LockedOK
      <4>2. rel[f].source = "USER" => rel'[f].place = rel[f].place /\ rel'[f].source = "USER"
        BY <1>2, <1>4, <2>3, <3>3, <4>1 DEF DecisionOK
      <4> QED BY <2>1, <3>1, <4>2 DEF DecisionStands
    <3> QED BY <3>2, <3>3
  <2>4. CASE k.op \notin {"pending", "gps"}
    <3>1. decided'[f] = decided[f] /\ category' = category /\ k.op = "auto"
      BY <1>1, <1>2, <2>4 DEF DecisionOK
    <3>2. CASE f \notin written
      BY <1>3, <2>1, <3>1, <3>2 DEF DecisionStands
    <3>3. CASE f \in written /\ f \notin raced'
      <4>1. rel[f] = k.snap[f] /\ ~k.late /\ f \in DOMAIN k.new
        BY <1>7, <1>10, <3>1, <3>3
      <4>2. rel[f].source # "USER"
        BY <1>2, <2>4, <4>1 DEF DecisionOK
      <4> QED BY <2>1, <3>1, <3>3, <4>2 DEF DecisionStands
    <3>4. CASE f \in raced'
      BY <3>4 DEF DecisionStands
    <3> QED BY <3>2, <3>3, <3>4
  <2> QED BY <2>2, <2>3, <2>4
<1>16. \A v \in Workers : work'[v] = IF v = w THEN Idle ELSE work[v]
  BY <1>1 DEF PlacesInv, PlacesShape
<1>17. \A v \in Workers : PlaceSessionOK(work[v])' /\ LockedOK(work[v])'
  <2> TAKE v \in Workers
  <2>1. PlaceSessionOK(work'[v])
    BY <1>16, IdleSession DEF PlacesInv
  <2>2. LockedOK(work[v])'
    <3>1. CASE v = w
      BY <3>1, <1>16, IdleSession DEF LockedOK
    <3>2. CASE v # w
      <4>1. work'[v] = work[v] /\ \A f \in work[v].files : f \notin written
        BY <1>1, <1>16, <3>2
      <4>2. work[v].pc # "idle" => work[v].files \subseteq File /\ LockedOK(work[v])
        BY DEF PlacesInv, PlaceSessionOK, ReadOK
      <4> QED BY <1>3, <4>1, <4>2 DEF LockedOK
    <3> QED BY <3>1, <3>2
  <2> QED BY <2>1, <2>2 DEF LockedOK, PlaceSessionOK, ReadOK, DestinationOK, DecisionOK, Destinations
<1>18. \A u, v \in Workers : u # v => work'[u].files \cap work'[v].files = {}
  BY <1>16, IdleSession DEF PlacesInv
<1> QED BY <1>13, <1>14, <1>15, <1>17, <1>18 DEF PlacesInv

----------------------------------------------------------------------------
(* Everything else in the library leaves the places alone. *)
LEMMA PlacesStep ==
    ASSUME PlacesInv, [Next]_vars
    PROVE  PlacesInv'
<1>1. ASSUME UNCHANGED <<live, placeVars>>
      PROVE  PlacesInv'
  BY <1>1 DEF placeVars, PlacesInv, PlacesShape, ReferenceOK, LivePlaces, Live, LockedOK, DecisionStands,
              PlaceSessionOK, ReadOK, DestinationOK, Destinations, DecisionOK
<1>2. CASE PlacesNext /\ UNCHANGED live
  <2>1. CASE PlaceCreate
    BY <1>2, <2>1, PlaceRegistered
  <2>2. ASSUME NEW p \in Place, PlaceUpdate(p) \/ PlaceDelete(p) \/ \E q \in Place : PlaceMerge(p, q)
        PROVE  PlacesInv'
    BY <1>2, <2>2, PlaceChanged, PlaceDeleted, PlaceMerged
  <2>3. ASSUME NEW F \in SUBSET File,
               \/ \E p \in Place \cup {None} : AssignPlace(F, p)
               \/ \E daily \in BOOLEAN : SetCategory(F, daily)
               \/ \E w \in Workers, p \in Place : PendingRead(w, F, p)
        PROVE  PlacesInv'
    BY <1>2, <2>3, PlaceAssigned, CategoryChanged, PendingReads
  <2>4. ASSUME NEW w \in Workers,
               \/ \E f \in File : \/ AutoRead(w, f) \/ AutoReadKnown(w, f)
                                 \/ \E g \in Position \cup {NoGps} : GpsRead(w, f, g)
               \/ \E p \in Place, again \in BOOLEAN : ReclassifyRead(w, p, again)
        PROVE  PlacesInv'
    BY <1>2, <2>4, AutoReads, KnownReads, GpsReads, ReclassifyReads
  <2>5. ASSUME NEW w \in Workers, ResolveCandidate(w) \/ Finish(w) \/ PlaceGiveUp(w)
        PROVE  PlacesInv'
    BY <1>2, <2>5, CandidateResolved, SessionFinishes, SessionGivesUp
  <2> QED BY <1>2, <2>1, <2>2, <2>3, <2>4, <2>5 DEF PlacesNext
<1>3. ASSUME NEW f \in File, UploadPhoto(f)
      PROVE  PlacesInv'
  BY <1>3, PhotoUploaded DEF UploadPhoto
<1>4. ASSUME NEW f \in File, DeletePhoto(f)
      PROVE  PlacesInv'
  BY <1>4, PhotoDeleted DEF DeletePhoto
<1>5. CASE UNCHANGED vars
  BY <1>1, <1>5 DEF vars
<1>6. CASE Next
  <2>1. CASE \/ DatesNext /\ UNCHANGED <<live, placeVars, tagVars, metaVars>>
             \/ TagsNext /\ UNCHANGED <<live, placeVars, metaVars>>
             \/ MetaNext /\ UNCHANGED <<live, placeVars, tagVars>>
    BY <1>1, <2>1
  <2> QED BY <1>2, <1>3, <1>4, <1>6, <2>1 DEF Next
<1> QED BY <1>5, <1>6

(* At the start no photo has a place and no session is open. *)
LEMMA PlacesStart ==
    ASSUME Init
    PROVE  PlacesInv
<1>1. PlacesInit /\ live \subseteq File
  BY DEF Init
<1>2. /\ rel = [f \in File |-> NoRelation] /\ work = [w \in Workers |-> Idle]
      /\ category = [f \in File |-> [daily |-> FALSE, rev |-> 0]]
      /\ decided = [f \in File |-> Undecided]
  BY <1>1 DEF PlacesInit
<1>3. DOMAIN place = Place /\ \A p \in Place : PlaceColumns \subseteq DOMAIN place[p]
  <2>1. place \in [Place -> {NoPlaceRow} \cup RegisteredRows]
    BY <1>1 DEF PlacesInit
  <2> QED BY <2>1, RegisteredColumns
<1>4. RelationColumns(NoRelation) /\ NoRelation.place = None
  BY DEF NoRelation, RelationColumns
<1>5. PlacesShape
  BY <1>1, <1>2, <1>3, <1>4, IdleSession DEF PlacesShape
<1>6. \A f \in File : ReferenceOK(rel[f]) /\ DecisionStands(f)
  BY <1>2, <1>4 DEF ReferenceOK, DecisionStands
<1>7. \A w \in Workers : PlaceSessionOK(work[w]) /\ LockedOK(work[w]) /\ work[w].files = {}
  BY <1>2, IdleSession
<1> QED BY <1>5, <1>6, <1>7 DEF PlacesInv

THEOREM PlacesInvHolds == Spec => []PlacesInv
<1>1. Init => PlacesInv
  BY PlacesStart
<1>2. PlacesInv /\ [Next]_vars => PlacesInv'
  BY PlacesStep
<1> QED BY <1>1, <1>2, PTL DEF Spec

(* No order of matching, merging and deleting leaves a photo on a deleted  *)
(* place (Places.ReferencesLive).                                          *)
THEOREM ReferencesLiveHolds == Spec => []ReferencesLive
<1>1. PlacesInv => ReferencesLive
  BY DEF PlacesInv, ReferenceOK, ReferencesLive, LivePlaces
<1> QED BY <1>1, PlacesInvHolds, PTL

(* A user's decision stands unless an automatic commit that had read the   *)
(* photo before has overtaken it (Places.UserDecisionStands).              *)
THEOREM UserDecisionStandsHolds == Spec => []UserDecisionStands
<1>1. PlacesInv => UserDecisionStands
  BY DEF PlacesInv, DecisionStands, UserDecisionStands
<1> QED BY <1>1, PlacesInvHolds, PTL

===============================================================================
