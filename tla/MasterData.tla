----------------------------- MODULE MasterData -----------------------------
(***************************************************************************)
(* AstroJournal's canonical master data: equipment, observation sites,     *)
(* multi-night framing references and catalog favorites.  Every aggregate  *)
(* has a client-chosen id, a revision that PATCH and DELETE must name, and *)
(* a tombstone; child rows (eyepieces, capabilities, horizon points,       *)
(* blocked ranges) are replaced as a whole under their parent's revision   *)
(* and are left out: an id of theirs that another aggregate owns is one    *)
(* more IntegrityError, that is a Rollback.                                *)
(***************************************************************************)
EXTENDS AstroStore

(* The columns of each table: which foreign keys and what else a row has. *)
IsEquipmentRow(x) == x.to = {} /\ x.cat = NoCatalog

IsSiteRow(x) == x.to \subseteq Equipment /\ Cardinality(x.to) <= 1 /\ x.cat = NoCatalog

IsReferenceRow(x) ==
    x.st # "none" => /\ Cardinality(x.to \cap Site) = 1 /\ Cardinality(x.to \cap Equipment) = 1
                     /\ x.to \subseteq Site \cup Equipment /\ x.cat # NoCatalog

IsFavoriteRow(x) == x.st # "dead" /\ x.to = {} /\ x.rev <= 1

(* _require_equipment of a site: a live Equipment, not necessarily active. *)
RequireDefaultEquipment(E) == \A e \in E : Live(e)

(* _require_site and _require_equipment of a framing reference. *)
RequireSite(s) == Live(s)

RequireActiveEquipment(e) == Live(e) /\ row[e].on

(* find_active_identity: a live framing reference of the same target and   *)
(* equipment.                                                              *)
FindActiveIdentity(S, cat, e, except) ==
    {g \in Reference \ {except} : S[g].st = "live" /\ S[g].cat = cat /\ e \in S[g].to}

EquipmentOf(r) == r.to \cap Equipment

(* Inserting or changing a reference waits for an open transaction that    *)
(* has the same key of the partial unique index.                           *)
IdentityIsFree(t, g, r) ==
    \A u \in Requests \ {t} : \A h \in Reference \cap DOMAIN req[u].write :
       ~(/\ h # g /\ req[u].write[h].st = "live"
         /\ req[u].write[h].cat = r.cat /\ EquipmentOf(req[u].write[h]) = EquipmentOf(r))

----------------------------------------------------------------------------
(* POST: a replay of a live id returns it, a tombstoned id is refused;     *)
(* neither changes anything.                                               *)
BeginCreate(t, r, new) ==
    /\ row[r].st = "none"
    /\ Begin(t, [Idle EXCEPT !.pc = "checked", !.op = "create", !.at = {r}, !.arg = new])

EquipmentCreate(t, e) ==
    \E on \in BOOLEAN : BeginCreate(t, e, NewRow(on, {}, NoCatalog))

SiteCreate(t, s) ==
    \E E \in {{}} \cup {{e} : e \in Equipment} :
       RequireDefaultEquipment(E) /\ BeginCreate(t, s, NewRow(FALSE, E, NoCatalog))

ReferenceCreate(t, g) ==
    \E s \in Site, e \in Equipment, cat \in Catalog :
       /\ RequireSite(s)
       /\ RequireActiveEquipment(e)
       /\ FindActiveIdentity(row, cat, e, g) = {}
       /\ BeginCreate(t, g, NewRow(FALSE, {s, e}, cat))

FavoriteAdd(t, c) == BeginCreate(t, c, NewRow(FALSE, {}, NoCatalog))

(* The insert.  It waits for an open transaction that inserts the same id, *)
(* locks a row its foreign keys name or holds its key of the unique index; *)
(* a duplicate that has committed meanwhile is an IntegrityError.          *)
Insert(t) ==
    \E r \in req[t].at :
       LET new == req[t].arg IN
       /\ req[t].pc = "checked" /\ req[t].op = "create" /\ r \notin Record
       /\ CanLock(t, {r}) /\ CanShare(t, new.to)
       /\ row[r].st = "none"
       /\ r \in Reference =>
            /\ IdentityIsFree(t, r, new)
            /\ \A e \in EquipmentOf(new) : FindActiveIdentity(row, new.cat, e, r) = {}
       /\ Flush(t, WriteOf(r, new),
                IF r \in Favorite THEN << >> ELSE <<Event(r, "CREATE", 1, 0)>>,
                new.to)

----------------------------------------------------------------------------
(* PATCH and DELETE: SELECT ... FOR UPDATE, then the revision check.  The  *)
(* client names the revision it last saw, any that ever was.               *)
LockForEdit(t, r, x, op, new) ==
    /\ CanLock(t, {r})
    /\ Live(r) /\ row[r].rev = x
    /\ Begin(t, [Idle EXCEPT !.pc = "checked", !.op = op, !.at = {r}, !.base = x,
                             !.arg = new, !.lock = {r}])

EquipmentUpdate(t, e) ==
    \E x \in 1..row[e].rev, on \in BOOLEAN :
       LockForEdit(t, e, x, "update", [row[e] EXCEPT !.on = on])

SiteUpdate(t, s) ==
    \E x \in 1..row[s].rev, E \in {row[s].to, {}} \cup {{e} : e \in Equipment} :
       /\ RequireDefaultEquipment(E)
       /\ LockForEdit(t, s, x, "update", [row[s] EXCEPT !.to = E])

ReferenceUpdate(t, g) ==
    \E x \in 1..row[g].rev, s \in Site, e \in Equipment :
       /\ s \in row[g].to \/ RequireSite(s)
       /\ e \in row[g].to \/ RequireActiveEquipment(e)
       /\ FindActiveIdentity(row, row[g].cat, e, g) = {}
       /\ LockForEdit(t, g, x, "update", [row[g] EXCEPT !.to = {s, e}])

(* Mutant of WriteEdit: the change is not announced. *)
WriteEditSilent(t) ==
    \E r \in req[t].at :
       LET new == [req[t].arg EXCEPT !.rev = @ + 1] IN
       /\ req[t].pc = "checked" /\ req[t].op = "update" /\ r \notin Record
       /\ Flush(t, WriteOf(r, new), << >>, new.to \ row[r].to)

(* The flush of a PATCH: the row as validated, one revision on. *)
WriteEdit(t) ==
    \E r \in req[t].at :
       LET new == [req[t].arg EXCEPT !.rev = @ + 1] IN
       /\ req[t].pc = "checked" /\ req[t].op = "update" /\ r \notin Record
       /\ CanShare(t, new.to \ row[r].to)
       /\ r \in Reference =>
            /\ IdentityIsFree(t, r, new)
            /\ \A e \in EquipmentOf(new) : FindActiveIdentity(row, new.cat, e, r) = {}
       /\ Flush(t, WriteOf(r, new), <<Event(r, "UPDATE", new.rev, req[t].base)>>, new.to \ row[r].to)

MasterDelete(t, r) ==
    \E x \in 1..row[r].rev : LockForEdit(t, r, x, "delete", row[r])

Dead(r) == [row[r] EXCEPT !.st = "dead", !.rev = @ + 1]

SiteDeleteFlush(t) ==
    \E s \in req[t].at \cap Site :
       /\ req[t].pc = "checked" /\ req[t].op = "delete"
       /\ Flush(t, WriteOf(s, Dead(s)), <<Event(s, "DELETE", Dead(s).rev, req[t].base)>>, {})

ReferenceDeleteFlush(t) ==
    \E g \in req[t].at \cap Reference :
       /\ req[t].pc = "checked" /\ req[t].op = "delete"
       /\ Flush(t, WriteOf(g, Dead(g)), <<Event(g, "DELETE", Dead(g).rev, req[t].base)>>, {})

(* Mutant of EquipmentDeleteFlush: the sites that use the equipment *)
(* keep it.                                                          *)
EquipmentDeleteFlushAlone(t) ==
    \E e \in req[t].at \cap Equipment :
       /\ req[t].pc = "checked" /\ req[t].op = "delete"
       /\ Flush(t, WriteOf(e, Dead(e)), <<Event(e, "DELETE", Dead(e).rev, req[t].base)>>, {})

(* active_sites_using_equipment locks the live sites whose default it is;  *)
(* each loses it, one revision on and with an UPDATE event of its own,     *)
(* before the equipment's tombstone.                                       *)
EquipmentDeleteFlush(t) ==
    \E e \in req[t].at \cap Equipment :
       LET sites == LiveReferrers(e, Site)
           freed == [s \in sites |-> [row[s] EXCEPT !.to = @ \ {e}, !.rev = @ + 1]]
       IN /\ req[t].pc = "checked" /\ req[t].op = "delete"
          /\ CanLock(t, sites)
          /\ Flush(t, AlsoWrite(freed, e, Dead(e)),
                   SetToSeq({Event(s, "UPDATE", freed[s].rev, row[s].rev) : s \in sites})
                     \o <<Event(e, "DELETE", Dead(e).rev, req[t].base)>>,
                   {})

(* DELETE of a favorite: a plain read, then the row is removed; if someone *)
(* else removed it meanwhile the flush fails.                              *)
FavoriteRemove(t, c) ==
    /\ Live(c)
    /\ Begin(t, [Idle EXCEPT !.pc = "checked", !.op = "remove", !.at = {c}])

FavoriteRemoveFlush(t) ==
    \E c \in req[t].at \cap Favorite :
       /\ req[t].pc = "checked" /\ req[t].op = "remove"
       /\ CanLock(t, {c}) /\ Live(c)
       /\ Flush(t, WriteOf(c, NoRow), << >>, {})

MasterStep(t) ==
    \/ \E e \in Equipment : EquipmentCreate(t, e) \/ EquipmentUpdate(t, e) \/ MasterDelete(t, e)
    \/ \E s \in Site : SiteCreate(t, s) \/ SiteUpdate(t, s) \/ MasterDelete(t, s)
    \/ \E g \in Reference : ReferenceCreate(t, g) \/ ReferenceUpdate(t, g) \/ MasterDelete(t, g)
    \/ \E c \in Favorite : FavoriteAdd(t, c) \/ FavoriteRemove(t, c)
    \/ Insert(t) \/ WriteEdit(t)
    \/ EquipmentDeleteFlush(t) \/ SiteDeleteFlush(t) \/ ReferenceDeleteFlush(t)
    \/ FavoriteRemoveFlush(t)

============================================================================
