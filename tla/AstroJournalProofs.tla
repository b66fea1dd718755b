------------------------- MODULE AstroJournalProofs -------------------------
(***************************************************************************)
(* What TLAPS proves of AstroJournal, for every set of requests, clients,  *)
(* files and resources and any number of writes, Resets and uploads:       *)
(*                                                                         *)
(*   - the store is in order (StoreInOrder), from which a deleted          *)
(*     equipment leaves no live site naming it (DeleteFreesSites), master  *)
(*     data implement a revisioned resource (MasterImplementsRevisioned)   *)
(*     and every edit was made to the revision it names (EditsKnownState); *)
(*   - the change feed loses nothing between the pages of a client         *)
(*     (FeedMissesOnlyInFlight);                                           *)
(*   - the files stay with their owners: a record's file is linked         *)
(*     (HomeIntact), lost media can be deleted again (LossIsRetryable) and *)
(*     media in use are not deleted (SharedMediaKept).                     *)
(*                                                                         *)
(* The steps are sorted by what they do to the store (StepKind): one       *)
(* transaction works on its own (Works), commits (Commits), a Reset        *)
(* commits, or a client reads a page.                                      *)
(***************************************************************************)
EXTENDS AstroJournal, FiniteSetTheorems, TLAPS

----------------------------------------------------------------------------
(* Finite sets of events. *)

(* Among finitely many events one has the greatest id. *)
LEMMA LastExists ==
    ASSUME NEW S, IsFiniteSet(S), S # {}, \A e \in S : e.id \in Nat
    PROVE  \E e \in S : \A d \in S : d.id <= e.id
PROOF
<1> DEFINE later(e) == {d \in S : d.id > e.id}
           T == {later(e) : e \in S}
<1>1. IsWellFoundedOn(StrictSubsetOrdering(S), FiniteSubsetsOf(S))
  BY FS_StrictSubsetOrderingWellFounded
<1>2. T \subseteq FiniteSubsetsOf(S) /\ T # {}
  <2>1. ASSUME NEW e \in S PROVE later(e) \in FiniteSubsetsOf(S)
    <3>1. later(e) \in SUBSET S
      OBVIOUS
    <3> HIDE DEF later
    <3>2. IsFiniteSet(later(e))
      BY <3>1, FS_Subset
    <3> QED BY <3>1, <3>2 DEF FiniteSubsetsOf
  <2> HIDE DEF later
  <2> QED BY <2>1
<1>3. \E x \in T : \A y \in T : ~(<<y, x>> \in StrictSubsetOrdering(S))
  <2> HIDE DEF T
  <2> QED BY <1>1, <1>2, WFMin
<1>4. PICK e \in S : \A d \in S : ~(<<later(d), later(e)>> \in StrictSubsetOrdering(S))
  BY <1>3
<1>5. SUFFICES ASSUME NEW d \in S, ~(d.id <= e.id) PROVE FALSE
  OBVIOUS
<1>6. later(d) \subseteq later(e) /\ d \in later(e) /\ d \notin later(d)
  BY <1>5
<1>7. <<later(d), later(e)>> \in StrictSubsetOrdering(S)
  <2>1. later(d) # later(e)
    BY <1>6
  <2>2. later(d) \in SUBSET S /\ later(e) \in SUBSET S
    OBVIOUS
  <2> HIDE DEF later
  <2> QED BY <1>6, <2>1, <2>2 DEF StrictSubsetOrdering
<1> QED BY <1>4, <1>7

(* A finite set put in a sequence: each member once. *)
LEMMA SeqOfSet ==
    ASSUME NEW S, IsFiniteSet(S)
    PROVE  /\ Cardinality(S) \in Nat
           /\ SetToSeq(S) \in [1..Cardinality(S) -> S]
           /\ \A i, j \in 1..Cardinality(S) : SetToSeq(S)[i] = SetToSeq(S)[j] => i = j
           /\ \A x \in S : \E i \in 1..Cardinality(S) : SetToSeq(S)[i] = x
PROOF
<1> DEFINE n == Cardinality(S)
           s == SetToSeq(S)
<1>1. n \in Nat /\ ExistsBijection(1..n, S)
  BY FS_CardinalityType
<1>2. \E f \in [1..n -> S] : IsInjective(f)
  BY <1>1 DEF ExistsBijection, Bijection, Injection
<1>3. s \in [1..n -> S] /\ IsInjective(s)
  BY <1>2 DEF SetToSeq
<1>4. s \in Injection(1..n, S)
  BY <1>3 DEF Injection
<1>5. IsFiniteSet(1..n) /\ Cardinality(1..n) = n
  BY <1>1, FS_Interval
<1>6. s \in Surjection(1..n, S)
  BY <1>4, <1>5, FS_Injection
<1>7. \A x \in S : \E i \in 1..n : s[i] = x
  BY <1>6 DEF Surjection
<1> QED BY <1>1, <1>3, <1>7 DEF IsInjective

----------------------------------------------------------------------------
(* The database: committed rows and open transactions.                     *)
(*                                                                         *)
(* A transaction relates its writes to the committed rows it has locked;   *)
(* nobody else can change those, so the relation lasts until it commits.   *)

IsRow(x) ==
    /\ DOMAIN x = {"st", "rev", "on", "to", "cat"}
    /\ x.st \in {"none", "live", "dead"} /\ x.rev \in Nat
    /\ x.st = "none" => x = NoRow

(* A record names one file. *)
HasFile(x) == \E f \in File : FileOf(x) = {f}

RowsOK(R) ==
    /\ DOMAIN R = Resource
    /\ \A r \in Resource : IsRow(R[r])
    /\ \A r \in Record : R[r].st # "none" => HasFile(R[r])

(* A write is one revision on from the committed row, or it buries a       *)
(* record, with whatever revision.                                         *)
Revised(new, old) ==
    /\ new.rev = old.rev + 1
    /\ \/ old.st = "none" /\ new.st = "live"
       \/ old.st = "live" /\ new.st \in {"live", "dead"}

Buried(new, old) == old.st # "none" /\ new.st = "dead"

(* A record keeps its file; a new one shares the row of its file.          *)
KeepsFile(new, old, share) ==
    IF old.st = "none" THEN HasFile(new) /\ FileOf(new) \subseteq share
                       ELSE FileOf(new) = FileOf(old)

(* The rows a live site names are shared, or were named before. *)
SharesNamed(new, old, share) ==
    new.st = "live" => \A e \in new.to \ share : old.st = "live" /\ e \in old.to

WriteOK(x, w, share, R) ==
    /\ x \in Resource /\ IsRow(w[x])
    /\ x \notin Favorite => Revised(w[x], R[x]) \/ (x \in Record /\ Buried(w[x], R[x]))
    /\ x \in Record => KeepsFile(w[x], R[x], share)
    /\ x \in Site => SharesNamed(w[x], R[x], share)
    /\ x \in Equipment /\ w[x].st = "dead" => \A s \in Site \cap DOMAIN w : x \notin w[s].to

WritesOK(w, share, R) == \A x \in DOMAIN w : WriteOK(x, w, share, R)

(* An event announces one of the writes, with its revision. *)
EventOK(e, w, R) ==
    /\ e.at \in DOMAIN w /\ e.at \notin Favorite
    /\ IF e.op = "DELETE" THEN w[e.at].st = "dead" ELSE w[e.at].st = "live"
    /\ e.op = "UPDATE" => e.rev = e.base + 1
    /\ e.op # "DELETE" \/ e.at \in Master => e.rev = R[e.at].rev + 1

(* One event a write, and every write to master data has one. *)
EventsOK(E, w, R) ==
    /\ \A e \in E : EventOK(e, w, R)
    /\ \A d, e \in E : d.at = e.at => d = e
    /\ \A x \in Master \cap DOMAIN w : \E e \in E : e.at = x

(* What a create has validated. *)
CreateOK(q) ==
    \E r \in Resource :
       /\ q.at = {r}
       /\ IsRow(q.arg) /\ q.arg.st = "live" /\ q.arg.rev = 1
       /\ r \in Record => HasFile(q.arg)

(* What an update or a delete has validated; master data are locked.       *)
EditOK(q, R) ==
    \E r \in Resource \ Favorite :
       /\ q.at = {r}
       /\ IsRow(q.arg) /\ q.arg.st = "live" /\ q.arg.rev = q.base
       /\ r \notin Record => r \in q.lock /\ R[r].st = "live" /\ R[r].rev = q.base

Columns == {"pc", "op", "at", "base", "arg", "write", "events", "lock", "share", "adv", "fails"}

(* A delete knows the file of its record, which its cleanup looks after.   *)
CleansOK(q) ==
    /\ q.op = "delete" => q.at # {} /\ (q.at \subseteq Record => HasFile(q.arg))
    /\ q.pc \in {"cleanup", "tombstone"} => q.op = "delete" /\ q.at \subseteq Record

RequestOK(q, R) ==
    /\ DOMAIN q = Columns /\ CleansOK(q)
    /\ DOMAIN q.write \subseteq q.lock
    /\ q.pc \notin {"cleared", "flushed"} => DOMAIN q.write = {}
    /\ WritesOK(q.write, q.share, R)
    /\ IF q.pc = "flushed" THEN EventsOK(q.events, q.write, R) ELSE q.events = {}
    /\ q.pc = "cleared" => \A x \in DOMAIN q.write :
                              x \in Record \ q.at /\ q.write[x].st = "live"
    /\ q.pc \in {"linked", "cleared", "read"} => q.at \subseteq Record
    /\ q.pc = "read" => q.op = "delete"
    /\ q.op = "create" /\ q.pc \in {"checked", "linked", "cleared"} => CreateOK(q)
    /\ q.op \in {"update", "delete"} /\ q.pc \in {"checked", "cleared", "read"} => EditOK(q, R)

(* What two transactions lock is disjoint. *)
LocksApart ==
    \A t, u \in Requests : t # u => req[t].lock \cap (req[u].lock \cup req[u].share) = {}

(* No live site that the writes w leave alone names an equipment they bury. *)
FreesSites(w, R) ==
    \A e \in Equipment \cap DOMAIN w : w[e].st = "dead" =>
       \A s \in Site \ DOMAIN w : R[s].st = "live" => e \notin R[s].to

StoreOK ==
    /\ RowsOK(row)
    /\ DOMAIN req = Requests
    /\ \A t \in Requests : RequestOK(req[t], row) /\ FreesSites(req[t].write, row)
    /\ LocksApart

(* The Reset lock: a Reset holds it exclusive.  A handler that has read a  *)
(* record holds it shared until it has written, so the record is there and *)
(* has its file, whatever the other handlers make of it.                   *)
Guarded(q, R) ==
    /\ q.op = "reset" <=> q.adv = "exclusive"
    /\ q.pc \in {"waiting", "locked", "deleting"} => q.op = "reset"
    /\ q.op \in {"update", "delete"} /\ q.pc \in {"checked", "cleared", "read"} =>
         \A r \in q.at \cap Record :
            q.adv = "shared" /\ R[r].st # "none" /\ FileOf(q.arg) = FileOf(R[r])

GuardOK ==
    /\ \A t \in Requests : Guarded(req[t], row)
    /\ \A t \in Requests : req[t].adv = "exclusive" => Exclusive(t)

(* A step of the transaction t alone, to q. *)
Moves(t, q) ==
    /\ DOMAIN req' = Requests /\ req'[t] = q
    /\ \A u \in Requests \ {t} : req'[u] = req[u]

(* The state q of t fits the rows and what the others have locked.         *)
Fits(t, q) ==
    /\ RequestOK(q, row) /\ FreesSites(q.write, row)
    /\ \A u \in Requests \ {t} :
         /\ (q.lock \ req[t].lock) \cap (req[u].lock \cup req[u].share) = {}
         /\ (q.share \ req[t].share) \cap req[u].lock = {}

LEMMA MoveKeepsStore ==
    ASSUME StoreOK, NEW t \in Requests, NEW q, Moves(t, q), Fits(t, q), row' = row
    PROVE  StoreOK'
PROOF
<1>1. \A u \in Requests : RequestOK(req'[u], row) /\ FreesSites(req'[u].write, row)
  BY DEF StoreOK, Moves, Fits
<1>2. LocksApart'
  <2> SUFFICES ASSUME NEW a \in Requests, NEW b \in Requests, a # b
               PROVE  req'[a].lock \cap (req'[b].lock \cup req'[b].share) = {}
    BY DEF LocksApart
  <2>1. req[a].lock \cap (req[b].lock \cup req[b].share) = {}
        /\ req[b].lock \cap (req[a].lock \cup req[a].share) = {}
    BY DEF StoreOK, LocksApart
  <2>2. CASE a = t
    <3>1. (q.lock \ req[t].lock) \cap (req[b].lock \cup req[b].share) = {}
      BY <2>2 DEF Fits
    <3> QED BY <2>1, <2>2, <3>1 DEF Moves
  <2>3. CASE b = t
    <3>1. /\ (q.lock \ req[t].lock) \cap (req[a].lock \cup req[a].share) = {}
          /\ (q.share \ req[t].share) \cap req[a].lock = {}
      BY <2>3 DEF Fits
    <3> QED BY <2>1, <2>3, <3>1 DEF Moves
  <2>4. CASE a # t /\ b # t
    BY <2>1, <2>4 DEF Moves
  <2> QED BY <2>2, <2>3, <2>4
<1> QED BY <1>1, <1>2 DEF StoreOK, Moves

(* A transaction that has written nothing yet and takes no new lock fits,  *)
(* if what it has validated is right.                                      *)
LEMMA PlainFits ==
    ASSUME StoreOK, NEW t \in Requests, NEW q,
           DOMAIN q = Columns, CleansOK(q), DOMAIN q.write = {}, q.events = {}, q.pc # "flushed",
           q.lock \subseteq req[t].lock, q.share \subseteq req[t].share,
           q.pc \in {"linked", "cleared", "read"} => q.at \subseteq Record,
           q.pc = "read" => q.op = "delete",
           q.op = "create" /\ q.pc \in {"checked", "linked", "cleared"} => CreateOK(q),
           q.op \in {"update", "delete"} /\ q.pc \in {"checked", "cleared", "read"} =>
              EditOK(q, row)
    PROVE  Fits(t, q)
PROOF
<1>1. RequestOK(q, row)
  BY DEF RequestOK, WritesOK
<1>2. FreesSites(q.write, row)
  BY DEF FreesSites
<1>3. q.lock \ req[t].lock = {} /\ q.share \ req[t].share = {}
  OBVIOUS
<1> QED BY <1>1, <1>2, <1>3 DEF Fits

LEMMA IdleFields ==
    /\ DOMAIN Idle = Columns
    /\ Idle.pc = "idle" /\ Idle.op = "none" /\ Idle.at = {} /\ Idle.arg = NoRow
    /\ DOMAIN Idle.write = {} /\ Idle.events = {} /\ Idle.lock = {} /\ Idle.share = {}
    /\ Idle.adv = "none"
PROOF BY DEF Idle, Columns

LEMMA IdleFits ==
    ASSUME StoreOK, NEW t \in Requests
    PROVE  Fits(t, Idle)
PROOF BY IdleFields, PlainFits DEF CleansOK

LEMMA NoRowIsRow == IsRow(NoRow) /\ NoRow.st = "none" /\ NoRow.rev = 0 /\ NoRow.to = {}
PROOF BY DEF IsRow, NoRow

(* What is known of a transaction holds while the rows it has locked stay. *)
LEMMA RequestStable ==
    ASSUME NEW q, NEW R, NEW S, RequestOK(q, R),
           \A x \in q.lock \cap Resource : S[x] = R[x]
    PROVE  RequestOK(q, S)
PROOF
<1>1. \A x \in DOMAIN q.write : S[x] = R[x]
  BY DEF RequestOK, WritesOK, WriteOK
<1>2. WritesOK(q.write, q.share, S)
  BY <1>1 DEF RequestOK, WritesOK, WriteOK
<1>3. q.pc = "flushed" => EventsOK(q.events, q.write, S)
  BY <1>1 DEF RequestOK, EventsOK, EventOK
<1>4. EditOK(q, R) => EditOK(q, S)
  BY DEF EditOK
<1> QED BY <1>2, <1>3, <1>4 DEF RequestOK

(* An empty transaction. *)
Empty(q) ==
    /\ DOMAIN q = Columns
    /\ DOMAIN q.write = {} /\ q.events = {} /\ q.lock = {} /\ q.share = {}
    /\ q.pc \in {"idle", "cleanup"} /\ CleansOK(q)

LEMMA EmptyIsOK ==
    ASSUME NEW q, NEW R, Empty(q)
    PROVE  RequestOK(q, R) /\ FreesSites(q.write, R)
PROOF BY DEF Empty, RequestOK, WritesOK, FreesSites

LEMMA EmptyKeepsLocks ==
    ASSUME StoreOK, NEW t \in Requests, NEW q, Moves(t, q), Empty(q)
    PROVE  LocksApart'
PROOF
<1> SUFFICES ASSUME NEW a \in Requests, NEW b \in Requests, a # b
             PROVE  req'[a].lock \cap (req'[b].lock \cup req'[b].share) = {}
  BY DEF LocksApart
<1>1. req[a].lock \cap (req[b].lock \cup req[b].share) = {}
  BY DEF StoreOK, LocksApart
<1> QED BY <1>1 DEF Moves, Empty

(* Committing the writes of a transaction. *)
LEMMA CommitKeepsStore ==
    ASSUME StoreOK, NEW t \in Requests, NEW q,
           CommitRows(t), Moves(t, q), Empty(q)
    PROVE  StoreOK'
PROOF
<1> DEFINE w == req[t].write
<1>1. RowsOK(row) /\ WritesOK(w, req[t].share, row) /\ DOMAIN w \subseteq req[t].lock
  BY DEF StoreOK, RequestOK
<1>2. DOMAIN row' = Resource
      /\ \A r \in Resource : row'[r] = IF r \in DOMAIN w THEN w[r] ELSE row[r]
  BY DEF CommitRows
<1>3. RowsOK(row')
  <2>1. \A r \in Resource : IsRow(row'[r])
    BY <1>1, <1>2 DEF RowsOK, WritesOK, WriteOK
  <2>2. ASSUME NEW r \in Record, row'[r].st # "none" PROVE HasFile(row'[r])
    <3>1. r \in Resource
      BY DEF Resource
    <3>2. CASE r \in DOMAIN w
      BY <1>1, <1>2, <2>2, <3>1, <3>2 DEF WritesOK, WriteOK, KeepsFile, RowsOK, HasFile
    <3>3. CASE r \notin DOMAIN w
      BY <1>1, <1>2, <2>2, <3>1, <3>3 DEF RowsOK
    <3> QED BY <3>2, <3>3
  <2> QED BY <1>2, <2>1, <2>2 DEF RowsOK
<1>4. ASSUME NEW u \in Requests, u # t
      PROVE  RequestOK(req'[u], row') /\ FreesSites(req'[u].write, row')
  <2>1. req'[u] = req[u]
    BY <1>4 DEF Moves
  <2>2. /\ req[u].lock \cap (req[t].lock \cup req[t].share) = {}
        /\ RequestOK(req[u], row) /\ FreesSites(req[u].write, row)
    BY <1>4 DEF StoreOK, LocksApart
  <2>3. RequestOK(req[u], row')
    <3>1. \A x \in req[u].lock \cap Resource : row'[x] = row[x]
      BY <1>1, <1>2, <2>2
    <3> QED BY <2>2, <3>1, RequestStable
  <2>4. FreesSites(req[u].write, row')
    <3> SUFFICES ASSUME NEW e \in Equipment \cap DOMAIN req[u].write,
                        req[u].write[e].st = "dead",
                        NEW s \in Site \ DOMAIN req[u].write, row'[s].st = "live",
                        e \in row'[s].to
                 PROVE  FALSE
      BY DEF FreesSites
    <3>1. ~(row[s].st = "live" /\ e \in row[s].to)
      BY <2>2 DEF FreesSites
    <3>2. s \in Resource /\ e \in req[u].lock
      BY <2>2 DEF Resource, RequestOK
    <3>3. s \in DOMAIN w
      BY <1>2, <3>1, <3>2
    <3>4. SharesNamed(w[s], row[s], req[t].share)
      BY <1>1, <3>3 DEF WritesOK, WriteOK
    <3>5. e \in req[t].share
      BY <1>2, <3>1, <3>2, <3>3, <3>4 DEF SharesNamed
    <3> QED BY <2>2, <3>2, <3>5
  <2> QED BY <2>1, <2>3, <2>4
<1>5. RequestOK(req'[t], row') /\ FreesSites(req'[t].write, row')
  BY EmptyIsOK DEF Moves
<1>6. LocksApart'
  BY EmptyKeepsLocks
<1> QED BY <1>3, <1>4, <1>5, <1>6 DEF StoreOK, Moves

(* A Reset deletes every record, once nobody else holds one. *)
LEMMA ResetKeepsStore ==
    ASSUME StoreOK, NEW t \in Requests, NEW q, Moves(t, q), Empty(q),
           CanLock(t, {r \in Record : row[r].st # "none"}),
           row' = [r \in Resource |-> IF r \in Record THEN NoRow ELSE row[r]]
    PROVE  StoreOK'
PROOF
<1>1. RowsOK(row) /\ RowsOK(row')
  BY NoRowIsRow DEF StoreOK, RowsOK, Resource
<1>2. ASSUME NEW u \in Requests, u # t
      PROVE  RequestOK(req'[u], row') /\ FreesSites(req'[u].write, row')
  <2>1. req'[u] = req[u] /\ RequestOK(req[u], row) /\ FreesSites(req[u].write, row)
    BY <1>2 DEF Moves, StoreOK
  <2>2. \A x \in req[u].lock \cap Resource : row'[x] = row[x]
    <3> SUFFICES ASSUME NEW x \in Resource, x \in Record, x \in req[u].lock
                 PROVE  row[x] = NoRow
      OBVIOUS
    <3>1. row[x].st = "none"
      BY <1>2 DEF CanLock
    <3> QED BY <1>1, <3>1 DEF RowsOK, IsRow
  <2>3. RequestOK(req[u], row')
    BY <2>1, <2>2, RequestStable
  <2>4. FreesSites(req[u].write, row')
    BY <2>1, TablesAssumption DEF FreesSites, Resource
  <2> QED BY <2>1, <2>3, <2>4
<1>3. RequestOK(req'[t], row') /\ FreesSites(req'[t].write, row')
  BY EmptyIsOK DEF Moves
<1>4. LocksApart'
  BY EmptyKeepsLocks
<1> QED BY <1>1, <1>2, <1>3, <1>4 DEF StoreOK, Moves

----------------------------------------------------------------------------
(* The flush of a transaction.                                             *)

EventColumns == {"id", "at", "op", "rev", "base"}

LEMMA EventFields ==
    ASSUME NEW r, NEW op, NEW rev, NEW base
    PROVE  /\ DOMAIN Event(r, op, rev, base) = EventColumns
           /\ Event(r, op, rev, base).at = r /\ Event(r, op, rev, base).op = op
           /\ Event(r, op, rev, base).rev = rev /\ Event(r, op, rev, base).base = base
PROOF BY DEF Event, EventColumns

(* The sequence es announces the writes w. *)
Announces(es, w, R) ==
    /\ Len(es) \in Nat /\ DOMAIN es = 1..Len(es)
    /\ \A i \in DOMAIN es : DOMAIN es[i] = EventColumns /\ EventOK(es[i], w, R)
    /\ \A i, j \in DOMAIN es : es[i].at = es[j].at => i = j
    /\ \A x \in Master \cap DOMAIN w : \E i \in DOMAIN es : es[i].at = x

LEMMA NumberedFields ==
    ASSUME NEW e, NEW k, DOMAIN e = EventColumns
    PROVE  LET n == [e EXCEPT !.id = k]
           IN  /\ n.id = k /\ n.at = e.at /\ n.op = e.op /\ n.rev = e.rev /\ n.base = e.base
               /\ DOMAIN n = EventColumns
PROOF BY DEF EventColumns

LEMMA NumberedEventsOK ==
    ASSUME NEW es, NEW w, NEW R, Announces(es, w, R)
    PROVE  EventsOK(Append_(es), w, R)
PROOF
<1>1. ASSUME NEW i \in DOMAIN es
      PROVE  EventOK([es[i] EXCEPT !.id = seq + i], w, R)
  <2>1. DOMAIN es[i] = EventColumns /\ EventOK(es[i], w, R)
    BY DEF Announces
  <2> DEFINE n == [es[i] EXCEPT !.id = seq + i]
  <2>2. n.at = es[i].at /\ n.op = es[i].op /\ n.rev = es[i].rev /\ n.base = es[i].base
    BY <2>1, NumberedFields
  <2> HIDE DEF n
  <2> QED BY <2>1, <2>2 DEF EventOK, n
<1>2. \A i \in DOMAIN es : [es[i] EXCEPT !.id = seq + i].at = es[i].at
  BY NumberedFields DEF Announces
<1>3. \A d, e \in Append_(es) : d.at = e.at => d = e
  <2> SUFFICES ASSUME NEW i \in DOMAIN es, NEW j \in DOMAIN es,
                      [es[i] EXCEPT !.id = seq + i].at = [es[j] EXCEPT !.id = seq + j].at
               PROVE  i = j
    BY DEF Append_
  <2> QED BY <1>2 DEF Announces
<1>4. \A x \in Master \cap DOMAIN w : \E e \in Append_(es) : e.at = x
  <2> TAKE x \in Master \cap DOMAIN w
  <2>1. PICK i \in DOMAIN es : es[i].at = x
    BY DEF Announces
  <2>2. [es[i] EXCEPT !.id = seq + i] \in Append_(es)
    BY DEF Append_
  <2> QED BY <1>2, <2>1, <2>2
<1>5. \A e \in Append_(es) : EventOK(e, w, R)
  BY <1>1 DEF Append_
<1> QED BY <1>3, <1>4, <1>5 DEF EventsOK

(* One event, none, a set of them, or a set and one more. *)
LEMMA AnnounceNone ==
    ASSUME NEW w, NEW R, Master \cap DOMAIN w = {}
    PROVE  Announces(<< >>, w, R)
PROOF BY DEF Announces

LEMMA AnnounceOne ==
    ASSUME NEW e, NEW w, NEW R, DOMAIN e = EventColumns, EventOK(e, w, R),
           \A x \in Master \cap DOMAIN w : e.at = x
    PROVE  Announces(<<e>>, w, R)
PROOF
<1>1. Len(<<e>>) = 1 /\ DOMAIN <<e>> = 1..1 /\ <<e>>[1] = e
  OBVIOUS
<1> DEFINE s == <<e>>
<1>2. Len(s) = 1 /\ DOMAIN s = {1} /\ s[1] = e
  BY <1>1
<1> HIDE DEF s
<1>3. Announces(s, w, R)
  BY <1>2 DEF Announces
<1> QED BY <1>3 DEF s

LEMMA AnnounceSet ==
    ASSUME NEW S, NEW w, NEW R, IsFiniteSet(S),
           \A e \in S : DOMAIN e = EventColumns /\ EventOK(e, w, R),
           \A d, e \in S : d.at = e.at => d = e,
           \A x \in Master \cap DOMAIN w : \E e \in S : e.at = x
    PROVE  Announces(SetToSeq(S), w, R)
PROOF
<1> DEFINE n == Cardinality(S)
           s == SetToSeq(S)
<1>1. /\ n \in Nat /\ s \in [1..n -> S]
      /\ \A i, j \in 1..n : s[i] = s[j] => i = j
      /\ \A x \in S : \E i \in 1..n : s[i] = x
  BY SeqOfSet
<1>2. Len(s) = n /\ DOMAIN s = 1..n
  BY <1>1
<1> HIDE DEF n, s
<1>3. Announces(s, w, R)
  BY <1>1, <1>2 DEF Announces
<1> QED BY <1>3 DEF s

LEMMA AnnounceSetAndOne ==
    ASSUME NEW S, NEW l, NEW w, NEW R, IsFiniteSet(S),
           DOMAIN l = EventColumns, EventOK(l, w, R),
           \A e \in S : DOMAIN e = EventColumns /\ EventOK(e, w, R) /\ e.at # l.at,
           \A d, e \in S : d.at = e.at => d = e,
           \A x \in Master \cap DOMAIN w : l.at = x \/ \E e \in S : e.at = x
    PROVE  Announces(SetToSeq(S) \o <<l>>, w, R)
PROOF
<1> DEFINE n == Cardinality(S)
           s == SetToSeq(S)
           es == s \o <<l>>
<1>1. /\ n \in Nat /\ s \in [1..n -> S]
      /\ \A i, j \in 1..n : s[i] = s[j] => i = j
      /\ \A x \in S : \E i \in 1..n : s[i] = x
  BY SeqOfSet
<1> HIDE DEF n, s
<1>2. /\ Len(es) = n + 1 /\ DOMAIN es = 1..(n + 1)
      /\ \A i \in 1..n : es[i] = s[i]
      /\ es[n + 1] = l
  <2>1. s \in Seq(S \cup {l}) /\ <<l>> \in Seq(S \cup {l}) /\ Len(s) = n
    BY <1>1
  <2> QED BY <1>1, <2>1
<1> HIDE DEF es
<1>3. \A i \in DOMAIN es : (i \in 1..n /\ es[i] = s[i] /\ s[i] \in S) \/ (i = n + 1 /\ es[i] = l)
  BY <1>1, <1>2
<1>4. \A i \in DOMAIN es : DOMAIN es[i] = EventColumns /\ EventOK(es[i], w, R)
  BY <1>3
<1>5. ASSUME NEW i \in DOMAIN es, NEW j \in DOMAIN es, es[i].at = es[j].at
      PROVE  i = j
  <2>1. CASE i = n + 1 /\ j = n + 1
    BY <2>1
  <2>2. CASE i = n + 1 /\ j # n + 1
    <3>1. es[j] \in S /\ es[i] = l
      BY <1>2, <1>3, <2>2
    <3> QED BY <1>5, <3>1
  <2>3. CASE i # n + 1 /\ j = n + 1
    <3>1. es[i] \in S /\ es[j] = l
      BY <1>2, <1>3, <2>3
    <3> QED BY <1>5, <3>1
  <2>4. CASE i # n + 1 /\ j # n + 1
    <3>1. es[i] = s[i] /\ es[j] = s[j] /\ s[i] \in S /\ s[j] \in S /\ i \in 1..n /\ j \in 1..n
      BY <1>3, <2>4
    <3>2. s[i] = s[j]
      BY <1>5, <3>1
    <3> QED BY <1>1, <3>1, <3>2
  <2> QED BY <2>1, <2>2, <2>3, <2>4
<1>6. \A x \in Master \cap DOMAIN w : \E i \in DOMAIN es : es[i].at = x
  <2> TAKE x \in Master \cap DOMAIN w
  <2>1. CASE l.at = x
    BY <1>1, <1>2, <2>1
  <2>2. CASE l.at # x
    <3>1. PICK e \in S : e.at = x
      BY <2>2
    <3>2. PICK i \in 1..n : s[i] = e
      BY <1>1
    <3> QED BY <1>1, <1>2, <3>1, <3>2
  <2> QED BY <2>1, <2>2
<1>7. Announces(es, w, R)
  BY <1>1, <1>2, <1>4, <1>5, <1>6 DEF Announces
<1> QED BY <1>7 DEF es, s

(* What a flush makes of the transaction. *)
LEMMA FlushFields ==
    ASSUME StoreOK, NEW t \in Requests, NEW w, NEW es, NEW shared, NEW fails,
           FlushAndFail(t, w, es, shared, fails)
    PROVE  /\ Moves(t, req'[t])
           /\ DOMAIN req'[t] = Columns
           /\ req'[t].pc = "flushed" /\ req'[t].write = w /\ req'[t].events = Append_(es)
           /\ req'[t].lock = req[t].lock \cup DOMAIN w
           /\ req'[t].share = req[t].share \cup shared
           /\ req'[t].op = req[t].op /\ req'[t].at = req[t].at /\ req'[t].arg = req[t].arg
           /\ req'[t].base = req[t].base /\ req'[t].adv = req[t].adv
           /\ row' = row /\ log' = log /\ seq' = seq + Len(es)
           /\ UNCHANGED <<cursor, seen, inflight>>
PROOF
<1>1. DOMAIN req = Requests /\ DOMAIN req[t] = Columns
  BY DEF StoreOK, RequestOK
<1> DEFINE q == [[[[[[req[t] EXCEPT !.pc = "flushed"] EXCEPT !.write = w]
                     EXCEPT !.events = Append_(es)] EXCEPT !.lock = @ \cup DOMAIN w]
                     EXCEPT !.share = @ \cup shared] EXCEPT !.fails = fails]
<1>2. req' = [req EXCEPT ![t] = q]
  BY <1>1 DEF FlushAndFail, Columns
<1>3. Moves(t, req'[t]) /\ req'[t] = q
  BY <1>1, <1>2 DEF Moves
<1>4. /\ DOMAIN q = Columns
      /\ q.pc = "flushed" /\ q.write = w /\ q.events = Append_(es)
      /\ q.lock = req[t].lock \cup DOMAIN w
      /\ q.share = req[t].share \cup shared
      /\ q.op = req[t].op /\ q.at = req[t].at /\ q.arg = req[t].arg
      /\ q.base = req[t].base /\ q.adv = req[t].adv
  BY <1>1 DEF Columns
<1> HIDE DEF q
<1> QED BY <1>3, <1>4 DEF FlushAndFail

(* Writes that fit, are announced and are locked may be flushed. *)
LEMMA FlushFits ==
    ASSUME StoreOK, NEW t \in Requests, NEW w, NEW es, NEW shared, NEW fails,
           FlushAndFail(t, w, es, shared, fails),
           WritesOK(w, req[t].share \cup shared, row),
           Announces(es, w, row),
           FreesSites(w, row),
           CanLock(t, DOMAIN w \ req[t].lock), CanShare(t, shared)
    PROVE  Fits(t, req'[t]) /\ StoreOK'
PROOF
<1> DEFINE q == req'[t]
<1>1. /\ Moves(t, q) /\ DOMAIN q = Columns
      /\ q.pc = "flushed" /\ q.write = w /\ q.events = Append_(es)
      /\ q.lock = req[t].lock \cup DOMAIN w
      /\ q.share = req[t].share \cup shared
      /\ row' = row
  BY FlushFields
<1>2. EventsOK(Append_(es), w, row)
  BY NumberedEventsOK
<1> HIDE DEF q
<1>3. RequestOK(q, row)
  <2>1. CleansOK(req[t]) /\ q.op = req[t].op /\ q.at = req[t].at /\ q.arg = req[t].arg
    BY FlushFields DEF StoreOK, RequestOK, q
  <2>2. CleansOK(q)
    BY <1>1, <2>1 DEF CleansOK
  <2> QED BY <1>1, <1>2, <2>2 DEF RequestOK
<1>4. FreesSites(q.write, row)
  BY <1>1
<1>5. \A u \in Requests \ {t} :
        /\ (q.lock \ req[t].lock) \cap (req[u].lock \cup req[u].share) = {}
        /\ (q.share \ req[t].share) \cap req[u].lock = {}
  <2> TAKE u \in Requests \ {t}
  <2>1. (DOMAIN w \ req[t].lock) \cap (req[u].lock \cup req[u].share) = {}
        /\ shared \cap req[u].lock = {}
    BY DEF CanLock, CanShare
  <2> QED BY <1>1, <2>1
<1>6. Fits(t, q)
  BY <1>3, <1>4, <1>5 DEF Fits
<1>7. StoreOK'
  BY <1>1, <1>6, MoveKeepsStore
<1> QED BY <1>6, <1>7 DEF q

(* A transaction begins. *)
LEMMA BeginFields ==
    ASSUME StoreOK, NEW t \in Requests, NEW q, Begin(t, q)
    PROVE  /\ Moves(t, q) /\ row' = row /\ req'[t] = q
           /\ UNCHANGED <<seq, log, cursor, seen, inflight>>
PROOF BY DEF Begin, Moves, StoreOK

----------------------------------------------------------------------------
(* The steps of the master data handlers keep the store in order.          *)

(* t keeps the Reset lock or lets it go, or takes it when it is free.      *)
Obtains(t, adv) ==
    \/ adv \in {req[t].adv, "none"}
    \/ adv = "shared" /\ SharedLock(t)
    \/ adv = "exclusive" /\ Exclusive(t)

(* A step of t that commits nothing; a flush draws ids for its events.     *)
Works(t) ==
    /\ Moves(t, req'[t])
    /\ UNCHANGED <<row, log, cursor, seen, inflight>>
    /\ Guarded(req'[t], row) /\ Obtains(t, req'[t].adv)
    /\ \/ req'[t].events = {} /\ seq' = seq
       \/ \E es, w : /\ Announces(es, w, row)
                     /\ req'[t].events = Append_(es) /\ seq' = seq + Len(es)

LEMMA WorksKeepsGuard ==
    ASSUME StoreOK, GuardOK, NEW t \in Requests, Works(t)
    PROVE  GuardOK'
PROOF
<1>1. \A u \in Requests : Guarded(req'[u], row')
  BY DEF Works, Moves, GuardOK
<1>2. ASSUME NEW u \in Requests, req'[u].adv = "exclusive", NEW v \in Requests, v # u
      PROVE  req'[v].adv = "none"
  <2>1. /\ \A x \in Requests \ {t} : req'[x] = req[x]
        /\ \A x \in Requests : req[x].adv = "exclusive" =>
             \A y \in Requests \ {x} : req[y].adv = "none"
    BY DEF Works, Moves, GuardOK, Exclusive
  <2>2. \/ req'[t].adv \in {req[t].adv, "none"}
        \/ req'[t].adv = "shared" /\ \A y \in Requests \ {t} : req[y].adv # "exclusive"
        \/ req'[t].adv = "exclusive" /\ \A y \in Requests \ {t} : req[y].adv = "none"
    BY DEF Works, Obtains, SharedLock, Exclusive
  <2> QED BY <1>2, <2>1, <2>2
<1> QED BY <1>1, <1>2 DEF GuardOK, Exclusive

LEMMA FlushWorks ==
    ASSUME StoreOK, GuardOK, NEW t \in Requests, NEW w, NEW es, NEW shared, NEW fails,
           FlushAndFail(t, w, es, shared, fails), Announces(es, w, row)
    PROVE  Works(t)
PROOF
<1>1. Guarded(req[t], row)
  BY DEF GuardOK
<1>2. Guarded(req'[t], row) /\ Obtains(t, req'[t].adv)
  BY <1>1, FlushFields DEF Guarded, Obtains
<1> QED BY <1>2, FlushFields DEF Works

LEMMA BeginWorks ==
    ASSUME StoreOK, NEW t \in Requests, NEW q, Begin(t, q), q.events = {},
           Guarded(q, row), Obtains(t, q.adv)
    PROVE  Works(t)
PROOF BY BeginFields DEF Works

LEMMA NewRowIsRow ==
    ASSUME NEW on, NEW to, NEW cat
    PROVE  LET x == NewRow(on, to, cat)
           IN  IsRow(x) /\ x.st = "live" /\ x.rev = 1 /\ x.to = to
PROOF BY DEF NewRow, IsRow

LEMMA RowFacts ==
    ASSUME StoreOK, NEW r \in Resource
    PROVE  IsRow(row[r]) /\ row[r].rev \in Nat /\ (row[r].st = "none" => row[r].rev = 0)
PROOF BY NoRowIsRow DEF StoreOK, RowsOK, IsRow

(* A single write. *)
LEMMA OneWrite ==
    ASSUME NEW r \in Resource, NEW new, NEW share, NEW R, IsRow(new),
           r \notin Favorite => Revised(new, R[r]) \/ (r \in Record /\ Buried(new, R[r])),
           r \in Record => KeepsFile(new, R[r], share),
           r \in Site => SharesNamed(new, R[r], share)
    PROVE  /\ DOMAIN WriteOf(r, new) = {r} /\ WriteOf(r, new)[r] = new
           /\ WritesOK(WriteOf(r, new), share, R)
           /\ r \notin Equipment \/ new.st # "dead" => FreesSites(WriteOf(r, new), R)
PROOF
<1> DEFINE w == WriteOf(r, new)
<1>1. DOMAIN w = {r} /\ w[r] = new
  BY DEF WriteOf
<1> HIDE DEF w
<1>2. r \in Equipment => r \notin Site
  BY TablesAssumption
<1>3. WritesOK(w, share, R)
  BY <1>1, <1>2 DEF WritesOK, WriteOK
<1>4. r \notin Equipment \/ new.st # "dead" => FreesSites(w, R)
  BY <1>1 DEF FreesSites
<1> QED BY <1>1, <1>3, <1>4 DEF w

(* The event of a single write. *)
LEMMA OneEvent ==
    ASSUME NEW r, r \notin Favorite, NEW op, NEW rev, NEW base, NEW w, NEW R, r \in DOMAIN w,
           IF op = "DELETE" THEN w[r].st = "dead" ELSE w[r].st = "live",
           op = "UPDATE" => rev = base + 1,
           op # "DELETE" \/ r \in Master => rev = R[r].rev + 1
    PROVE  LET e == Event(r, op, rev, base)
           IN  DOMAIN e = EventColumns /\ EventOK(e, w, R) /\ e.at = r
PROOF BY EventFields DEF EventOK

LEMMA BeginCreateWorks ==
    ASSUME StoreOK, GuardOK, NEW t \in Requests, NEW r \in Resource \ Record, NEW on, NEW to, NEW cat,
           BeginCreate(t, r, NewRow(on, to, cat))
    PROVE  StoreOK' /\ Works(t)
PROOF
<1> DEFINE new == NewRow(on, to, cat)
           q == [Idle EXCEPT !.pc = "checked", !.op = "create", !.at = {r}, !.arg = new]
<1>1. IsRow(new) /\ new.st = "live" /\ new.rev = 1
  BY NewRowIsRow
<1> HIDE DEF new
<1>2. /\ DOMAIN q = Columns /\ q.pc = "checked" /\ q.op = "create" /\ q.at = {r} /\ q.arg = new
      /\ DOMAIN q.write = {} /\ q.events = {} /\ q.lock = {} /\ q.share = {} /\ q.adv = "none"
  BY DEF Idle, Columns
<1>3. Begin(t, q)
  BY DEF BeginCreate, new
<1> HIDE DEF q
<1>4. CreateOK(q)
  BY <1>1, <1>2 DEF CreateOK
<1>5. Fits(t, q)
  BY <1>2, <1>4, PlainFits DEF CleansOK
<1>6. Moves(t, q) /\ row' = row
  BY <1>3, BeginFields
<1>7. StoreOK'
  BY <1>5, <1>6, MoveKeepsStore
<1>8. Works(t)
  <2>1. Guarded(q, row) /\ Obtains(t, q.adv)
    BY <1>2 DEF Guarded, Obtains
  <2> QED BY <1>2, <1>3, <2>1, BeginWorks
<1> QED BY <1>7, <1>8

LEMMA LockForEditWorks ==
    ASSUME StoreOK, GuardOK, NEW t \in Requests, NEW r \in Equipment \cup Site \cup Reference, NEW x,
           NEW op \in {"update", "delete"}, NEW new,
           LockForEdit(t, r, x, op, new), IsRow(new), new.st = "live", new.rev = row[r].rev
    PROVE  StoreOK' /\ Works(t)
PROOF
<1> DEFINE q == [Idle EXCEPT !.pc = "checked", !.op = op, !.at = {r}, !.base = x,
                             !.arg = new, !.lock = {r}]
<1>1. /\ DOMAIN q = Columns /\ q.pc = "checked" /\ q.op = op /\ q.at = {r} /\ q.arg = new
      /\ q.base = x /\ DOMAIN q.write = {} /\ q.events = {} /\ q.lock = {r} /\ q.share = {}
      /\ q.adv = "none"
  BY DEF Idle, Columns
<1>2. Begin(t, q) /\ CanLock(t, {r}) /\ row[r].st = "live" /\ row[r].rev = x
  BY DEF LockForEdit, Live
<1> HIDE DEF q
<1>3. r \in Resource \ Favorite
  BY TablesAssumption DEF Resource
<1>4. EditOK(q, row)
  BY <1>1, <1>2, <1>3 DEF EditOK
<1>5. RequestOK(q, row)
  <2>1. r \notin Record
    BY TablesAssumption
  <2>2. CleansOK(q)
    BY <1>1, <2>1 DEF CleansOK
  <2> QED BY <1>1, <1>4, <2>2 DEF RequestOK, WritesOK
<1>6. Fits(t, q)
  BY <1>1, <1>2, <1>5 DEF Fits, FreesSites, CanLock
<1>7. Moves(t, q) /\ row' = row
  BY <1>2, BeginFields
<1>8. StoreOK'
  BY <1>6, <1>7, MoveKeepsStore
<1>9. Works(t)
  <2>1. r \notin Record
    BY TablesAssumption
  <2>2. Guarded(q, row) /\ Obtains(t, q.adv)
    BY <1>1, <2>1 DEF Guarded, Obtains
  <2> QED BY <1>1, <1>2, <2>2, BeginWorks
<1> QED BY <1>8, <1>9

LEMMA CreatesWork ==
    ASSUME StoreOK, GuardOK, NEW t \in Requests,
           \/ \E e \in Equipment : EquipmentCreate(t, e)
           \/ \E s \in Site : SiteCreate(t, s)
           \/ \E g \in Reference : ReferenceCreate(t, g)
           \/ \E c \in Favorite : FavoriteAdd(t, c)
    PROVE  StoreOK' /\ Works(t)
PROOF
<1>1. \A r \in Equipment \cup Site \cup Reference \cup Favorite : r \in Resource \ Record
  BY TablesAssumption DEF Resource
<1>2. ASSUME NEW e \in Equipment, EquipmentCreate(t, e) PROVE StoreOK' /\ Works(t)
  <2>1. PICK on \in BOOLEAN : BeginCreate(t, e, NewRow(on, {}, NoCatalog))
    BY <1>2 DEF EquipmentCreate
  <2> QED BY <1>1, <2>1, BeginCreateWorks
<1>3. ASSUME NEW s \in Site, SiteCreate(t, s) PROVE StoreOK' /\ Works(t)
  <2>1. PICK E \in {{}} \cup {{e} : e \in Equipment} : BeginCreate(t, s, NewRow(FALSE, E, NoCatalog))
    BY <1>3 DEF SiteCreate
  <2> QED BY <1>1, <2>1, BeginCreateWorks
<1>4. ASSUME NEW g \in Reference, ReferenceCreate(t, g) PROVE StoreOK' /\ Works(t)
  <2>1. PICK s \in Site, e \in Equipment, cat \in Catalog :
           BeginCreate(t, g, NewRow(FALSE, {s, e}, cat))
    BY <1>4 DEF ReferenceCreate
  <2> QED BY <1>1, <2>1, BeginCreateWorks
<1>5. ASSUME NEW c \in Favorite, FavoriteAdd(t, c) PROVE StoreOK' /\ Works(t)
  <2>1. BeginCreate(t, c, NewRow(FALSE, {}, NoCatalog))
    BY <1>5 DEF FavoriteAdd
  <2> QED BY <1>1, <2>1, BeginCreateWorks
<1> QED BY <1>2, <1>3, <1>4, <1>5

LEMMA LocksWork ==
    ASSUME StoreOK, GuardOK, NEW t \in Requests,
           \/ \E e \in Equipment : EquipmentUpdate(t, e) \/ MasterDelete(t, e)
           \/ \E s \in Site : SiteUpdate(t, s) \/ MasterDelete(t, s)
           \/ \E g \in Reference : ReferenceUpdate(t, g) \/ MasterDelete(t, g)
    PROVE  StoreOK' /\ Works(t)
PROOF
<1>1. \A r \in Equipment \cup Site \cup Reference : r \in Resource
  BY DEF Resource
<1>2. ASSUME NEW r \in Equipment \cup Site \cup Reference, NEW x, NEW op \in {"update", "delete"},
             NEW new,
             LockForEdit(t, r, x, op, new),
             \/ \E on : new = [row[r] EXCEPT !.on = on]
             \/ \E to : new = [row[r] EXCEPT !.to = to]
             \/ new = row[r]
      PROVE  StoreOK' /\ Works(t)
  <2> DEFINE old == row[r]
  <2>1. IsRow(old) /\ old.st = "live"
    BY <1>1, <1>2, RowFacts DEF LockForEdit, Live
  <2> HIDE DEF old
  <2>2. \A on : LET y == [old EXCEPT !.on = on] IN IsRow(y) /\ y.st = "live" /\ y.rev = old.rev
    BY <2>1 DEF IsRow
  <2>3. \A to : LET y == [old EXCEPT !.to = to] IN IsRow(y) /\ y.st = "live" /\ y.rev = old.rev
    BY <2>1 DEF IsRow
  <2>4. \/ \E on : new = [old EXCEPT !.on = on]
        \/ \E to : new = [old EXCEPT !.to = to]
        \/ new = old
    BY <1>2 DEF old
  <2>5. IsRow(new) /\ new.st = "live" /\ new.rev = old.rev
    BY <2>1, <2>2, <2>3, <2>4 DEF old
  <2> QED BY <1>2, <2>5, LockForEditWorks DEF old
<1>3. ASSUME NEW r \in Equipment \cup Site \cup Reference, MasterDelete(t, r)
      PROVE  StoreOK' /\ Works(t)
  <2>1. PICK x \in 1..row[r].rev : LockForEdit(t, r, x, "delete", row[r])
    BY <1>3 DEF MasterDelete
  <2> QED BY <1>2, <2>1
<1>4. ASSUME NEW e \in Equipment, EquipmentUpdate(t, e) PROVE StoreOK' /\ Works(t)
  <2>1. PICK x \in 1..row[e].rev, on \in BOOLEAN :
           LockForEdit(t, e, x, "update", [row[e] EXCEPT !.on = on])
    BY <1>4 DEF EquipmentUpdate
  <2> QED BY <1>2, <2>1
<1>5. ASSUME NEW s \in Site, SiteUpdate(t, s) PROVE StoreOK' /\ Works(t)
  <2>1. PICK x \in 1..row[s].rev, E \in {row[s].to, {}} \cup {{e} : e \in Equipment} :
           LockForEdit(t, s, x, "update", [row[s] EXCEPT !.to = E])
    BY <1>5 DEF SiteUpdate
  <2> QED BY <1>2, <2>1
<1>6. ASSUME NEW g \in Reference, ReferenceUpdate(t, g) PROVE StoreOK' /\ Works(t)
  <2>1. PICK x \in 1..row[g].rev, s \in Site, e \in Equipment :
           LockForEdit(t, g, x, "update", [row[g] EXCEPT !.to = {s, e}])
    BY <1>6 DEF ReferenceUpdate
  <2> QED BY <1>2, <2>1
<1> QED BY <1>3, <1>4, <1>5, <1>6

(* A row once checked is locked, so an update or a delete of master data   *)
(* writes over the row that it has read.                                   *)
LEMMA CheckedRow ==
    ASSUME StoreOK, GuardOK, NEW t \in Requests, NEW r \in req[t].at, r \notin Record,
           req[t].pc = "checked", req[t].op \in {"update", "delete"}
    PROVE  /\ r \in Resource \ Favorite /\ r \in req[t].lock
           /\ row[r].st = "live" /\ row[r].rev = req[t].base /\ req[t].base \in Nat
           /\ IsRow(row[r])
           /\ IsRow(req[t].arg) /\ req[t].arg.st = "live" /\ req[t].arg.rev = req[t].base
PROOF
<1>1. EditOK(req[t], row)
  BY DEF StoreOK, RequestOK
<1>2. r \in Resource \ Favorite /\ r \in req[t].lock
      /\ row[r].st = "live" /\ row[r].rev = req[t].base
      /\ IsRow(req[t].arg) /\ req[t].arg.st = "live" /\ req[t].arg.rev = req[t].base
  BY <1>1 DEF EditOK
<1>3. IsRow(row[r]) /\ row[r].rev \in Nat
  BY <1>2, RowFacts
<1> QED BY <1>2, <1>3

LEMMA InsertWorks ==
    ASSUME StoreOK, GuardOK, NEW t \in Requests, Insert(t)
    PROVE  StoreOK' /\ Works(t)
PROOF
<1> DEFINE new == req[t].arg
<1>1. PICK r \in req[t].at :
        /\ req[t].pc = "checked" /\ req[t].op = "create" /\ r \notin Record
        /\ CanLock(t, {r}) /\ CanShare(t, new.to)
        /\ row[r].st = "none"
        /\ Flush(t, WriteOf(r, new),
                 IF r \in Favorite THEN << >> ELSE <<Event(r, "CREATE", 1, 0)>>, new.to)
  BY DEF Insert
<1> DEFINE w == WriteOf(r, new)
           es == IF r \in Favorite THEN << >> ELSE <<Event(r, "CREATE", 1, 0)>>
<1>2. CreateOK(req[t])
  BY <1>1 DEF StoreOK, RequestOK
<1>3. r \in Resource /\ IsRow(new) /\ new.st = "live" /\ new.rev = 1
  BY <1>2 DEF CreateOK
<1>4. row[r].rev = 0
  BY <1>1, <1>3, RowFacts
<1> HIDE DEF new
<1>5. Revised(new, row[r])
  BY <1>1, <1>3, <1>4 DEF Revised
<1>6. SharesNamed(new, row[r], req[t].share \cup new.to)
  BY DEF SharesNamed
<1>7. DOMAIN w = {r} /\ w[r] = new /\ WritesOK(w, req[t].share \cup new.to, row) /\ FreesSites(w, row)
  BY <1>1, <1>3, <1>5, <1>6, OneWrite
<1> HIDE DEF w
<1>8. Announces(es, w, row)
  <2>1. CASE r \in Favorite
    <3>1. Master \cap DOMAIN w = {}
      BY <1>7, <2>1, TablesAssumption DEF Master
    <3> QED BY <2>1, <3>1, AnnounceNone
  <2>2. CASE r \notin Favorite
    <3> DEFINE e == Event(r, "CREATE", 1, 0)
    <3>1. DOMAIN e = EventColumns /\ EventOK(e, w, row) /\ e.at = r
      <4>1. r \in DOMAIN w /\ w[r].st = "live" /\ 1 = row[r].rev + 1
        BY <1>3, <1>4, <1>7
      <4> QED BY <2>2, <4>1, EventFields DEF EventOK
    <3> HIDE DEF e
    <3>2. Announces(<<e>>, w, row)
      BY <1>7, <3>1, AnnounceOne
    <3> QED BY <2>2, <3>2 DEF e
  <2> QED BY <2>1, <2>2
<1> HIDE DEF es
<1>9. FlushAndFail(t, w, es, new.to, {})
  BY <1>1 DEF Flush, w, es, new
<1>10. CanLock(t, DOMAIN w \ req[t].lock) /\ CanShare(t, new.to)
  BY <1>1, <1>7 DEF CanLock, new
<1>11. StoreOK'
  BY <1>7, <1>8, <1>9, <1>10, FlushFits
<1>12. Works(t)
  BY <1>8, <1>9, FlushWorks
<1> QED BY <1>11, <1>12

(* A flush of one row with its event. *)
LEMMA OneEditWorks ==
    ASSUME StoreOK, GuardOK, NEW t \in Requests, NEW r \in Resource \ Favorite, NEW new,
           NEW op, NEW rev, NEW base, NEW shared, NEW fails,
           FlushAndFail(t, WriteOf(r, new), <<Event(r, op, rev, base)>>, shared, fails),
           IsRow(new),
           Revised(new, row[r]) \/ (r \in Record /\ Buried(new, row[r])),
           r \in Record => KeepsFile(new, row[r], req[t].share \cup shared),
           r \in Site => SharesNamed(new, row[r], req[t].share \cup shared),
           r \notin Equipment \/ new.st # "dead",
           IF op = "DELETE" THEN new.st = "dead" ELSE new.st = "live",
           op = "UPDATE" => rev = base + 1,
           op # "DELETE" \/ r \in Master => rev = row[r].rev + 1,
           CanLock(t, {r} \ req[t].lock), CanShare(t, shared)
    PROVE  StoreOK' /\ Works(t)
PROOF
<1> DEFINE w == WriteOf(r, new)
           e == Event(r, op, rev, base)
<1>1. DOMAIN w = {r} /\ w[r] = new /\ WritesOK(w, req[t].share \cup shared, row)
      /\ FreesSites(w, row)
  BY OneWrite
<1> HIDE DEF w
<1>2. DOMAIN e = EventColumns /\ EventOK(e, w, row) /\ e.at = r
  BY <1>1, OneEvent
<1> HIDE DEF e
<1>3. Announces(<<e>>, w, row)
  BY <1>1, <1>2, AnnounceOne
<1>4. FlushAndFail(t, w, <<e>>, shared, fails)
  BY DEF w, e
<1>5. CanLock(t, DOMAIN w \ req[t].lock)
  BY <1>1
<1>6. StoreOK'
  BY <1>1, <1>3, <1>4, <1>5, FlushFits
<1>7. Works(t)
  BY <1>3, <1>4, FlushWorks
<1> QED BY <1>6, <1>7

(* A row one revision on. *)
LEMMA NextRow ==
    ASSUME NEW x, IsRow(x), x.st # "none"
    PROVE  LET y == [x EXCEPT !.rev = @ + 1] IN
           IsRow(y) /\ y.st = x.st /\ y.rev = x.rev + 1 /\ y.to = x.to /\ y.on = x.on
PROOF BY DEF IsRow

LEMMA WriteEditWorks ==
    ASSUME StoreOK, GuardOK, NEW t \in Requests, WriteEdit(t)
    PROVE  StoreOK' /\ Works(t)
PROOF
<1> DEFINE new == [req[t].arg EXCEPT !.rev = @ + 1]
<1>1. PICK r \in req[t].at :
        /\ req[t].pc = "checked" /\ req[t].op = "update" /\ r \notin Record
        /\ CanShare(t, new.to \ row[r].to)
        /\ Flush(t, WriteOf(r, new), <<Event(r, "UPDATE", new.rev, req[t].base)>>,
                 new.to \ row[r].to)
  BY DEF WriteEdit
<1>2. /\ r \in Resource \ Favorite /\ r \in req[t].lock
      /\ row[r].st = "live" /\ row[r].rev = req[t].base /\ req[t].base \in Nat
      /\ IsRow(req[t].arg) /\ req[t].arg.st = "live" /\ req[t].arg.rev = req[t].base
  BY <1>1, CheckedRow
<1>3. IsRow(new) /\ new.st = "live" /\ new.rev = req[t].base + 1
  BY <1>2, NextRow
<1> DEFINE shared == new.to \ row[r].to
<1>4. Revised(new, row[r]) /\ SharesNamed(new, row[r], req[t].share \cup shared)
  BY <1>2, <1>3 DEF Revised, SharesNamed
<1>5. FlushAndFail(t, WriteOf(r, new), <<Event(r, "UPDATE", new.rev, req[t].base)>>, shared, {})
  BY <1>1 DEF Flush
<1>6. CanLock(t, {r} \ req[t].lock) /\ CanShare(t, shared)
  BY <1>1, <1>2 DEF CanLock
<1>7. r \notin Equipment \/ new.st # "dead"
  BY <1>3
<1>8. new.rev = row[r].rev + 1 /\ new.rev = req[t].base + 1
  BY <1>2, <1>3
<1>9. r \notin Record
  BY <1>1
<1> HIDE DEF new, shared
<1>10. StoreOK' /\ Works(t)
  BY <1>2, <1>3, <1>4, <1>5, <1>6, <1>7, <1>8, <1>9, OneEditWorks
<1> QED BY <1>10

(* The tombstone of a locked row. *)
LEMMA DeadRow ==
    ASSUME NEW r, IsRow(row[r]), row[r].st = "live"
    PROVE  /\ IsRow(Dead(r)) /\ Dead(r).st = "dead" /\ Dead(r).rev = row[r].rev + 1
           /\ Dead(r).to = row[r].to
PROOF
<1> DEFINE old == row[r]
<1> HIDE DEF old
<1>1. IsRow(old) /\ old.st = "live"
  BY DEF old
<1>2. LET d == [old EXCEPT !.st = "dead", !.rev = @ + 1]
      IN  IsRow(d) /\ d.st = "dead" /\ d.rev = old.rev + 1 /\ d.to = old.to
  BY <1>1 DEF IsRow
<1> QED BY <1>2 DEF Dead, old

LEMMA TombstonesWork ==
    ASSUME StoreOK, GuardOK, NEW t \in Requests, SiteDeleteFlush(t) \/ ReferenceDeleteFlush(t)
    PROVE  StoreOK' /\ Works(t)
PROOF
<1>1. PICK r \in req[t].at :
        /\ r \in Site \cup Reference
        /\ req[t].pc = "checked" /\ req[t].op = "delete"
        /\ Flush(t, WriteOf(r, Dead(r)), <<Event(r, "DELETE", Dead(r).rev, req[t].base)>>, {})
  BY DEF SiteDeleteFlush, ReferenceDeleteFlush
<1>2. r \notin Record /\ r \notin Equipment
  BY <1>1, TablesAssumption
<1>3. /\ r \in Resource \ Favorite /\ r \in req[t].lock /\ row[r].st = "live" /\ IsRow(row[r])
  BY <1>1, <1>2, CheckedRow
<1> DEFINE new == Dead(r)
<1>4. IsRow(new) /\ new.st = "dead" /\ new.rev = row[r].rev + 1
  BY <1>3, DeadRow
<1>5. FlushAndFail(t, WriteOf(r, new), <<Event(r, "DELETE", new.rev, req[t].base)>>, {}, {})
  BY <1>1 DEF Flush
<1> HIDE DEF new
<1>6. Revised(new, row[r]) /\ SharesNamed(new, row[r], req[t].share \cup {})
  BY <1>3, <1>4 DEF Revised, SharesNamed
<1>7. CanLock(t, {r} \ req[t].lock) /\ CanShare(t, {})
  BY <1>3 DEF CanLock, CanShare
<1> QED BY <1>2, <1>3, <1>4, <1>5, <1>6, <1>7, OneEditWorks

(* The events of a set of rows that are each one revision on. *)
Updates(X, w, R) == {Event(x, "UPDATE", w[x].rev, R[x].rev) : x \in X}

LEMMA UpdatesOK ==
    ASSUME NEW X, IsFiniteSet(X), NEW w, NEW R, X \subseteq DOMAIN w, X \cap Favorite = {},
           \A x \in X : w[x].st = "live" /\ w[x].rev = R[x].rev + 1
    PROVE  /\ IsFiniteSet(Updates(X, w, R))
           /\ \A e \in Updates(X, w, R) : DOMAIN e = EventColumns /\ EventOK(e, w, R) /\ e.at \in X
           /\ \A d, e \in Updates(X, w, R) : d.at = e.at => d = e
           /\ \A x \in X : \E e \in Updates(X, w, R) : e.at = x
PROOF
<1> DEFINE ev == [x \in X |-> Event(x, "UPDATE", w[x].rev, R[x].rev)]
           S == Updates(X, w, R)
<1>1. S = {ev[x] : x \in X}
  BY DEF Updates
<1>2. ASSUME NEW x \in X
      PROVE  DOMAIN ev[x] = EventColumns /\ EventOK(ev[x], w, R) /\ ev[x].at = x
  <2>1. x \in DOMAIN w /\ w[x].st = "live" /\ w[x].rev = R[x].rev + 1 /\ x \notin Favorite
    OBVIOUS
  <2> DEFINE e == Event(x, "UPDATE", w[x].rev, R[x].rev)
  <2>2. DOMAIN e = EventColumns /\ EventOK(e, w, R) /\ e.at = x
    BY <2>1, EventFields DEF EventOK
  <2>3. ev[x] = e
    OBVIOUS
  <2> HIDE DEF e, ev
  <2> QED BY <2>2, <2>3
<1>3. ev \in Surjection(X, S)
  BY <1>1 DEF Surjection
<1> HIDE DEF ev, S
<1>4. IsFiniteSet(S)
  BY <1>3, FS_Surjection
<1> QED BY <1>1, <1>2, <1>4 DEF S

LEMMA CascadeWorks ==
    ASSUME StoreOK, GuardOK, NEW t \in Requests, EquipmentDeleteFlush(t)
    PROVE  StoreOK' /\ Works(t)
PROOF
<1>1. PICK e \in req[t].at :
        LET sites == LiveReferrers(e, Site)
            freed == [s \in sites |-> [row[s] EXCEPT !.to = @ \ {e}, !.rev = @ + 1]]
        IN /\ e \in Equipment
           /\ req[t].pc = "checked" /\ req[t].op = "delete"
           /\ CanLock(t, sites)
           /\ Flush(t, AlsoWrite(freed, e, Dead(e)),
                    SetToSeq({Event(s, "UPDATE", freed[s].rev, row[s].rev) : s \in sites})
                      \o <<Event(e, "DELETE", Dead(e).rev, req[t].base)>>,
                    {})
  BY DEF EquipmentDeleteFlush
<1> DEFINE sites == LiveReferrers(e, Site)
           freed == [s \in sites |-> [row[s] EXCEPT !.to = @ \ {e}, !.rev = @ + 1]]
           w == AlsoWrite(freed, e, Dead(e))
           l == Event(e, "DELETE", Dead(e).rev, req[t].base)
           S == {Event(s, "UPDATE", freed[s].rev, row[s].rev) : s \in sites}
<1>2. e \in Equipment /\ CanLock(t, sites) /\ FlushAndFail(t, w, SetToSeq(S) \o <<l>>, {}, {})
  BY <1>1 DEF Flush
<1>3. e \notin Record /\ e \notin Site /\ e \notin Favorite /\ e \in Resource
  BY <1>2, TablesAssumption DEF Resource
<1>4. e \in req[t].lock /\ row[e].st = "live" /\ IsRow(row[e])
  BY <1>1, <1>3, CheckedRow
<1>5. IsRow(Dead(e)) /\ Dead(e).st = "dead" /\ Dead(e).rev = row[e].rev + 1
  BY <1>4, DeadRow
<1>6. /\ sites \subseteq Site
      /\ \A s \in sites : row[s].st = "live" /\ s \in Resource
      /\ \A s \in Site : row[s].st = "live" /\ e \in row[s].to => s \in sites
  BY DEF LiveReferrers, Live, Resource
<1>7. ASSUME NEW s \in sites
      PROVE  IsRow(freed[s]) /\ freed[s].st = "live" /\ freed[s].rev = row[s].rev + 1
             /\ freed[s].to = row[s].to \ {e}
  <2> DEFINE old == row[s]
  <2>1. IsRow(old) /\ old.st = "live"
    BY <1>6, RowFacts
  <2>2. freed[s] = [old EXCEPT !.to = @ \ {e}, !.rev = @ + 1]
    OBVIOUS
  <2> HIDE DEF old, freed
  <2>3. LET y == [old EXCEPT !.to = @ \ {e}, !.rev = @ + 1] IN
        IsRow(y) /\ y.st = "live" /\ y.rev = old.rev + 1 /\ y.to = old.to \ {e}
    BY <2>1 DEF IsRow
  <2> QED BY <2>2, <2>3 DEF old
<1>8. DOMAIN freed = sites
  OBVIOUS
<1> HIDE DEF freed, sites
<1>9. DOMAIN w = sites \cup {e} /\ w[e] = Dead(e) /\ \A s \in sites : w[s] = freed[s]
  BY <1>3, <1>6, <1>8 DEF AlsoWrite
<1>10. S = Updates(sites, w, row)
  BY <1>9 DEF Updates
<1> HIDE DEF w, S
<1>11. WriteOK(e, w, req[t].share, row)
  BY <1>2, <1>3, <1>4, <1>5, <1>6, <1>7, <1>9 DEF WriteOK, Revised
<1>12. ASSUME NEW s \in sites PROVE WriteOK(s, w, req[t].share, row)
  <2>1. s \in Resource /\ s \notin Record /\ s \notin Equipment /\ row[s].st = "live"
    BY <1>6, TablesAssumption
  <2>2. Revised(w[s], row[s]) /\ SharesNamed(w[s], row[s], req[t].share) /\ IsRow(w[s])
    BY <1>7, <1>9, <2>1 DEF Revised, SharesNamed
  <2> QED BY <2>1, <2>2 DEF WriteOK
<1>13. WritesOK(w, req[t].share \cup {}, row)
  BY <1>9, <1>11, <1>12 DEF WritesOK
<1>14. FreesSites(w, row)
  BY <1>6, <1>9, TablesAssumption DEF FreesSites
<1>15. Announces(SetToSeq(S) \o <<l>>, w, row)
  <2>1. sites \cap Favorite = {} /\ sites \subseteq DOMAIN w /\ e \notin sites
    BY <1>3, <1>6, <1>9, TablesAssumption
  <2>2. \A x \in sites : w[x].st = "live" /\ w[x].rev = row[x].rev + 1
    BY <1>7, <1>9
  <2>3. IsFiniteSet(sites)
    BY <1>6, FS_Subset, StoreAssumption
  <2>4. /\ IsFiniteSet(S)
        /\ \A d \in S : DOMAIN d = EventColumns /\ EventOK(d, w, row) /\ d.at \in sites
        /\ \A c, d \in S : c.at = d.at => c = d
        /\ \A x \in sites : \E d \in S : d.at = x
    BY <1>10, <2>1, <2>2, <2>3, UpdatesOK
  <2>5. DOMAIN l = EventColumns /\ EventOK(l, w, row) /\ l.at = e
    BY <1>3, <1>5, <1>9, OneEvent
  <2> HIDE DEF l
  <2>6. \A d \in S : d.at # l.at
    BY <2>1, <2>4, <2>5
  <2>7. \A x \in Master \cap DOMAIN w : l.at = x \/ \E d \in S : d.at = x
    BY <1>9, <2>4, <2>5
  <2> QED BY <2>4, <2>5, <2>6, <2>7, AnnounceSetAndOne
<1>16. CanLock(t, DOMAIN w \ req[t].lock) /\ CanShare(t, {})
  BY <1>2, <1>4, <1>9 DEF CanLock, CanShare
<1> DEFINE es == SetToSeq(S) \o <<l>>
<1>17. FlushAndFail(t, w, es, {}, {}) /\ Announces(es, w, row)
  BY <1>2, <1>15 DEF w, S
<1> HIDE DEF es
<1>18. StoreOK'
  BY <1>13, <1>14, <1>16, <1>17, FlushFits
<1>19. Works(t)
  BY <1>17, FlushWorks
<1> QED BY <1>18, <1>19

LEMMA FavoriteRemovesWork ==
    ASSUME StoreOK, GuardOK, NEW t \in Requests,
           (\E c \in Favorite : FavoriteRemove(t, c)) \/ FavoriteRemoveFlush(t)
    PROVE  StoreOK' /\ Works(t)
PROOF
<1>1. ASSUME NEW c \in Favorite, FavoriteRemove(t, c) PROVE StoreOK' /\ Works(t)
  <2> DEFINE q == [Idle EXCEPT !.pc = "checked", !.op = "remove", !.at = {c}]
  <2>1. Begin(t, q)
    BY <1>1 DEF FavoriteRemove
  <2>2. /\ DOMAIN q = Columns /\ q.pc = "checked" /\ q.op = "remove"
        /\ DOMAIN q.write = {} /\ q.events = {} /\ q.lock = {} /\ q.share = {}
        /\ q.adv = "none"
    BY DEF Idle, Columns
  <2> HIDE DEF q
  <2>3. Fits(t, q)
    BY <2>2, PlainFits DEF CleansOK
  <2>4. Moves(t, q) /\ row' = row
    BY <2>1, BeginFields
  <2>5. StoreOK'
    BY <2>3, <2>4, MoveKeepsStore
  <2>6. Works(t)
    <3>1. Guarded(q, row) /\ Obtains(t, q.adv)
      BY <2>2 DEF Guarded, Obtains
    <3> QED BY <2>1, <2>2, <3>1, BeginWorks
  <2> QED BY <2>5, <2>6
<1>2. ASSUME FavoriteRemoveFlush(t) PROVE StoreOK' /\ Works(t)
  <2>1. PICK c \in req[t].at \cap Favorite :
           CanLock(t, {c}) /\ Flush(t, WriteOf(c, NoRow), << >>, {})
    BY <1>2 DEF FavoriteRemoveFlush
  <2>2. c \in Resource /\ c \notin Record /\ c \notin Site /\ c \notin Equipment
        /\ c \notin Master
    BY TablesAssumption DEF Resource, Master
  <2> DEFINE w == WriteOf(c, NoRow)
  <2>3. DOMAIN w = {c} /\ WritesOK(w, req[t].share \cup {}, row) /\ FreesSites(w, row)
    BY <2>2, NoRowIsRow, OneWrite
  <2>4. FlushAndFail(t, w, << >>, {}, {})
    BY <2>1 DEF Flush
  <2> HIDE DEF w
  <2>5. Announces(<< >>, w, row)
    BY <2>2, <2>3, AnnounceNone
  <2>6. CanLock(t, DOMAIN w \ req[t].lock) /\ CanShare(t, {})
    BY <2>1, <2>3 DEF CanLock, CanShare
  <2>7. StoreOK'
    BY <2>3, <2>4, <2>5, <2>6, FlushFits
  <2>8. Works(t)
    BY <2>4, <2>5, FlushWorks
  <2> QED BY <2>7, <2>8
<1> QED BY <1>1, <1>2

LEMMA MasterStepWorks ==
    ASSUME StoreOK, GuardOK, NEW t \in Requests, MasterStep(t)
    PROVE  StoreOK' /\ Works(t)
PROOF
<1>1. CASE \/ \E e \in Equipment : EquipmentCreate(t, e)
           \/ \E s \in Site : SiteCreate(t, s)
           \/ \E g \in Reference : ReferenceCreate(t, g)
           \/ \E c \in Favorite : FavoriteAdd(t, c)
  BY <1>1, CreatesWork
<1>2. CASE \/ \E e \in Equipment : EquipmentUpdate(t, e) \/ MasterDelete(t, e)
           \/ \E s \in Site : SiteUpdate(t, s) \/ MasterDelete(t, s)
           \/ \E g \in Reference : ReferenceUpdate(t, g) \/ MasterDelete(t, g)
  BY <1>2, LocksWork
<1>3. CASE (\E c \in Favorite : FavoriteRemove(t, c)) \/ FavoriteRemoveFlush(t)
  BY <1>3, FavoriteRemovesWork
<1>4. CASE Insert(t)
  BY <1>4, InsertWorks
<1>5. CASE WriteEdit(t)
  BY <1>5, WriteEditWorks
<1>6. CASE EquipmentDeleteFlush(t)
  BY <1>6, CascadeWorks
<1>7. CASE SiteDeleteFlush(t) \/ ReferenceDeleteFlush(t)
  BY <1>7, TombstonesWork
<1> QED BY <1>1, <1>2, <1>3, <1>4, <1>5, <1>6, <1>7, Zenon DEF MasterStep

----------------------------------------------------------------------------
(* The steps of the record handlers, of the Plate Solve worker and of a    *)
(* Reset keep it in order too.                                             *)

LEMMA RecordIsResource ==
    /\ Record \subseteq Resource
    /\ Record \cap (Master \cup Favorite \cup Equipment \cup Site \cup File) = {}
    /\ Equipment \cap File = {}
PROOF BY TablesAssumption DEF Resource, Master

(* A transaction that has written nothing moves on. *)
LEMMA PlainWorks ==
    ASSUME StoreOK, GuardOK, NEW t \in Requests, NEW q,
           Moves(t, q), UNCHANGED <<row, seq, log, cursor, seen, inflight>>,
           Fits(t, q), q.events = {}, Guarded(q, row), Obtains(t, q.adv)
    PROVE  StoreOK' /\ Works(t)
PROOF
<1>1. StoreOK'
  BY MoveKeepsStore
<1>2. Works(t)
  BY DEF Works, Moves
<1> QED BY <1>1, <1>2

(* So does one that begins. *)
LEMMA PlainBegins ==
    ASSUME StoreOK, GuardOK, NEW t \in Requests, NEW q, Begin(t, q),
           Fits(t, q), q.events = {}, Guarded(q, row), Obtains(t, q.adv)
    PROVE  StoreOK' /\ Works(t)
PROOF BY BeginFields, PlainWorks

LEMMA RecordCreateWorks ==
    ASSUME StoreOK, GuardOK, NEW t \in Requests, NEW r \in Record, RecordCreate(t, r)
    PROVE  StoreOK' /\ Works(t)
PROOF
<1>1. PICK f \in File, E \in {{}} \cup {{e} : e \in Equipment}, on \in BOOLEAN,
           cat \in Catalog \cup {NoCatalog} :
        /\ SharedLock(t)
        /\ Begin(t, [Idle EXCEPT !.pc = "checked", !.op = "create", !.at = {r},
                                 !.arg = NewRow(on, {f} \cup E, cat), !.adv = "shared"])
  BY DEF RecordCreate
<1> DEFINE new == NewRow(on, {f} \cup E, cat)
           q == [Idle EXCEPT !.pc = "checked", !.op = "create", !.at = {r},
                             !.arg = new, !.adv = "shared"]
<1>2. IsRow(new) /\ new.st = "live" /\ new.rev = 1 /\ new.to = {f} \cup E
  BY NewRowIsRow
<1>3. E \subseteq Equipment
  BY <1>1
<1>4. HasFile(new)
  <2>1. FileOf(new) = {f}
    BY <1>2, <1>3, RecordIsResource DEF FileOf
  <2> QED BY <2>1 DEF HasFile
<1> HIDE DEF new
<1>5. /\ DOMAIN q = Columns /\ q.pc = "checked" /\ q.op = "create" /\ q.at = {r} /\ q.arg = new
      /\ DOMAIN q.write = {} /\ q.events = {} /\ q.lock = {} /\ q.share = {} /\ q.adv = "shared"
  BY DEF Idle, Columns
<1>6. Begin(t, q) /\ SharedLock(t)
  BY <1>1 DEF new
<1> HIDE DEF q
<1>7. CreateOK(q)
  BY <1>2, <1>4, <1>5, RecordIsResource DEF CreateOK
<1>8. Fits(t, q)
  BY <1>5, <1>7, PlainFits DEF CleansOK
<1>9. Guarded(q, row) /\ Obtains(t, q.adv)
  BY <1>5, <1>6 DEF Guarded, Obtains
<1> QED BY <1>5, <1>6, <1>8, <1>9, PlainBegins

LEMMA RecordUpdateWorks ==
    ASSUME StoreOK, GuardOK, NEW t \in Requests, NEW r \in Record, RecordUpdate(t, r)
    PROVE  StoreOK' /\ Works(t)
PROOF
<1>1. PICK x \in 1..row[r].rev, on \in BOOLEAN, cat \in Catalog \cup {NoCatalog},
           E \in {row[r].to \cap Equipment, {}} \cup {{e} : e \in Equipment} :
        /\ SharedLock(t)
        /\ Live(r) /\ row[r].rev = x
        /\ Begin(t, [Idle EXCEPT !.pc = "checked", !.op = "update", !.at = {r}, !.base = x,
                       !.arg = [row[r] EXCEPT !.on = on, !.cat = cat, !.to = FileOf(row[r]) \cup E],
                       !.adv = "shared"])
  BY DEF RecordUpdate
<1> DEFINE new == [row[r] EXCEPT !.on = on, !.cat = cat, !.to = FileOf(row[r]) \cup E]
           q == [Idle EXCEPT !.pc = "checked", !.op = "update", !.at = {r}, !.base = x,
                             !.arg = new, !.adv = "shared"]
<1>2. r \in Resource /\ IsRow(row[r]) /\ row[r].st = "live"
  BY <1>1, RowFacts, RecordIsResource DEF Live
<1>3. IsRow(new) /\ new.st = "live" /\ new.rev = row[r].rev /\ new.to = FileOf(row[r]) \cup E
  <2> DEFINE old == row[r]
             to == FileOf(row[r]) \cup E
  <2>1. IsRow(old) /\ old.st = "live"
    BY <1>2
  <2> HIDE DEF old, to
  <2>2. LET y == [old EXCEPT !.on = on, !.cat = cat, !.to = to] IN
        IsRow(y) /\ y.st = "live" /\ y.rev = old.rev /\ y.to = to
    BY <2>1 DEF IsRow
  <2> QED BY <2>2 DEF old, to
<1>4. E \subseteq Equipment
  BY <1>1
<1>5. FileOf(new) = FileOf(row[r])
  BY <1>3, <1>4, RecordIsResource DEF FileOf
<1> HIDE DEF new
<1>6. /\ DOMAIN q = Columns /\ q.pc = "checked" /\ q.op = "update" /\ q.at = {r} /\ q.arg = new
      /\ q.base = x
      /\ DOMAIN q.write = {} /\ q.events = {} /\ q.lock = {} /\ q.share = {} /\ q.adv = "shared"
  BY DEF Idle, Columns
<1>7. Begin(t, q) /\ SharedLock(t) /\ row[r].rev = x
  BY <1>1 DEF new
<1> HIDE DEF q
<1>8. EditOK(q, row)
  BY <1>2, <1>3, <1>6, <1>7, RecordIsResource DEF EditOK
<1>9. Fits(t, q)
  BY <1>6, <1>8, PlainFits DEF CleansOK
<1>10. Guarded(q, row) /\ Obtains(t, q.adv)
  BY <1>2, <1>5, <1>6, <1>7 DEF Guarded, Obtains
<1> QED BY <1>6, <1>7, <1>9, <1>10, PlainBegins

LEMMA RecordDeleteWorks ==
    ASSUME StoreOK, GuardOK, NEW t \in Requests, NEW r \in Record, RecordDelete(t, r)
    PROVE  StoreOK' /\ Works(t)
PROOF
<1> DEFINE pc == IF Live(r) THEN "read" ELSE "cleanup"
           q == [Idle EXCEPT !.pc = pc, !.op = "delete", !.at = {r}, !.base = row[r].rev,
                             !.arg = row[r], !.adv = "shared"]
<1>1. SharedLock(t) /\ row[r].st # "none" /\ Begin(t, q)
  BY DEF RecordDelete
<1>2. r \in Resource /\ IsRow(row[r]) /\ (pc = "cleanup" \/ (pc = "read" /\ row[r].st = "live"))
  BY RowFacts, RecordIsResource DEF Live
<1> HIDE DEF pc
<1>3. /\ DOMAIN q = Columns /\ q.pc = pc /\ q.op = "delete" /\ q.at = {r} /\ q.arg = row[r]
      /\ q.base = row[r].rev
      /\ DOMAIN q.write = {} /\ q.events = {} /\ q.lock = {} /\ q.share = {} /\ q.adv = "shared"
  BY DEF Idle, Columns
<1> HIDE DEF q
<1>4. pc = "read" => EditOK(q, row)
  BY <1>2, <1>3, RecordIsResource DEF EditOK
<1>5. Fits(t, q)
  <2>1. HasFile(row[r])
    BY <1>1 DEF StoreOK, RowsOK
  <2>2. CleansOK(q)
    BY <1>2, <1>3, <2>1 DEF CleansOK
  <2> QED BY <1>2, <1>3, <1>4, <2>2, PlainFits
<1>6. Guarded(q, row) /\ Obtains(t, q.adv)
  BY <1>1, <1>2, <1>3 DEF Guarded, Obtains
<1> QED BY <1>1, <1>3, <1>5, <1>6, PlainBegins

LEMMA EnsureLinkWorks ==
    ASSUME StoreOK, GuardOK, NEW t \in Requests, EnsureLink(t)
    PROVE  StoreOK' /\ Works(t)
PROOF
<1>1. PICK f \in FileOf(req[t].arg) :
        /\ req[t].pc = "checked" /\ req[t].op = "create" /\ req[t].at \subseteq Record
        /\ req' = [req EXCEPT ![t].pc = "linked",
                      ![t].adv = IF <<f, "AstroJournal">> \in link THEN @ ELSE "none"]
        /\ UNCHANGED <<row, seq, log, cursor, seen, inflight>>
  BY DEF EnsureLink
<1>2. RequestOK(req[t], row) /\ DOMAIN req = Requests /\ DOMAIN req[t] = Columns
      /\ Guarded(req[t], row)
  BY DEF StoreOK, RequestOK, GuardOK
<1> DEFINE p == req[t]
           adv == IF <<f, "AstroJournal">> \in link THEN p.adv ELSE "none"
           q == [[p EXCEPT !.pc = "linked"] EXCEPT !.adv = adv]
<1>3. req' = [req EXCEPT ![t] = q]
  BY <1>1, <1>2 DEF Columns
<1>4. Moves(t, q)
  BY <1>2, <1>3 DEF Moves
<1>5. p.events = {} /\ DOMAIN p.write = {} /\ CreateOK(p)
  BY <1>1, <1>2 DEF RequestOK
<1>6. adv \in {p.adv, "none"}
  OBVIOUS
<1>7. DOMAIN p = Columns
  BY <1>2
<1>8. p.pc = "checked" /\ p.op = "create" /\ p.at \subseteq Record /\ p.adv # "exclusive"
  BY <1>1, <1>2 DEF Guarded
<1>9. p.lock = req[t].lock /\ p.share = req[t].share /\ p.adv = req[t].adv
  OBVIOUS
<1> HIDE DEF p, adv
<1>10. /\ DOMAIN q = Columns /\ q.pc = "linked" /\ q.op = p.op /\ q.at = p.at /\ q.arg = p.arg
       /\ q.write = p.write /\ q.events = p.events /\ q.lock = p.lock /\ q.share = p.share
       /\ q.adv = adv
  BY <1>7 DEF Columns
<1> HIDE DEF q
<1>11. CreateOK(q)
  BY <1>5, <1>10 DEF CreateOK
<1>12. Fits(t, q)
  BY <1>5, <1>8, <1>9, <1>10, <1>11, PlainFits DEF CleansOK
<1>13. Guarded(q, row) /\ Obtains(t, q.adv)
  BY <1>6, <1>8, <1>9, <1>10 DEF Guarded, Obtains
<1> QED BY <1>1, <1>4, <1>5, <1>10, <1>12, <1>13, PlainWorks

(* A demoted row, and a row with its status written. *)
LEMMA DemotedRow ==
    ASSUME NEW x, IsRow(x), x.st = "live"
    PROVE  LET y == [x EXCEPT !.on = FALSE, !.rev = @ + 1] IN
           IsRow(y) /\ y.st = "live" /\ y.rev = x.rev + 1 /\ y.to = x.to /\ y.on = FALSE
PROOF BY DEF IsRow

(* The write of a live record that keeps its file. *)
LEMMA RecordWriteOK ==
    ASSUME NEW x \in Record, NEW w, NEW share, NEW R, IsRow(w[x]),
           R[x].st = "live", w[x].st = "live", w[x].rev = R[x].rev + 1,
           FileOf(w[x]) = FileOf(R[x])
    PROVE  WriteOK(x, w, share, R)
PROOF BY RecordIsResource DEF WriteOK, Revised, KeepsFile

(* The writes to records stay right when there are more of them and more   *)
(* is shared.                                                              *)
LEMMA RecordWriteStays ==
    ASSUME NEW x \in Record, NEW v, NEW w, NEW less, NEW more, NEW R,
           WriteOK(x, v, less, R), w[x] = v[x], less \subseteq more
    PROVE  WriteOK(x, w, more, R)
PROOF
<1>1. KeepsFile(w[x], R[x], more)
  BY DEF WriteOK, KeepsFile
<1> QED BY <1>1, RecordIsResource DEF WriteOK

LEMMA ClearRepresentativeWorks ==
    ASSUME StoreOK, GuardOK, NEW t \in Requests, ClearRepresentative(t)
    PROVE  StoreOK' /\ Works(t)
PROOF
<1> DEFINE p == req[t]
           old == IF p.arg.on THEN Representatives(row, p.arg.cat, p.at) ELSE {}
           w == [x \in old |-> Demoted(x)]
           q == [[[p EXCEPT !.pc = "cleared"] EXCEPT !.lock = @ \cup old] EXCEPT !.write = w]
<1>1. /\ \/ p.pc = "linked" /\ p.op = "create"
         \/ p.pc = "checked" /\ p.op = "update" /\ p.at \subseteq Record
      /\ CanLock(t, old)
      /\ req' = [req EXCEPT ![t].pc = "cleared", ![t].lock = @ \cup old, ![t].write = w]
      /\ UNCHANGED <<row, seq, log, cursor, seen, inflight>>
  BY DEF ClearRepresentative
<1>2. RequestOK(p, row) /\ DOMAIN req = Requests /\ DOMAIN p = Columns /\ Guarded(p, row)
  BY DEF StoreOK, RequestOK, GuardOK
<1>3. Moves(t, q)
  <2>1. req' = [req EXCEPT ![t] = q]
    BY <1>1, <1>2 DEF Columns
  <2> QED BY <1>2, <2>1 DEF Moves
<1>4. /\ old \subseteq Record \ p.at
      /\ \A x \in old : row[x].st = "live"
  BY DEF Representatives
<1>5. \A x \in old : IsRow(w[x]) /\ w[x].st = "live" /\ w[x].rev = row[x].rev + 1 /\ w[x].to = row[x].to
  <2> TAKE x \in old
  <2> DEFINE r == row[x]
  <2>1. IsRow(r) /\ r.st = "live"
    BY <1>4, RowFacts, RecordIsResource
  <2>2. w[x] = [r EXCEPT !.on = FALSE, !.rev = @ + 1]
    BY DEF Demoted
  <2> HIDE DEF r, w
  <2> QED BY <2>1, <2>2, DemotedRow DEF r
<1>6. DOMAIN w = old
  OBVIOUS
<1>7. p.events = {} /\ p.at \subseteq Record
  BY <1>1, <1>2 DEF RequestOK
<1>8. (p.op = "create" => CreateOK(p)) /\ (p.op = "update" => EditOK(p, row)) /\ p.op \in {"create", "update"}
  BY <1>1, <1>2 DEF RequestOK
<1>9. DOMAIN p.write = {}
  BY <1>1, <1>2 DEF RequestOK
<1> HIDE DEF old, w
<1>10. WritesOK(w, p.share, row)
  <2>1. ASSUME NEW x \in old PROVE WriteOK(x, w, p.share, row)
    <3>1. x \in Record /\ row[x].st = "live"
      BY <1>4
    <3>2. FileOf(w[x]) = FileOf(row[x])
      BY <1>5 DEF FileOf
    <3> QED BY <1>5, <3>1, <3>2, RecordWriteOK
  <2> QED BY <1>6, <2>1 DEF WritesOK
<1>11. FreesSites(w, row)
  BY <1>4, <1>6, RecordIsResource DEF FreesSites
<1>12. p.pc \in {"linked", "checked"} /\ (p.op = "create" => p.pc # "read")
  BY <1>1
<1>13. /\ p = req[t] /\ CanLock(t, old)
  BY <1>1
<1> HIDE DEF p
<1>14. /\ DOMAIN q = Columns /\ q.pc = "cleared" /\ q.op = p.op /\ q.at = p.at /\ q.arg = p.arg
       /\ q.base = p.base /\ q.write = w /\ q.events = p.events /\ q.lock = p.lock \cup old
       /\ q.share = p.share /\ q.adv = p.adv
  BY <1>2 DEF Columns
<1> HIDE DEF q
<1>15. RequestOK(q, row)
  <2>1. p.op = "create" => CreateOK(q)
    BY <1>8, <1>14 DEF CreateOK
  <2>2. p.op = "update" => EditOK(q, row)
    BY <1>8, <1>14 DEF EditOK
  <2>3. CleansOK(q)
    BY <1>8, <1>14 DEF CleansOK
  <2> QED BY <1>4, <1>5, <1>6, <1>7, <1>8, <1>10, <1>14, <2>1, <2>2, <2>3 DEF RequestOK
<1>16. Fits(t, q)
  BY <1>11, <1>13, <1>14, <1>15 DEF Fits, CanLock
<1>17. Guarded(q, row)
  <2>1. p.op = "update" => p.pc = "checked"
    BY <1>1 DEF p
  <2> QED BY <1>2, <1>8, <1>14, <2>1 DEF Guarded
<1>18. Obtains(t, q.adv)
  BY <1>13, <1>14 DEF Obtains
<1> QED BY <1>1, <1>3, <1>7, <1>14, <1>16, <1>17, <1>18, PlainWorks

(* The flush of a record handler: the rows it has demoted, and its own.    *)
LEMMA RecordFlushWorks ==
    ASSUME StoreOK, GuardOK, NEW t \in Requests, NEW r, NEW new, NEW op \in {"CREATE", "UPDATE"},
           NEW rev, NEW base, NEW shared,
           req[t].pc = "cleared", req[t].at = {r},
           Flush(t, AlsoWrite(req[t].write, r, new),
                 DemotionEvents(t) \o <<Event(r, op, rev, base)>>, shared),
           IsRow(new), Revised(new, row[r]), new.st = "live",
           KeepsFile(new, row[r], req[t].share \cup shared),
           rev = row[r].rev + 1, op = "UPDATE" => rev = base + 1,
           CanLock(t, {r}), CanShare(t, shared)
    PROVE  StoreOK' /\ Works(t)
PROOF
<1> DEFINE v == req[t].write
           X == DOMAIN v
           w == AlsoWrite(v, r, new)
           S == {Event(x, "UPDATE", v[x].rev, row[x].rev) : x \in X}
           l == Event(r, op, rev, base)
           es == SetToSeq(S) \o <<l>>
<1>1. RequestOK(req[t], row)
  BY DEF StoreOK
<1>2. /\ r \in Record /\ r \in Resource
      /\ \A x \in X : x \in Record /\ x # r /\ v[x].st = "live" /\ WriteOK(x, v, req[t].share, row)
      /\ X \subseteq req[t].lock
  BY <1>1, RecordIsResource DEF RequestOK, WritesOK
<1>3. \A x \in X : v[x].rev = row[x].rev + 1
  <2> TAKE x \in X
  <2>1. Revised(v[x], row[x])
    BY <1>2, RecordIsResource DEF WriteOK, Buried
  <2> QED BY <2>1 DEF Revised
<1>4. FlushAndFail(t, w, es, shared, {})
  BY DEF Flush, DemotionEvents
<1> HIDE DEF v, X
<1>5. DOMAIN w = X \cup {r} /\ w[r] = new /\ \A x \in X : w[x] = v[x]
  BY <1>2 DEF AlsoWrite, X
<1>6. S = Updates(X, w, row)
  BY <1>5 DEF Updates
<1> HIDE DEF w, S
<1>7. WritesOK(w, req[t].share \cup shared, row)
  <2>1. \A x \in X : WriteOK(x, w, req[t].share \cup shared, row)
    BY <1>2, <1>5, RecordWriteStays
  <2>2. WriteOK(r, w, req[t].share \cup shared, row)
    BY <1>2, <1>5, RecordIsResource DEF WriteOK
  <2> QED BY <1>5, <2>1, <2>2 DEF WritesOK
<1>8. FreesSites(w, row)
  BY <1>2, <1>5, RecordIsResource DEF FreesSites
<1>9. Announces(es, w, row)
  <2>1. X \cap Favorite = {} /\ X \subseteq DOMAIN w /\ r \notin X
    BY <1>2, <1>5, RecordIsResource
  <2>2. \A x \in X : w[x].st = "live" /\ w[x].rev = row[x].rev + 1
    BY <1>2, <1>3, <1>5
  <2>3. IsFiniteSet(X)
    BY <1>2, FS_Subset, StoreAssumption
  <2>4. /\ IsFiniteSet(S)
        /\ \A d \in S : DOMAIN d = EventColumns /\ EventOK(d, w, row) /\ d.at \in X
        /\ \A c, d \in S : c.at = d.at => c = d
        /\ \A x \in X : \E d \in S : d.at = x
    BY <1>6, <2>1, <2>2, <2>3, UpdatesOK
  <2>5. DOMAIN l = EventColumns /\ EventOK(l, w, row) /\ l.at = r
    <3>1. r \in DOMAIN w /\ w[r].st = "live" /\ r \notin Favorite
      BY <1>2, <1>5, RecordIsResource
    <3> QED BY <3>1, EventFields DEF EventOK
  <2> HIDE DEF l
  <2>6. \A d \in S : d.at # l.at
    BY <2>1, <2>4, <2>5
  <2>7. \A x \in Master \cap DOMAIN w : l.at = x \/ \E d \in S : d.at = x
    BY <1>5, <2>4, <2>5
  <2> QED BY <2>4, <2>5, <2>6, <2>7, AnnounceSetAndOne
<1>10. CanLock(t, DOMAIN w \ req[t].lock)
  BY <1>2, <1>5 DEF CanLock
<1> HIDE DEF es
<1>11. StoreOK'
  BY <1>4, <1>7, <1>8, <1>9, <1>10, FlushFits
<1>12. Works(t)
  BY <1>4, <1>9, FlushWorks
<1> QED BY <1>11, <1>12

LEMMA RecordInsertWorks ==
    ASSUME StoreOK, GuardOK, NEW t \in Requests, RecordInsert(t)
    PROVE  StoreOK' /\ Works(t)
PROOF
<1> DEFINE new == req[t].arg
<1>1. PICK r \in req[t].at :
        /\ req[t].pc = "cleared" /\ req[t].op = "create"
        /\ CanLock(t, {r}) /\ CanShare(t, new.to)
        /\ row[r].st = "none"
        /\ Flush(t, AlsoWrite(req[t].write, r, new),
                 DemotionEvents(t) \o <<Event(r, "CREATE", 1, 0)>>, new.to)
  BY DEF RecordInsert
<1>2. CreateOK(req[t]) /\ req[t].at \subseteq Record
  BY <1>1 DEF StoreOK, RequestOK
<1>3. r \in Record /\ r \in Resource /\ req[t].at = {r}
      /\ IsRow(new) /\ new.st = "live" /\ new.rev = 1 /\ HasFile(new)
  BY <1>1, <1>2, RecordIsResource DEF CreateOK
<1>4. row[r].rev = 0
  BY <1>1, <1>3, RowFacts
<1> HIDE DEF new
<1>5. Revised(new, row[r]) /\ KeepsFile(new, row[r], req[t].share \cup new.to)
  BY <1>1, <1>3, <1>4 DEF Revised, KeepsFile, FileOf
<1>6. /\ Flush(t, AlsoWrite(req[t].write, r, new),
               DemotionEvents(t) \o <<Event(r, "CREATE", 1, 0)>>, new.to)
      /\ req[t].pc = "cleared" /\ CanLock(t, {r}) /\ CanShare(t, new.to)
  BY <1>1 DEF new
<1>7. 1 = row[r].rev + 1
  BY <1>4
<1> QED BY <1>3, <1>5, <1>6, <1>7, RecordFlushWorks

(* An update or a delete under way has read its record, which is there.    *)
LEMMA ReadRecord ==
    ASSUME StoreOK, GuardOK, NEW t \in Requests, NEW r \in req[t].at, req[t].at \subseteq Record,
           req[t].op \in {"update", "delete"}, req[t].pc \in {"checked", "cleared", "read"}
    PROVE  /\ r \in Record /\ r \in Resource /\ req[t].at = {r}
           /\ IsRow(row[r]) /\ row[r].st # "none"
           /\ IsRow(req[t].arg) /\ req[t].arg.st = "live" /\ req[t].arg.rev = req[t].base
           /\ req[t].base \in Nat
           /\ FileOf(req[t].arg) = FileOf(row[r])
PROOF
<1>1. EditOK(req[t], row) /\ Guarded(req[t], row)
  BY DEF StoreOK, RequestOK, GuardOK
<1>2. r \in Record /\ r \in Resource /\ req[t].at = {r}
      /\ IsRow(req[t].arg) /\ req[t].arg.st = "live" /\ req[t].arg.rev = req[t].base
  BY <1>1, RecordIsResource DEF EditOK
<1>3. row[r].st # "none" /\ FileOf(req[t].arg) = FileOf(row[r])
  BY <1>1, <1>2 DEF Guarded
<1>4. req[t].base \in Nat
  BY <1>2 DEF IsRow
<1> QED BY <1>2, <1>3, <1>4, RowFacts

LEMMA UpdateIfRevisionWorks ==
    ASSUME StoreOK, GuardOK, NEW t \in Requests, UpdateIfRevision(t)
    PROVE  StoreOK' /\ Works(t)
PROOF
<1> DEFINE new == [req[t].arg EXCEPT !.rev = @ + 1]
           shared == new.to \ row[CHOOSE r \in req[t].at : TRUE].to
<1>1. PICK r \in req[t].at :
        /\ req[t].pc = "cleared" /\ req[t].op = "update"
        /\ CanLock(t, {r}) /\ CanShare(t, new.to \ row[r].to)
        /\ Live(r) /\ row[r].rev = req[t].base
        /\ Flush(t, AlsoWrite(req[t].write, r, new),
                 DemotionEvents(t) \o <<Event(r, "UPDATE", new.rev, req[t].base)>>,
                 new.to \ row[r].to)
  BY DEF UpdateIfRevision
<1>2. req[t].at \subseteq Record
  BY <1>1 DEF StoreOK, RequestOK
<1>3. /\ r \in Record /\ r \in Resource /\ req[t].at = {r}
      /\ row[r].st = "live"
      /\ IsRow(req[t].arg) /\ req[t].arg.st = "live" /\ req[t].arg.rev = req[t].base
      /\ req[t].base \in Nat
      /\ FileOf(req[t].arg) = FileOf(row[r])
  BY <1>1, <1>2, ReadRecord DEF Live
<1>4. IsRow(new) /\ new.st = "live" /\ new.rev = req[t].base + 1 /\ new.to = req[t].arg.to
  BY <1>3, NextRow
<1> DEFINE given == new.to \ row[r].to
<1>5. /\ Flush(t, AlsoWrite(req[t].write, r, new),
               DemotionEvents(t) \o <<Event(r, "UPDATE", new.rev, req[t].base)>>, given)
      /\ req[t].pc = "cleared" /\ CanLock(t, {r}) /\ CanShare(t, given)
      /\ row[r].rev = req[t].base
  BY <1>1
<1> HIDE DEF new, given
<1>6. Revised(new, row[r])
  BY <1>3, <1>4, <1>5 DEF Revised
<1>7. KeepsFile(new, row[r], req[t].share \cup given)
  BY <1>3, <1>4 DEF KeepsFile, FileOf
<1>8. new.rev = row[r].rev + 1
  BY <1>4, <1>5
<1> QED BY <1>3, <1>4, <1>5, <1>6, <1>7, <1>8, RecordFlushWorks

LEMMA RecordDeleteFlushWorks ==
    ASSUME StoreOK, GuardOK, NEW t \in Requests, RecordDeleteFlush(t)
    PROVE  StoreOK' /\ Works(t)
PROOF
<1>1. PICK r \in req[t].at :
        /\ req[t].pc = "read"
        /\ CanLock(t, {r})
        /\ FlushAndFail(t, WriteOf(r, [row[r] EXCEPT !.st = "dead", !.rev = req[t].base + 1]),
                 <<Event(r, "DELETE", req[t].base + 1, req[t].base)>>, {},
                 {f \in FileOf(row[r]) : plate[f] = "WAITING" /\ LiveReferrers(f, Record) \subseteq {r}})
  BY DEF RecordDeleteFlush
<1> DEFINE fails == {f \in FileOf(row[r]) : plate[f] = "WAITING" /\ LiveReferrers(f, Record) \subseteq {r}}
<1>2. req[t].at \subseteq Record /\ req[t].op = "delete"
  BY <1>1 DEF StoreOK, RequestOK
<1>3. /\ r \in Record /\ r \in Resource \ Favorite /\ r \notin Master
      /\ r \notin Site /\ r \notin Equipment
      /\ IsRow(row[r]) /\ row[r].st # "none" /\ req[t].base \in Nat
  BY <1>1, <1>2, ReadRecord, RecordIsResource
<1> DEFINE old == row[r]
           n == req[t].base + 1
           new == [old EXCEPT !.st = "dead", !.rev = n]
<1>4. IsRow(old) /\ n \in Nat /\ old.st # "none"
  BY <1>3
<1>5. FlushAndFail(t, WriteOf(r, new), <<Event(r, "DELETE", n, req[t].base)>>, {}, fails)
      /\ CanLock(t, {r} \ req[t].lock) /\ CanShare(t, {})
  BY <1>1 DEF CanLock, CanShare
<1> HIDE DEF old, n, fails
<1>6. IsRow(new) /\ new.st = "dead" /\ new.to = old.to
  BY <1>4 DEF IsRow
<1> HIDE DEF new
<1>7. Buried(new, row[r]) /\ KeepsFile(new, row[r], req[t].share \cup {})
  BY <1>4, <1>6 DEF Buried, KeepsFile, FileOf, old
<1> QED BY <1>3, <1>5, <1>6, <1>7, OneEditWorks

LEMMA SyncWorks ==
    ASSUME StoreOK, GuardOK, NEW t \in Requests, NEW f \in File, SyncObservationStatus(t, f)
    PROVE  StoreOK' /\ Works(t)
PROOF
<1> DEFINE X == LiveReferrers(f, Record)
           w == [x \in X |-> [row[x] EXCEPT !.rev = @ + 1]]
           S == {Event(x, "UPDATE", w[x].rev, row[x].rev) : x \in X}
           es == SetToSeq(S)
<1>1. CanLock(t, X) /\ FlushAndFail(t, w, es, {}, {})
  BY DEF SyncObservationStatus, Flush
<1>2. X \subseteq Record /\ X \subseteq Resource /\ \A x \in X : row[x].st = "live"
  BY RecordIsResource DEF LiveReferrers, Live
<1>3. \A x \in X : IsRow(w[x]) /\ w[x].st = "live" /\ w[x].rev = row[x].rev + 1
                   /\ w[x].to = row[x].to
  <2> TAKE x \in X
  <2> DEFINE r == row[x]
  <2>1. IsRow(r) /\ r.st = "live"
    BY <1>2, RowFacts
  <2>2. w[x] = [r EXCEPT !.rev = @ + 1]
    OBVIOUS
  <2> HIDE DEF r, w
  <2> QED BY <2>1, <2>2, NextRow DEF r
<1>4. DOMAIN w = X
  OBVIOUS
<1>5. S = Updates(X, w, row)
  BY DEF Updates
<1> HIDE DEF w, X, S
<1>6. WritesOK(w, req[t].share \cup {}, row)
  <2>1. ASSUME NEW x \in X PROVE WriteOK(x, w, req[t].share \cup {}, row)
    <3>1. x \in Record /\ row[x].st = "live"
      BY <1>2
    <3>2. FileOf(w[x]) = FileOf(row[x])
      BY <1>3 DEF FileOf
    <3> QED BY <1>3, <3>1, <3>2, RecordWriteOK
  <2> QED BY <1>4, <2>1 DEF WritesOK
<1>7. FreesSites(w, row)
  BY <1>2, <1>4, RecordIsResource DEF FreesSites
<1>8. Announces(es, w, row)
  <2>1. X \cap Favorite = {} /\ X \subseteq DOMAIN w /\ Master \cap DOMAIN w = {}
    BY <1>2, <1>4, RecordIsResource
  <2>2. \A x \in X : w[x].st = "live" /\ w[x].rev = row[x].rev + 1
    BY <1>3
  <2>3. IsFiniteSet(X)
    BY <1>2, FS_Subset, StoreAssumption
  <2>4. /\ IsFiniteSet(S)
        /\ \A d \in S : DOMAIN d = EventColumns /\ EventOK(d, w, row) /\ d.at \in X
        /\ \A c, d \in S : c.at = d.at => c = d
    BY <1>5, <2>1, <2>2, <2>3, UpdatesOK
  <2> QED BY <2>1, <2>4, AnnounceSet
<1>9. CanLock(t, DOMAIN w \ req[t].lock) /\ CanShare(t, {})
  BY <1>1, <1>4 DEF CanLock, CanShare
<1> HIDE DEF es
<1>10. StoreOK'
  BY <1>1, <1>6, <1>7, <1>8, <1>9, FlushFits
<1>11. Works(t)
  BY <1>1, <1>8, FlushWorks
<1> QED BY <1>10, <1>11

(* A transaction that ends without a commit of rows. *)
LEMMA IdleWorks ==
    ASSUME StoreOK, GuardOK, NEW t \in Requests, req' = [req EXCEPT ![t] = Idle],
           UNCHANGED <<row, seq, log, cursor, seen, inflight>>
    PROVE  StoreOK' /\ Works(t)
PROOF
<1>1. Moves(t, Idle)
  BY DEF StoreOK, Moves
<1>2. Fits(t, Idle)
  BY IdleFits
<1>3. Guarded(Idle, row) /\ Obtains(t, Idle.adv) /\ Idle.events = {}
  BY IdleFields DEF Guarded, Obtains
<1> QED BY <1>1, <1>2, <1>3, PlainWorks

(* A cleanup between its deletion of the media and its commit.             *)
LEMMA TombstoneWorks ==
    ASSUME StoreOK, GuardOK, NEW t \in Requests, NEW S, req[t].pc = "cleanup",
           SharedLock(t), CanLock(t, S), S \cap Resource = {},
           req' = [req EXCEPT ![t].pc = "tombstone", ![t].lock = S, ![t].adv = "shared"],
           UNCHANGED <<row, seq, log, cursor, seen, inflight>>
    PROVE  StoreOK' /\ Works(t)
PROOF
<1> DEFINE p == req[t]
           q == [[[p EXCEPT !.pc = "tombstone"] EXCEPT !.lock = S] EXCEPT !.adv = "shared"]
<1>1. RequestOK(p, row) /\ DOMAIN req = Requests /\ DOMAIN p = Columns
  BY DEF StoreOK, RequestOK
<1>2. Moves(t, q)
  <2>1. req' = [req EXCEPT ![t] = q]
    BY <1>1 DEF Columns
  <2> QED BY <1>1, <2>1 DEF Moves
<1>3. p.events = {} /\ DOMAIN p.write = {} /\ p.share = req[t].share
      /\ CleansOK(p) /\ p.op = "delete" /\ p.at \subseteq Record
  BY <1>1 DEF RequestOK, CleansOK
<1> HIDE DEF p
<1>4. /\ DOMAIN q = Columns /\ q.pc = "tombstone" /\ q.op = p.op /\ q.at = p.at /\ q.arg = p.arg
      /\ q.write = p.write /\ q.events = p.events /\ q.lock = S
      /\ q.share = p.share /\ q.adv = "shared"
  BY <1>1 DEF Columns
<1> HIDE DEF q
<1>5. RequestOK(q, row)
  <2>1. CleansOK(q)
    BY <1>3, <1>4 DEF CleansOK
  <2> QED BY <1>3, <1>4, <2>1 DEF RequestOK, WritesOK
<1>6. Fits(t, q)
  BY <1>3, <1>4, <1>5 DEF Fits, FreesSites, CanLock
<1>7. Guarded(q, row) /\ Obtains(t, q.adv)
  BY <1>3, <1>4 DEF Guarded, Obtains
<1> QED BY <1>2, <1>3, <1>4, <1>6, <1>7, PlainWorks

(* A Reset takes its locks, and goes on. *)
LEMMA ResetMoves ==
    ASSUME StoreOK, GuardOK, NEW t \in Requests, NEW q, Moves(t, q),
           req[t].pc \in {"waiting", "locked"}, q.pc \in {"locked", "deleting"},
           DOMAIN q = Columns, q.op = req[t].op, q.write = req[t].write,
           q.events = req[t].events, q.share = req[t].share, q.adv = req[t].adv,
           CanLock(t, q.lock \ req[t].lock),
           UNCHANGED <<row, seq, log, cursor, seen, inflight>>
    PROVE  StoreOK' /\ Works(t)
PROOF
<1> DEFINE p == req[t]
<1>1. RequestOK(p, row) /\ Guarded(p, row)
  BY DEF StoreOK, GuardOK
<1>2. p.events = {} /\ DOMAIN p.write = {} /\ p.op = "reset" /\ p.adv = "exclusive"
  BY <1>1 DEF RequestOK, Guarded
<1>3. RequestOK(q, row)
  BY <1>2 DEF RequestOK, WritesOK, CleansOK
<1>4. Fits(t, q)
  BY <1>2, <1>3 DEF Fits, FreesSites, CanLock
<1>5. Guarded(q, row) /\ Obtains(t, q.adv)
  BY <1>2 DEF Guarded, Obtains
<1> QED BY <1>2, <1>4, <1>5, PlainWorks

LEMMA ResetBeginWorks ==
    ASSUME StoreOK, GuardOK, NEW t \in Requests, ResetBegin(t)
    PROVE  StoreOK' /\ Works(t)
PROOF
<1> DEFINE q == [Idle EXCEPT !.pc = "waiting", !.op = "reset", !.adv = "exclusive"]
<1>1. Exclusive(t) /\ Begin(t, q)
  BY DEF ResetBegin
<1>2. /\ DOMAIN q = Columns /\ q.pc = "waiting" /\ q.op = "reset"
      /\ DOMAIN q.write = {} /\ q.events = {} /\ q.lock = {} /\ q.share = {}
      /\ q.adv = "exclusive"
  BY DEF Idle, Columns
<1> HIDE DEF q
<1>3. Fits(t, q)
  BY <1>2, PlainFits DEF CleansOK
<1>4. Guarded(q, row) /\ Obtains(t, q.adv)
  BY <1>1, <1>2 DEF Guarded, Obtains
<1> QED BY <1>1, <1>2, <1>3, <1>4, PlainBegins

LEMMA CleanupFileFacts ==
    ASSUME StoreOK, NEW t \in Requests, req[t].pc \in {"cleanup", "tombstone"}
    PROVE  /\ CleanupFile(t) \in File /\ FileOf(req[t].arg) = {CleanupFile(t)}
           /\ req[t].op = "delete" /\ req[t].at \subseteq Record /\ req[t].at # {}
PROOF
<1>1. CleansOK(req[t])
  BY DEF StoreOK, RequestOK
<1>2. PICK f \in File : FileOf(req[t].arg) = {f}
  BY <1>1 DEF CleansOK, HasFile
<1>3. CleanupFile(t) = f
  BY <1>2 DEF CleanupFile
<1> QED BY <1>1, <1>2, <1>3 DEF CleansOK

LEMMA CleanupDeleteWorks ==
    ASSUME StoreOK, GuardOK, NEW t \in Requests, CleanupDelete(t)
    PROVE  StoreOK' /\ Works(t)
PROOF
<1> DEFINE f == CleanupFile(t)
<1>1. /\ CanCleanup(t)
      /\ \/ req' = [req EXCEPT ![t].pc = "tombstone", ![t].lock = {f}, ![t].adv = "shared"]
         \/ req' = [req EXCEPT ![t] = Idle]
      /\ UNCHANGED <<row, seq, log, cursor, seen, inflight>>
  BY DEF CleanupDelete
<1>2. req[t].pc = "cleanup" /\ SharedLock(t) /\ CanLock(t, {f}) /\ f \in File
  BY <1>1, CleanupFileFacts DEF CanCleanup
<1>3. {f} \cap Resource = {}
  BY <1>2, TablesAssumption DEF Resource
<1>4. CASE req' = [req EXCEPT ![t].pc = "tombstone", ![t].lock = {f}, ![t].adv = "shared"]
  BY <1>1, <1>2, <1>3, <1>4, TombstoneWorks
<1>5. CASE req' = [req EXCEPT ![t] = Idle]
  BY <1>1, <1>5, IdleWorks
<1> QED BY <1>1, <1>4, <1>5

LEMMA ResetLockWorks ==
    ASSUME StoreOK, GuardOK, NEW t \in Requests, ResetLock(t) \/ ResetScan(t)
    PROVE  StoreOK' /\ Works(t)
PROOF
<1>1. DOMAIN req = Requests /\ DOMAIN req[t] = Columns
  BY DEF StoreOK, RequestOK
<1>2. UNCHANGED <<row, seq, log, cursor, seen, inflight>>
      /\ req[t].pc \in {"waiting", "locked"}
  BY DEF ResetLock, ResetScan
<1>3. PICK pc, S :
         /\ pc \in {"locked", "deleting"} /\ CanLock(t, S \ req[t].lock)
         /\ req' = [req EXCEPT ![t].pc = pc, ![t].lock = S]
  <2>1. CASE ResetLock(t)
    <3> DEFINE rows == {r \in Record : row[r].st # "none"} \cup Targets
    <3>1. CanLock(t, rows) /\ req' = [req EXCEPT ![t].pc = "locked", ![t].lock = rows]
      BY <2>1 DEF ResetLock
    <3> HIDE DEF rows
    <3>2. CanLock(t, rows \ req[t].lock)
      BY <3>1 DEF CanLock
    <3> QED BY <3>1, <3>2
  <2>2. CASE ResetScan(t)
    <3> DEFINE S == req[t].lock
    <3>1. req' = [req EXCEPT ![t].pc = "deleting", ![t].lock = S]
      BY <1>1, <2>2 DEF ResetScan, Columns
    <3>2. CanLock(t, S \ req[t].lock)
      BY DEF CanLock
    <3> HIDE DEF S
    <3> QED BY <3>1, <3>2
  <2> QED BY <2>1, <2>2
<1> DEFINE p == req[t]
           q == [[p EXCEPT !.pc = pc] EXCEPT !.lock = S]
<1>4. Moves(t, q)
  <2>1. req' = [req EXCEPT ![t] = q]
    BY <1>1, <1>3 DEF Columns
  <2> QED BY <1>1, <2>1 DEF Moves
<1>5. DOMAIN p = Columns
  BY <1>1
<1> HIDE DEF p
<1>6. /\ DOMAIN q = Columns /\ q.pc = pc /\ q.op = p.op
      /\ q.write = p.write /\ q.events = p.events /\ q.lock = S
      /\ q.share = p.share /\ q.adv = p.adv
  BY <1>5 DEF Columns
<1> HIDE DEF q
<1> QED BY <1>2, <1>3, <1>4, <1>6, ResetMoves DEF p

(* The commit of t. *)
Commits(t) ==
    /\ req[t].pc = "flushed"
    /\ CommitRows(t)
    /\ Moves(t, req'[t]) /\ Empty(req'[t])
    /\ req'[t].adv = "none" /\ req'[t].op # "reset"

(* The rows that others have read are still there. *)
LEMMA CommitsKeepGuard ==
    ASSUME StoreOK, GuardOK, NEW t \in Requests, Commits(t)
    PROVE  StoreOK' /\ GuardOK'
PROOF
<1>1. StoreOK'
  BY CommitKeepsStore DEF Commits
<1>2. ASSUME NEW u \in Requests, u # t PROVE Guarded(req'[u], row')
  <2>1. req'[u] = req[u] /\ Guarded(req[u], row)
    BY <1>2 DEF Commits, Moves, GuardOK
  <2>2. ASSUME NEW r \in Record, row[r].st # "none"
        PROVE  row'[r].st # "none" /\ FileOf(row'[r]) = FileOf(row[r])
    <3>1. row'[r] = IF r \in DOMAIN req[t].write THEN req[t].write[r] ELSE row[r]
      BY RecordIsResource DEF Commits, CommitRows
    <3>2. CASE r \in DOMAIN req[t].write
      <4>1. WriteOK(r, req[t].write, req[t].share, row)
        BY <3>2 DEF StoreOK, RequestOK, WritesOK
      <4> QED BY <2>2, <3>1, <3>2, <4>1, RecordIsResource DEF WriteOK, Revised, Buried, KeepsFile
    <3> QED BY <2>2, <3>1, <3>2
  <2> QED BY <2>1, <2>2 DEF Guarded
<1>3. Guarded(req'[t], row')
  BY DEF Commits, Guarded, Empty
<1>4. \A u \in Requests : req'[u].adv = "exclusive" => Exclusive(u)'
  BY DEF Commits, Moves, GuardOK, Exclusive
<1> QED BY <1>1, <1>2, <1>3, <1>4 DEF GuardOK

LEMMA RecordCommits ==
    ASSUME StoreOK, NEW t \in Requests, RecordCommit(t)
    PROVE  Commits(t)
PROOF
<1> DEFINE c == [Idle EXCEPT !.pc = "cleanup", !.op = "delete", !.at = req[t].at, !.arg = req[t].arg]
           q == IF req[t].op = "delete" THEN c ELSE Idle
<1>1. /\ req[t].pc = "flushed" /\ req[t].at \subseteq Record /\ CommitRows(t)
      /\ req' = [req EXCEPT ![t] = q]
  BY DEF RecordCommit
<1>2. DOMAIN req = Requests /\ CleansOK(req[t])
  BY DEF StoreOK, RequestOK
<1>3. Moves(t, q) /\ req'[t] = q
  BY <1>1, <1>2 DEF Moves
<1>4. /\ DOMAIN c = Columns /\ c.pc = "cleanup" /\ c.op = "delete" /\ c.at = req[t].at
      /\ c.arg = req[t].arg /\ DOMAIN c.write = {} /\ c.events = {} /\ c.lock = {}
      /\ c.share = {} /\ c.adv = "none"
  BY DEF Idle, Columns
<1> HIDE DEF c
<1>5. CASE req[t].op = "delete"
  <2>1. Empty(c)
    BY <1>1, <1>2, <1>4, <1>5 DEF Empty, CleansOK
  <2> QED BY <1>1, <1>3, <1>4, <1>5, <2>1 DEF Commits
<1>6. CASE req[t].op # "delete"
  <2>1. Empty(Idle)
    BY IdleFields DEF Empty, CleansOK
  <2> QED BY <1>1, <1>3, <1>6, <2>1, IdleFields DEF Commits
<1> QED BY <1>5, <1>6

LEMMA MasterCommits ==
    ASSUME StoreOK, NEW t \in Requests, MasterCommit(t)
    PROVE  Commits(t)
PROOF
<1>1. req[t].pc = "flushed" /\ CommitRows(t) /\ req' = [req EXCEPT ![t] = Idle]
  BY DEF MasterCommit, Commit
<1>2. Moves(t, Idle) /\ req'[t] = Idle
  BY <1>1 DEF StoreOK, Moves
<1>3. Empty(Idle)
  BY IdleFields DEF Empty, CleansOK
<1> QED BY <1>1, <1>2, <1>3, IdleFields DEF Commits

LEMMA ResetCommitKeeps ==
    ASSUME StoreOK, GuardOK, NEW t \in Requests, ResetCommit(t)
    PROVE  StoreOK' /\ GuardOK'
PROOF
<1>1. /\ req[t].pc = "deleting"
      /\ CanLock(t, {r \in Record : row[r].st # "none"})
      /\ row' = [r \in Resource |-> IF r \in Record THEN NoRow ELSE row[r]]
      /\ req' = [req EXCEPT ![t] = Idle]
  BY DEF ResetCommit
<1>2. Moves(t, Idle) /\ Empty(Idle)
  BY <1>1, IdleFields DEF StoreOK, Moves, Empty, CleansOK
<1>3. StoreOK'
  BY <1>1, <1>2, ResetKeepsStore
<1>4. Exclusive(t)
  BY <1>1 DEF GuardOK, Guarded
<1>5. \A u \in Requests : Guarded(req'[u], row')
  <2> TAKE u \in Requests
  <2>1. CASE u = t
    BY <1>2, <2>1, IdleFields DEF Moves, Guarded
  <2>2. CASE u # t
    <3>1. req'[u] = req[u] /\ Guarded(req[u], row) /\ req[u].adv = "none"
      BY <1>2, <1>4, <2>2 DEF Moves, GuardOK, Exclusive
    <3> QED BY <3>1 DEF Guarded
  <2> QED BY <2>1, <2>2
<1>6. \A u \in Requests : req'[u].adv = "exclusive" => Exclusive(u)'
  BY <1>2, IdleFields DEF Moves, GuardOK, Exclusive
<1> QED BY <1>3, <1>5, <1>6 DEF GuardOK

LEMMA StillKeeps ==
    ASSUME StoreOK, GuardOK, UNCHANGED <<row, req>>
    PROVE  StoreOK' /\ GuardOK'
PROOF BY DEF StoreOK, GuardOK, LocksApart, Exclusive

(* What a step is to the store, and that it keeps it in order.             *)
StepKind ==
    \/ \E t \in Requests : Works(t)
    \/ \E t \in Requests : Commits(t)
    \/ \E t \in Requests : ResetCommit(t)
    \/ \E c \in Clients : ListChanges(c)
    \/ UNCHANGED <<row, req, seq, log, cursor, seen, inflight>>

LEMMA RecordStepKind ==
    ASSUME StoreOK, GuardOK, NEW t \in Requests, RecordStep(t)
    PROVE  (StoreOK' /\ Works(t)) \/ Commits(t)
PROOF
<1>1. ASSUME NEW r \in Record, RecordCreate(t, r) \/ RecordUpdate(t, r) \/ RecordDelete(t, r)
      PROVE  StoreOK' /\ Works(t)
  BY <1>1, RecordCreateWorks, RecordUpdateWorks, RecordDeleteWorks
<1>2. CASE EnsureLink(t)
  BY <1>2, EnsureLinkWorks
<1>3. CASE ClearRepresentative(t)
  BY <1>3, ClearRepresentativeWorks
<1>4. CASE RecordInsert(t)
  BY <1>4, RecordInsertWorks
<1>5. CASE UpdateIfRevision(t)
  BY <1>5, UpdateIfRevisionWorks
<1>6. CASE RecordDeleteFlush(t)
  BY <1>6, RecordDeleteFlushWorks
<1>7. CASE RecordCommit(t)
  BY <1>7, RecordCommits
<1>8. CASE CleanupPreserve(t) \/ CleanupUnlink(t) \/ CleanupCommit(t)
  <2>1. req' = [req EXCEPT ![t] = Idle] /\ UNCHANGED <<row, seq, log, cursor, seen, inflight>>
    BY <1>8 DEF CleanupPreserve, CleanupUnlink, CleanupCommit
  <2> QED BY <2>1, IdleWorks
<1>9. CASE CleanupDelete(t)
  BY <1>9, CleanupDeleteWorks
<1>10. ASSUME NEW f \in File, SyncObservationStatus(t, f) PROVE StoreOK' /\ Works(t)
  BY <1>10, SyncWorks
<1> QED BY <1>1, <1>2, <1>3, <1>4, <1>5, <1>6, <1>7, <1>8, <1>9, <1>10, Zenon DEF RecordStep

LEMMA NextKind ==
    ASSUME StoreOK, GuardOK, [Next]_vars
    PROVE  StoreOK' /\ GuardOK' /\ StepKind
PROOF
<1>1. ASSUME NEW t \in Requests, StoreOK' /\ Works(t)
      PROVE  StoreOK' /\ GuardOK' /\ StepKind
  BY <1>1, WorksKeepsGuard DEF StepKind
<1>2. ASSUME NEW t \in Requests, Commits(t)
      PROVE  StoreOK' /\ GuardOK' /\ StepKind
  BY <1>2, CommitsKeepGuard DEF StepKind
<1>3. ASSUME NEW t \in Requests, RecordStep(t)
      PROVE  StoreOK' /\ GuardOK' /\ StepKind
  BY <1>1, <1>2, <1>3, RecordStepKind
<1>4. ASSUME NEW t \in Requests, ResetStep(t)
      PROVE  StoreOK' /\ GuardOK' /\ StepKind
  <2>1. CASE ResetBegin(t)
    BY <1>1, <2>1, ResetBeginWorks
  <2>2. CASE ResetLock(t) \/ ResetScan(t)
    BY <1>1, <2>2, ResetLockWorks
  <2>3. CASE ResetDeleteAssets(t)
    BY <2>3, StillKeeps DEF ResetDeleteAssets, StepKind, storeVars
  <2>4. CASE ResetCommit(t)
    BY <2>4, ResetCommitKeeps DEF StepKind
  <2> QED BY <1>4, <2>1, <2>2, <2>3, <2>4 DEF ResetStep
<1>5. ASSUME NEW t \in Requests, MasterCommit(t)
      PROVE  StoreOK' /\ GuardOK' /\ StepKind
  BY <1>2, <1>5, MasterCommits
<1>6. ASSUME NEW t \in Requests, Abort(t)
      PROVE  StoreOK' /\ GuardOK' /\ StepKind
  <2>1. req' = [req EXCEPT ![t] = Idle] /\ UNCHANGED <<row, seq, log, cursor, seen, inflight>>
    BY <1>6 DEF Abort, Rollback
  <2> QED BY <1>1, <2>1, IdleWorks
<1>7. ASSUME NEW t \in Requests, MasterStep(t)
      PROVE  StoreOK' /\ GuardOK' /\ StepKind
  BY <1>1, <1>7, MasterStepWorks
<1>8. ASSUME NEW c \in Clients, ListChanges(c)
      PROVE  StoreOK' /\ GuardOK' /\ StepKind
  <2>1. UNCHANGED <<row, req>>
    BY <1>8 DEF ListChanges
  <2> QED BY <1>8, <2>1, StillKeeps DEF StepKind
<1>9. CASE Environment \/ UNCHANGED vars
  <2>1. UNCHANGED storeVars
    BY <1>9 DEF Environment, PlateClaim, PlateEnd, VisionToggle, RestoreFile, StoreFile,
                UploadAccept, UploadClaim, UploadEnd, vars
  <2> QED BY <2>1, StillKeeps DEF StepKind, storeVars
<1> QED BY <1>3, <1>4, <1>5, <1>6, <1>7, <1>8, <1>9 DEF Next

LEMMA StoreInit ==
    ASSUME Init
    PROVE  StoreOK /\ GuardOK
PROOF
<1>1. PICK e \in Equipment, s \in Site :
        row = [r \in Resource |-> IF r \in {e, s} THEN NewRow(TRUE, {}, NoCatalog) ELSE NoRow]
  BY DEF Init
<1>2. req = [t \in Requests |-> Idle]
  BY DEF Init
<1>3. RowsOK(row)
  <2>1. IsRow(NewRow(TRUE, {}, NoCatalog))
    BY NewRowIsRow
  <2>2. \A r \in Record : r \notin {e, s}
    BY RecordIsResource
  <2> QED BY <1>1, <2>1, <2>2, NoRowIsRow, RecordIsResource DEF RowsOK
<1>4. RequestOK(Idle, row) /\ FreesSites(Idle.write, row)
  <2>1. Empty(Idle)
    BY IdleFields DEF Empty, CleansOK
  <2> QED BY <2>1, EmptyIsOK
<1>5. StoreOK
  BY <1>2, <1>3, <1>4, IdleFields DEF StoreOK, LocksApart
<1>6. GuardOK
  BY <1>2, IdleFields DEF GuardOK, Guarded
<1> QED BY <1>5, <1>6

----------------------------------------------------------------------------
(* The theorems.                                                           *)

(* Theorem: the store is in order.  A transaction's writes are one         *)
(* revision on from the committed rows, its events announce them, nobody   *)
(* else has locked what it has locked, and who has read a record under the *)
(* Reset lock still finds it there.                                        *)
THEOREM StoreInOrder == Spec => [](StoreOK /\ GuardOK)
<1>1. Init => StoreOK /\ GuardOK
  BY StoreInit
<1>2. StoreOK /\ GuardOK /\ [Next]_vars => (StoreOK /\ GuardOK)'
  BY NextKind
<1> QED BY <1>1, <1>2, PTL DEF Spec

(* What a step does to a committed row that is not a record's.             *)
LEMMA RowSteps ==
    ASSUME StoreOK, StepKind
    PROVE  \/ row' = row /\ log' = log
           \/ \E t \in Requests : Commits(t)
           \/ /\ \A r \in Resource \ Record : row'[r] = row[r]
              /\ log' = log \cup {[Event("reset", "UPDATE", 0, 0) EXCEPT !.id = seq + 1]}
              /\ resets' = resets + 1
PROOF
<1>1. CASE \E t \in Requests : Works(t)
  BY <1>1 DEF Works
<1>2. CASE \E t \in Requests : ResetCommit(t)
  <2>1. /\ row' = [r \in Resource |-> IF r \in Record THEN NoRow ELSE row[r]]
        /\ log' = log \cup {[Event("reset", "UPDATE", 0, 0) EXCEPT !.id = seq + 1]}
        /\ resets' = resets + 1
    BY <1>2 DEF ResetCommit
  <2> QED BY <2>1
<1>3. CASE \E c \in Clients : ListChanges(c)
  BY <1>3 DEF ListChanges
<1> QED BY <1>1, <1>2, <1>3 DEF StepKind

(* The rows and events after a commit.                                     *)
LEMMA CommittedRow ==
    ASSUME StoreOK, NEW t \in Requests, Commits(t), NEW r \in Resource
    PROVE  /\ r \in DOMAIN req[t].write =>
                 row'[r] = req[t].write[r] /\ WriteOK(r, req[t].write, req[t].share, row)
           /\ r \notin DOMAIN req[t].write => row'[r] = row[r]
           /\ EventsOK(req[t].events, req[t].write, row)
           /\ log' = log \cup req[t].events
PROOF
<1>1. RequestOK(req[t], row) /\ req[t].pc = "flushed"
  BY DEF StoreOK, Commits
<1> QED BY <1>1 DEF RequestOK, WritesOK, Commits, CommitRows

(* Theorem: a committed deletion of an Equipment leaves no live site with  *)
(* it as its default; the delete locks the equipment and clears the sites  *)
(* it can see, and a site that newly names the equipment has its row       *)
(* locked FOR KEY SHARE until it commits.                                  *)
THEOREM DeletionFreesSites == Spec => DeleteFreesSites
<1>1. ASSUME StoreOK, StepKind
      PROVE  \A e \in Equipment : Live(e) /\ row'[e].st = "dead" =>
                \A s \in Site : row'[s].st = "live" => e \notin row'[s].to
  <2> SUFFICES ASSUME NEW e \in Equipment, Live(e), row'[e].st = "dead",
                      NEW s \in Site, row'[s].st = "live"
               PROVE  e \notin row'[s].to
    OBVIOUS
  <2>1. e \in Resource \ Record /\ s \in Resource
    BY TablesAssumption DEF Resource
  <2>2. PICK t \in Requests : Commits(t)
    BY <1>1, <2>1, RowSteps DEF Live
  <2> DEFINE w == req[t].write
  <2>3. e \in DOMAIN w /\ w[e].st = "dead" /\ WriteOK(e, w, req[t].share, row)
    BY <1>1, <2>1, <2>2, CommittedRow DEF Live
  <2>4. CASE s \in DOMAIN w
    <3>1. row'[s] = w[s]
      BY <1>1, <2>1, <2>2, <2>4, CommittedRow
    <3> QED BY <2>3, <2>4, <3>1 DEF WriteOK
  <2>5. CASE s \notin DOMAIN w
    <3>1. row'[s] = row[s]
      BY <1>1, <2>1, <2>2, <2>5, CommittedRow
    <3>2. FreesSites(w, row)
      BY <1>1 DEF StoreOK
    <3> QED BY <2>3, <2>5, <3>1, <3>2 DEF FreesSites
  <2> QED BY <2>4, <2>5
<1>2. StoreOK /\ GuardOK /\ [Next]_vars => StepKind
  BY NextKind
<1>3. StoreOK /\ GuardOK /\ [Next]_vars =>
        [\A e \in Equipment : Live(e) /\ row'[e].st = "dead" =>
            \A s \in Site : row'[s].st = "live" => e \notin row'[s].to]_vars
  BY <1>1, <1>2
<1> QED BY <1>3, StoreInOrder, PTL DEF Spec, DeleteFreesSites

(* Theorem: equipment, sites and framing references keep the promise of a  *)
(* revisioned resource: whatever transactions are open, rolled back or     *)
(* overtaken by a Reset, a row is created once, edited one revision at a   *)
(* time, buried once, and each revision is announced with the change.      *)
THEOREM MasterIsRevisioned == Spec => MasterImplementsRevisioned
<1> DEFINE ST == [r \in Master |-> row[r].st]
           RV == [r \in Master |-> row[r].rev]
           AN == [r \in Master |-> {e.rev : e \in {d \in log : d.at = r}}]
<1>0. Master \subseteq Resource \ Record
  BY TablesAssumption DEF Master, Resource
<1>1. Init => Canonical!Init
  <2> SUFFICES ASSUME Init PROVE Canonical!Init
    OBVIOUS
  <2>1. PICK e \in Equipment, s \in Site :
          /\ row = [r \in Resource |-> IF r \in {e, s} THEN NewRow(TRUE, {}, NoCatalog) ELSE NoRow]
          /\ log = {[Event(e, "CREATE", 1, 0) EXCEPT !.id = 1],
                    [Event(s, "CREATE", 1, 0) EXCEPT !.id = 2]}
    BY DEF Init
  <2>2. \A r \in Master : row[r].st \in {"none", "live"}
                          /\ row[r].rev = IF row[r].st = "live" THEN 1 ELSE 0
    BY <1>0, <2>1 DEF NewRow, NoRow
  <2> DEFINE a == [Event(e, "CREATE", 1, 0) EXCEPT !.id = 1]
             b == [Event(s, "CREATE", 1, 0) EXCEPT !.id = 2]
  <2>3. a.at = e /\ a.rev = 1 /\ b.at = s /\ b.rev = 1
    BY EventFields, NumberedFields
  <2>4. ASSUME NEW r \in Master PROVE AN[r] = 1..row[r].rev
    <3>1. log = {a, b}
      BY <2>1
    <3> HIDE DEF a, b
    <3>2. CASE r \in {e, s}
      <4>1. row[r].rev = 1 /\ 1..1 = {1}
        BY <1>0, <2>1, <3>2 DEF NewRow
      <4>2. {x.rev : x \in {d \in log : d.at = r}} = {1}
        BY <2>3, <3>1, <3>2
      <4> QED BY <4>1, <4>2
    <3>3. CASE r \notin {e, s}
      <4>1. row[r].rev = 0 /\ 1..0 = {}
        BY <1>0, <2>1, <3>3 DEF NoRow
      <4>2. {x.rev : x \in {d \in log : d.at = r}} = {}
        BY <2>3, <3>1, <3>3
      <4> QED BY <4>1, <4>2
    <3> QED BY <3>2, <3>3
  <2> QED BY <2>2, <2>4 DEF Canonical!Init
<1>2. ASSUME StoreOK, StepKind
      PROVE  [Canonical!Next]_(<<ST, RV, AN>>)
  <2>1. CASE \E t \in Requests : Commits(t)
    <3>1. PICK t \in Requests : Commits(t)
      BY <2>1
    <3> DEFINE w == req[t].write
               S == Master \cap DOMAIN w
    <3>2. ASSUME NEW i \in S
          PROVE  /\ Canonical!Create(i) \/ Canonical!Edit(i) \/ Canonical!Bury(i)
                 /\ RV'[i] = RV[i] + 1
                 /\ AN'[i] = AN[i] \cup {RV[i] + 1}
      <4>1. /\ row'[i] = w[i] /\ WriteOK(i, w, req[t].share, row)
            /\ EventsOK(req[t].events, w, row) /\ log' = log \cup req[t].events
        BY <1>0, <1>2, <3>1, CommittedRow
      <4>2. Revised(w[i], row[i])
        BY <1>0, <4>1, TablesAssumption DEF WriteOK, Master
      <4>3. {e.rev : e \in {d \in log' : d.at = i}}
              = {e.rev : e \in {d \in log : d.at = i}} \cup {row[i].rev + 1}
        BY <4>1 DEF EventsOK, EventOK
      <4>4. Canonical!Create(i) \/ Canonical!Edit(i) \/ Canonical!Bury(i)
        BY <4>1, <4>2 DEF Revised, Canonical!Create, Canonical!Edit, Canonical!Bury
      <4> QED BY <4>1, <4>2, <4>3, <4>4 DEF Revised
    <3>3. ASSUME NEW i \in Master \ S
          PROVE  ST'[i] = ST[i] /\ RV'[i] = RV[i] /\ AN'[i] = AN[i]
      <4>1. /\ row'[i] = row[i]
            /\ EventsOK(req[t].events, w, row) /\ log' = log \cup req[t].events
        BY <1>0, <1>2, <3>1, CommittedRow
      <4>2. {d \in log' : d.at = i} = {d \in log : d.at = i}
        BY <4>1 DEF EventsOK, EventOK
      <4> QED BY <4>1, <4>2
    <3>4. S \in SUBSET Master
      OBVIOUS
    <3>5. Canonical!Next
      <4> HIDE DEF S, ST, RV, AN
      <4> QED BY <3>2, <3>3, <3>4 DEF Canonical!Next, Canonical!Change, ST, RV, AN
    <3> QED BY <3>5
  <2>2. CASE row' = row /\ log' = log
    BY <2>2
  <2>3. CASE /\ \A r \in Resource \ Record : row'[r] = row[r]
             /\ log' = log \cup {[Event("reset", "UPDATE", 0, 0) EXCEPT !.id = seq + 1]}
    <3> DEFINE x == [Event("reset", "UPDATE", 0, 0) EXCEPT !.id = seq + 1]
    <3>1. x.at = "reset" /\ log' = log \cup {x}
      BY <2>3, EventFields, NumberedFields
    <3> HIDE DEF x
    <3>2. \A i \in Master : {d \in log' : d.at = i} = {d \in log : d.at = i}
      BY <1>0, <3>1, TablesAssumption
    <3>3. ST' = ST /\ RV' = RV /\ AN' = AN
      BY <1>0, <2>3, <3>2
    <3> QED BY <3>3
  <2> HIDE DEF ST, RV, AN
  <2> QED BY <1>2, <2>1, <2>2, <2>3, RowSteps
<1>3. StoreOK /\ GuardOK /\ [Next]_vars => [Canonical!Next]_(<<ST, RV, AN>>)
  BY <1>2, NextKind
<1> QED BY <1>1, <1>3, StoreInOrder, PTL DEF Spec, MasterImplementsRevisioned, Canonical!Spec

----------------------------------------------------------------------------
(* The edits.                                                              *)

LEMMA ResetsStep ==
    ASSUME [Next]_vars
    PROVE  resets' = resets \/ resets' = resets + 1
PROOF
<1>1. ASSUME NEW t \in Requests, RecordStep(t) PROVE resets' = resets
  <2>1. ASSUME NEW r \in Record, RecordCreate(t, r) PROVE resets' = resets
    BY <2>1, Zenon DEF RecordCreate, captureVars
  <2>2. ASSUME NEW r \in Record, RecordUpdate(t, r) PROVE resets' = resets
    BY <2>2, Zenon DEF RecordUpdate, captureVars
  <2>3. ASSUME NEW r \in Record, RecordDelete(t, r) PROVE resets' = resets
    BY <2>3, Zenon DEF RecordDelete, captureVars
  <2>4. CASE EnsureLink(t) \/ ClearRepresentative(t) \/ RecordCommit(t)
    BY <2>4 DEF EnsureLink, ClearRepresentative, RecordCommit, captureVars
  <2>5. CASE RecordInsert(t) \/ UpdateIfRevision(t) \/ RecordDeleteFlush(t)
    BY <2>5 DEF RecordInsert, UpdateIfRevision, RecordDeleteFlush, captureVars
  <2>6. CASE CleanupPreserve(t) \/ CleanupUnlink(t) \/ CleanupDelete(t) \/ CleanupCommit(t)
    BY <2>6 DEF CleanupPreserve, CleanupUnlink, CleanupDelete, CleanupCommit, captureVars
  <2>7. CASE \E f \in File : SyncObservationStatus(t, f)
    BY <2>7, Zenon DEF SyncObservationStatus, captureVars
  <2> QED BY <1>1, <2>1, <2>2, <2>3, <2>4, <2>5, <2>6, <2>7, Zenon DEF RecordStep
<1>2. ASSUME NEW t \in Requests, ResetStep(t) PROVE resets' = resets \/ resets' = resets + 1
  BY <1>2 DEF ResetStep, ResetBegin, ResetLock, ResetScan, ResetDeleteAssets, ResetCommit,
       captureVars
<1>3. ASSUME NEW t \in Requests, MasterCommit(t) \/ Abort(t) PROVE resets' = resets
  BY <1>3 DEF MasterCommit, Abort, captureVars
<1>4. Environment => resets' = resets
  BY DEF Environment, PlateClaim, PlateEnd, VisionToggle, RestoreFile, StoreFile,
       UploadAccept, UploadClaim, UploadEnd
<1>5. UNCHANGED captureVars => resets' = resets
  BY DEF captureVars
<1>6. UNCHANGED vars => resets' = resets
  BY <1>5 DEF vars
<1> QED BY <1>1, <1>2, <1>3, <1>4, <1>5, <1>6, Zenon DEF Next

TellsKnown(L) == \A e \in L : e.op = "UPDATE" /\ e.at # "reset" => e.rev = e.base + 1

(* The feed tells of rows that exist, and of a live one no later revision  *)
(* than it has.                                                            *)
TellsPast(L, R) ==
    \A e \in L : /\ e.at \in Resource \ Favorite /\ R[e.at].st # "none"
                 /\ R[e.at].st = "live" => e.rev \in Nat /\ e.rev <= R[e.at].rev

TellsOnce(L) ==
    \A d, e \in L : d.at = e.at /\ d.rev = e.rev /\ d # e => "DELETE" \in {d.op, e.op}

(* The last two hold until a Reset empties the record table.               *)
EditsOK ==
    /\ resets \in Nat /\ TellsKnown(log)
    /\ resets = 0 => TellsPast(log, row) /\ TellsOnce(log)

LEMMA EditsInit ==
    ASSUME Init
    PROVE  EditsOK
PROOF
<1>1. PICK e \in Equipment, s \in Site :
        /\ row = [r \in Resource |-> IF r \in {e, s} THEN NewRow(TRUE, {}, NoCatalog) ELSE NoRow]
        /\ log = {[Event(e, "CREATE", 1, 0) EXCEPT !.id = 1],
                  [Event(s, "CREATE", 1, 0) EXCEPT !.id = 2]}
  BY DEF Init
<1> DEFINE a == [Event(e, "CREATE", 1, 0) EXCEPT !.id = 1]
           b == [Event(s, "CREATE", 1, 0) EXCEPT !.id = 2]
<1>2. a.at = e /\ a.rev = 1 /\ b.at = s /\ b.rev = 1 /\ a.op = "CREATE" /\ b.op = "CREATE"
  BY EventFields, NumberedFields
<1>3. log = {a, b} /\ resets = 0
  BY <1>1 DEF Init
<1> HIDE DEF a, b
<1>4. e # s /\ {e, s} \subseteq Resource \ Favorite
  BY TablesAssumption DEF Resource
<1>5. /\ row[e].st = "live" /\ row[e].rev = 1 /\ row[s].st = "live" /\ row[s].rev = 1
  BY <1>1, <1>4 DEF NewRow
<1> QED BY <1>2, <1>3, <1>4, <1>5 DEF EditsOK, TellsPast, TellsKnown, TellsOnce

(* A commit tells of the rows it writes.                                   *)
LEMMA CommitTells ==
    ASSUME StoreOK, NEW t \in Requests, Commits(t), NEW e \in req[t].events
    PROVE  /\ e.at \in Resource \ Favorite
           /\ e.op = "UPDATE" => e.rev = e.base + 1
           /\ row[e.at].rev \in Nat
           /\ IF e.op = "DELETE" THEN row'[e.at].st = "dead"
              ELSE /\ row[e.at].st \in {"none", "live"} /\ row'[e.at].st = "live"
                   /\ e.rev = row[e.at].rev + 1 /\ row'[e.at].rev = e.rev
PROOF
<1> DEFINE w == req[t].write
<1>1. RequestOK(req[t], row) /\ req[t].pc = "flushed" /\ CommitRows(t)
  BY DEF StoreOK, Commits
<1>2. EventOK(e, w, row) /\ WriteOK(e.at, w, req[t].share, row)
  BY <1>1 DEF RequestOK, EventsOK, EventOK, WritesOK
<1>3. e.at \in DOMAIN w /\ e.at \in Resource \ Favorite /\ row'[e.at] = w[e.at]
  BY <1>1, <1>2 DEF EventOK, WriteOK, CommitRows
<1>4. row[e.at].rev \in Nat /\ w[e.at].rev \in Nat
  BY <1>2, <1>3 DEF StoreOK, RowsOK, IsRow, WriteOK
<1>5. CASE e.op = "DELETE"
  BY <1>2, <1>3, <1>4, <1>5 DEF EventOK
<1>6. CASE e.op # "DELETE"
  <2>1. w[e.at].st = "live" /\ e.rev = row[e.at].rev + 1
    BY <1>2, <1>6 DEF EventOK
  <2>2. Revised(w[e.at], row[e.at])
    BY <1>2, <1>3, <2>1 DEF WriteOK, Buried
  <2> QED BY <1>2, <1>3, <1>4, <1>6, <2>1, <2>2 DEF Revised, EventOK
<1> QED BY <1>5, <1>6

(* A commit leaves what the feed told of a row true: a row that lives on   *)
(* has the revision it had or the next.                                    *)
LEMMA CommitKeepsTold ==
    ASSUME StoreOK, NEW t \in Requests, Commits(t), NEW x \in Resource \ Favorite,
           row[x].st # "none"
    PROVE  /\ row'[x].st # "none"
           /\ row'[x].st = "live" =>
                 row[x].st = "live" /\ row[x].rev \in Nat /\ row'[x].rev \in Nat
                 /\ row[x].rev <= row'[x].rev
PROOF
<1>1. row[x].rev \in Nat
  BY DEF StoreOK, RowsOK, IsRow
<1>2. CASE x \in DOMAIN req[t].write
  BY <1>1, <1>2, CommittedRow DEF WriteOK, Revised, Buried
<1>3. CASE x \notin DOMAIN req[t].write
  BY <1>1, <1>3, CommittedRow
<1> QED BY <1>2, <1>3

LEMMA EditsStep ==
    ASSUME StoreOK, EditsOK, StepKind, resets' = resets \/ resets' = resets + 1
    PROVE  EditsOK'
PROOF
<1>1. CASE row' = row /\ log' = log
  BY <1>1 DEF EditsOK, TellsPast, TellsKnown, TellsOnce
<1>2. CASE /\ resets' = resets + 1
           /\ log' = log \cup {[Event("reset", "UPDATE", 0, 0) EXCEPT !.id = seq + 1]}
  <2> DEFINE x == [Event("reset", "UPDATE", 0, 0) EXCEPT !.id = seq + 1]
  <2>1. x.at = "reset" /\ log' = log \cup {x}
    BY <1>2, EventFields, NumberedFields
  <2> HIDE DEF x
  <2> QED BY <1>2, <2>1 DEF EditsOK, TellsKnown
<1>3. ASSUME NEW t \in Requests, Commits(t) PROVE EditsOK'
  <2>1. log' = log \cup req[t].events
    BY <1>3 DEF Commits, CommitRows
  <2>2. resets' \in Nat /\ (resets' = 0 => resets = 0) /\ TellsKnown(log')
    BY <1>3, <2>1, CommitTells DEF EditsOK, TellsKnown
  <2>3. ASSUME resets = 0 PROVE TellsPast(log', row')
    <3> SUFFICES ASSUME NEW e \in log'
                 PROVE  /\ e.at \in Resource \ Favorite /\ row'[e.at].st # "none"
                        /\ row'[e.at].st = "live" => e.rev \in Nat /\ e.rev <= row'[e.at].rev
      BY DEF TellsPast
    <3>1. CASE e \in req[t].events
      BY <1>3, <3>1, CommitTells
    <3>2. CASE e \in log
      <4>1. /\ e.at \in Resource \ Favorite /\ row[e.at].st # "none"
            /\ row[e.at].st = "live" => e.rev \in Nat /\ e.rev <= row[e.at].rev
        BY <2>3, <3>2 DEF EditsOK, TellsPast
      <4>2. /\ row'[e.at].st # "none"
            /\ row'[e.at].st = "live" =>
                  row[e.at].st = "live" /\ row[e.at].rev \in Nat /\ row'[e.at].rev \in Nat
                  /\ row[e.at].rev <= row'[e.at].rev
        BY <1>3, <4>1, CommitKeepsTold
      <4> QED BY <4>1, <4>2
    <3> QED BY <2>1, <3>1, <3>2
  <2>4. ASSUME resets = 0 PROVE TellsOnce(log')
    <3>1. ASSUME NEW d \in log, NEW e \in req[t].events, d.at = e.at, d.rev = e.rev
          PROVE  e.op = "DELETE"
      <4>1. row[d.at].st # "none"
            /\ (row[d.at].st = "live" => d.rev \in Nat /\ d.rev <= row[d.at].rev)
        BY <2>4 DEF EditsOK, TellsPast
      <4> QED BY <1>3, <3>1, <4>1, CommitTells
    <3>2. \A d, e \in req[t].events : d.at = e.at => d = e
      BY <1>3 DEF StoreOK, RequestOK, EventsOK, Commits
    <3>3. TellsOnce(log)
      BY <2>4 DEF EditsOK
    <3> QED BY <2>1, <3>1, <3>2, <3>3 DEF TellsOnce
  <2> QED BY <2>2, <2>3, <2>4 DEF EditsOK
<1> QED BY <1>1, <1>2, <1>3, RowSteps

(* Theorem: every committed edit was made to the revision its client had   *)
(* seen, and no revision of a resource is announced twice but by its       *)
(* DELETE; the revision check of an update is made again under the lock of *)
(* the row, and the stale update is refused.                               *)
THEOREM EditsAreKnown == Spec => []EditsKnownState
<1>1. Init => EditsOK
  BY EditsInit
<1>2. StoreOK /\ GuardOK /\ EditsOK /\ [Next]_vars => EditsOK'
  BY NextKind, ResetsStep, EditsStep
<1>3. EditsOK => EditsKnownState
  BY DEF EditsOK, EditsKnownState, TellsKnown, TellsOnce
<1> QED BY <1>1, <1>2, <1>3, StoreInOrder, PTL DEF Spec

----------------------------------------------------------------------------
(* The feed.                                                               *)

(* Ids are drawn in order, events carry drawn ids, and what a client has   *)
(* read past was received or was open in a transaction.                    *)
FeedOK ==
    /\ seq \in Nat /\ IsFiniteSet(log)
    /\ \A e \in log : e.id \in 1..seq
    /\ \A t \in Requests : IsFiniteSet(req[t].events) /\ \A e \in req[t].events : e.id \in 1..seq
    /\ DOMAIN cursor = Clients /\ DOMAIN seen = Clients /\ DOMAIN inflight = Clients
    /\ \A c \in Clients : cursor[c] \in 0..seq
    /\ \A c \in Clients, t \in Requests : \A e \in req[t].events :
          e.id <= cursor[c] => e.id \in inflight[c]
    /\ FeedMissesOnlyInFlight

LEMMA FeedInit ==
    ASSUME Init
    PROVE  FeedOK
PROOF
<1>1. PICK e \in Equipment, s \in Site :
        log = {[Event(e, "CREATE", 1, 0) EXCEPT !.id = 1],
               [Event(s, "CREATE", 1, 0) EXCEPT !.id = 2]}
  BY DEF Init
<1> DEFINE a == [Event(e, "CREATE", 1, 0) EXCEPT !.id = 1]
           b == [Event(s, "CREATE", 1, 0) EXCEPT !.id = 2]
<1>2. a.id = 1 /\ b.id = 2
  BY EventFields, NumberedFields
<1>3. log = {a, b} /\ seq = 2 /\ req = [t \in Requests |-> Idle]
      /\ cursor = [c \in Clients |-> 2]
      /\ seen = [c \in Clients |-> {1, 2}] /\ inflight = [c \in Clients |-> {}]
  BY <1>1 DEF Init
<1> HIDE DEF a, b
<1>4. IsFiniteSet(log)
  <2>1. IsFiniteSet({a} \cup {b})
    BY FS_Singleton, FS_AddElement
  <2>2. {a} \cup {b} = {a, b}
    OBVIOUS
  <2> QED BY <1>3, <2>1, <2>2
<1>5. \A t \in Requests : req[t].events = {} /\ IsFiniteSet(req[t].events)
  BY <1>3, IdleFields, FS_EmptySet
<1> QED BY <1>2, <1>3, <1>4, <1>5 DEF FeedOK, FeedMissesOnlyInFlight

(* A page holds all there is up to its cursor.                             *)
LEMMA PageIsComplete ==
    ASSUME IsFiniteSet(log), \A e \in log : e.id \in Nat, NEW n \in Nat
    PROVE  LET p == ListAfter(n)
           IN  /\ p.next = n \/ \E e \in log : p.next = e.id
               /\ \A e \in log : e.id <= p.next => e.id <= n \/ e \in p.items
PROOF
<1> DEFINE S == EventsAfter(n)
           I == First(Limit, S)
           before(e) == {d \in S : d.id < e.id}
<1>1. S \subseteq log /\ I \subseteq S /\ IsFiniteSet(S)
  <2>1. S \subseteq log /\ I \subseteq S
    BY DEF EventsAfter, First
  <2> HIDE DEF S
  <2> QED BY <2>1, FS_Subset
<1>2. IsFiniteSet(I)
  <2> HIDE DEF S, I
  <2> QED BY <1>1, FS_Subset
<1>3. ListAfter(n).items = I /\ ListAfter(n).next = LastId(n, I)
  BY DEF ListAfter
<1>4. CASE I = {}
  <2>1. \A e \in log : e.id <= n => e.id <= n
    OBVIOUS
  <2> HIDE DEF I
  <2> QED BY <1>3, <1>4, <2>1 DEF LastId
<1>5. CASE I # {}
  <2> DEFINE l == CHOOSE e \in I : \A d \in I : d.id <= e.id
  <2>1. \E e \in I : \A d \in I : d.id <= e.id
    <3> HIDE DEF I, S
    <3> QED BY <1>1, <1>2, <1>5, LastExists
  <2>2. l \in I /\ l \in log /\ ListAfter(n).next = l.id
    <3>1. l \in I
      <4> HIDE DEF I
      <4> QED BY <2>1
    <3> HIDE DEF I
    <3> QED BY <1>1, <1>3, <1>5, <3>1 DEF LastId
  <2>3. ASSUME NEW e \in log, e.id <= l.id, ~(e.id <= n) PROVE e \in I
    <3>1. e \in S
      BY <2>3 DEF EventsAfter
    <3>2. before(e) \subseteq before(l)
      <4> SUFFICES ASSUME NEW d \in S, d.id < e.id PROVE d.id < l.id
        OBVIOUS
      <4>1. d.id \in Nat /\ e.id \in Nat /\ l.id \in Nat
        BY <1>1, <2>2
      <4> HIDE DEF l
      <4> QED BY <2>3, <4>1
    <3>3. IsFiniteSet(before(l))
      <4>1. before(l) \subseteq S
        OBVIOUS
      <4> HIDE DEF before, S
      <4> QED BY <1>1, <4>1, FS_Subset
    <3>4. Cardinality(before(e)) <= Cardinality(before(l))
          /\ Cardinality(before(e)) \in Nat /\ Cardinality(before(l)) \in Nat
      <4> HIDE DEF before
      <4> QED BY <3>2, <3>3, FS_Subset, FS_CardinalityType
    <3>5. Cardinality(before(l)) < Limit
      BY <2>2 DEF First
    <3>6. Cardinality(before(e)) < Limit
      <4> HIDE DEF before
      <4> QED BY <3>4, <3>5, StoreAssumption
    <3> QED BY <3>1, <3>6 DEF First
  <2> HIDE DEF I, l
  <2> QED BY <1>3, <2>2, <2>3
<1> QED BY <1>4, <1>5

LEMMA FeedStep ==
    ASSUME StoreOK, FeedOK, StepKind
    PROVE  FeedOK'
PROOF
<1>1. ASSUME NEW t \in Requests, Works(t) PROVE FeedOK'
  <2>1. /\ Moves(t, req'[t]) /\ UNCHANGED <<log, cursor, seen, inflight>>
        /\ \/ req'[t].events = {} /\ seq' = seq
           \/ \E es, w : /\ Announces(es, w, row) /\ req'[t].events = Append_(es)
                         /\ seq' = seq + Len(es)
    BY <1>1 DEF Works
  <2>2. /\ seq' \in Nat /\ seq <= seq' /\ IsFiniteSet(req'[t].events)
        /\ \A e \in req'[t].events : e.id \in seq+1..seq'
    <3>1. CASE req'[t].events = {} /\ seq' = seq
      BY <3>1, FS_EmptySet DEF FeedOK
    <3>2. ASSUME NEW es, NEW w, Announces(es, w, row), req'[t].events = Append_(es),
                 seq' = seq + Len(es)
          PROVE  /\ seq' \in Nat /\ seq <= seq' /\ IsFiniteSet(req'[t].events)
                 /\ \A e \in req'[t].events : e.id \in seq+1..seq'
      <4> DEFINE g == [i \in 1..Len(es) |-> [es[i] EXCEPT !.id = seq + i]]
      <4>1. Len(es) \in Nat /\ DOMAIN es = 1..Len(es)
            /\ \A i \in DOMAIN es : DOMAIN es[i] = EventColumns
        BY <3>2 DEF Announces
      <4>2. \A e \in req'[t].events : \E i \in 1..Len(es) : e = [es[i] EXCEPT !.id = seq + i]
        BY <3>2, <4>1 DEF Append_
      <4>3. \A i \in 1..Len(es) : [es[i] EXCEPT !.id = seq + i].id = seq + i
        BY <4>1, NumberedFields
      <4>4. g \in Surjection(1..Len(es), req'[t].events)
        BY <3>2, <4>1 DEF Append_, Surjection
      <4>5. IsFiniteSet(1..Len(es))
        BY <4>1, FS_Interval
      <4>6. IsFiniteSet(req'[t].events)
        <5> HIDE DEF g
        <5> QED BY <4>4, <4>5, FS_Surjection DEF ExistsSurjection
      <4>7. seq \in Nat
        BY DEF FeedOK
      <4>8. \A e \in req'[t].events : \E i \in 1..Len(es) : e.id = seq + i
        BY <4>2, <4>3
      <4> HIDE DEF g
      <4> QED BY <3>2, <4>1, <4>6, <4>7, <4>8
    <3> QED BY <2>1, <3>1, <3>2
  <2>3. \A u \in Requests : u # t => req'[u].events = req[u].events
    BY <2>1 DEF Moves
  <2>4. \A u \in Requests : \A e \in req'[u].events :
          e \in req[u].events \/ e.id \in seq+1..seq'
    BY <2>2, <2>3
  <2>5. \A c \in Clients : cursor[c] \in 0..seq'
    BY <2>2 DEF FeedOK
  <2>6. \A e \in log : e.id \in 1..seq'
    BY <2>2 DEF FeedOK
  <2>7. \A u \in Requests : IsFiniteSet(req'[u].events) /\ \A e \in req'[u].events : e.id \in 1..seq'
    <3>1. \A u \in Requests : \A e \in req'[u].events : e.id \in 1..seq'
      BY <2>2, <2>4 DEF FeedOK
    <3>2. \A u \in Requests : IsFiniteSet(req'[u].events)
      BY <2>2, <2>3 DEF FeedOK
    <3> QED BY <3>1, <3>2
  <2>8. \A c \in Clients, u \in Requests : \A e \in req'[u].events :
          e.id <= cursor[c] => e.id \in inflight[c]
    BY <2>4 DEF FeedOK
  <2> QED BY <2>1, <2>2, <2>5, <2>6, <2>7, <2>8 DEF FeedOK, FeedMissesOnlyInFlight
<1>2. ASSUME NEW t \in Requests, Commits(t) PROVE FeedOK'
  <2>1. /\ Moves(t, req'[t]) /\ req'[t].events = {}
        /\ UNCHANGED <<seq, cursor, seen, inflight>> /\ log' = log \cup req[t].events
    BY <1>2 DEF Commits, CommitRows, Empty
  <2>2. \A u \in Requests : req'[u].events \subseteq req[u].events /\ IsFiniteSet(req'[u].events)
    BY <2>1, FS_EmptySet DEF Moves, FeedOK
  <2>3. IsFiniteSet(log')
    BY <2>1, FS_Union DEF FeedOK
  <2>4. FeedMissesOnlyInFlight'
    BY <2>1 DEF FeedOK, FeedMissesOnlyInFlight
  <2> QED BY <2>1, <2>2, <2>3, <2>4 DEF FeedOK
<1>3. ASSUME NEW t \in Requests, ResetCommit(t) PROVE FeedOK'
  <2> DEFINE x == [Event("reset", "UPDATE", 0, 0) EXCEPT !.id = seq + 1]
  <2>1. /\ req' = [req EXCEPT ![t] = Idle] /\ seq' = seq + 1
        /\ UNCHANGED <<cursor, seen, inflight>> /\ log' = log \cup {x}
    BY <1>3 DEF ResetCommit
  <2>2. x.id = seq + 1
    BY EventFields, NumberedFields
  <2> HIDE DEF x
  <2>3. \A u \in Requests : req'[u].events \subseteq req[u].events /\ IsFiniteSet(req'[u].events)
    BY <2>1, IdleFields, FS_EmptySet DEF StoreOK, FeedOK
  <2>4. IsFiniteSet(log')
    BY <2>1, FS_AddElement DEF FeedOK
  <2>5. seq' \in Nat /\ \A i \in 0..seq : i \in 0..seq' /\ i # x.id /\ ~(x.id <= i)
    BY <2>1, <2>2 DEF FeedOK
  <2>6. \A e \in log' : e.id \in 1..seq'
    BY <2>1, <2>2 DEF FeedOK
  <2>7. FeedMissesOnlyInFlight'
    BY <2>1, <2>5 DEF FeedOK, FeedMissesOnlyInFlight
  <2>8. \A u \in Requests : IsFiniteSet(req'[u].events) /\ \A e \in req'[u].events : e.id \in 1..seq'
    BY <2>1, <2>3 DEF FeedOK
  <2> QED BY <2>1, <2>3, <2>4, <2>5, <2>6, <2>7, <2>8 DEF FeedOK
<1>4. ASSUME NEW c \in Clients, ListChanges(c) PROVE FeedOK'
  <2> DEFINE p == ListAfter(cursor[c])
  <2>1. /\ cursor' = [cursor EXCEPT ![c] = p.next]
        /\ seen' = [seen EXCEPT ![c] = @ \cup {e.id : e \in p.items}]
        /\ inflight' = [inflight EXCEPT ![c] =
                          @ \cup {e.id : e \in UNION {req[t].events : t \in Requests}}]
        /\ UNCHANGED <<req, seq, log>>
    BY <1>4 DEF ListChanges
  <2>2. /\ p.next = cursor[c] \/ \E e \in log : p.next = e.id
        /\ \A e \in log : e.id <= p.next => e.id <= cursor[c] \/ e \in p.items
    <3>1. IsFiniteSet(log) /\ cursor[c] \in Nat /\ \A e \in log : e.id \in Nat
      BY DEF FeedOK
    <3> QED BY <3>1, PageIsComplete
  <2> HIDE DEF p
  <2>3. p.next \in 0..seq
    BY <2>2 DEF FeedOK
  <2>4. \A e \in log : e.id <= p.next => e.id \in seen'[c] \cup inflight'[c]
    <3> SUFFICES ASSUME NEW e \in log, e.id <= p.next
                 PROVE  e.id \in seen'[c] \cup inflight'[c]
      OBVIOUS
    <3>1. CASE e.id <= cursor[c]
      BY <2>1, <3>1 DEF FeedOK, FeedMissesOnlyInFlight
    <3>2. CASE e \in p.items
      BY <2>1, <3>2 DEF FeedOK
    <3> QED BY <2>2, <3>1, <3>2
  <2>5. \A u \in Requests : \A e \in req[u].events : e.id \in inflight'[c]
    BY <2>1 DEF FeedOK
  <2>6. \A b \in Clients \ {c} : cursor'[b] = cursor[b] /\ seen'[b] = seen[b]
                                 /\ inflight'[b] = inflight[b]
    BY <2>1 DEF FeedOK
  <2>7. cursor'[c] = p.next /\ DOMAIN cursor' = Clients /\ DOMAIN seen' = Clients
        /\ DOMAIN inflight' = Clients
    BY <2>1 DEF FeedOK
  <2>8. FeedMissesOnlyInFlight'
    BY <2>1, <2>4, <2>6, <2>7 DEF FeedOK, FeedMissesOnlyInFlight
  <2>9. \A b \in Clients, u \in Requests : \A e \in req[u].events :
          e.id <= cursor'[b] => e.id \in inflight'[b]
    BY <2>5, <2>6 DEF FeedOK
  <2> QED BY <2>1, <2>3, <2>6, <2>7, <2>8, <2>9 DEF FeedOK
<1>5. CASE UNCHANGED <<row, req, seq, log, cursor, seen, inflight>>
  BY <1>5 DEF FeedOK, FeedMissesOnlyInFlight
<1> QED BY <1>1, <1>2, <1>3, <1>4, <1>5 DEF StepKind

(* Theorem: a client that follows next_cursor misses an event only if the  *)
(* event's transaction was open, with its id drawn, while the client read  *)
(* past that id: a page ends at its last item and leaves out nothing       *)
(* before it.                                                              *)
THEOREM FeedIsComplete == Spec => []FeedMissesOnlyInFlight
<1>1. Init => FeedOK
  BY FeedInit
<1>2. StoreOK /\ GuardOK /\ FeedOK /\ [Next]_vars => FeedOK'
  BY NextKind, FeedStep
<1>3. FeedOK => FeedMissesOnlyInFlight
  BY DEF FeedOK
<1> QED BY <1>1, <1>2, <1>3, StoreInOrder, PTL DEF Spec

----------------------------------------------------------------------------
(* The files.                                                              *)
(*                                                                         *)
(* What a file needs to be found again: a service links it, or the upload  *)
(* that restored it will, or it is a tombstone.  Nothing but its own       *)
(* tombstone takes that from it, so every file a record ever named has it. *)

Linked(f) == \E svc \in Services : <<f, svc>> \in link

Kept(f) == file[f].deleted \/ Linked(f) \/ f \in restored

Home(f) == ~file[f].deleted /\ <<f, "AstroJournal">> \in link

(* A record that a cleanup or a Reset overtook names the file. *)
LateUse(f) == \E r \in late : f \in row[r].to

FilesOK ==
    /\ file \in [File -> [deleted: BOOLEAN, media: BOOLEAN]]
    /\ link \subseteq File \X Services
    /\ late \subseteq Record /\ todo \subseteq File
    /\ \A f \in File : ~file[f].media \/ f \in todo => Kept(f)

RowsHome ==
    \A r \in Record : row[r].st # "none" => \A f \in FileOf(row[r]) :
       Kept(f) /\ (Live(r) /\ r \notin late => Home(f))

(* A create has checked its file under the Reset lock, then linked it; if  *)
(* that is no longer true it is late.                                      *)
CreateHome(q) ==
    q.op = "create" => \A r \in Record : q.at = {r} => \A f \in FileOf(q.arg) :
       /\ q.pc = "checked" => q.adv = "shared" /\ (r \notin late => ~file[f].deleted)
       /\ q.pc \in {"linked", "cleared", "flushed"} => Kept(f) /\ (r \notin late => Home(f))

(* Only a create writes the row of a record that is not there. *)
Inserts(q) ==
    \A x \in Record \cap DOMAIN q.write : row[x].st = "none" =>
       /\ q.op = "create" /\ q.pc = "flushed" /\ q.at = {x}
       /\ FileOf(q.write[x]) = FileOf(q.arg)

(* A delete cleans up a file that its record named. *)
Cleans(q) == q.op = "delete" /\ q.at \subseteq Record => \A f \in FileOf(q.arg) : Kept(f)

(* A file whose media a cleanup has deleted is locked and used by nobody.  *)
Buries(q) ==
    q.pc = "tombstone" =>
       \A f \in FileOf(q.arg) : f \in q.lock /\ LiveReferrers(f, Record) = {}

(* A Reset has locked all it targets, but for what an upload under way     *)
(* links, which will block it, and the files of late records.              *)
Scans(q) ==
    q.pc = "locked" =>
       \A f \in Targets : f \in q.lock \/ upload.st = "PROCESSING" \/ LateUse(f)

(* The files it deletes it owns; another service links the others.         *)
Deletes(q) ==
    q.pc = "deleting" =>
       /\ \A f \in todo : (f \in q.lock /\ ~OtherService(f)) \/ LateUse(f)
       /\ scope.own \subseteq scope.target
       /\ \A f \in scope.target \ scope.own : OtherService(f)

Minds(q) ==
    /\ q.pc = "idle" => q.op = "none"
    /\ CreateHome(q) /\ Inserts(q) /\ Cleans(q) /\ Buries(q) /\ Scans(q) /\ Deletes(q)

CaptureOK == FilesOK /\ RowsHome /\ \A t \in Requests : Minds(req[t])

(* What is not a Reset's, once a Reset holds its locks. *)
LEMMA ResetAlone ==
    ASSUME GuardOK, NEW t \in Requests, NEW u \in Requests, t # u,
           req[t].pc \in {"locked", "deleting"} \/ req[t].op = "reset"
    PROVE  req[u].adv = "none" /\ req[u].op # "reset" /\ req[u].pc \notin {"locked", "deleting"}
PROOF
<1>1. Guarded(req[t], row) /\ Guarded(req[u], row)
  BY DEF GuardOK
<1>2. req[t].adv = "exclusive"
  BY <1>1 DEF Guarded
<1>3. req[u].adv = "none"
  BY <1>2 DEF GuardOK, Exclusive
<1> QED BY <1>1, <1>3 DEF Guarded

LEMMA IdleMinds == Minds(Idle)
PROOF BY IdleFields DEF Minds, CreateHome, Inserts, Cleans, Buries, Scans, Deletes

(* A step of one transaction that leaves the rows and the files alone.     *)
LEMMA QuietStep ==
    ASSUME CaptureOK, NEW t \in Requests, NEW q, Moves(t, q), Minds(q),
           row' = row, UNCHANGED captureVars
    PROVE  CaptureOK'
PROOF
<1>1. UNCHANGED <<row, file, link, upload, todo, scope, restored, late>>
  BY DEF captureVars
<1>2. FilesOK'
  BY <1>1 DEF CaptureOK, FilesOK, Kept, Linked
<1>3. RowsHome'
  BY <1>1 DEF CaptureOK, RowsHome, Kept, Linked, Home, Live
<1>4. ASSUME NEW u \in Requests PROVE Minds(req[u])'
  <2>1. Minds(req'[u])
    BY DEF CaptureOK, Moves
  <2> QED BY <1>1, <2>1 DEF Minds, CreateHome, Inserts, Cleans, Buries, Scans, Deletes, Kept,
             Linked, Home, LiveReferrers, Live, Targets, OtherService, LateUse
<1> QED BY <1>2, <1>3, <1>4 DEF CaptureOK

(* What a transaction minds stays while the files keep what they have.     *)
LEMMA MindsHold ==
    ASSUME CaptureOK, NEW u \in Requests, req'[u] = req[u],
           \A f \in File : Kept(f) => Kept(f)',
           late \subseteq late',
           req[u].op = "create" => \A r \in Record \ late' : req[u].at = {r} =>
              \A f \in FileOf(req[u].arg) :
                 (~file[f].deleted => ~file'[f].deleted) /\ (Home(f) => Home(f)'),
           \A x \in Record \cap DOMAIN req[u].write : row'[x].st = "none" => row[x].st = "none",
           req[u].pc = "tombstone" => \A f \in FileOf(req[u].arg) :
              LiveReferrers(f, Record) = {} => LiveReferrers(f, Record)' = {},
           Scans(req[u])', Deletes(req[u])'
    PROVE  Minds(req[u])'
PROOF
<1> DEFINE q == req[u]
<1>1. Minds(q)
  BY DEF CaptureOK
<1>2. q' = q /\ \A f \in FileOf(q.arg) : f \in File
  BY DEF FileOf
<1> HIDE DEF q
<1>3. CreateHome(q)'
  <2>1. /\ q.op = "create" => \A r \in Record \ late' : q.at = {r} =>
             \A f \in FileOf(q.arg) :
                (~file[f].deleted => ~file'[f].deleted) /\ (Home(f) => Home(f)')
        /\ \A f \in FileOf(q.arg) : Kept(f) => Kept(f)'
    BY <1>2 DEF q
  <2> QED BY <1>1, <1>2, <2>1 DEF Minds, CreateHome
<1>4. Inserts(q)'
  <2>1. \A x \in Record \cap DOMAIN q.write : row'[x].st = "none" => row[x].st = "none"
    BY DEF q
  <2> QED BY <1>1, <1>2, <2>1 DEF Minds, Inserts
<1>5. Cleans(q)'
  BY <1>1, <1>2 DEF Minds, Cleans
<1>6. Buries(q)'
  <2>1. q.pc = "tombstone" => \A f \in FileOf(q.arg) :
              LiveReferrers(f, Record) = {} => LiveReferrers(f, Record)' = {}
    BY DEF q
  <2> QED BY <1>1, <1>2, <2>1 DEF Minds, Buries
<1>7. Scans(q)' /\ Deletes(q)'
  BY DEF q
<1>8. Minds(q)'
  BY <1>1, <1>2, <1>3, <1>4, <1>5, <1>6, <1>7 DEF Minds
<1> QED BY <1>8 DEF q

(* The rows keep their homes, if they stay and their files do.             *)
LEMMA RowsHomeHold ==
    ASSUME CaptureOK, row' = row, late \subseteq late',
           \A f \in File : Kept(f) => Kept(f)',
           \A r \in Record \ late' : Live(r) => \A f \in FileOf(row[r]) : Home(f) => Home(f)'
    PROVE  RowsHome'
PROOF
<1> SUFFICES ASSUME NEW r \in Record, row'[r].st # "none", NEW f \in FileOf(row'[r])
             PROVE  Kept(f)' /\ (Live(r)' /\ r \notin late' => Home(f)')
  BY DEF RowsHome
<1>1. f \in FileOf(row[r]) /\ f \in File /\ row[r].st # "none" /\ (Live(r)' <=> Live(r))
  BY DEF FileOf, Live
<1>2. Kept(f) /\ (Live(r) /\ r \notin late => Home(f))
  BY <1>1 DEF CaptureOK, RowsHome
<1> QED BY <1>1, <1>2

(* The steps that leave the rows and the files alone.                      *)

LEMMA RecordCreateMinds ==
    ASSUME StoreOK, CaptureOK, NEW t \in Requests, NEW r \in Record, RecordCreate(t, r)
    PROVE  CaptureOK'
PROOF
<1>1. PICK f \in File, E \in {{}} \cup {{e} : e \in Equipment}, on \in BOOLEAN,
           cat \in Catalog \cup {NoCatalog} :
        /\ ~file[f].deleted
        /\ Begin(t, [Idle EXCEPT !.pc = "checked", !.op = "create", !.at = {r},
                                 !.arg = NewRow(on, {f} \cup E, cat), !.adv = "shared"])
        /\ UNCHANGED captureVars
  BY DEF RecordCreate
<1> DEFINE new == NewRow(on, {f} \cup E, cat)
           q == [Idle EXCEPT !.pc = "checked", !.op = "create", !.at = {r},
                             !.arg = new, !.adv = "shared"]
<1>2. FileOf(new) = {f}
  <2>1. new.to = {f} \cup E /\ E \subseteq Equipment
    BY <1>1, NewRowIsRow
  <2> HIDE DEF new
  <2> QED BY <2>1, RecordIsResource DEF FileOf
<1> HIDE DEF new
<1>3. /\ q.pc = "checked" /\ q.op = "create" /\ q.at = {r} /\ q.arg = new
      /\ DOMAIN q.write = {} /\ q.adv = "shared"
  BY DEF Idle
<1>4. Begin(t, q)
  BY <1>1 DEF new
<1> HIDE DEF q
<1>5. Minds(q)
  BY <1>1, <1>2, <1>3 DEF Minds, CreateHome, Inserts, Cleans, Buries, Scans, Deletes
<1> QED BY <1>1, <1>4, <1>5, BeginFields, QuietStep

LEMMA RecordUpdateMinds ==
    ASSUME StoreOK, CaptureOK, NEW t \in Requests, NEW r \in Record, RecordUpdate(t, r)
    PROVE  CaptureOK'
PROOF
<1>1. PICK x, new :
        /\ Begin(t, [Idle EXCEPT !.pc = "checked", !.op = "update", !.at = {r}, !.base = x,
                                 !.arg = new, !.adv = "shared"])
        /\ UNCHANGED captureVars
  BY DEF RecordUpdate
<1> DEFINE q == [Idle EXCEPT !.pc = "checked", !.op = "update", !.at = {r}, !.base = x,
                             !.arg = new, !.adv = "shared"]
<1>2. q.pc = "checked" /\ q.op = "update" /\ DOMAIN q.write = {}
  BY DEF Idle
<1>3. Begin(t, q)
  BY <1>1
<1> HIDE DEF q
<1>4. Minds(q)
  BY <1>2 DEF Minds, CreateHome, Inserts, Cleans, Buries, Scans, Deletes
<1> QED BY <1>1, <1>3, <1>4, BeginFields, QuietStep

LEMMA RecordDeleteMinds ==
    ASSUME StoreOK, CaptureOK, NEW t \in Requests, NEW r \in Record, RecordDelete(t, r)
    PROVE  CaptureOK'
PROOF
<1> DEFINE pc == IF Live(r) THEN "read" ELSE "cleanup"
           q == [Idle EXCEPT !.pc = pc, !.op = "delete", !.at = {r}, !.base = row[r].rev,
                             !.arg = row[r], !.adv = "shared"]
<1>1. row[r].st # "none" /\ Begin(t, q) /\ UNCHANGED captureVars
  BY DEF RecordDelete
<1>2. pc \in {"read", "cleanup"}
  OBVIOUS
<1> HIDE DEF pc
<1>3. q.pc = pc /\ q.op = "delete" /\ q.arg = row[r] /\ DOMAIN q.write = {}
  BY DEF Idle
<1> HIDE DEF q
<1>4. \A f \in FileOf(row[r]) : Kept(f)
  BY <1>1 DEF CaptureOK, RowsHome
<1>5. Minds(q)
  BY <1>2, <1>3, <1>4 DEF Minds, CreateHome, Inserts, Cleans, Buries, Scans, Deletes
<1> QED BY <1>1, <1>5, BeginFields, QuietStep

LEMMA ClearRepresentativeMinds ==
    ASSUME StoreOK, CaptureOK, NEW t \in Requests, ClearRepresentative(t)
    PROVE  CaptureOK'
PROOF
<1> DEFINE p == req[t]
           old == IF p.arg.on THEN Representatives(row, p.arg.cat, p.at) ELSE {}
           w == [x \in old |-> Demoted(x)]
           q == [[[p EXCEPT !.pc = "cleared"] EXCEPT !.lock = @ \cup old] EXCEPT !.write = w]
<1>1. /\ \/ p.pc = "linked" /\ p.op = "create"
         \/ p.pc = "checked" /\ p.op = "update" /\ p.at \subseteq Record
      /\ req' = [req EXCEPT ![t].pc = "cleared", ![t].lock = @ \cup old, ![t].write = w]
      /\ row' = row /\ UNCHANGED captureVars
  BY DEF ClearRepresentative
<1>2. DOMAIN req = Requests /\ DOMAIN p = Columns
  BY DEF StoreOK, RequestOK
<1>3. Moves(t, q)
  <2>1. req' = [req EXCEPT ![t] = q]
    BY <1>1, <1>2 DEF Columns
  <2> QED BY <1>2, <2>1 DEF Moves
<1>4. DOMAIN w = old /\ \A x \in old : row[x].st = "live"
  BY DEF Representatives
<1>5. Minds(p)
  BY DEF CaptureOK
<1> HIDE DEF old, w
<1>6. p.op \in {"create", "update"} /\ (p.op = "create" => p.pc = "linked")
  BY <1>1
<1> HIDE DEF p
<1>7. /\ q.pc = "cleared" /\ q.op = p.op /\ q.at = p.at /\ q.arg = p.arg /\ q.write = w
  BY <1>2 DEF Columns
<1> HIDE DEF q
<1>8. CreateHome(q)
  BY <1>5, <1>6, <1>7 DEF Minds, CreateHome
<1>9. Minds(q)
  BY <1>4, <1>6, <1>7, <1>8 DEF Minds, Inserts, Cleans, Buries, Scans, Deletes
<1> QED BY <1>1, <1>3, <1>9, QuietStep

(* A flush.                                                                *)
LEMMA FlushMinds ==
    ASSUME StoreOK, CaptureOK, NEW t \in Requests, NEW w, NEW es, NEW shared, NEW fails,
           FlushAndFail(t, w, es, shared, fails), UNCHANGED captureVars,
           req[t].op = "create" /\ req[t].at \subseteq Record => req[t].pc = "cleared",
           \A x \in Record \cap DOMAIN w : row[x].st = "none" =>
              req[t].op = "create" /\ req[t].at = {x} /\ FileOf(w[x]) = FileOf(req[t].arg)
    PROVE  CaptureOK'
PROOF
<1> DEFINE q == req'[t]
           p == req[t]
<1>1. /\ Moves(t, q) /\ row' = row /\ q.pc = "flushed" /\ q.write = w
      /\ q.op = p.op /\ q.at = p.at /\ q.arg = p.arg
  BY FlushFields
<1>2. Minds(p)
  BY DEF CaptureOK
<1>3. p.op = "create" /\ p.at \subseteq Record => p.pc = "cleared"
  OBVIOUS
<1>4. \A x \in Record \cap DOMAIN w : row[x].st = "none" =>
         p.op = "create" /\ p.at = {x} /\ FileOf(w[x]) = FileOf(p.arg)
  OBVIOUS
<1> HIDE DEF p, q
<1>5. CreateHome(q)
  BY <1>1, <1>2, <1>3 DEF Minds, CreateHome
<1>6. Inserts(q)
  BY <1>1, <1>4 DEF Inserts
<1>7. Minds(q)
  BY <1>1, <1>2, <1>5, <1>6 DEF Minds, Cleans, Buries, Scans, Deletes
<1> QED BY <1>1, <1>7, QuietStep

(* The rows a record handler has demoted are there. *)
LEMMA DemotedAreThere ==
    ASSUME CaptureOK, NEW t \in Requests, req[t].pc # "flushed"
    PROVE  \A x \in Record \cap DOMAIN req[t].write : row[x].st # "none"
PROOF BY DEF CaptureOK, Minds, Inserts

LEMMA RecordInsertMinds ==
    ASSUME StoreOK, CaptureOK, NEW t \in Requests, RecordInsert(t)
    PROVE  CaptureOK'
PROOF
<1>0. PICK r \in req[t].at : \E new, es, shared :
        /\ req[t].pc = "cleared" /\ req[t].op = "create" /\ new = req[t].arg
        /\ FlushAndFail(t, AlsoWrite(req[t].write, r, new), es, shared, {})
        /\ UNCHANGED captureVars
  BY DEF RecordInsert, Flush
<1>1. PICK new, es, shared :
        /\ req[t].pc = "cleared" /\ req[t].op = "create" /\ new = req[t].arg
        /\ FlushAndFail(t, AlsoWrite(req[t].write, r, new), es, shared, {})
        /\ UNCHANGED captureVars
  BY <1>0
<1>2. req[t].at = {r}
  BY <1>1 DEF StoreOK, RequestOK, CreateOK
<1>3. \A x \in Record \cap DOMAIN req[t].write : row[x].st # "none"
  BY <1>1, DemotedAreThere
<1>4. \A x \in Record \cap DOMAIN AlsoWrite(req[t].write, r, new) : row[x].st = "none" =>
         x = r /\ AlsoWrite(req[t].write, r, new)[x] = new
  BY <1>3 DEF AlsoWrite
<1> QED BY <1>1, <1>2, <1>4, FlushMinds

LEMMA UpdateIfRevisionMinds ==
    ASSUME StoreOK, CaptureOK, NEW t \in Requests, UpdateIfRevision(t)
    PROVE  CaptureOK'
PROOF
<1>0. PICK r \in req[t].at : \E new, es, shared :
        /\ req[t].pc = "cleared" /\ req[t].op = "update" /\ Live(r)
        /\ FlushAndFail(t, AlsoWrite(req[t].write, r, new), es, shared, {})
        /\ UNCHANGED captureVars
  BY DEF UpdateIfRevision, Flush
<1>1. PICK new, es, shared :
        /\ req[t].pc = "cleared" /\ req[t].op = "update" /\ Live(r)
        /\ FlushAndFail(t, AlsoWrite(req[t].write, r, new), es, shared, {})
        /\ UNCHANGED captureVars
  BY <1>0
<1>2. \A x \in Record \cap DOMAIN req[t].write : row[x].st # "none"
  BY <1>1, DemotedAreThere
<1>3. \A x \in Record \cap DOMAIN AlsoWrite(req[t].write, r, new) : row[x].st # "none"
  BY <1>1, <1>2 DEF AlsoWrite, Live
<1> QED BY <1>1, <1>3, FlushMinds

LEMMA RecordDeleteFlushMinds ==
    ASSUME StoreOK, GuardOK, CaptureOK, NEW t \in Requests, RecordDeleteFlush(t)
    PROVE  CaptureOK'
PROOF
<1>0. PICK r \in req[t].at : \E new, es, fails :
        /\ req[t].pc = "read"
        /\ FlushAndFail(t, WriteOf(r, new), es, {}, fails)
        /\ UNCHANGED captureVars
  BY DEF RecordDeleteFlush
<1>1. PICK new, es, fails :
        /\ req[t].pc = "read"
        /\ FlushAndFail(t, WriteOf(r, new), es, {}, fails)
        /\ UNCHANGED captureVars
  BY <1>0
<1>2. req[t].at \subseteq Record /\ req[t].op = "delete"
  BY <1>1 DEF StoreOK, RequestOK
<1>3. row[r].st # "none"
  BY <1>1, <1>2, ReadRecord
<1>4. \A x \in Record \cap DOMAIN WriteOf(r, new) : row[x].st # "none"
  BY <1>3 DEF WriteOf
<1> QED BY <1>1, <1>2, <1>4, FlushMinds

LEMMA SyncMinds ==
    ASSUME StoreOK, CaptureOK, NEW t \in Requests, NEW f \in File, SyncObservationStatus(t, f)
    PROVE  CaptureOK'
PROOF
<1> DEFINE X == LiveReferrers(f, Record)
           w == [x \in X |-> [row[x] EXCEPT !.rev = @ + 1]]
<1>1. PICK es :
        /\ req[t].pc = "idle" /\ FlushAndFail(t, w, es, {}, {}) /\ UNCHANGED captureVars
  BY DEF SyncObservationStatus, Flush
<1>2. DOMAIN w = X /\ \A x \in X : row[x].st # "none"
  BY DEF LiveReferrers, Live
<1>3. req[t].op = "none"
  BY <1>1 DEF CaptureOK, Minds
<1> HIDE DEF w, X
<1> QED BY <1>1, <1>2, <1>3, FlushMinds

LEMMA ResetBeginMinds ==
    ASSUME StoreOK, CaptureOK, NEW t \in Requests, ResetBegin(t)
    PROVE  CaptureOK'
PROOF
<1> DEFINE q == [Idle EXCEPT !.pc = "waiting", !.op = "reset", !.adv = "exclusive"]
<1>1. Begin(t, q) /\ UNCHANGED captureVars
  BY DEF ResetBegin
<1>2. q.pc = "waiting" /\ q.op = "reset" /\ DOMAIN q.write = {}
  BY DEF Idle
<1> HIDE DEF q
<1>3. Minds(q)
  BY <1>2 DEF Minds, CreateHome, Inserts, Cleans, Buries, Scans, Deletes
<1> QED BY <1>1, <1>3, BeginFields, QuietStep

LEMMA ResetLockMinds ==
    ASSUME StoreOK, GuardOK, CaptureOK, NEW t \in Requests, ResetLock(t)
    PROVE  CaptureOK'
PROOF
<1> DEFINE p == req[t]
           S == {r \in Record : row[r].st # "none"} \cup Targets
           q == [[p EXCEPT !.pc = "locked"] EXCEPT !.lock = S]
<1>1. /\ p.pc = "waiting" /\ req' = [req EXCEPT ![t].pc = "locked", ![t].lock = S]
      /\ row' = row /\ UNCHANGED captureVars
  BY DEF ResetLock
<1>2. DOMAIN req = Requests /\ DOMAIN p = Columns /\ Guarded(p, row) /\ RequestOK(p, row)
  BY DEF StoreOK, RequestOK, GuardOK
<1>3. Moves(t, q)
  <2>1. req' = [req EXCEPT ![t] = q]
    BY <1>1, <1>2 DEF Columns
  <2> QED BY <1>2, <2>1 DEF Moves
<1>4. p.op = "reset" /\ DOMAIN p.write = {} /\ Targets \subseteq S
  BY <1>1, <1>2 DEF Guarded, RequestOK
<1> HIDE DEF p, S
<1>5. q.pc = "locked" /\ q.op = p.op /\ q.write = p.write /\ q.lock = S
  BY <1>2 DEF Columns
<1> HIDE DEF q
<1>6. Minds(q)
  BY <1>4, <1>5 DEF Minds, CreateHome, Inserts, Cleans, Buries, Scans, Deletes
<1> QED BY <1>1, <1>3, <1>6, QuietStep

LEMMA CleanupPreserveMinds ==
    ASSUME StoreOK, CaptureOK, NEW t \in Requests, CleanupPreserve(t)
    PROVE  CaptureOK'
PROOF
<1>1. req' = [req EXCEPT ![t] = Idle] /\ row' = row /\ UNCHANGED captureVars
  BY DEF CleanupPreserve
<1>2. Moves(t, Idle)
  BY <1>1 DEF StoreOK, Moves
<1> QED BY <1>1, <1>2, IdleMinds, QuietStep

(* The handlers of the master data touch neither records nor files. *)
LEMMA MasterFlushMinds ==
    ASSUME StoreOK, CaptureOK, NEW t \in Requests, NEW r \in req[t].at, r \notin Record,
           NEW w, NEW es, NEW shared,
           Flush(t, w, es, shared), DOMAIN w \cap Record = {}, UNCHANGED captureVars
    PROVE  CaptureOK'
PROOF
<1>1. FlushAndFail(t, w, es, shared, {})
  BY DEF Flush
<1> QED BY <1>1, FlushMinds

LEMMA MasterBeginMinds ==
    ASSUME StoreOK, CaptureOK, NEW t \in Requests, NEW q, Begin(t, q), NEW r, r \notin Record,
           q.at = {r}, q.pc = "checked", DOMAIN q.write = {}, UNCHANGED captureVars
    PROVE  CaptureOK'
PROOF
<1>1. Minds(q)
  BY DEF Minds, CreateHome, Inserts, Cleans, Buries, Scans, Deletes
<1> QED BY <1>1, BeginFields, QuietStep

LEMMA CreateMinds ==
    ASSUME StoreOK, CaptureOK, NEW t \in Requests, NEW r, r \notin Record, NEW new,
           BeginCreate(t, r, new), UNCHANGED captureVars
    PROVE  CaptureOK'
PROOF
<1> DEFINE q == [Idle EXCEPT !.pc = "checked", !.op = "create", !.at = {r}, !.arg = new]
<1>1. Begin(t, q)
  BY DEF BeginCreate
<1>2. q.at = {r} /\ q.pc = "checked" /\ DOMAIN q.write = {}
  BY DEF Idle
<1> HIDE DEF q
<1> QED BY <1>1, <1>2, MasterBeginMinds

LEMMA LockForEditMinds ==
    ASSUME StoreOK, CaptureOK, NEW t \in Requests, NEW r, r \notin Record, NEW x, NEW op, NEW new,
           LockForEdit(t, r, x, op, new), UNCHANGED captureVars
    PROVE  CaptureOK'
PROOF
<1> DEFINE q == [Idle EXCEPT !.pc = "checked", !.op = op, !.at = {r}, !.base = x,
                             !.arg = new, !.lock = {r}]
<1>1. Begin(t, q)
  BY DEF LockForEdit
<1>2. q.at = {r} /\ q.pc = "checked" /\ DOMAIN q.write = {}
  BY DEF Idle
<1> HIDE DEF q
<1> QED BY <1>1, <1>2, MasterBeginMinds

LEMMA MasterStepMinds ==
    ASSUME StoreOK, CaptureOK, NEW t \in Requests, MasterStep(t), UNCHANGED captureVars
    PROVE  CaptureOK'
PROOF
<1>0. \A r \in Equipment \cup Site \cup Reference \cup Favorite : r \notin Record
  BY RecordIsResource DEF Master
<1>1. ASSUME NEW e \in Equipment,
             EquipmentCreate(t, e) \/ EquipmentUpdate(t, e) \/ MasterDelete(t, e)
      PROVE  CaptureOK'
  <2>1. CASE EquipmentCreate(t, e)
    BY <1>0, <2>1, CreateMinds DEF EquipmentCreate
  <2>2. CASE EquipmentUpdate(t, e)
    BY <1>0, <2>2, LockForEditMinds DEF EquipmentUpdate
  <2>3. CASE MasterDelete(t, e)
    BY <1>0, <2>3, LockForEditMinds DEF MasterDelete
  <2> QED BY <1>1, <2>1, <2>2, <2>3
<1>2. ASSUME NEW s \in Site, SiteCreate(t, s) \/ SiteUpdate(t, s) \/ MasterDelete(t, s)
      PROVE  CaptureOK'
  <2>1. CASE SiteCreate(t, s)
    BY <1>0, <2>1, CreateMinds DEF SiteCreate
  <2>2. CASE SiteUpdate(t, s)
    BY <1>0, <2>2, LockForEditMinds DEF SiteUpdate
  <2>3. CASE MasterDelete(t, s)
    BY <1>0, <2>3, LockForEditMinds DEF MasterDelete
  <2> QED BY <1>2, <2>1, <2>2, <2>3
<1>3. ASSUME NEW g \in Reference,
             ReferenceCreate(t, g) \/ ReferenceUpdate(t, g) \/ MasterDelete(t, g)
      PROVE  CaptureOK'
  <2>1. CASE ReferenceCreate(t, g)
    BY <1>0, <2>1, CreateMinds DEF ReferenceCreate
  <2>2. CASE ReferenceUpdate(t, g)
    BY <1>0, <2>2, LockForEditMinds DEF ReferenceUpdate
  <2>3. CASE MasterDelete(t, g)
    BY <1>0, <2>3, LockForEditMinds DEF MasterDelete
  <2> QED BY <1>3, <2>1, <2>2, <2>3
<1>4. ASSUME NEW c \in Favorite, FavoriteAdd(t, c) \/ FavoriteRemove(t, c)
      PROVE  CaptureOK'
  <2>1. CASE FavoriteAdd(t, c)
    BY <1>0, <2>1, CreateMinds DEF FavoriteAdd
  <2>2. CASE FavoriteRemove(t, c)
    <3> DEFINE q == [Idle EXCEPT !.pc = "checked", !.op = "remove", !.at = {c}]
    <3>1. Begin(t, q)
      BY <2>2 DEF FavoriteRemove
    <3>2. q.at = {c} /\ q.pc = "checked" /\ DOMAIN q.write = {}
      BY DEF Idle
    <3> HIDE DEF q
    <3> QED BY <1>0, <3>1, <3>2, MasterBeginMinds
  <2> QED BY <1>4, <2>1, <2>2
<1>5. CASE Insert(t)
  <2>1. PICK r \in req[t].at : r \notin Record /\ \E w, es, shared :
           Flush(t, w, es, shared) /\ w = WriteOf(r, req[t].arg)
    BY <1>5 DEF Insert
  <2>2. DOMAIN WriteOf(r, req[t].arg) = {r}
    BY DEF WriteOf
  <2> QED BY <2>1, <2>2, MasterFlushMinds
<1>6. CASE WriteEdit(t)
  <2>1. PICK r \in req[t].at : r \notin Record /\ \E new, es, shared :
           Flush(t, WriteOf(r, new), es, shared)
    BY <1>6 DEF WriteEdit
  <2>2. PICK new, es, shared : Flush(t, WriteOf(r, new), es, shared)
    BY <2>1
  <2>3. DOMAIN WriteOf(r, new) = {r}
    BY DEF WriteOf
  <2> QED BY <2>1, <2>2, <2>3, MasterFlushMinds
<1>7. CASE SiteDeleteFlush(t) \/ ReferenceDeleteFlush(t) \/ FavoriteRemoveFlush(t)
  <2>1. PICK r \in req[t].at : r \notin Record /\ \E new, es, shared :
           Flush(t, WriteOf(r, new), es, shared)
    BY <1>0, <1>7 DEF SiteDeleteFlush, ReferenceDeleteFlush, FavoriteRemoveFlush
  <2>2. PICK new, es, shared : Flush(t, WriteOf(r, new), es, shared)
    BY <2>1
  <2>3. DOMAIN WriteOf(r, new) = {r}
    BY DEF WriteOf
  <2> QED BY <2>1, <2>2, <2>3, MasterFlushMinds
<1>8. CASE EquipmentDeleteFlush(t)
  <2>1. PICK e \in req[t].at \cap Equipment :
          \E es : Flush(t, AlsoWrite([s \in LiveReferrers(e, Site) |->
                                        [row[s] EXCEPT !.to = @ \ {e}, !.rev = @ + 1]], e, Dead(e)),
                        es, {})
    BY <1>8 DEF EquipmentDeleteFlush
  <2> DEFINE w == AlsoWrite([s \in LiveReferrers(e, Site) |->
                               [row[s] EXCEPT !.to = @ \ {e}, !.rev = @ + 1]], e, Dead(e))
  <2>2. DOMAIN w \subseteq Site \cup {e}
    BY DEF AlsoWrite, LiveReferrers
  <2>3. PICK es : Flush(t, w, es, {})
    BY <2>1
  <2> HIDE DEF w
  <2> QED BY <1>0, <2>2, <2>3, MasterFlushMinds
<1> QED BY <1>1, <1>2, <1>3, <1>4, <1>5, <1>6, <1>7, <1>8, Zenon DEF MasterStep

(* ensure_link. *)
LEMMA EnsureLinkMinds ==
    ASSUME StoreOK, GuardOK, CaptureOK, NEW t \in Requests, EnsureLink(t)
    PROVE  CaptureOK'
PROOF
<1>1. PICK f \in FileOf(req[t].arg) :
        /\ req[t].pc = "checked" /\ req[t].op = "create" /\ req[t].at \subseteq Record
        /\ req' = [req EXCEPT ![t].pc = "linked",
                      ![t].adv = IF <<f, "AstroJournal">> \in link THEN @ ELSE "none"]
        /\ link' = link \cup {<<f, "AstroJournal">>}
        /\ UNCHANGED <<row, file, upload, todo, scope, restored, late>>
  BY DEF EnsureLink
<1> DEFINE p == req[t]
           adv == IF <<f, "AstroJournal">> \in link THEN p.adv ELSE "none"
           q == [[p EXCEPT !.pc = "linked"] EXCEPT !.adv = adv]
<1>2. RequestOK(p, row) /\ DOMAIN req = Requests /\ DOMAIN p = Columns /\ Minds(p)
  BY DEF StoreOK, RequestOK, CaptureOK
<1>3. Moves(t, q)
  <2>1. req' = [req EXCEPT ![t] = q]
    BY <1>1, <1>2 DEF Columns
  <2> QED BY <1>2, <2>1 DEF Moves
<1>4. PICK r \in Record : p.at = {r} /\ HasFile(p.arg) /\ DOMAIN p.write = {}
  BY <1>1, <1>2 DEF RequestOK, CreateOK
<1>5. f \in File /\ FileOf(p.arg) = {f}
  BY <1>1, <1>4 DEF HasFile, FileOf
<1>6. p.op = "create" /\ p.adv = "shared" /\ (r \notin late => ~file[f].deleted)
  BY <1>1, <1>2, <1>4, <1>5 DEF Minds, CreateHome
<1> HIDE DEF p, adv
<1>7. /\ q.pc = "linked" /\ q.op = p.op /\ q.at = p.at /\ q.arg = p.arg /\ q.write = p.write
  BY <1>2 DEF Columns
<1> HIDE DEF q
<1>8. /\ \A g \in File : (Kept(g) => Kept(g)') /\ (Home(g) => Home(g)')
      /\ Kept(f)' /\ (~file[f].deleted => Home(f)')
  BY <1>1 DEF Kept, Linked, Home, Services
<1>9. FilesOK'
  BY <1>1, <1>5, <1>8 DEF CaptureOK, FilesOK, Services
<1>10. RowsHome'
  BY <1>1, <1>8, RowsHomeHold DEF FileOf
<1>11. ASSUME NEW u \in Requests, u # t PROVE Minds(req[u])'
  <2>1. req'[u] = req[u]
    BY <1>3, <1>11 DEF Moves
  <2>2. req[u].pc \notin {"locked", "deleting"}
    BY <1>6, <1>11, ResetAlone DEF p
  <2>3. Scans(req[u])' /\ Deletes(req[u])'
    BY <2>1, <2>2 DEF Scans, Deletes
  <2>4. LiveReferrers(f, Record)' = LiveReferrers(f, Record)
        /\ \A g \in File : LiveReferrers(g, Record)' = LiveReferrers(g, Record)
    BY <1>1 DEF LiveReferrers, Live
  <2> QED BY <1>1, <1>8, <2>1, <2>3, <2>4, MindsHold DEF FileOf
<1>12. Minds(req[t])'
  <2>1. /\ req'[t].pc = "linked" /\ req'[t].op = "create" /\ req'[t].at = {r}
        /\ FileOf(req'[t].arg) = {f} /\ DOMAIN req'[t].write = {}
    BY <1>3, <1>4, <1>5, <1>6, <1>7 DEF Moves
  <2>2. Kept(f)' /\ (r \notin late' => Home(f)')
    BY <1>1, <1>6, <1>8
  <2>3. FileOf(req[t].arg)' = {f}
    BY <2>1 DEF FileOf
  <2> QED BY <2>1, <2>2, <2>3 DEF Minds, CreateHome, Inserts, Cleans, Buries, Scans, Deletes
<1> QED BY <1>9, <1>10, <1>11, <1>12 DEF CaptureOK

(* A transaction that ends, or a delete that goes on to its cleanup.       *)
LEMMA RestMinds ==
    ASSUME CaptureOK, NEW t \in Requests, \A f \in File : Kept(f) => Kept(f)',
           \/ req'[t] = Idle
           \/ /\ req'[t].op = "delete" /\ req'[t].pc = "cleanup" /\ DOMAIN req'[t].write = {}
              /\ req[t].op = "delete" /\ req'[t].at = req[t].at /\ req'[t].arg = req[t].arg
    PROVE  Minds(req[t])'
PROOF
<1>1. CASE req'[t] = Idle
  BY <1>1, IdleFields DEF Minds, CreateHome, Inserts, Cleans, Buries, Scans, Deletes
<1>2. CASE /\ req'[t].op = "delete" /\ req'[t].pc = "cleanup" /\ DOMAIN req'[t].write = {}
           /\ req[t].op = "delete" /\ req'[t].at = req[t].at /\ req'[t].arg = req[t].arg
  <2>1. Cleans(req[t])
    BY DEF CaptureOK, Minds
  <2>2. Cleans(req[t])'
    BY <1>2, <2>1 DEF Cleans, FileOf
  <2> QED BY <1>2, <2>2 DEF Minds, CreateHome, Inserts, Buries, Scans, Deletes
<1> QED BY <1>1, <1>2

(* The commit of a handler.                                                *)
LEMMA CommitMinds ==
    ASSUME StoreOK, CaptureOK, NEW t \in Requests, Commits(t),
           UNCHANGED <<file, link, upload, todo, scope, restored, late>>,
           \/ req'[t] = Idle
           \/ /\ req'[t].op = "delete" /\ req'[t].pc = "cleanup" /\ DOMAIN req'[t].write = {}
              /\ req[t].op = "delete" /\ req'[t].at = req[t].at /\ req'[t].arg = req[t].arg
    PROVE  CaptureOK'
PROOF
<1> DEFINE w == req[t].write
<1>1. \A f \in File : (Kept(f)' <=> Kept(f)) /\ (Home(f)' <=> Home(f))
                      /\ (OtherService(f)' <=> OtherService(f))
  BY DEF Kept, Linked, Home, OtherService
<1>2. FilesOK'
  BY <1>1 DEF CaptureOK, FilesOK
<1>3. ASSUME NEW x \in Record, row[x].st # "none"
      PROVE  /\ row'[x].st # "none" /\ FileOf(row'[x]) = FileOf(row[x])
             /\ row'[x].st = "live" => row[x].st = "live"
  <2>1. x \in Resource /\ x \notin Favorite
    BY RecordIsResource
  <2>2. CASE x \in DOMAIN w
    BY <1>3, <2>1, <2>2, CommittedRow DEF WriteOK, Revised, Buried, KeepsFile
  <2>3. CASE x \notin DOMAIN w
    BY <1>3, <2>1, <2>3, CommittedRow
  <2> QED BY <2>2, <2>3
<1>4. ASSUME NEW x \in Record, row[x].st = "none", row'[x].st # "none"
      PROVE  \A f \in FileOf(row'[x]) :
                Kept(f) /\ (x \notin late => Home(f)) /\ f \in req[t].share
  <2>1. x \in Resource
    BY RecordIsResource
  <2>2. x \in DOMAIN w /\ row'[x] = w[x] /\ KeepsFile(w[x], row[x], req[t].share)
    BY <1>4, <2>1, CommittedRow DEF WriteOK
  <2>3. Minds(req[t])
    BY DEF CaptureOK
  <2>4. req[t].op = "create" /\ req[t].pc = "flushed" /\ req[t].at = {x}
        /\ FileOf(w[x]) = FileOf(req[t].arg)
    BY <1>4, <2>2, <2>3 DEF Minds, Inserts
  <2>5. \A f \in FileOf(req[t].arg) : Kept(f) /\ (x \notin late => Home(f))
    BY <2>3, <2>4 DEF Minds, CreateHome
  <2> QED BY <1>4, <2>2, <2>4, <2>5 DEF KeepsFile
<1>5. RowsHome'
  <2> SUFFICES ASSUME NEW r \in Record, row'[r].st # "none", NEW f \in FileOf(row'[r])
               PROVE  Kept(f)' /\ (Live(r)' /\ r \notin late' => Home(f)')
    BY DEF RowsHome, FileOf
  <2>0. f \in File /\ (Live(r)' <=> row'[r].st = "live")
    BY DEF FileOf, Live
  <2>1. CASE row[r].st # "none"
    <3>1. f \in FileOf(row[r]) /\ (row'[r].st = "live" => Live(r))
      BY <1>3, <2>1 DEF Live
    <3>2. Kept(f) /\ (Live(r) /\ r \notin late => Home(f))
      BY <2>1, <3>1 DEF CaptureOK, RowsHome
    <3> QED BY <1>1, <2>0, <3>1, <3>2
  <2>2. CASE row[r].st = "none"
    BY <1>1, <1>4, <2>0, <2>2
  <2> QED BY <2>1, <2>2
<1>6. ASSUME NEW f \in File, LateUse(f) PROVE LateUse(f)'
  <2>1. PICK r \in late : f \in row[r].to
    BY <1>6 DEF LateUse
  <2>2. r \in Record /\ r \in Resource
    BY <2>1, RecordIsResource DEF CaptureOK, FilesOK
  <2>3. row[r].st # "none"
    BY <2>1, <2>2, NoRowIsRow DEF StoreOK, RowsOK, IsRow
  <2>4. f \in row'[r].to
    BY <1>3, <2>1, <2>2, <2>3 DEF FileOf
  <2> QED BY <2>1, <2>4 DEF LateUse
<1>7. ASSUME NEW f \in File, f \in Targets' PROVE f \in Targets \/ LateUse(f)'
  <2>1. CASE <<f, "AstroJournal">> \in link
    BY <2>1 DEF Targets
  <2>2. CASE <<f, "AstroJournal">> \notin link
    <3>1. PICK r \in Record : row'[r].st # "none" /\ f \in row'[r].to
      BY <1>7, <2>2 DEF Targets
    <3>2. CASE row[r].st # "none"
      <4>1. f \in row[r].to
        BY <1>3, <3>1, <3>2 DEF FileOf
      <4> QED BY <3>2, <4>1 DEF Targets
    <3>3. CASE row[r].st = "none"
      <4>1. r \in late
        BY <1>4, <2>2, <3>1, <3>3 DEF FileOf, Home
      <4> QED BY <3>1, <4>1 DEF LateUse
    <3> QED BY <3>2, <3>3
  <2> QED BY <2>1, <2>2
<1>8. ASSUME NEW u \in Requests, u # t PROVE Minds(req[u])'
  <2>1. req'[u] = req[u] /\ Minds(req[u])
    BY <1>8 DEF Commits, Moves, CaptureOK
  <2>2. \A x \in Record \cap DOMAIN req[u].write : row'[x].st = "none" => row[x].st = "none"
    BY <1>3
  <2>3. ASSUME req[u].pc = "tombstone", NEW f \in FileOf(req[u].arg),
               LiveReferrers(f, Record) = {}
        PROVE  LiveReferrers(f, Record)' = {}
    <3> SUFFICES ASSUME NEW x \in Record, row'[x].st = "live", f \in row'[x].to PROVE FALSE
      BY DEF LiveReferrers, Live
    <3>1. f \in File /\ f \in req[u].lock
      BY <2>1, <2>3 DEF FileOf, Minds, Buries
    <3>2. CASE row[x].st # "none"
      BY <1>3, <2>3, <3>1, <3>2 DEF LiveReferrers, Live, FileOf
    <3>3. CASE row[x].st = "none"
      <4>1. f \in req[t].share
        BY <1>4, <3>1, <3>3 DEF FileOf
      <4> QED BY <1>8, <3>1, <4>1 DEF StoreOK, LocksApart
    <3> QED BY <3>2, <3>3
  <2>4. Scans(req[u])'
    <3>1. Scans(req[u])
      BY <2>1 DEF Minds
    <3>2. \A f \in Targets' : f \in File
      BY DEF Targets
    <3> QED BY <1>6, <1>7, <2>1, <3>1, <3>2 DEF Scans
  <2>5. Deletes(req[u])'
    <3>1. Deletes(req[u]) /\ todo \subseteq File
      BY <2>1 DEF Minds, CaptureOK, FilesOK
    <3>2. \A f : OtherService(f)' <=> OtherService(f)
      BY DEF OtherService
    <3> QED BY <1>6, <2>1, <3>1, <3>2 DEF Deletes
  <2>6. \A f \in File : Kept(f) => Kept(f)'
    BY <1>1
  <2>7. req[u].op = "create" => \A r \in Record \ late' : req[u].at = {r} =>
              \A f \in FileOf(req[u].arg) :
                 (~file[f].deleted => ~file'[f].deleted) /\ (Home(f) => Home(f)')
    BY <1>1 DEF FileOf
  <2> QED BY <2>1, <2>2, <2>3, <2>4, <2>5, <2>6, <2>7, MindsHold
<1>9. Minds(req[t])'
  BY <1>1, RestMinds
<1> QED BY <1>2, <1>5, <1>8, <1>9 DEF CaptureOK

LEMMA RecordCommitMinds ==
    ASSUME StoreOK, CaptureOK, NEW t \in Requests, RecordCommit(t)
    PROVE  CaptureOK'
PROOF
<1> DEFINE c == [Idle EXCEPT !.pc = "cleanup", !.op = "delete", !.at = req[t].at, !.arg = req[t].arg]
<1>1. /\ req' = [req EXCEPT ![t] = IF req[t].op = "delete" THEN c ELSE Idle]
      /\ UNCHANGED <<file, link, upload, todo, scope, restored, late>>
  BY DEF RecordCommit
<1>2. /\ c.pc = "cleanup" /\ c.op = "delete" /\ c.at = req[t].at
      /\ c.arg = req[t].arg /\ DOMAIN c.write = {}
  BY DEF Idle
<1> HIDE DEF c
<1>3. req'[t] = IF req[t].op = "delete" THEN c ELSE Idle
  BY <1>1 DEF StoreOK
<1> QED BY <1>1, <1>2, <1>3, RecordCommits, CommitMinds

LEMMA MasterCommitMinds ==
    ASSUME StoreOK, CaptureOK, NEW t \in Requests, MasterCommit(t)
    PROVE  CaptureOK'
PROOF
<1>1. /\ req' = [req EXCEPT ![t] = Idle]
      /\ UNCHANGED <<file, link, upload, todo, scope, restored, late>>
  BY DEF MasterCommit, Commit, captureVars
<1>2. req'[t] = Idle
  BY <1>1 DEF StoreOK
<1> QED BY <1>1, <1>2, MasterCommits, CommitMinds

(* cleanup_if_unreferenced: what it takes from a file is the link or the   *)
(* row, not both, unless it leaves a tombstone.                            *)
LEMMA UncleanMinds ==
    ASSUME StoreOK, CaptureOK, NEW t \in Requests, req' = [req EXCEPT ![t] = Idle],
           NEW f \in File, LiveReferrers(f, Record) = {},
           UNCHANGED <<row, upload, todo, scope, restored>>,
           late' = late \cup Overtaken({f}),
           link' = link \ {<<f, "AstroJournal">>},
           \/ OtherService(f) /\ file' = file
           \/ file' = [file EXCEPT ![f].deleted = TRUE]
    PROVE  CaptureOK'
PROOF
<1>0. file \in [File -> [deleted: BOOLEAN, media: BOOLEAN]]
  BY DEF CaptureOK, FilesOK
<1>1. /\ file' \in [File -> [deleted: BOOLEAN, media: BOOLEAN]]
      /\ \A g \in File : file'[g].media = file[g].media /\ (file[g].deleted => file'[g].deleted)
      /\ \A g \in File \ {f} : file'[g] = file[g]
      /\ file'[f].deleted \/ OtherService(f)
  BY <1>0, ZenonT(40)
<1>2. \A g \in File : OtherService(g)' <=> OtherService(g)
  BY DEF OtherService
<1>3. \A g \in File : Kept(g) => Kept(g)'
  <2> SUFFICES ASSUME NEW g \in File, Kept(g) PROVE Kept(g)'
    OBVIOUS
  <2>1. CASE g = f
    <3>1. file'[f].deleted \/ <<f, "MemoryKeeper">> \in link'
      BY <1>1 DEF OtherService
    <3> QED BY <2>1, <3>1 DEF Kept, Linked, Services
  <2>2. CASE g # f
    <3>1. file'[g] = file[g] /\ \A svc : <<g, svc>> \in link => <<g, svc>> \in link'
      BY <1>1, <2>2
    <3> QED BY <3>1 DEF Kept, Linked
  <2> QED BY <2>1, <2>2
<1>4. \A g \in File \ {f} : (~file[g].deleted => ~file'[g].deleted) /\ (Home(g) => Home(g)')
  BY <1>1 DEF Home
<1>5. late \subseteq late' /\ late' \subseteq Record
  BY DEF Overtaken, CaptureOK, FilesOK
<1>6. FilesOK'
  BY <1>1, <1>3, <1>5 DEF CaptureOK, FilesOK
<1>7. RowsHome'
  <2>1. \A r \in Record \ late' : Live(r) => \A g \in FileOf(row[r]) : Home(g) => Home(g)'
    BY <1>4 DEF LiveReferrers, FileOf
  <2> QED BY <1>3, <1>5, <2>1, RowsHomeHold
<1>8. \A g \in File : LateUse(g) => LateUse(g)'
  BY <1>5 DEF LateUse
<1>9. Targets' \subseteq Targets
  BY DEF Targets
<1>10. ASSUME NEW u \in Requests, u # t PROVE Minds(req[u])'
  <2>1. req'[u] = req[u] /\ Minds(req[u])
    BY <1>10 DEF CaptureOK
  <2>2. ASSUME req[u].op = "create", NEW r \in Record \ late', req[u].at = {r},
               NEW g \in FileOf(req[u].arg)
        PROVE  (~file[g].deleted => ~file'[g].deleted) /\ (Home(g) => Home(g)')
    <3>1. g # f
      BY <2>2 DEF Overtaken
    <3> QED BY <1>4, <3>1 DEF FileOf
  <2>3. \A g : LiveReferrers(g, Record)' = LiveReferrers(g, Record)
    BY DEF LiveReferrers, Live
  <2>4. Scans(req[u])'
    <3>1. Scans(req[u])
      BY <2>1 DEF Minds
    <3> QED BY <1>8, <1>9, <2>1, <3>1 DEF Scans, Targets
  <2>5. Deletes(req[u])'
    <3>1. Deletes(req[u]) /\ todo \subseteq File
      BY <2>1 DEF Minds, CaptureOK, FilesOK
    <3>2. \A g : OtherService(g)' <=> OtherService(g)
      BY DEF OtherService
    <3> QED BY <1>8, <2>1, <3>1, <3>2 DEF Deletes
  <2> QED BY <1>3, <1>5, <2>1, <2>2, <2>3, <2>4, <2>5, MindsHold
<1>11. Minds(req[t])'
  BY <1>3, RestMinds DEF StoreOK
<1> QED BY <1>6, <1>7, <1>10, <1>11 DEF CaptureOK

LEMMA CleanupUnlinkMinds ==
    ASSUME StoreOK, CaptureOK, NEW t \in Requests, CleanupUnlink(t)
    PROVE  CaptureOK'
PROOF
<1> DEFINE f == CleanupFile(t)
<1>1. /\ CanCleanup(t) /\ LiveReferrers(f, Record) = {} /\ OtherService(f) /\ file' = file
      /\ link' = link \ {<<f, "AstroJournal">>} /\ late' = late \cup Overtaken({f})
      /\ req' = [req EXCEPT ![t] = Idle]
      /\ UNCHANGED <<row, upload, todo, scope, restored>>
  BY DEF CleanupUnlink
<1>2. f \in File
  BY <1>1, CleanupFileFacts DEF CanCleanup
<1> HIDE DEF f
<1> QED BY <1>1, <1>2, UncleanMinds

LEMMA CleanupCommitMinds ==
    ASSUME StoreOK, CaptureOK, NEW t \in Requests, CleanupCommit(t)
    PROVE  CaptureOK'
PROOF
<1> DEFINE f == CleanupFile(t)
<1>1. /\ req[t].pc = "tombstone" /\ file' = [file EXCEPT ![f].deleted = TRUE]
      /\ link' = link \ {<<f, "AstroJournal">>} /\ late' = late \cup Overtaken({f})
      /\ req' = [req EXCEPT ![t] = Idle]
      /\ UNCHANGED <<row, upload, todo, scope, restored>>
  BY DEF CleanupCommit
<1>2. f \in File /\ FileOf(req[t].arg) = {f}
  BY <1>1, CleanupFileFacts
<1>3. LiveReferrers(f, Record) = {}
  BY <1>1, <1>2 DEF CaptureOK, Minds, Buries
<1> HIDE DEF f
<1> QED BY <1>1, <1>2, <1>3, UncleanMinds

(* The media of a file that something keeps are deleted.                   *)
LEMMA MediaGone ==
    ASSUME CaptureOK, NEW f \in File, file' = [file EXCEPT ![f].media = FALSE]
    PROVE  /\ file' \in [File -> [deleted: BOOLEAN, media: BOOLEAN]]
           /\ \A g \in File : file'[g].deleted = file[g].deleted
           /\ \A g \in File \ {f} : file'[g].media = file[g].media
PROOF
<1>1. file \in [File -> [deleted: BOOLEAN, media: BOOLEAN]]
  BY DEF CaptureOK, FilesOK
<1> QED BY <1>1

LEMMA CleanupDeleteMinds ==
    ASSUME StoreOK, CaptureOK, NEW t \in Requests, CleanupDelete(t)
    PROVE  CaptureOK'
PROOF
<1>0. PICK f \in File : f = CleanupFile(t)
  BY CleanupFileFacts DEF CleanupDelete, CanCleanup
<1>1. /\ CanCleanup(t) /\ ~PreservedByUse(f)
      /\ file' = [file EXCEPT ![f].media = FALSE]
      /\ \/ req' = [req EXCEPT ![t].pc = "tombstone", ![t].lock = {f}, ![t].adv = "shared"]
         \/ req' = [req EXCEPT ![t] = Idle]
      /\ UNCHANGED <<row, link, upload, todo, scope, restored, late>>
  BY <1>0 DEF CleanupDelete
<1>2. /\ f \in File /\ FileOf(req[t].arg) = {f} /\ req[t].pc = "cleanup"
      /\ req[t].op = "delete" /\ req[t].at \subseteq Record
  BY <1>0, <1>1, CleanupFileFacts DEF CanCleanup
<1>3. LiveReferrers(f, Record) = {}
  BY <1>1 DEF PreservedByUse
<1>4. Kept(f)
  BY <1>2 DEF CaptureOK, Minds, Cleans
<1>5. /\ file' \in [File -> [deleted: BOOLEAN, media: BOOLEAN]]
      /\ \A g \in File : file'[g].deleted = file[g].deleted
      /\ \A g \in File \ {f} : file'[g].media = file[g].media
  BY <1>1, <1>2, MediaGone
<1>6. \A g \in File : (Kept(g)' <=> Kept(g)) /\ (Home(g)' <=> Home(g))
  BY <1>1, <1>5 DEF Kept, Linked, Home
<1>7. FilesOK'
  BY <1>1, <1>4, <1>5, <1>6 DEF CaptureOK, FilesOK
<1>8. RowsHome'
  <2>1. \A r \in Record \ late' : Live(r) => \A g \in FileOf(row[r]) : Home(g) => Home(g)'
    BY <1>6 DEF FileOf
  <2> QED BY <1>1, <1>6, <2>1, RowsHomeHold
<1>9. DOMAIN req = Requests /\ DOMAIN req[t] = Columns /\ RequestOK(req[t], row)
  BY DEF StoreOK, RequestOK
<1>10. ASSUME NEW u \in Requests, u # t PROVE Minds(req[u])'
  <2>1. req'[u] = req[u] /\ Minds(req[u])
    BY <1>1, <1>9, <1>10 DEF CaptureOK
  <2>2. \A g : LiveReferrers(g, Record)' = LiveReferrers(g, Record)
    BY <1>1 DEF LiveReferrers, Live
  <2>3. Scans(req[u])' /\ Deletes(req[u])'
    BY <1>1, <2>1 DEF Minds, Scans, Deletes, Targets, LateUse, OtherService
  <2>4. req[u].op = "create" => \A r \in Record \ late' : req[u].at = {r} =>
              \A g \in FileOf(req[u].arg) :
                 (~file[g].deleted => ~file'[g].deleted) /\ (Home(g) => Home(g)')
    BY <1>5, <1>6 DEF FileOf
  <2> QED BY <1>1, <1>6, <2>1, <2>2, <2>3, <2>4, MindsHold
<1>11. Minds(req[t])'
  <2>1. CASE req' = [req EXCEPT ![t] = Idle]
    BY <1>6, <1>9, <2>1, RestMinds
  <2>2. CASE req' = [req EXCEPT ![t].pc = "tombstone", ![t].lock = {f}, ![t].adv = "shared"]
    <3> DEFINE p == req[t]
               q == [[[p EXCEPT !.pc = "tombstone"] EXCEPT !.lock = {f}] EXCEPT !.adv = "shared"]
    <3>1. req' = [req EXCEPT ![t] = q]
      BY <1>9, <2>2 DEF Columns
    <3>2. req'[t] = q /\ DOMAIN p = Columns
      BY <1>9, <3>1
    <3> HIDE DEF p
    <3>3. /\ q.pc = "tombstone" /\ q.op = p.op /\ q.at = p.at /\ q.arg = p.arg
          /\ q.write = p.write /\ q.lock = {f}
      BY <3>2 DEF Columns
    <3> HIDE DEF q
    <3>4. DOMAIN req[t].write = {}
      BY <1>2, <1>9 DEF RequestOK
    <3>5. /\ req'[t].pc = "tombstone" /\ req'[t].op = "delete"
          /\ FileOf(req'[t].arg) = {f} /\ DOMAIN req'[t].write = {} /\ f \in req'[t].lock
      BY <1>2, <3>2, <3>3, <3>4 DEF p
    <3>6. FileOf(req[t].arg)' = {f}
      BY <3>5 DEF FileOf
    <3>7. LiveReferrers(f, Record)' = {}
      BY <1>1, <1>3 DEF LiveReferrers, Live
    <3>8. Buries(req[t])'
      BY <3>5, <3>6, <3>7 DEF Buries
    <3>9. Kept(f)'
      BY <1>2, <1>4, <1>6
    <3>10. Cleans(req[t])'
      BY <3>6, <3>9 DEF Cleans
    <3> QED BY <3>5, <3>8, <3>10 DEF Minds, CreateHome, Inserts, Scans, Deletes
  <2> QED BY <1>1, <2>1, <2>2
<1> QED BY <1>7, <1>8, <1>10, <1>11 DEF CaptureOK

(* The Reset.                                                              *)

LEMMA ResetScanMinds ==
    ASSUME StoreOK, GuardOK, CaptureOK, NEW t \in Requests, ResetScan(t)
    PROVE  CaptureOK'
PROOF
<1>1. /\ req[t].pc = "locked" /\ ~ResetBlocked
      /\ todo' = {f \in OwnFiles : ~file[f].deleted}
      /\ scope' = [own |-> OwnFiles, target |-> Targets]
      /\ req' = [req EXCEPT ![t].pc = "deleting"]
      /\ UNCHANGED <<row, file, link, restored, late>>
  BY DEF ResetScan
<1>2. DOMAIN req = Requests /\ DOMAIN req[t] = Columns /\ RequestOK(req[t], row)
      /\ Guarded(req[t], row) /\ Minds(req[t])
  BY DEF StoreOK, RequestOK, GuardOK, CaptureOK
<1>3. /\ req'[t].pc = "deleting" /\ req'[t].op = "reset" /\ req'[t].lock = req[t].lock
      /\ DOMAIN req'[t].write = {}
  <2> DEFINE p == req[t]
             q == [p EXCEPT !.pc = "deleting"]
  <2>1. req'[t] = q /\ DOMAIN p = Columns /\ p.op = "reset" /\ DOMAIN p.write = {}
    BY <1>1, <1>2 DEF RequestOK, Guarded
  <2> HIDE DEF p
  <2>2. q.pc = "deleting" /\ q.op = p.op /\ q.write = p.write /\ q.lock = p.lock
    BY <2>1 DEF Columns
  <2> HIDE DEF q
  <2> QED BY <2>1, <2>2 DEF p
<1>4. \A f \in File : (Kept(f)' <=> Kept(f)) /\ (Home(f)' <=> Home(f))
                      /\ (LateUse(f)' <=> LateUse(f)) /\ (OtherService(f)' <=> OtherService(f))
  BY <1>1 DEF Kept, Linked, Home, LateUse, OtherService
<1>5. /\ OwnFiles \subseteq Targets /\ Targets \subseteq File
      /\ \A f \in Targets \ OwnFiles : OtherService(f)
      /\ \A f \in OwnFiles : ~OtherService(f)
  BY DEF OwnFiles, Targets
<1>6. \A f \in Targets : Kept(f)
  <2> TAKE f \in Targets
  <2>1. CASE <<f, "AstroJournal">> \in link
    BY <2>1 DEF Kept, Linked, Services
  <2>2. CASE \E r \in Record : row[r].st # "none" /\ f \in row[r].to
    BY <1>5, <2>2 DEF CaptureOK, RowsHome, FileOf
  <2> QED BY <2>1, <2>2 DEF Targets
<1>7. FilesOK'
  <2>1. \A f \in todo' : f \in File /\ Kept(f)
    BY <1>1, <1>5, <1>6
  <2> QED BY <1>1, <1>4, <2>1 DEF CaptureOK, FilesOK
<1>8. RowsHome'
  <2>1. \A r \in Record \ late' : Live(r) => \A f \in FileOf(row[r]) : Home(f) => Home(f)'
    BY <1>4 DEF FileOf
  <2> QED BY <1>1, <1>4, <2>1, RowsHomeHold
<1>9. ASSUME NEW u \in Requests, u # t PROVE Minds(req[u])'
  <2>1. req'[u] = req[u]
    BY <1>1, <1>2, <1>9
  <2>2. req[u].pc \notin {"locked", "deleting"}
    BY <1>1, <1>9, ResetAlone
  <2>3. Scans(req[u])' /\ Deletes(req[u])'
    BY <2>1, <2>2 DEF Scans, Deletes
  <2>4. \A f : LiveReferrers(f, Record)' = LiveReferrers(f, Record)
    BY <1>1 DEF LiveReferrers, Live
  <2>5. req[u].op = "create" => \A r \in Record \ late' : req[u].at = {r} =>
              \A f \in FileOf(req[u].arg) :
                 (~file[f].deleted => ~file'[f].deleted) /\ (Home(f) => Home(f)')
    BY <1>1, <1>4 DEF FileOf
  <2> QED BY <1>1, <1>4, <2>1, <2>3, <2>4, <2>5, MindsHold
<1>10. Minds(req[t])'
  <2>1. \A f \in todo' : (f \in req'[t].lock /\ ~OtherService(f)') \/ LateUse(f)'
    <3> TAKE f \in todo'
    <3>1. f \in OwnFiles /\ f \in Targets /\ f \in File
      BY <1>1, <1>5
    <3>2. f \in req[t].lock \/ LateUse(f)
      BY <1>1, <1>2, <3>1 DEF Minds, Scans, ResetBlocked
    <3> QED BY <1>3, <1>4, <1>5, <3>1, <3>2
  <2>2. /\ scope'.own \subseteq scope'.target
        /\ \A f \in scope'.target \ scope'.own : OtherService(f)'
    BY <1>1, <1>4, <1>5
  <2>3. Deletes(req[t])'
    BY <2>1, <2>2 DEF Deletes
  <2> QED BY <1>3, <2>3 DEF Minds, CreateHome, Inserts, Cleans, Buries, Scans
<1> QED BY <1>7, <1>8, <1>9, <1>10 DEF CaptureOK

LEMMA ResetDeleteAssetsMinds ==
    ASSUME StoreOK, GuardOK, CaptureOK, NEW t \in Requests, ResetDeleteAssets(t)
    PROVE  CaptureOK'
PROOF
<1>1. PICK f \in todo :
        /\ req[t].pc = "deleting"
        /\ file' = [file EXCEPT ![f].media = FALSE] /\ todo' = todo \ {f}
        /\ UNCHANGED <<row, req, link, upload, scope, restored, late>>
  BY DEF ResetDeleteAssets, storeVars
<1>2. f \in File /\ Kept(f)
  BY DEF CaptureOK, FilesOK
<1>3. /\ file' \in [File -> [deleted: BOOLEAN, media: BOOLEAN]]
      /\ \A g \in File : file'[g].deleted = file[g].deleted
      /\ \A g \in File \ {f} : file'[g].media = file[g].media
  BY <1>1, <1>2, MediaGone
<1>4. \A g \in File : (Kept(g)' <=> Kept(g)) /\ (Home(g)' <=> Home(g))
                      /\ (LateUse(g)' <=> LateUse(g)) /\ (OtherService(g)' <=> OtherService(g))
  BY <1>1, <1>3 DEF Kept, Linked, Home, LateUse, OtherService
<1>5. FilesOK'
  BY <1>1, <1>2, <1>3, <1>4 DEF CaptureOK, FilesOK
<1>6. RowsHome'
  <2>1. \A r \in Record \ late' : Live(r) => \A g \in FileOf(row[r]) : Home(g) => Home(g)'
    BY <1>4 DEF FileOf
  <2> QED BY <1>1, <1>4, <2>1, RowsHomeHold
<1>7. ASSUME NEW u \in Requests PROVE Minds(req[u])'
  <2>1. req'[u] = req[u] /\ Minds(req[u]) /\ todo \subseteq File
    BY <1>1 DEF CaptureOK, FilesOK
  <2>2. \A g : LiveReferrers(g, Record)' = LiveReferrers(g, Record)
    BY <1>1 DEF LiveReferrers, Live
  <2>3. Scans(req[u])'
    <3>1. Scans(req[u]) /\ Targets' = Targets /\ Targets \subseteq File
      BY <1>1, <2>1 DEF Minds, Targets
    <3> QED BY <1>1, <1>4, <2>1, <3>1 DEF Scans
  <2>4. Deletes(req[u])'
    <3>1. Deletes(req[u])
      BY <2>1 DEF Minds
    <3>2. \A g : OtherService(g)' <=> OtherService(g)
      BY <1>1 DEF OtherService
    <3> QED BY <1>1, <1>4, <2>1, <3>1, <3>2 DEF Deletes
  <2>5. req[u].op = "create" => \A r \in Record \ late' : req[u].at = {r} =>
              \A g \in FileOf(req[u].arg) :
                 (~file[g].deleted => ~file'[g].deleted) /\ (Home(g) => Home(g)')
    BY <1>3, <1>4 DEF FileOf
  <2> QED BY <1>1, <1>4, <2>1, <2>2, <2>3, <2>4, <2>5, MindsHold
<1> QED BY <1>5, <1>6, <1>7 DEF CaptureOK

LEMMA ResetCommitMinds ==
    ASSUME StoreOK, GuardOK, CaptureOK, NEW t \in Requests, ResetCommit(t)
    PROVE  CaptureOK'
PROOF
<1>1. /\ req[t].pc = "deleting" /\ todo = {} /\ todo' = {}
      /\ CanLock(t, {r \in Record : row[r].st # "none"})
      /\ row' = [r \in Resource |-> IF r \in Record THEN NoRow ELSE row[r]]
      /\ file' = [f \in File |-> IF f \in scope.own THEN [file[f] EXCEPT !.deleted = TRUE] ELSE file[f]]
      /\ link' = {l \in link : ~(l[1] \in scope.target /\ l[2] = "AstroJournal")}
      /\ late' = late \cup Overtaken(scope.target)
      /\ req' = [req EXCEPT ![t] = Idle] /\ restored' = restored
  BY DEF ResetCommit
<1>2. /\ scope.own \subseteq scope.target
      /\ \A f \in scope.target \ scope.own : OtherService(f)
  BY <1>1 DEF CaptureOK, Minds, Deletes
<1>3. /\ file' \in [File -> [deleted: BOOLEAN, media: BOOLEAN]]
      /\ \A f \in File : file'[f].media = file[f].media /\ (file[f].deleted => file'[f].deleted)
      /\ \A f \in File \cap scope.own : file'[f].deleted
      /\ \A f \in File \ scope.own : file'[f] = file[f]
  <2>1. file \in [File -> [deleted: BOOLEAN, media: BOOLEAN]]
    BY DEF CaptureOK, FilesOK
  <2> QED BY <1>1, <2>1
<1>4. ASSUME NEW f \in File, Kept(f) PROVE Kept(f)'
  <2>1. CASE f \in scope.own
    BY <1>3, <2>1 DEF Kept
  <2>2. CASE f \notin scope.own
    <3>1. CASE f \in scope.target
      <4>1. <<f, "MemoryKeeper">> \in link
        BY <1>2, <2>2, <3>1 DEF OtherService
      <4>2. <<f, "MemoryKeeper">> \in link'
        BY <1>1, <4>1
      <4> QED BY <4>2 DEF Kept, Linked, Services
    <3>2. CASE f \notin scope.target
      <4>1. \A svc : <<f, svc>> \in link => <<f, svc>> \in link'
        BY <1>1, <3>2
      <4> QED BY <1>1, <1>3, <1>4, <2>2, <4>1 DEF Kept, Linked
    <3> QED BY <3>1, <3>2
  <2> QED BY <2>1, <2>2
<1>5. ASSUME NEW f \in File \ scope.target
      PROVE  (~file[f].deleted => ~file'[f].deleted) /\ (Home(f) => Home(f)')
  <2>1. file'[f] = file[f]
    BY <1>2, <1>3
  <2>2. <<f, "AstroJournal">> \in link => <<f, "AstroJournal">> \in link'
    BY <1>1
  <2> QED BY <2>1, <2>2 DEF Home
<1>6. late \subseteq late' /\ late' \subseteq Record
  BY <1>1 DEF Overtaken, CaptureOK, FilesOK
<1>7. FilesOK'
  <2>1. link' \subseteq link
    BY <1>1
  <2> QED BY <1>1, <1>3, <1>4, <1>6, <2>1 DEF CaptureOK, FilesOK
<1>8. \A r \in Record : row'[r] = NoRow /\ row'[r].st = "none"
  BY <1>1, RecordIsResource, NoRowIsRow
<1>9. RowsHome'
  BY <1>8 DEF RowsHome
<1>10. ASSUME NEW u \in Requests, u # t PROVE Minds(req[u])'
  <2>1. req'[u] = req[u] /\ RequestOK(req[u], row)
    BY <1>1, <1>10 DEF StoreOK
  <2>2. req[u].pc \notin {"locked", "deleting"}
    BY <1>1, <1>10, ResetAlone
  <2>3. Scans(req[u])' /\ Deletes(req[u])'
    BY <2>1, <2>2 DEF Scans, Deletes
  <2>4. \A f : LiveReferrers(f, Record)' = {}
    BY <1>8 DEF LiveReferrers, Live
  <2>5. ASSUME req[u].op = "create", NEW r \in Record \ late', req[u].at = {r},
               NEW f \in FileOf(req[u].arg)
        PROVE  (~file[f].deleted => ~file'[f].deleted) /\ (Home(f) => Home(f)')
    <3>1. f \notin scope.target
      BY <1>1, <2>5 DEF Overtaken
    <3> QED BY <1>5, <3>1 DEF FileOf
  <2>6. \A x \in Record \cap DOMAIN req[u].write : row[x].st = "none"
    BY <1>1, <1>10, <2>1 DEF CanLock, RequestOK
  <2> QED BY <1>4, <1>6, <2>1, <2>3, <2>4, <2>5, <2>6, MindsHold
<1>11. Minds(req[t])'
  BY <1>1, <1>4, RestMinds DEF StoreOK
<1> QED BY <1>7, <1>9, <1>10, <1>11 DEF CaptureOK

LEMMA AbortMinds ==
    ASSUME StoreOK, GuardOK, CaptureOK, NEW t \in Requests, Abort(t)
    PROVE  CaptureOK'
PROOF
<1>1. /\ req' = [req EXCEPT ![t] = Idle]
      /\ UNCHANGED <<row, file, link, upload, restored, late>>
      /\ \/ req[t].op = "reset" /\ todo' = {} 
         \/ UNCHANGED <<todo, scope>>
  BY DEF Abort, Rollback
<1>2. \A f \in File : (Kept(f)' <=> Kept(f)) /\ (Home(f)' <=> Home(f))
  BY <1>1 DEF Kept, Linked, Home
<1>3. FilesOK'
  BY <1>1, <1>2 DEF CaptureOK, FilesOK
<1>4. RowsHome'
  <2>1. \A r \in Record \ late' : Live(r) => \A f \in FileOf(row[r]) : Home(f) => Home(f)'
    BY <1>2 DEF FileOf
  <2> QED BY <1>1, <1>2, <2>1, RowsHomeHold
<1>5. ASSUME NEW u \in Requests, u # t PROVE Minds(req[u])'
  <2>1. req'[u] = req[u] /\ Minds(req[u])
    BY <1>1, <1>5 DEF StoreOK, CaptureOK
  <2>2. Scans(req[u])'
    BY <1>1, <2>1 DEF Minds, Scans, Targets, LateUse
  <2>3. Deletes(req[u])'
    <3>1. CASE req[t].op = "reset"
      <4>1. req[u].pc # "deleting"
        BY <1>5, <3>1, ResetAlone
      <4> QED BY <2>1, <4>1 DEF Deletes
    <3>2. CASE UNCHANGED <<todo, scope>>
      BY <1>1, <2>1, <3>2 DEF Minds, Deletes, LateUse, OtherService
    <3> QED BY <1>1, <3>1, <3>2
  <2>4. \A f : LiveReferrers(f, Record)' = LiveReferrers(f, Record)
    BY <1>1 DEF LiveReferrers, Live
  <2>5. req[u].op = "create" => \A r \in Record \ late' : req[u].at = {r} =>
              \A f \in FileOf(req[u].arg) :
                 (~file[f].deleted => ~file'[f].deleted) /\ (Home(f) => Home(f)')
    BY <1>1, <1>2 DEF FileOf
  <2> QED BY <1>1, <1>2, <2>1, <2>2, <2>3, <2>4, <2>5, MindsHold
<1>6. Minds(req[t])'
  BY <1>1, <1>2, RestMinds DEF StoreOK
<1> QED BY <1>3, <1>4, <1>5, <1>6 DEF CaptureOK

(* The rest of the system.                                                 *)

(* It has no transaction of AstroJournal's and leaves the rows alone.      *)
LEMMA OutsideMinds ==
    ASSUME CaptureOK, UNCHANGED <<row, req, late>>, FilesOK',
           \A f \in File : /\ Kept(f) => Kept(f)'
                           /\ ~file[f].deleted => ~file'[f].deleted
                           /\ Home(f) => Home(f)',
           \A u \in Requests : Scans(req[u])' /\ Deletes(req[u])'
    PROVE  CaptureOK'
PROOF
<1>1. RowsHome'
  <2>1. \A r \in Record \ late' : Live(r) => \A f \in FileOf(row[r]) : Home(f) => Home(f)'
    BY DEF FileOf
  <2> QED BY <2>1, RowsHomeHold
<1>2. ASSUME NEW u \in Requests PROVE Minds(req[u])'
  <2>1. req'[u] = req[u] /\ Scans(req[u])' /\ Deletes(req[u])'
    OBVIOUS
  <2>2. \A f : LiveReferrers(f, Record)' = LiveReferrers(f, Record)
    BY DEF LiveReferrers, Live
  <2>3. req[u].op = "create" => \A r \in Record \ late' : req[u].at = {r} =>
              \A f \in FileOf(req[u].arg) :
                 (~file[f].deleted => ~file'[f].deleted) /\ (Home(f) => Home(f)')
    BY DEF FileOf
  <2> QED BY <2>1, <2>2, <2>3, MindsHold
<1> QED BY <1>1, <1>2 DEF CaptureOK

(* No Reset holds the files while the queues are free.                     *)
LEMMA FreeQueues ==
    ASSUME GuardOK, QueuesFree, NEW u \in Requests
    PROVE  req[u].pc \notin {"locked", "deleting"}
PROOF
<1>1. Guarded(req[u], row)
  BY DEF GuardOK
<1> QED BY <1>1 DEF Guarded, QueuesFree

(* The queues, and the acceptance of an upload.                            *)
LEMMA QueuesMind ==
    ASSUME GuardOK, CaptureOK,
           UNCHANGED <<row, req, file, link, todo, scope, restored, late>>,
           QueuesFree \/ upload' = upload \/ upload.st = "none"
    PROVE  CaptureOK'
PROOF
<1>1. \A f \in File : /\ Kept(f) <=> Kept(f)'
                      /\ ~file[f].deleted => ~file'[f].deleted
                      /\ Home(f) => Home(f)'
  BY DEF Kept, Linked, Home
<1>2. FilesOK'
  BY <1>1 DEF CaptureOK, FilesOK
<1>3. ASSUME NEW u \in Requests PROVE Scans(req[u])' /\ Deletes(req[u])'
  <2>1. Scans(req[u]) /\ Deletes(req[u]) /\ req'[u] = req[u]
    BY DEF CaptureOK, Minds
  <2>2. /\ Targets' = Targets /\ \A f : LateUse(f)' <=> LateUse(f)
        /\ \A f : OtherService(f)' <=> OtherService(f)
    BY DEF Targets, LateUse, OtherService
  <2>3. Deletes(req[u])'
    BY <2>1, <2>2 DEF Deletes
  <2>4. req[u].pc = "locked" => upload' = upload \/ upload.st = "none"
    BY FreeQueues
  <2>5. Scans(req[u])'
    BY <2>1, <2>2, <2>4 DEF Scans
  <2> QED BY <2>3, <2>5
<1> QED BY <1>1, <1>2, <1>3, OutsideMinds

(* The worker restores a tombstone.                                        *)
LEMMA RestoreFileMinds ==
    ASSUME CaptureOK, NEW f \in File, RestoreFile(f)
    PROVE  CaptureOK'
PROOF
<1>1. /\ file' = [file EXCEPT ![f] = [deleted |-> FALSE, media |-> TRUE]]
      /\ restored' = restored \cup {f}
      /\ UNCHANGED <<row, req, link, upload, todo, scope, late>>
  BY DEF RestoreFile, storeVars
<1>2. FilesOK
  BY DEF CaptureOK
<1>3. /\ file' \in [File -> [deleted: BOOLEAN, media: BOOLEAN]]
      /\ file'[f].deleted = FALSE /\ file'[f].media
      /\ \A g \in File \ {f} : file'[g] = file[g]
  BY <1>1, <1>2 DEF FilesOK
<1>4. \A g \in File : /\ Kept(g) => Kept(g)'
                      /\ ~file[g].deleted => ~file'[g].deleted
                      /\ Home(g) => Home(g)'
  BY <1>1, <1>3 DEF Kept, Linked, Home
<1>5. FilesOK'
  <2>1. \A g \in File : ~file'[g].media \/ g \in todo' => Kept(g)'
    <3> TAKE g \in File
    <3>1. CASE g = f
      BY <1>1, <3>1 DEF Kept
    <3>2. CASE g # f
      BY <1>1, <1>2, <1>3, <1>4, <3>2 DEF FilesOK
    <3> QED BY <3>1, <3>2
  <2> QED BY <1>1, <1>2, <1>3, <2>1 DEF FilesOK
<1>6. ASSUME NEW u \in Requests PROVE Scans(req[u])' /\ Deletes(req[u])'
  <2>1. Scans(req[u]) /\ Deletes(req[u]) /\ req'[u] = req[u]
    BY <1>1 DEF CaptureOK, Minds
  <2>2. /\ Targets' = Targets /\ \A g : LateUse(g)' <=> LateUse(g)
        /\ \A g : OtherService(g)' <=> OtherService(g)
    BY <1>1 DEF Targets, LateUse, OtherService
  <2> QED BY <1>1, <2>1, <2>2 DEF Deletes, Scans
<1> QED BY <1>1, <1>4, <1>5, <1>6, OutsideMinds

(* The worker links the file it stores: one that no transaction has        *)
(* locked, and for AstroJournal only while its upload runs.                *)
LEMMA StoreFileMinds ==
    ASSUME CaptureOK, NEW f \in File, NEW svc \in Services, StoreFile(f, svc)
    PROVE  CaptureOK'
PROOF
<1>1. /\ \A t \in Requests : f \notin req[t].lock
      /\ svc = "AstroJournal" => upload.st = "PROCESSING"
      /\ link' = link \cup {<<f, svc>>} /\ restored' = restored \ {f}
      /\ UNCHANGED <<row, req, file, upload, todo, scope, late>>
  BY DEF StoreFile, storeVars
<1>2. FilesOK
  BY DEF CaptureOK
<1>3. \A g \in File : /\ Kept(g) => Kept(g)'
                      /\ ~file[g].deleted => ~file'[g].deleted
                      /\ Home(g) => Home(g)'
  <2> TAKE g \in File
  <2>1. CASE g = f
    BY <1>1, <2>1 DEF Kept, Linked, Home
  <2>2. CASE g # f
    BY <1>1, <2>2 DEF Kept, Linked, Home
  <2> QED BY <2>1, <2>2
<1>4. FilesOK'
  <2>1. link' \subseteq File \X Services
    BY <1>1, <1>2 DEF FilesOK
  <2> QED BY <1>1, <1>2, <1>3, <2>1 DEF FilesOK
<1>5. ASSUME NEW u \in Requests PROVE Scans(req[u])' /\ Deletes(req[u])'
  <2>1. Scans(req[u]) /\ Deletes(req[u]) /\ req'[u] = req[u] /\ f \notin req[u].lock
    BY <1>1 DEF CaptureOK, Minds
  <2>2. \A g : LateUse(g)' <=> LateUse(g)
    BY <1>1 DEF LateUse
  <2>3. /\ \A g : OtherService(g) => OtherService(g)'
        /\ \A g : OtherService(g)' => OtherService(g) \/ g = f
    BY <1>1 DEF OtherService
  <2>4. Deletes(req[u])'
    <3>1. req[u].pc = "deleting" =>
            \A g \in todo : (g \in req[u].lock /\ ~OtherService(g)') \/ LateUse(g)'
      BY <2>1, <2>2, <2>3 DEF Deletes
    <3> QED BY <1>1, <2>1, <2>3, <3>1 DEF Deletes
  <2>5. upload.st # "PROCESSING" => Targets' = Targets
    <3> SUFFICES ASSUME upload.st # "PROCESSING" PROVE Targets' = Targets
      OBVIOUS
    <3>1. svc # "AstroJournal"
      BY <1>1
    <3>2. \A g \in File : <<g, "AstroJournal">> \in link' <=> <<g, "AstroJournal">> \in link
      BY <1>1, <3>1
    <3> QED BY <1>1, <3>2 DEF Targets
  <2>6. Scans(req[u])'
    BY <1>1, <2>1, <2>2, <2>5 DEF Scans
  <2> QED BY <2>4, <2>6
<1> QED BY <1>1, <1>3, <1>4, <1>5, OutsideMinds

LEMMA EnvironmentMinds ==
    ASSUME GuardOK, CaptureOK, Environment
    PROVE  CaptureOK'
PROOF
<1>1. ASSUME NEW f \in File, PlateClaim(f) \/ PlateEnd(f) \/ VisionToggle(f) PROVE CaptureOK'
  <2>1. UNCHANGED <<row, req, file, link, todo, scope, restored, late, upload>>
    BY <1>1 DEF PlateClaim, PlateEnd, VisionToggle, storeVars
  <2> QED BY <2>1, QueuesMind
<1>2. ASSUME UploadAccept \/ UploadClaim \/ UploadEnd PROVE CaptureOK'
  <2>1. /\ UNCHANGED <<row, req, file, link, todo, scope, restored, late>>
        /\ QueuesFree \/ upload.st = "none"
    BY <1>2 DEF UploadAccept, UploadClaim, UploadEnd, storeVars
  <2> QED BY <2>1, QueuesMind
<1>3. ASSUME NEW f \in File, RestoreFile(f) PROVE CaptureOK'
  BY <1>3, RestoreFileMinds
<1>4. ASSUME NEW f \in File, NEW svc \in Services, StoreFile(f, svc) PROVE CaptureOK'
  BY <1>4, StoreFileMinds
<1> QED BY <1>1, <1>2, <1>3, <1>4 DEF Environment

LEMMA CaptureInit ==
    ASSUME Init
    PROVE  CaptureOK
PROOF
<1>1. PICK e \in Equipment, s \in Site :
        row = [r \in Resource |-> IF r \in {e, s} THEN NewRow(TRUE, {}, NoCatalog) ELSE NoRow]
  BY DEF Init
<1>2. /\ req = [t \in Requests |-> Idle]
      /\ file = [f \in File |-> [deleted |-> FALSE, media |-> TRUE]]
      /\ link = {} /\ todo = {} /\ late = {}
  BY DEF Init
<1>3. FilesOK
  BY <1>2 DEF FilesOK
<1>4. RowsHome
  <2>1. \A r \in Record : r \notin {e, s} /\ r \in Resource
    BY RecordIsResource
  <2> QED BY <1>1, <2>1, NoRowIsRow DEF RowsHome
<1> QED BY <1>2, <1>3, <1>4, IdleMinds DEF CaptureOK

LEMMA CaptureRecordStep ==
    ASSUME StoreOK, GuardOK, CaptureOK, NEW t \in Requests, RecordStep(t)
    PROVE  CaptureOK'
PROOF
<1>1. ASSUME NEW r \in Record, RecordCreate(t, r) \/ RecordUpdate(t, r) \/ RecordDelete(t, r)
      PROVE  CaptureOK'
  BY <1>1, RecordCreateMinds, RecordUpdateMinds, RecordDeleteMinds
<1>2. CASE EnsureLink(t)
  BY <1>2, EnsureLinkMinds
<1>3. CASE ClearRepresentative(t)
  BY <1>3, ClearRepresentativeMinds
<1>4. CASE RecordInsert(t)
  BY <1>4, RecordInsertMinds
<1>5. CASE UpdateIfRevision(t)
  BY <1>5, UpdateIfRevisionMinds
<1>6. CASE RecordDeleteFlush(t)
  BY <1>6, RecordDeleteFlushMinds
<1>7. CASE RecordCommit(t)
  BY <1>7, RecordCommitMinds
<1>8. CASE CleanupPreserve(t) \/ CleanupUnlink(t)
  BY <1>8, CleanupPreserveMinds, CleanupUnlinkMinds
<1>9. CASE CleanupDelete(t) \/ CleanupCommit(t)
  BY <1>9, CleanupDeleteMinds, CleanupCommitMinds
<1>10. ASSUME NEW f \in File, SyncObservationStatus(t, f) PROVE CaptureOK'
  BY <1>10, SyncMinds
<1> QED BY <1>1, <1>2, <1>3, <1>4, <1>5, <1>6, <1>7, <1>8, <1>9, <1>10, Zenon DEF RecordStep

LEMMA CaptureStep ==
    ASSUME StoreOK, GuardOK, CaptureOK, [Next]_vars
    PROVE  CaptureOK'
PROOF
<1>1. ASSUME NEW t \in Requests, RecordStep(t) PROVE CaptureOK'
  BY <1>1, CaptureRecordStep
<1>2. ASSUME NEW t \in Requests, ResetStep(t) PROVE CaptureOK'
  BY <1>2, ResetBeginMinds, ResetLockMinds, ResetScanMinds, ResetDeleteAssetsMinds,
     ResetCommitMinds DEF ResetStep
<1>3. ASSUME NEW t \in Requests, MasterCommit(t) \/ Abort(t) PROVE CaptureOK'
  BY <1>3, MasterCommitMinds, AbortMinds
<1>4. ASSUME NEW t \in Requests, MasterStep(t), UNCHANGED captureVars PROVE CaptureOK'
  BY <1>4, MasterStepMinds
<1>5. CASE \/ \E c \in Clients : ListChanges(c) /\ UNCHANGED captureVars
           \/ UNCHANGED vars
  <2>1. UNCHANGED <<row, req, file, link, upload, todo, scope, restored, late>>
    BY <1>5 DEF ListChanges, vars, storeVars, captureVars
  <2> QED BY <2>1, QueuesMind
<1>6. CASE Environment
  BY <1>6, EnvironmentMinds
<1> QED BY <1>1, <1>2, <1>3, <1>4, <1>5, <1>6, Zenon DEF Next

(* The steps that take the media of a file.                                *)
LEMMA MediaSteps ==
    ASSUME CaptureOK, [Next]_vars, NEW f \in File, file[f].media, ~file'[f].media
    PROVE  \E t \in Requests : \/ CleanupDelete(t) /\ f = CleanupFile(t)
                               \/ ResetDeleteAssets(t) /\ f \in todo
PROOF
<1>1. file \in [File -> [deleted: BOOLEAN, media: BOOLEAN]]
  BY DEF CaptureOK, FilesOK
<1>2. file' # file
  OBVIOUS
<1>3. ASSUME NEW t \in Requests, RecordStep(t)
      PROVE  CleanupDelete(t) /\ f = CleanupFile(t)
  <2>1. CASE CleanupCommit(t)
    BY <1>1, <2>1 DEF CleanupCommit
  <2>2. CASE CleanupDelete(t)
    BY <1>1, <2>2 DEF CleanupDelete
  <2>3. \A r \in Record : ~RecordCreate(t, r) /\ ~RecordUpdate(t, r) /\ ~RecordDelete(t, r)
    <3>1. \A r \in Record : RecordCreate(t, r) \/ RecordUpdate(t, r) \/ RecordDelete(t, r)
                            => UNCHANGED captureVars
      BY ZenonT(30) DEF RecordCreate, RecordUpdate, RecordDelete
    <3>2. ~UNCHANGED captureVars
      BY <1>2 DEF captureVars
    <3> QED BY <3>1, <3>2, Zenon
  <2>4. ~EnsureLink(t) /\ ~ClearRepresentative(t) /\ ~RecordInsert(t) /\ ~UpdateIfRevision(t)
    BY <1>2 DEF EnsureLink, ClearRepresentative, RecordInsert, UpdateIfRevision, captureVars
  <2>5. ~RecordDeleteFlush(t) /\ ~RecordCommit(t) /\ ~CleanupPreserve(t) /\ ~CleanupUnlink(t)
    BY <1>2 DEF RecordDeleteFlush, RecordCommit, CleanupPreserve, CleanupUnlink, captureVars
  <2>6. \A g \in File : ~SyncObservationStatus(t, g)
    BY <1>2 DEF SyncObservationStatus, captureVars
  <2> QED BY <1>3, <2>1, <2>2, <2>3, <2>4, <2>5, <2>6, Zenon DEF RecordStep
<1>4. ASSUME NEW t \in Requests, ResetStep(t)
      PROVE  ResetDeleteAssets(t) /\ f \in todo
  <2>1. CASE ResetCommit(t)
    BY <1>1, <2>1 DEF ResetCommit
  <2>2. CASE ResetDeleteAssets(t)
    BY <1>1, <2>2 DEF ResetDeleteAssets
  <2>3. ~ResetBegin(t) /\ ~ResetLock(t) /\ ~ResetScan(t)
    BY <1>2 DEF ResetBegin, ResetLock, ResetScan, captureVars
  <2> QED BY <1>4, <2>1, <2>2, <2>3 DEF ResetStep
<1>5. ~UNCHANGED captureVars /\ ~UNCHANGED vars
  BY <1>2 DEF captureVars, vars
<1>6. \A t \in Requests : ~MasterCommit(t) /\ ~Abort(t)
  BY <1>2, <1>5 DEF MasterCommit, Abort
<1>7. ~Environment
  <2>1. \A g \in File : ~PlateClaim(g) /\ ~PlateEnd(g) /\ ~VisionToggle(g)
    BY <1>2 DEF PlateClaim, PlateEnd, VisionToggle
  <2>2. \A g \in File : ~RestoreFile(g)
    BY <1>1 DEF RestoreFile
  <2>3. \A g \in File, svc \in Services : ~StoreFile(g, svc)
    BY <1>2 DEF StoreFile
  <2>4. ~UploadAccept /\ ~UploadClaim /\ ~UploadEnd
    BY <1>2 DEF UploadAccept, UploadClaim, UploadEnd
  <2> QED BY <2>1, <2>2, <2>3, <2>4 DEF Environment
<1> QED BY <1>3, <1>4, <1>5, <1>6, <1>7, Zenon DEF Next

(* The files of the records and the media, at every step. *)
LEMMA CaptureInOrder == Spec => []CaptureOK
<1>1. Init => CaptureOK
  BY CaptureInit
<1>2. StoreOK /\ GuardOK /\ CaptureOK /\ [Next]_vars => CaptureOK'
  BY CaptureStep
<1> QED BY <1>1, <1>2, StoreInOrder, PTL DEF Spec

(* Theorem: a live record's file is registered and linked to AstroJournal, *)
(* unless a cleanup or a Reset overtook the record's create, which had     *)
(* given up the Reset lock when ensure_link committed.                     *)
THEOREM RecordsHaveHomes == Spec => []HomeIntact
<1>1. CaptureOK => HomeIntact
  BY DEF CaptureOK, RowsHome, Home, Live, HomeIntact
<1> QED BY <1>1, CaptureInOrder, PTL

(* Theorem: a file whose media a failed cleanup or Reset has deleted is    *)
(* still linked by some service, or about to be by the upload that         *)
(* restored it: a later request finds it.                                  *)
THEOREM LossesAreRetryable == Spec => []LossIsRetryable
<1>1. CaptureOK => LossIsRetryable
  BY DEF CaptureOK, FilesOK, Kept, Linked, LossIsRetryable
<1> QED BY <1>1, CaptureInOrder, PTL

(* Theorem: media that another service links are never deleted, nor those  *)
(* of a live record except by a Reset, but for the file of a record that a *)
(* cleanup or a Reset overtook.                                            *)
THEOREM MediaAreShared == Spec => SharedMediaKept
<1>1. ASSUME CaptureOK, [Next]_vars, NEW f \in File, file[f].media, ~file'[f].media
      PROVE  \/ /\ ~OtherService(f)
                /\ LiveReferrers(f, Record) = {} \/ f \in todo
             \/ \E r \in late : f \in row[r].to
  <2>1. PICK t \in Requests : \/ CleanupDelete(t) /\ f = CleanupFile(t)
                              \/ ResetDeleteAssets(t) /\ f \in todo
    BY <1>1, MediaSteps
  <2>2. CASE CleanupDelete(t) /\ f = CleanupFile(t)
    BY <2>2 DEF CleanupDelete, PreservedByUse
  <2>3. CASE ResetDeleteAssets(t) /\ f \in todo
    <3>1. req[t].pc = "deleting" /\ Deletes(req[t])
      BY <1>1, <2>3 DEF ResetDeleteAssets, CaptureOK, Minds
    <3> QED BY <2>3, <3>1 DEF Deletes, LateUse
  <2> QED BY <2>1, <2>2, <2>3
<1>2. CaptureOK /\ [Next]_vars =>
        [\A f \in File : file[f].media /\ ~file'[f].media =>
           \/ /\ ~OtherService(f)
              /\ LiveReferrers(f, Record) = {} \/ f \in todo
           \/ \E r \in late : f \in row[r].to]_vars
  BY <1>1
<1> QED BY <1>2, CaptureInOrder, PTL DEF Spec, SharedMediaKept

===============================================================================
