----------------------------- MODULE AstroStore -----------------------------
(***************************************************************************)
(* The AstroJournal side of the PostgreSQL database: one row per resource  *)
(* (equipment, observation site, framing reference, catalog favorite,      *)
(* observation record), the transactions of the API handlers and of the    *)
(* Plate Solve worker that are under way, and the append-only change feed  *)
(* with the cursors of its clients.                                        *)
(*                                                                         *)
(* A handler takes three kinds of steps: it reads (and locks) what it      *)
(* checks, it flushes its writes, which takes row locks and draws the ids  *)
(* of its change events from the sequence, and it commits.  Only a commit  *)
(* is visible to the others (READ COMMITTED).                              *)
(***************************************************************************)
EXTENDS Naturals, Sequences, FiniteSets, SequencesExt

CONSTANTS
    Equipment, Site, Reference, Favorite, Record, \* ids a client may use
    File,        \* rows of common_files
    Catalog,     \* catalog_object_id values
    NoCatalog,   \* its null
    Requests,    \* transactions that can be open at the same time
    Clients,     \* readers of GET /api/common/changes
    Limit,       \* their page size
    MaxFlushes   \* bound on the transactions that write

Resource == Equipment \cup Site \cup Reference \cup Favorite \cup Record

ASSUME StoreAssumption ==
    /\ Limit \in Nat \ {0}
    /\ MaxFlushes \in Nat
    /\ NoCatalog \notin Catalog
    /\ IsFiniteSet(Site) /\ IsFiniteSet(Record)

(* Every table has ids of its own; "reset" is the resource id of no row.   *)
ASSUME TablesAssumption ==
    /\ Equipment \cap (Site \cup Reference \cup Favorite \cup Record \cup File) = {}
    /\ Site \cap (Reference \cup Favorite \cup Record \cup File) = {}
    /\ Reference \cap (Favorite \cup Record \cup File) = {}
    /\ Favorite \cap (Record \cup File) = {}
    /\ Record \cap File = {}
    /\ "reset" \notin Resource

VARIABLES
    row,       \* the committed row of each resource
    req,       \* the open transactions
    seq,       \* last id drawn from the sequence of common_change_events
    log,       \* the committed change events
    cursor,    \* each client's cursor
    seen,      \* the events each client received
    inflight,  \* history: ids drawn but not committed when the client read
    flushes    \* number of flushes so far (bound)

storeVars == <<row, req, seq, log, cursor, seen, inflight, flushes>>

(* A row: absent, live or a tombstone; its revision; is_active of an       *)
(* Equipment, representative of a Record; the rows its foreign keys name;  *)
(* its catalog object.                                                     *)
Row == [st: {"none", "live", "dead"}, rev: Nat, on: BOOLEAN,
        to: SUBSET (Resource \cup File), cat: Catalog \cup {NoCatalog}]

NoRow == [st |-> "none", rev |-> 0, on |-> FALSE, to |-> {}, cat |-> NoCatalog]

(* A row as a handler inserts it: revision 1, no deleted_at. *)
NewRow(on, to, cat) == [st |-> "live", rev |-> 1, on |-> on, to |-> to, cat |-> cat]

Live(r) == row[r].st = "live"

(* The live rows that name x in a foreign key. *)
LiveReferrers(x, kind) == {r \in kind : Live(r) /\ x \in row[r].to}

Idle == [pc |-> "idle", op |-> "none", at |-> {}, base |-> 0, arg |-> NoRow,
         write |-> << >>, events |-> {}, lock |-> {}, share |-> {}, adv |-> "none",
         fails |-> {}]

----------------------------------------------------------------------------
(* Row locks.  FOR UPDATE and a written row exclude everyone; the check of *)
(* a foreign key takes FOR KEY SHARE on the row it names.                  *)

CanLock(t, S) ==
    \A u \in Requests \ {t} : S \cap (req[u].lock \cup req[u].share) = {}

CanShare(t, S) ==
    \A u \in Requests \ {t} : S \cap req[u].lock = {}

(* The events of one flush draw consecutive ids in the order the handler   *)
(* appends them.                                                           *)
Append_(es) == {[es[i] EXCEPT !.id = seq + i] : i \in DOMAIN es}

Event(r, op, rev, base) == [id |-> 0, at |-> r, op |-> op, rev |-> rev, base |-> base]

(* The write of one row, and of one more than w has. *)
WriteOf(r, new) == [q \in {r} |-> new]

AlsoWrite(w, r, new) == [q \in DOMAIN w \cup {r} |-> IF q = r THEN new ELSE w[q]]

(* db.flush(): the writes w of the transaction t, its events es, the rows  *)
(* its foreign keys share, the files whose waiting Plate Solve job it      *)
(* fails.                                                                  *)
FlushAndFail(t, w, es, shared, fails) ==
    /\ flushes < MaxFlushes
    /\ req' = [req EXCEPT ![t].pc = "flushed", ![t].write = w, ![t].events = Append_(es),
                          ![t].lock = @ \cup DOMAIN w, ![t].share = @ \cup shared,
                          ![t].fails = fails]
    /\ seq' = seq + Len(es)
    /\ flushes' = flushes + 1
    /\ UNCHANGED <<row, log, cursor, seen, inflight>>

Flush(t, w, es, shared) == FlushAndFail(t, w, es, shared, {})

(* db.commit() of a handler that has flushed: rows and events appear       *)
(* together, the locks go.                                                 *)
CommitRows(t) ==
    /\ row' = [r \in Resource |->
                 IF r \in DOMAIN req[t].write THEN req[t].write[r] ELSE row[r]]
    /\ log' = log \cup req[t].events
    /\ UNCHANGED <<seq, cursor, seen, inflight, flushes>>

Commit(t) ==
    /\ req[t].pc = "flushed"
    /\ CommitRows(t)
    /\ req' = [req EXCEPT ![t] = Idle]

(* db.rollback(): an IntegrityError, an HTTPException raised inside the    *)
(* transaction, a deadlock victim, a lost connection or a crash.  The ids  *)
(* it drew are never used.                                                 *)
Rollback(t) ==
    /\ req[t].pc # "idle"
    /\ req' = [req EXCEPT ![t] = Idle]
    /\ UNCHANGED <<row, seq, log, cursor, seen, inflight, flushes>>

Begin(t, r) ==
    /\ req[t].pc = "idle"
    /\ req' = [req EXCEPT ![t] = r]
    /\ UNCHANGED <<row, seq, log, cursor, seen, inflight, flushes>>

----------------------------------------------------------------------------
(* GET /api/common/changes                                                 *)

EventsAfter(n) == {e \in log : e.id > n}

(* The k events of S with the smallest ids. *)
First(k, S) == {e \in S : Cardinality({d \in S : d.id < e.id}) < k}

LastId(n, S) == IF S = {} THEN n ELSE (CHOOSE e \in S : \A d \in S : d.id <= e.id).id

(* Mutant of ListAfter: next_cursor is taken from the row that only tells  *)
(* whether there is more.                                                  *)
ListAfterKeepsProbe(n) ==
    [items |-> First(Limit, EventsAfter(n)),
     next |-> LastId(n, First(Limit + 1, EventsAfter(n)))]

ListAfter(n) ==
    LET items == First(Limit, EventsAfter(n))
    IN [items |-> items, next |-> LastId(n, items)]

ListChanges(c) ==
    LET page == ListAfter(cursor[c]) IN
    /\ page.next # cursor[c]
    /\ cursor' = [cursor EXCEPT ![c] = page.next]
    /\ seen' = [seen EXCEPT ![c] = @ \cup {e.id : e \in page.items}]
    /\ inflight' = [inflight EXCEPT ![c] =
                       @ \cup {e.id : e \in UNION {req[t].events : t \in Requests}}]
    /\ UNCHANGED <<row, req, seq, log, flushes>>

============================================================================
