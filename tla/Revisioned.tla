----------------------------- MODULE Revisioned -----------------------------
(***************************************************************************)
(* What a revisioned resource of the API promises to the clients that      *)
(* mirror it: an id is created once, is edited while it lives, is buried   *)
(* once and stays buried; every change is one new revision; and every      *)
(* revision is announced in the change feed together with the change.      *)
(* One transaction may change several resources.                           *)
(***************************************************************************)
EXTENDS Naturals

CONSTANT Id

VARIABLES
    st,         \* absent, live or buried
    rev,        \* the revision of each id
    announced   \* the revisions of each id that the feed shows

Init ==
    /\ st \in [Id -> {"none", "live"}]
    /\ rev = [i \in Id |-> IF st[i] = "live" THEN 1 ELSE 0]
    /\ announced = [i \in Id |-> 1..rev[i]]

Create(i) == st[i] = "none" /\ st'[i] = "live"

Edit(i) == st[i] = "live" /\ st'[i] = "live"

Bury(i) == st[i] = "live" /\ st'[i] = "dead"

Change(S) ==
    /\ \A i \in S : /\ Create(i) \/ Edit(i) \/ Bury(i)
                    /\ rev'[i] = rev[i] + 1
                    /\ announced'[i] = announced[i] \cup {rev[i] + 1}
    /\ \A i \in Id \ S : st'[i] = st[i] /\ rev'[i] = rev[i] /\ announced'[i] = announced[i]

Next == \E S \in SUBSET Id : Change(S)

Spec == Init /\ [][Next]_<<st, rev, announced>>

============================================================================
