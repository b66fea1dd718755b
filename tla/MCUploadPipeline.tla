--------------------------- MODULE MCUploadPipeline ---------------------------
(* Instances of UploadPipeline for TLC.                                    *)
EXTENDS UploadPipeline, TLC

CONSTANTS w1, w2, r1, r2, k1, h1, h2

(* The hash of a form matters to the pipeline for a mobile upload only.    *)
StoreForms == {f \in ValidForm : f.hash # NoHash => f.source = "UPLOAD_MOBILE"}

(* MemoryKeeper uploads without a declared hash.                           *)
MobileForms == {f \in ValidForm : f.service = "MemoryKeeper" /\ f.hash = NoHash}

Postgres == {[locking |-> TRUE, cross |-> FALSE]}
CopyBetweenDevices == {[locking |-> TRUE, cross |-> TRUE]}
NoAdvisoryLocks == {[locking |-> FALSE, cross |-> FALSE]}
Deployments == Postgres \cup CopyBetweenDevices \cup NoAdvisoryLocks

OneContent ==
    \E h \in Hash : /\ \A j \in JobId : content[j] = h
                    /\ \A c \in Hash \ {h} : files[c].state = "none"
                    /\ \A r \in Request : req[r].hash \in {h, NoHash}

(* A crash or a slow run meets one content, on PostgreSQL with one         *)
(* filesystem; two contents meet the other deployments.                    *)
StoreScope ==
    IF setting \in Postgres THEN OneContent /\ crashes + slow <= 1
    ELSE crashes = 0 /\ slow = 0

(* At most one crash or slow run. *)
OneFault == crashes + slow <= 1

StoreSymmetry ==
    Permutations(Worker) \cup Permutations(Request) \cup Permutations(Hash)
===============================================================================
