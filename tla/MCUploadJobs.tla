----------------------------- MODULE MCUploadJobs -----------------------------
(* Instances of UploadJobs for TLC.                                        *)
EXTENDS UploadJobs, TLC

CONSTANTS w1, w2, r1, r2, r3, k1, h1, h2

AllForms == ValidForm

(* AstroJournal uploads and mobile ones without a key, and keyed ones with *)
(* and without a hash.                                                     *)
QueueForms ==
    {f \in ValidForm : \/ f.service = "AstroJournal" /\ f.key = NoKey /\ f.hash = NoHash
                       \/ f.source = "UPLOAD_MOBILE" /\ f.key = NoKey /\ f.hash # NoHash
                       \/ f.service = "MemoryKeeper" /\ f.source = "UPLOAD" /\ f.key # NoKey}

(* Clients and workers are interchangeable, and so are two hashes.         *)
ClientSymmetry == Permutations(Request) \cup Permutations(Hash)
QueueSymmetry == Permutations(Worker) \cup Permutations(Request)
===============================================================================
