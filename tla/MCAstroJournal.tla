--------------------------- MODULE MCAstroJournal ---------------------------
(* TLC instances of AstroJournal.  A behaviour either stays with the master *)
(* data and the change feed, or with the capture data: records of one       *)
(* catalog object, their cleanup and Reset.  In the second, Vision and      *)
(* upload jobs, which only block a cleanup or a Reset, meet one write.      *)
EXTENDS AstroJournal

Symmetry == Permutations(Requests) \cup Permutations(Record)

Under(S) == {r \in S : \E t \in Requests : r \in req[t].at}

CaptureIsStill ==
    /\ Under(Record) = {} /\ \A t \in Requests : req[t].op # "reset"
    /\ \A r \in Record : row[r] = NoRow
    /\ link = {} /\ upload.st = "none" /\ vision = {} /\ late = {}
    /\ resets = 0 /\ stores = 0 /\ \A f \in File : plate[f] = "none" /\ file[f].media

MasterIsStill ==
    /\ Under(Master \cup Favorite) = {}
    /\ \A r \in Master \cup Favorite : row[r].rev <= 1 /\ (row[r].rev = 1 => r \in Equipment \cup Site)
    /\ cursor = [c \in Clients |-> 2]

OneObject ==
    /\ \A r \in Record : row[r].to \cap Equipment = {} /\ (row[r] # NoRow => row[r].cat # NoCatalog)
    /\ \A t \in Requests : req[t].arg.to \cap Equipment = {}
                           /\ (req[t].at \cap Record # {} => req[t].arg.cat # NoCatalog)

FewJobs ==
    /\ vision # {} => upload.st = "none" /\ flushes <= 1
    /\ upload.st # "none" => flushes = 0
    /\ resets > 0 /\ stores > 0 => flushes <= 1

(* A third write is one to a single record, with nothing else going on. *)
OneRecord ==
    /\ Cardinality({r \in Record : row[r] # NoRow} \cup Under(Record)) <= 1
    /\ upload.st = "none" /\ vision = {} /\ resets = 0 /\ stores = 0
    /\ \A t \in Requests : req[t].op # "reset"
    /\ \A f \in File : plate[f] \in {"none", "WAITING"}

Focus ==
    \/ CaptureIsStill
    \/ MasterIsStill /\ OneObject /\ FewJobs /\ (flushes <= 2 \/ OneRecord)

============================================================================
