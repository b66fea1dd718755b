------------------------------- MODULE Photos -------------------------------
(***************************************************************************)
(* What the parts of MemoryKeeper share: the photos that exist, that is    *)
(* the rows of common_files with a MemoryKeeper link, and the way an ORM   *)
(* session writes a row back.  Places, CaptureDates and Tags keep a        *)
(* photo's other rows, each with its own writers.                          *)
(***************************************************************************)
EXTENDS Integers, FiniteSets, FiniteSetsExt

CONSTANTS
    File,       \* ids of common_files, positive numbers
    Workers,    \* sessions: upload workers, request handlers
    MaxChanges  \* bound on the steps that commit

ASSUME PhotosAssumption == File \subseteq Nat \ {0} /\ MaxChanges \in Nat

VARIABLES
    live,    \* photos that are not deleted and have their link
    changes  \* number of commits so far (bound)

None == 0    \* NULL, for ids, years and dates

Count == changes < MaxChanges /\ changes' = changes + 1

(* The UPDATE of a flush names the columns that differ from what the       *)
(* session read; a column somebody else wrote meanwhile keeps its value    *)
(* unless it is among them.                                                *)
WriteColumns(now, snap, new) ==
    [c \in DOMAIN now |-> IF new[c] # snap[c] THEN new[c] ELSE now[c]]

=============================================================================
