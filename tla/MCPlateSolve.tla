----------------------------- MODULE MCPlateSolve -----------------------------
(* Instances of PlateSolve for TLC: the workers and requests of one file.  *)
EXTENDS PlateSolve, TLC

CONSTANTS w1, w2, r1, r2, r3, f1

PlateSymmetry == Permutations(Worker) \cup Permutations(Request)
===============================================================================
