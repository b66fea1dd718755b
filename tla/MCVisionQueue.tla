----------------------------- MODULE MCVisionQueue -----------------------------
(* The instance of VisionQueue for TLC: two workers and two upload runs of *)
(* one file.  Without symmetry, which liveness does not allow.             *)
EXTENDS VisionQueue

CONSTANTS w1, w2, i1, i2, f1
===============================================================================
