-------------------------- MODULE MCPrintTracking --------------------------
(* Small instances of PrintTracking.                                       *)
EXTENDS PrintTracking, TLC

CONSTANTS j1, j2, d1, d2

(* Two jobs of one model, and two of different models.                     *)
SameNames == [j \in Job |-> "model"]
OwnNames == [j \in Job |-> j]

(* Jobs differ by their names only, which are all equal or all different.  *)
JobSymmetry == Permutations(Job)
=============================================================================
