----------------------------- MODULE MCTempFiles -----------------------------
(* A private file and an image, two uses of them and two crashes (a start  *)
(* that is killed while it purges is the second); the purge instance has the *)
(* file alone.                                                               *)
EXTENDS TempFiles, TLC

Symmetric == Permutations(Request)
=============================================================================
