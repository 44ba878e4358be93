-------------------------- MODULE MCButtonRequests --------------------------
(* Small instances of ButtonRequests for TLC.                              *)
EXTENDS ButtonRequests

CONSTANTS q1, q2, f1

\* both cards are about the same file
SameFile == [c \in Card |-> f1]
=============================================================================
