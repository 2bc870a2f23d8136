---------------------------- MODULE ImportRunsMC -----------------------------
(* Small instances of ImportRuns for TLC: all jobs import one document. *)
EXTENDS ImportRuns

CONSTANT d1
SameDocument == [j \in Jobs |-> d1]
=============================================================================
