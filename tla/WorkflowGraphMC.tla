--------------------------- MODULE WorkflowGraphMC ---------------------------
(* Small instances of WorkflowGraph for TLC. *)
EXTENDS WorkflowGraph

CONSTANTS a1, a2, b1, b2
OnlyTheFirst == [b \in Bundles |-> IF b = b1 THEN {a1} ELSE {a1, a2}]

=============================================================================
