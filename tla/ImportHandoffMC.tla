--------------------------- MODULE ImportHandoffMC ---------------------------
(* Small instances of ImportHandoff for TLC. *)
EXTENDS ImportHandoff
=============================================================================
