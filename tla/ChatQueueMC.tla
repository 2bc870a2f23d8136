----------------------------- MODULE ChatQueueMC -----------------------------
(* Small instances of ChatQueue for TLC. *)
EXTENDS ChatQueue, TLC

(* The conversation of each key, and names for what is interchangeable.      *)
CONSTANTS s1, k1, k2, r1, r2, w1, w2
OneConversation == [k \in Keys |-> s1]

NameSymmetry == Permutations(Requests) \union Permutations(Workers)

(* Requests, keys and workers are interchangeable, which TLC's SYMMETRY may   *)
(* not exploit under fairness: r1 is the first to ask, and asks with k1, and *)
(* w1 the first of two stopped workers to start.                             *)
NamesInOrder ==
  /\ req'[r2].pc # "new" => req'[r1].pc # "new"
  /\ req'[r1].key # k2
  /\ worker[w1].pc = "down" => worker'[w2].pc = "down" \/ worker[w2].pc # "down"

NextInOrder == Next /\ NamesInOrder
OrderedSpec == Init /\ [][NextInOrder]_vars /\ Fairness
=============================================================================
