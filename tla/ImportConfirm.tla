---------------------------- MODULE ImportConfirm ----------------------------
(***************************************************************************)
(* What a confirmed import promises, with the two databases taken as one:  *)
(* a reserved job is either linked to a conversation and then dispatched,  *)
(* or cancelled; dispatch and cancellation are both final, and exclude     *)
(* each other.  api/handoff.py implements this (see ImportHandoff).        *)
(***************************************************************************)
CONSTANT Keys

VARIABLES
  linked,   \* keys some conversation was linked to
  outcome   \* what became of the job of each key

vars == <<linked, outcome>>

Outcomes == {"absent", "reserved", "dispatched", "cancelled"}

Init ==
  /\ linked = {}
  /\ outcome = [k \in Keys |-> "absent"]

Reserve(k) ==
  /\ outcome[k] = "absent"
  /\ outcome' = [outcome EXCEPT ![k] = "reserved"]
  /\ UNCHANGED linked

(* Linking waits for the reservation, but nothing forbids linking again. *)
Link(k) ==
  /\ outcome[k] # "absent"
  /\ linked' = linked \union {k}
  /\ UNCHANGED outcome

Dispatch(k) ==
  /\ outcome[k] = "reserved"
  /\ k \in linked
  /\ outcome' = [outcome EXCEPT ![k] = "dispatched"]
  /\ UNCHANGED linked

Cancel(k) ==
  /\ outcome[k] = "reserved"
  /\ outcome' = [outcome EXCEPT ![k] = "cancelled"]
  /\ UNCHANGED linked

Next == \E k \in Keys : Reserve(k) \/ Link(k) \/ Dispatch(k) \/ Cancel(k)

Spec == Init /\ [][Next]_vars
=============================================================================
