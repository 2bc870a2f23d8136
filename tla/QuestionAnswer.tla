---------------------------- MODULE QuestionAnswer ----------------------------
(***************************************************************************)
(* What the chat queue promises for a question, with its processes taken    *)
(* as one that never dies: it is taken up at most once, while no other one  *)
(* is, and ends for good with one message or none; news may follow an       *)
(* answer once; a deleted conversation is silent for ever.  api/worker.py   *)
(* and api/chat_runner.py implement this (see ChatQueue).                   *)
(***************************************************************************)
EXTENDS Naturals

CONSTANT Keys

VARIABLES
  phase,    \* of each question: not asked, asked, taken up, ended, or deleted
  answers,  \* messages its run left in the conversation
  updates   \* news messages that followed

vars == <<phase, answers, updates>>

Init ==
  /\ phase = [k \in Keys |-> "none"]
  /\ answers = [k \in Keys |-> 0]
  /\ updates = [k \in Keys |-> 0]

Ask(k) ==
  /\ phase[k] = "none"
  /\ phase' = [phase EXCEPT ![k] = "asked"]
  /\ UNCHANGED <<answers, updates>>

TakeUp(k) ==
  /\ phase[k] = "asked"
  /\ \A o \in Keys : phase[o] # "taken"
  /\ phase' = [phase EXCEPT ![k] = "taken"]
  /\ UNCHANGED <<answers, updates>>

(* With a message, or without one: a failure or an interruption is a status. *)
End(k) ==
  /\ phase[k] = "taken"
  /\ phase' = [phase EXCEPT ![k] = "ended"]
  /\ \/ answers' = [answers EXCEPT ![k] = 1]
     \/ UNCHANGED answers
  /\ UNCHANGED updates

News(k) ==
  /\ phase[k] = "ended" /\ answers[k] = 1 /\ updates[k] = 0
  /\ updates' = [updates EXCEPT ![k] = 1]
  /\ UNCHANGED <<phase, answers>>

(* The questions of one conversation, asked or not. *)
Delete(deleted) ==
  /\ phase' = [k \in Keys |-> IF k \in deleted THEN "gone" ELSE phase[k]]
  /\ answers' = [k \in Keys |-> IF k \in deleted THEN 0 ELSE answers[k]]
  /\ updates' = [k \in Keys |-> IF k \in deleted THEN 0 ELSE updates[k]]

Next ==
  \/ \E k \in Keys : Ask(k) \/ TakeUp(k) \/ End(k) \/ News(k)
  \/ \E deleted \in SUBSET Keys : Delete(deleted)

Spec == Init /\ [][Next]_vars
=============================================================================
