------------------------------ MODULE SynthAnswer ------------------------------
(***************************************************************************)
(* How the synthesizer settles on an answer (agents/synth_runner.py): a      *)
(* model call, up to two repairs by the model, and the choice between the    *)
(* decisions it wrote.  Every call may fall back from structured output to   *)
(* plain JSON (core/llm/invoke.py), and what a call learns about the model   *)
(* holds for the process, whose other threads call it too.  A decision is    *)
(* what the quality checks count in it.                                      *)
(***************************************************************************)
EXTENDS Integers, Sequences

CONSTANT MaxFaults   \* bound: violations of one kind in a decision

ASSUME SynthAssumption == MaxFaults \in Nat \ {0}

VARIABLES
  supported,  \* _STRUCTURED_OUTPUT_SUPPORTED: unknown, yes or no
  written,    \* the decisions: initial, general repair, targeted repair
  synth,      \* where the synthesizer is
  requests,   \* provider requests so far
  accepted    \* which decision it goes on with, or 0

synthVars == <<supported, written, synth, requests, accepted>>

Counts == 0..MaxFaults

(* An unusable decision is itself a critical violation.                      *)
Decisions ==
  {d \in [usable : BOOLEAN, critical : Counts, aspects : Counts, layout : Counts] :
     d.usable \/ d.critical > 0}

SynthTypeOK ==
  /\ supported \in {"unknown", "yes", "no"}
  /\ written \in Seq(Decisions) /\ Len(written) <= 3
  /\ synth \in {"invoke", "structured", "plain", "judge", "done"}
  /\ requests \in 0..6 /\ accepted \in 0..Len(written)

SynthInit ==
  /\ supported = "unknown" /\ written = << >> /\ synth = "invoke"
  /\ requests = 0 /\ accepted = 0

-----------------------------------------------------------------------------
(* One call (_invoke_synth, invoke_prompt).                                 *)

Invoke ==
  /\ synth = "invoke"
  /\ synth' = IF supported = "no" THEN "plain" ELSE "structured"
  /\ UNCHANGED <<supported, written, requests, accepted>>

Requested(from) == synth = from /\ requests' = requests + 1 /\ UNCHANGED accepted

(* The reply parsed, or was recovered from its raw text.                     *)
StructuredReply ==
  /\ Requested("structured")
  /\ \E d \in Decisions : written' = Append(written, d)
  /\ supported' = "yes" /\ synth' = "judge"

(* A reply that is no decision, or an exception about the schema or the      *)
(* parsing: the same prompt again, as plain JSON.                            *)
StructuredRefused ==
  /\ Requested("structured")
  /\ supported' \in {"yes", "no", supported} /\ synth' = "plain"
  /\ UNCHANGED written

(* Any other exception of either request is an error decision.               *)
RequestFails ==
  /\ \E from \in {"structured", "plain"} : Requested(from)
  /\ \E d \in Decisions : ~d.usable /\ written' = Append(written, d)
  /\ synth' = "judge" /\ UNCHANGED supported

PlainReply ==
  /\ Requested("plain")
  /\ \E d \in Decisions : written' = Append(written, d)
  /\ synth' = "judge" /\ UNCHANGED supported

(* Another thread of the process called the same model.                      *)
OthersLearn ==
  /\ synth # "done" /\ supported' \in {"yes", "no"}
  /\ UNCHANGED <<written, synth, requests, accepted>>

-----------------------------------------------------------------------------
(* The repairs and the choice (_retry_synth_quality_once).                  *)

Clean(d) == d.usable /\ d.critical + d.aspects + d.layout = 0

(* (mutated form: the sections come before the figures)                      *)
Better_SectionsFirst(d, e) ==
  \/ d.aspects < e.aspects
  \/ d.aspects = e.aspects /\ d.critical < e.critical
  \/ d.aspects = e.aspects /\ d.critical = e.critical /\ d.layout < e.layout

(* _score_synth_candidate: a wrong claim outranks a lost section, which      *)
(* outranks the layout.                                                      *)
Better(d, e) ==
  \/ d.critical < e.critical
  \/ d.critical = e.critical /\ d.aspects < e.aspects
  \/ d.critical = e.critical /\ d.aspects = e.aspects /\ d.layout < e.layout

(* The general rewrite lost sections the first answer had.                   *)
AspectRegression ==
  Len(written) = 2 /\ written[1].usable /\ written[2].usable
    /\ written[2].aspects > written[1].aspects

Repair ==
  /\ synth = "judge"
  /\ (Len(written) = 1 /\ ~Clean(written[1])) \/ AspectRegression
  /\ synth' = "invoke"
  /\ UNCHANGED <<supported, written, requests, accepted>>

AcceptInitial ==
  /\ synth = "judge" /\ Len(written) = 1 /\ Clean(written[1])
  /\ accepted' = 1 /\ synth' = "done"
  /\ UNCHANGED <<supported, written, requests>>

Candidates == {i \in DOMAIN written : written[i].usable}

(* The best usable decision, the newest of equals; the repair if none is.    *)
Choose ==
  /\ synth = "judge" /\ Len(written) >= 2 /\ ~AspectRegression
  /\ accepted' = IF Candidates = {} THEN 2
                 ELSE CHOOSE i \in Candidates :
                        \A j \in Candidates \ {i} :
                          /\ ~Better(written[j], written[i])
                          /\ j > i => Better(written[i], written[j])
  /\ synth' = "done" /\ UNCHANGED <<supported, written, requests>>

SynthNext ==
  \/ Invoke \/ StructuredReply \/ StructuredRefused \/ RequestFails \/ PlainReply
  \/ OthersLearn \/ Repair \/ AcceptInitial \/ Choose

SynthSpec == SynthInit /\ [][SynthNext]_synthVars

-----------------------------------------------------------------------------
(* A repair never makes the answer worse: whichever calls failed and however *)
(* many repairs were made, the decision the synthesizer goes on with is      *)
(* usable if any was, and no usable one had fewer wrong or falsely missing   *)
(* claims, or as few and more of the required sections.                      *)
BestAnswerIsKept ==
  synth = "done" =>
    \A i \in DOMAIN written :
      written[i].usable =>
        /\ written[accepted].usable
        /\ written[accepted].critical <= written[i].critical
        /\ written[accepted].critical = written[i].critical
             => written[accepted].aspects <= written[i].aspects
=============================================================================
