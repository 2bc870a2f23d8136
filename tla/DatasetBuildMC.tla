---------------------------- MODULE DatasetBuildMC ---------------------------
(* Small instances of DatasetBuild for TLC, in two settings: a conversation   *)
(* about one report is asked while one process works on that report; or two   *)
(* processes work on two reports made from one file, one job less, and nobody *)
(* asks or edits.  Only what begins is restricted, never what goes on.        *)
EXTENDS DatasetBuild

CONSTANTS d1, d2, p1, p2, s1, s2

VARIABLE setting   \* "answers" or "builds"

AllAboutD1 == [s \in Sessions |-> d1]

OneReportAsked == \A p \in Processes : proc'[p] # proc[p] => p = p1 /\ proc'[p].of \in {0, d1}
TwoReportsBuilt ==
  /\ jobs' < MaxJobs /\ UNCHANGED <<session, chat, edits>>
  /\ \A p \in Processes : proc'[p].rec.path # 2

(* Only gc asks how old a collection is: it grows old under one, not before. *)
OldForGc ==
  \A b \in Builds : builds'[b].old /\ ~builds[b].old => \E p \in Processes : proc[p].kind = "gc"

SettingInit == Init /\ setting \in {"answers", "builds"}
SettingNext ==
  /\ UNCHANGED setting
  /\ Next /\ OldForGc
  /\ setting = "answers" => OneReportAsked
  /\ setting = "builds" => TwoReportsBuilt
SettingSpec == SettingInit /\ [][SettingNext]_<<vars, setting>>

(* A process goes on with what it began; flock gives a free lock to one that *)
(* waits, and the bound on jobs ends the competition for it.                 *)
WorkGoesOn ==
  /\ WF_vars(setting = "answers" /\ ProcessStep(p1))
  /\ WF_vars(setting = "answers" /\ ChatStep)

(* Work on a report ends, done or failed, also when the chat wants its lock.  *)
WorkEnds == []<>(setting = "answers" => At(p1, "idle"))
=============================================================================
