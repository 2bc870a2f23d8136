--------------------------- MODULE SharedDocumentMC ---------------------------
(* Two jobs for one public document, in two settings of ImportRuns: with a   *)
(* slot for each and a CLI process, called for one of them, beside the       *)
(* worker; and with the worker alone and one slot for both, which one crash   *)
(* may leave behind.                                                         *)
EXTENDS ImportRunsMC

CONSTANTS cli, CalledFor   \* the CLI process, and the job it is called for

VARIABLE setting   \* "shared" or "slots"

Slots == INSTANCE ImportRuns WITH Clis <- {}, SlotLimit <- 1, MaxCrashes <- 1

SettingInit ==
  \/ setting = "shared" /\ Init
  \/ setting = "slots" /\ Slots!Init

SettingNext ==
  /\ UNCHANGED setting
  /\ \/ setting = "shared" /\ Next /\ runner'[cli].job \in {0, CalledFor}
     \/ setting = "slots" /\ Slots!Next

SettingSpec == SettingInit /\ [][SettingNext]_<<vars, setting>>

(* Of two jobs that share one slot only one has a parse at the provider.     *)
SlotsAreEnough == setting = "slots" => Slots!RunningWithinLimit
=============================================================================
