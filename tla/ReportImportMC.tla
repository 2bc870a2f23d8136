---------------------------- MODULE ReportImportMC ----------------------------
(* What an import comes to, in two parts that share no state: the jobs that   *)
(* convert one document (SharedDocumentMC), and the reports that are built    *)
(* and asked (DatasetBuildMC).  Every behaviour is of one part, with the      *)
(* other at rest.                                                            *)
EXTENDS DatasetBuildMC

CONSTANTS worker, cli, NoRemote

VARIABLES
  part,   \* the part that runs
  job, attempt, adopted, noted, slots, files, remote, jobLock, docLock, runner, admin, deaths,
  running   \* those of SharedDocumentMC

Imported == INSTANCE SharedDocumentMC WITH
  Jobs <- {1, 2}, Documents <- {d1}, DocumentOf <- [j \in {1, 2} |-> d1], Public <- {d1},
  Parts <- {1}, Worker <- worker, Clis <- {cli}, CalledFor <- 2, SlotLimit <- 2, MaxCrashes <- 0,
  crashes <- deaths, setting <- running

importVars == <<job, attempt, adopted, noted, slots, files, remote, jobLock, docLock, runner,
                admin, deaths, running>>
reportVars == <<vars, setting>>

PartInit ==
  /\ SettingInit /\ Imported!SettingInit
  /\ \/ part = "reports" /\ running = "shared" /\ files[d1].text
     \/ part = "imports" /\ setting = "builds"

PartNext ==
  /\ UNCHANGED part
  /\ \/ part = "reports" /\ SettingNext /\ UNCHANGED importVars
     \/ part = "imports" /\ Imported!SettingNext /\ UNCHANGED reportVars

PartSpec ==
  /\ PartInit /\ [][PartNext]_<<reportVars, importVars, part>>
  /\ WorkGoesOn

ConfirmedIsPaid == Imported!ConfirmedIsPaid
SlotsAreEnough == Imported!SlotsAreEnough
NeverPaidAgain == Imported!NeverPaidAgain
===============================================================================
