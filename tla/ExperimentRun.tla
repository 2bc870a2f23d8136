---------------------------- MODULE ExperimentRun -----------------------------
(***************************************************************************)
(* The security experiment's runner (evaluation/security/main_run.py,       *)
(* runner.py, key_rotation.py, worker.py and the call budget of             *)
(* core/experiment.py): it takes the cells of a fixed schedule in order,     *)
(* one worker process an attempt, and keeps every result in a file of its    *)
(* own.  It may be interrupted anywhere, its worker with it, and resumed.    *)
(***************************************************************************)
EXTENDS Integers, FiniteSets, Sequences

CONSTANTS
  Cells,         \* the schedule is 1..Cells
  ApiKeys,       \* provider keys
  Budget,        \* model calls of the protocol
  MaxFailed,     \* MAX_FAILED_ATTEMPTS
  MaxLaunches    \* bound: attempts of a cell

ASSUME ExperimentAssumption ==
  {Cells, Budget, MaxFailed, MaxLaunches} \subseteq Nat \ {0} /\ IsFiniteSet(ApiKeys)

VARIABLES
  results,    \* runs/<run_id>/result.json: the status of each attempt of a cell
  dirty,      \* cells whose next run_id has a request without a reply in the prompt log
  used,       \* budget.json: calls counted
  overdrawn,  \* budget.json: exhausted
  spent,      \* key_rotation.json: keys at their limit
  runner      \* the process: its step, its cell, its key, its worker's open request

experimentVars == <<results, dirty, used, overdrawn, spent, runner>>

Schedule == 1..Cells

(* "limited" is an error that names the provider's limit as the worker wrote *)
(* it, "quota" the same once the runner has marked it.                       *)
Failing == {"error", "incomplete", "limited"}
Statuses == Failing \union {"valid", "quota", "budget", "mismatch"}

ExperimentTypeOK ==
  /\ results \in [Schedule -> Seq(Statuses)] /\ dirty \subseteq Schedule
  /\ used \in 0..Budget /\ overdrawn \in BOOLEAN /\ spent \subseteq ApiKeys
  /\ runner.at \in {"off", "cell", "worker", "ended"}
  /\ runner.cell \in 1..Cells + 1 /\ runner.open \in BOOLEAN /\ runner.blocked \in BOOLEAN

Off == [at |-> "off", cell |-> 1, key |-> CHOOSE k \in ApiKeys : TRUE, open |-> FALSE,
        blocked |-> FALSE]

ExperimentInit ==
  /\ results = [c \in Schedule |-> << >>] /\ dirty = {}
  /\ used = 0 /\ overdrawn = FALSE /\ spent = {} /\ runner = Off

Cell == runner.cell
Attempts(c, how) == {a \in DOMAIN results[c] : results[c][a] \in how}
Valid(c) == Attempts(c, {"valid"}) # {}
FailedAttempts(c) == Cardinality(Attempts(c, Failing))

-----------------------------------------------------------------------------
(* The runner, between workers. *)

(* One at a time holds the lock; keys at their limit are tried again on      *)
(* request.                                                                  *)
Resume(again) ==
  /\ runner.at = "off" /\ runner' = [Off EXCEPT !.at = "cell"]
  /\ spent' = IF again THEN {} ELSE spent
  /\ UNCHANGED <<results, dirty, used, overdrawn>>

(* (mutated form: one retry more.)                                           *)
Settled_Later(c) == Valid(c) \/ FailedAttempts(c) > MaxFailed

(* A valid answer is never run again; an infrastructure failure or a missing *)
(* artifact is, once.                                                        *)
Settled(c) == Valid(c) \/ FailedAttempts(c) >= MaxFailed

NextCell ==
  /\ runner.at = "cell" /\ Cell <= Cells /\ Settled(Cell)
  /\ runner' = [runner EXCEPT !.cell = @ + 1]
  /\ UNCHANGED <<results, dirty, used, overdrawn, spent>>

BudgetSpent == overdrawn \/ used >= Budget

(* The schedule is done, or nothing may be called any more.                  *)
Stop ==
  /\ runner.at = "cell" /\ runner' = Off
  /\ Cell <= Cells => ~Settled(Cell) /\ (BudgetSpent \/ spent = ApiKeys)
  /\ UNCHANGED <<results, dirty, used, overdrawn, spent>>

Launch(key) ==
  /\ runner.at = "cell" /\ Cell <= Cells /\ ~Settled(Cell)
  /\ ~BudgetSpent /\ key \in ApiKeys \ spent
  /\ Len(results[Cell]) < MaxLaunches
  /\ runner' = [runner EXCEPT !.at = "worker", !.key = key, !.open = FALSE, !.blocked = FALSE]
  /\ UNCHANGED <<results, dirty, used, overdrawn, spent>>

-----------------------------------------------------------------------------
(* The worker. *)

(* reserve_call counts a request before it is sent, or blocks the run.       *)
Request ==
  /\ runner.at = "worker" /\ ~runner.open /\ ~runner.blocked
  /\ IF used < Budget
       THEN used' = used + 1 /\ runner' = [runner EXCEPT !.open = TRUE] /\ UNCHANGED overdrawn
       ELSE overdrawn' = TRUE /\ runner' = [runner EXCEPT !.blocked = TRUE] /\ UNCHANGED used
  /\ UNCHANGED <<results, dirty, spent>>

Reply ==
  /\ runner.at = "worker" /\ runner.open
  /\ runner' = [runner EXCEPT !.open = FALSE]
  /\ UNCHANGED <<results, dirty, used, overdrawn, spent>>

Answered == results' = [results EXCEPT ![Cell] = Append(@, IF Cell \in dirty THEN "incomplete"
                                                           ELSE "valid")]

(* Its result.json: the answer with every artifact (but a request of an      *)
(* interrupted start of this run_id has no reply), an answer without one,    *)
(* an error, or a configuration or index that is not the expected one.       *)
WorkerEnds ==
  /\ runner.at = "worker" /\ ~runner.open
  /\ IF runner.blocked THEN results' = [results EXCEPT ![Cell] = Append(@, "budget")]
     ELSE \/ Answered
          \/ \E end \in {"incomplete", "error", "limited", "mismatch"} :
               results' = [results EXCEPT ![Cell] = Append(@, end)]
  /\ dirty' = dirty \ {Cell}
  /\ runner' = [runner EXCEPT !.at = "ended"]
  /\ UNCHANGED <<used, overdrawn, spent>>

(* The worker is killed at its time limit, or dies: the runner writes it.    *)
WorkerLost ==
  /\ runner.at = "worker"
  /\ results' = [results EXCEPT ![Cell] = Append(@, "error")]
  /\ dirty' = dirty \ {Cell}
  /\ runner' = [runner EXCEPT !.at = "ended", !.open = FALSE]
  /\ UNCHANGED <<used, overdrawn, spent>>

-----------------------------------------------------------------------------

LastOf(c) == results[c][Len(results[c])]

(* The runner marks a limit of the provider and turns to the next key; a     *)
(* spent budget or a mismatch stops it.                                      *)
Judge ==
  /\ runner.at = "ended"
  /\ IF LastOf(Cell) = "limited"
       THEN /\ results' = [results EXCEPT ![Cell][Len(results[Cell])] = "quota"]
            /\ spent' = spent \union {runner.key}
       ELSE UNCHANGED <<results, spent>>
  /\ runner' = IF LastOf(Cell) \in {"budget", "mismatch"} THEN Off
               ELSE [Off EXCEPT !.at = "cell", !.cell = Cell]
  /\ UNCHANGED <<dirty, used, overdrawn>>

(* Ctrl-C or a crash of the machine: what is not in a file is lost, and a    *)
(* request under way has no reply.                                           *)
Interrupt ==
  /\ runner.at # "off" /\ runner' = Off
  /\ dirty' = IF runner.open THEN dirty \union {Cell} ELSE dirty
  /\ UNCHANGED <<results, used, overdrawn, spent>>

ExperimentNext ==
  \/ \E again \in BOOLEAN : Resume(again)
  \/ NextCell \/ Stop
  \/ \E key \in ApiKeys : Launch(key)
  \/ Request \/ Reply \/ WorkerEnds \/ WorkerLost
  \/ Judge \/ Interrupt

ExperimentSpec == ExperimentInit /\ [][ExperimentNext]_experimentVars

-----------------------------------------------------------------------------
(* Properties. *)

(* Over any number of interruptions the schedule is kept: a cell is begun    *)
(* only when every earlier one has its valid answer or has failed twice, and *)
(* a cell has one valid answer at most, its last attempt, and no third       *)
(* failure.                                                                  *)
ScheduleIsKept ==
  \A c \in Schedule :
    /\ results[c] # << >> => \A b \in 1..c - 1 : Settled(b)
    /\ FailedAttempts(c) <= MaxFailed
    /\ Attempts(c, {"valid"}) \subseteq {Len(results[c])}
=============================================================================
