----------------------------- MODULE ImportBudget -----------------------------
(***************************************************************************)
(* What imports may cost: admission reserves credits against the month's     *)
(* budget and one slot of the account (acquisition/quota.py); the row of an  *)
(* import (acquisition/store.py, service.py) is all that admission knows of  *)
(* what the provider charges for its parse, some time, perhaps next month.   *)
(* A page is one credit; ImportRuns has how a parse is run.                  *)
(***************************************************************************)
EXTENDS Naturals, FiniteSets, FiniteSetsExt, Functions

CONSTANTS
  Imports, Owners,
  PageLimit,        \* max_pdf_pages
  TrialLock,        \* the credits of a month at which admission is locked
  Concurrency,      \* per_owner_concurrency
  TrialImports,     \* trial_successful_imports
  Nil,              \* no import, no owner
  Months            \* bound: the months that pass

ASSUME BudgetAssumption ==
  /\ IsFiniteSet(Imports)
  /\ {PageLimit, TrialLock, Concurrency, TrialImports, Months} \subseteq Nat
  /\ Nil \notin Imports /\ Nil \notin Owners

VARIABLES
  month,
  row,      \* import_jobs
  pages,    \* the pages of its PDF
  parse,    \* its own attempt in the ledger
  payer,    \* the import whose parse it waits for, as a consumer
  charge    \* the provider: the credits a parse has cost, and when

budgetVars == <<month, row, pages, parse, payer, charge>>

Waiting == {"held", "queued"}
Processing == {"downloading", "parsing"}   \* and validating, building
Over == {"ready", "failed"}
NewImport == [owner |-> Nil, status |-> "none", reserved |-> 0, billed |-> 0,
              pending |-> "no", updated |-> 0]
NoCharge == [credits |-> 0, month |-> 0]

BudgetTypeOK ==
  /\ month \in 1..Months
  /\ row \in [Imports -> [owner : Owners \union {Nil},
                          status : {"none"} \union Waiting \union Processing \union Over,
                          reserved : 0..PageLimit, billed : 0..PageLimit,
                          pending : {"no", "own", "other"}, updated : 0..Months]]
  /\ pages \in [Imports -> 1..PageLimit]
  /\ parse \in [Imports -> {"none", "submitted", "lost", "settled"}]
  /\ payer \in [Imports -> Imports \union {Nil}]
  /\ charge \in [Imports -> [credits : 0..PageLimit, month : 0..Months]]

BudgetInit ==
  /\ month = 1
  /\ row = [i \in Imports |-> NewImport]
  /\ pages = [i \in Imports |-> 1]
  /\ parse = [i \in Imports |-> "none"]
  /\ payer = [i \in Imports |-> Nil]
  /\ charge = [i \in Imports |-> NoCharge]

Put(i, r) == row' = [row EXCEPT ![i] = [r EXCEPT !.updated = month]]
OnlyTheRow == UNCHANGED <<month, pages, parse, payer, charge>>

(* An import of an earlier month that is over and billed costs nothing now.  *)
(* Mutated form: so does one whose bill is still open.                       *)
OfAnEarlierMonth_Open(r) == r.status \in Over /\ r.updated < month
OfAnEarlierMonth(r) == r.status \in Over /\ r.updated < month /\ r.pending = "no"

(* committed_credits. *)
CommittedFor(r) ==
  IF OfAnEarlierMonth(r) THEN 0
  ELSE IF r.pending # "no" THEN Max({r.reserved, r.billed})
  ELSE IF r.status \in Over THEN r.billed ELSE r.reserved
Committed == SumFunction([i \in Imports |-> CommittedFor(row[i])])

(* count_blocking_jobs: an import blocks while it runs and while its own      *)
(* parse is not settled.  check_import_slot.                                 *)
ImportsOf(o) == {i \in Imports : row[i].owner = o}
Blocking(o) ==
  {i \in ImportsOf(o) : row[i].status \in Waiting \union Processing \/ row[i].pending = "own"}
MaySlot(o) ==
  /\ Cardinality({i \in ImportsOf(o) : row[i].status = "ready"}) < TrialImports
  /\ Cardinality(Blocking(o)) < Concurrency

(* reserve_import. *)
MayReserve(credits) == Committed + credits < TrialLock

(* Both and create_job, one transaction: an upload reserves its pages, a    *)
(* report still to be downloaded the most it may have.  The web holds the    *)
(* job, the CLI queues it.                                                   *)
AdmitJob(i, o) ==
  /\ row[i].status = "none" /\ MaySlot(o)
  /\ \E n \in 1..PageLimit, status \in Waiting : \E reserved \in {n, PageLimit} :
       /\ MayReserve(reserved)
       /\ Put(i, [NewImport EXCEPT !.owner = o, !.status = status, !.reserved = reserved])
       /\ pages' = [pages EXCEPT ![i] = n]
  /\ UNCHANGED <<month, parse, payer, charge>>

(* The hand-off links the job, or cancels it before anything was submitted.  *)
ReleaseHold(i) ==
  /\ row[i].status = "held"
  /\ Put(i, [row[i] EXCEPT !.status = "queued"])
  /\ OnlyTheRow
CancelHeld(i) ==
  /\ row[i].status = "held"
  /\ Put(i, [row[i] EXCEPT !.status = "failed"])
  /\ OnlyTheRow

(* The run: the PDF is there, and reserves its real pages.                   *)
ClaimJob(i) ==
  /\ row[i].status = "queued"
  /\ Put(i, [row[i] EXCEPT !.status = "downloading"])
  /\ OnlyTheRow
Download(i) ==
  /\ row[i].status = "downloading"
  /\ Put(i, [row[i] EXCEPT !.status = "parsing", !.reserved = pages[i]])
  /\ OnlyTheRow

(* A parse is submitted, or its remote ID lost; or another's is adopted.     *)
Submit(i) ==
  /\ row[i].status = "parsing" /\ parse[i] = "none" /\ payer[i] = Nil
  /\ \/ \E state \in {"submitted", "lost"} :
          parse' = [parse EXCEPT ![i] = state] /\ UNCHANGED payer
     \/ /\ \E k \in Imports : parse[k] \in {"submitted", "settled"} /\ payer' = [payer EXCEPT ![i] = k]
        /\ UNCHANGED parse
  /\ UNCHANGED <<month, row, pages, charge>>

(* The provider charges a parse when it ends; a lost one may not exist.      *)
ProviderCharges(i) ==
  /\ parse[i] \in {"submitted", "lost"} /\ charge[i] = NoCharge
  /\ \E credits \in 0..row[i].reserved :
       charge' = [charge EXCEPT ![i] = [credits |-> credits, month |-> month]]
  /\ UNCHANGED <<month, row, pages, parse, payer>>

(* complete_remote, when a run or the admin reads the parse with its usage.  *)
NoteUsage(i) ==
  /\ parse[i] = "submitted" /\ charge[i] # NoCharge
  /\ parse' = [parse EXCEPT ![i] = "settled"]
  /\ UNCHANGED <<month, row, pages, payer, charge>>

(* _billing_fields. *)
Billed(i, r) ==
  LET pending == IF parse[i] \in {"submitted", "lost"} THEN "own"
                 ELSE IF payer[i] # Nil /\ parse[payer[i]] # "settled" THEN "other" ELSE "no"
  IN [r EXCEPT !.pending = pending,
               !.billed = IF pending = "no" /\ parse[i] = "settled" THEN charge[i].credits ELSE 0]

(* The run ends; one is ready only after the parse it needed ended.          *)
RunEnds(i) ==
  /\ row[i].status \in Processing
  /\ \/ Put(i, Billed(i, [row[i] EXCEPT !.status = "failed"]))
     \/ /\ row[i].status = "parsing" /\ parse[i] # "lost"
        /\ parse[i] = "submitted" => charge[i] # NoCharge
        /\ payer[i] # Nil => charge[payer[i]] # NoCharge
        /\ Put(i, Billed(i, [row[i] EXCEPT !.status = "ready"]))
  /\ OnlyTheRow

(* The worker died: the job is queued again, or failed if its parse is lost. *)
RecoverImport(i) ==
  /\ row[i].status \in Processing
  /\ IF parse[i] = "lost"
     THEN Put(i, [row[i] EXCEPT !.status = "failed", !.pending = "own", !.billed = 0])
     ELSE Put(i, [row[i] EXCEPT !.status = "queued"])
  /\ OnlyTheRow

(* reconcile_job: the row is written only when its billing changes.          *)
Reconcile(i) ==
  /\ row[i].status \in Over /\ row[i].pending # "no" /\ Billed(i, row[i]) # row[i]
  /\ Put(i, Billed(i, row[i]))
  /\ OnlyTheRow

MonthPasses ==
  /\ month < Months /\ month' = month + 1
  /\ UNCHANGED <<row, pages, parse, payer, charge>>

BudgetNext ==
  \/ \E i \in Imports :
       \/ (\E o \in Owners : AdmitJob(i, o))
       \/ ReleaseHold(i) \/ CancelHeld(i) \/ ClaimJob(i) \/ Download(i)
       \/ Submit(i) \/ ProviderCharges(i) \/ NoteUsage(i)
       \/ RunEnds(i) \/ RecoverImport(i) \/ Reconcile(i)
  \/ MonthPasses

BudgetSpec == BudgetInit /\ [][BudgetNext]_budgetVars

(* What the provider charged in a month.                                     *)
Charged(m) ==
  SumFunctionOnSet([i \in Imports |-> charge[i].credits], {i \in Imports : charge[i].month = m})

(* The provider never charges in one month what locks admission, although a  *)
(* parse is charged long after its import was admitted, or lost sight of;    *)
(* and an account has no more imports that run, or whose own parse is not    *)
(* settled, than it may have.                                                *)
ImportsStayInBudget ==
  /\ \A m \in 1..month : Charged(m) > 0 => Charged(m) < TrialLock
  /\ \A o \in Owners :
       Cardinality({i \in ImportsOf(o) : \/ row[i].status \in Waiting \union Processing
                                         \/ parse[i] \in {"submitted", "lost"}}) <= Concurrency
=============================================================================
