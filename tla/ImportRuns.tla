----------------------------- MODULE ImportRuns ------------------------------
(***************************************************************************)
(* Running import jobs: the import worker and the CLI claim jobs, convert  *)
(* their PDF (acquisition/service.py, llamaparse.py) at a provider that    *)
(* bills, and keep the ledger of that (acquisition/store.py); an admin     *)
(* reconciles billing meanwhile; processes die and restart.                *)
(*                                                                         *)
(* A remote parse is named by the job and the part that submitted it: part *)
(* 1 is the document at the configured tier, part 2 the targeted repair of *)
(* bad pages.  Jobs are created unheld; ImportHandoff has the dispatch     *)
(* hold and admission.  A document is a PDF in one cache namespace.        *)
(***************************************************************************)
EXTENDS Naturals, FiniteSets

CONSTANTS
  Jobs,             \* a set of naturals: the order of created_at
  Documents, DocumentOf,
  Public,           \* documents from CafeF, cached for every account
  Parts,            \* 1..1 or 1..2
  Worker,           \* the import worker
  Clis,             \* `agentfinx reports import` processes
  Nobody, NoRemote,
  SlotLimit,        \* global_parse_concurrency
  MaxCrashes        \* bound: crashes, interrupts and restarts

Runners == {Worker} \union Clis
Remotes == Jobs \X Parts

ASSUME RunsAssumption ==
  /\ Jobs \subseteq Nat /\ DocumentOf \in [Jobs -> Documents]
  /\ Public \subseteq Documents
  /\ Parts \in {1..1, 1..2}
  /\ Worker \notin Clis /\ Nobody \notin Runners \union {"admin"} /\ "admin" \notin Runners
  /\ NoRemote \notin Remotes
  /\ SlotLimit \in Nat /\ MaxCrashes \in Nat

VARIABLES
  job,       \* import_jobs: processing status, billing, session attachment
  attempt,   \* parse_attempts, payers: the state of the latest on a part
  adopted,   \* parse_attempts, consumers: the remotes a job reuses
  noted,     \* remote_status and credits in parse_attempts, by remote parse
  slots,     \* parse_slots: jobs that hold one
  files,     \* by document: good text layer; sidecar per part, cache, payer reference
  remote,    \* the provider: state, usage reported, times submitted
  jobLock, docLock,  \* import-job-<id>.lock and the cache lock
  runner,    \* by process: program point and locals
  admin,     \* `agentfinx reports reconcile`
  crashes

vars == <<job, attempt, adopted, noted, slots, files, remote, jobLock, docLock, runner, admin, crashes>>

InFlight == {"parsing", "validating", "building"}
Terminal == {"ready", "failed"}
(* pending_own blocks the account's next import; pending_other waits for    *)
(* another job's payer.                                                     *)
Billings == {"not_submitted", "pending_own", "pending_other", "confirmed"}
Pending == {"pending_own", "pending_other"}
Attachments == {"", "attached", "error"}
JobRow == [status : {"queued"} \union InFlight \union Terminal, billing : Billings,
           attachment : Attachments]

Unresolved == {"submitting", "lost"}
AttemptStates == {"none", "rejected", "submitted"} \union Unresolved
Document(text) == [text |-> text, sidecar |-> [p \in Parts |-> NoRemote], cached |-> FALSE,
                   made |-> {}, payers |-> {}]
(* How a remote parse ends: its pages are good, some need repair, or it failed. *)
Ends == {"completed", "flawed", "failed"}
NoSubmission == [state |-> "none", usage |-> FALSE, sent |-> 0]

NewRow == [status |-> "queued", billing |-> "not_submitted", attachment |-> ""]
IdleRunner == [pc |-> "idle", job |-> 0, row |-> NewRow, part |-> 1, remote |-> NoRemote,
               log |-> {}, todo |-> {}]
(* The worker has to be started; a CLI process is started for each import.  *)
Stopped(r) == [IdleRunner EXCEPT !.pc = IF r = Worker THEN "down" ELSE "idle"]
IdleAdmin == [pc |-> "idle", job |-> 0, row |-> NewRow, todo |-> {}, remote |-> NoRemote,
              status |-> "", paid |-> FALSE]
RunnerPoints == {"down", "idle", "recover", "claimed", "start", "slot", "doc", "convert",
                 "lookup", "create", "record", "sidecar", "poll", "payers", "cache", "abort",
                 "release", "validate", "build", "ready", "attach", "fail"}

TypeOK ==
  /\ job \in [Jobs -> JobRow]
  /\ attempt \in [Remotes -> AttemptStates] /\ adopted \in [Jobs -> SUBSET Remotes]
  /\ noted \in [Remotes -> [status : {"", "running", "terminal"}, paid : BOOLEAN]]
  /\ slots \subseteq Jobs
  /\ files \in [Documents -> [text : BOOLEAN, sidecar : [Parts -> Remotes \union {NoRemote}],
                              cached : BOOLEAN, made : SUBSET Remotes, payers : SUBSET Remotes]]
  /\ remote \in [Remotes -> [state : {"none", "running"} \union Ends, usage : BOOLEAN, sent : Nat]]
  /\ jobLock \in [Jobs -> Runners \union {Nobody, "admin"}]
  /\ docLock \in [Documents -> Runners \union {Nobody}]
  /\ runner \in [Runners -> [pc : RunnerPoints, job : Jobs \union {0}, row : JobRow,
                             part : Parts, remote : Remotes \union {NoRemote},
                             log : SUBSET Remotes, todo : SUBSET Jobs]]
  /\ admin \in [pc : {"idle", "fetch", "note", "settle"}, job : Jobs \union {0}, row : JobRow,
                todo : SUBSET Remotes, remote : Remotes \union {NoRemote},
                status : {"", "running", "terminal"}, paid : BOOLEAN]
  /\ crashes \in Nat

Init ==
  /\ job = [j \in Jobs |-> NewRow]
  /\ attempt = [m \in Remotes |-> "none"] /\ adopted = [j \in Jobs |-> {}]
  /\ noted = [m \in Remotes |-> [status |-> "", paid |-> FALSE]]
  /\ slots = {}
  /\ \E text \in [Documents -> BOOLEAN] : files = [d \in Documents |-> Document(text[d])]
  /\ remote = [m \in Remotes |-> NoSubmission]
  /\ jobLock = [j \in Jobs |-> Nobody] /\ docLock = [d \in Documents |-> Nobody]
  /\ runner = [r \in Runners |-> Stopped(r)]
  /\ admin = IdleAdmin
  /\ crashes = 0

-----------------------------------------------------------------------------
(* billing_summary: what the ledger says of a job.  Rejected attempts do    *)
(* not count; a consumer waits for what is noted of its payer's remote.     *)

Own(j) == {m \in Remotes : m[1] = j /\ attempt[m] \notin {"none", "rejected"}}
Counted(j) == Own(j) \union adopted[j]
OwnPending(j) == \E m \in Own(j) : attempt[m] \in Unresolved \/ ~noted[m].paid
OtherPending(j) == \E m \in adopted[j] : noted[m].status # "terminal" \/ ~noted[m].paid
RemoteTerminal(j) ==
  /\ \A m \in Own(j) : attempt[m] \notin Unresolved
  /\ \A m \in Counted(j) : noted[m].status = "terminal"
Lost(j) == \E m \in Own(j) : attempt[m] = "lost"

(* _billing_fields; without ledger entries a successful conversion was local *)
(* or cached.                                                               *)
Billing(j, was, converted) ==
  IF OwnPending(j) THEN "pending_own"
  ELSE IF OtherPending(j) THEN "pending_other"
  ELSE IF Counted(j) # {} \/ converted THEN "confirmed" ELSE was

-----------------------------------------------------------------------------
(* The runners: run_job and _run_claimed.                                   *)

At(r, pc) == runner[r].pc = pc
MyJob(r) == runner[r].job
MyDoc(r) == DocumentOf[MyJob(r)]
Me(r) == <<MyJob(r), runner[r].part>>
Goto(r, pc) == runner' = [runner EXCEPT ![r].pc = pc]
Ledger == UNCHANGED <<attempt, adopted, noted>>
World == UNCHANGED <<files, remote>>
Locks == UNCHANGED <<jobLock, docLock>>
Others == UNCHANGED <<admin, crashes>>

(* update_job writes the whole row from the runner's own copy of it. *)
Write(r, row, pc) ==
  /\ job' = [job EXCEPT ![MyJob(r)] = row]
  /\ runner' = [runner EXCEPT ![r].row = row, ![r].pc = pc]
(* The job's last write: the lock is released and the runner is free. *)
WriteLast(r, row) ==
  /\ job' = [job EXCEPT ![MyJob(r)] = row]
  /\ runner' = [runner EXCEPT ![r] = IdleRunner]
  /\ jobLock' = [jobLock EXCEPT ![MyJob(r)] = Nobody]

(* The import worker starts: the jobs found in flight are to be recovered. *)
WorkerStart ==
  /\ At(Worker, "down")
  /\ runner' = [runner EXCEPT ![Worker] =
       [IdleRunner EXCEPT !.pc = "recover", !.todo = {j \in Jobs : job[j].status \in InFlight}]]
  /\ UNCHANGED <<job, slots>> /\ Ledger /\ World /\ Locks /\ Others

(* Is import-job-<id>.lock free? *)
JobIsFree(j) == jobLock[j] = Nobody

(* A job left mid-flight is queued again.                                    *)
Resumed(row) == [row EXCEPT !.status = "queued"]

(* mark_unresolved_submissions_lost; mutated form: they are forgotten.       *)
Marked_Forgotten(state) == IF state = "submitting" THEN "rejected" ELSE state
Marked(state) == IF state = "submitting" THEN "lost" ELSE state

(* recover_interrupted_jobs, one job under its lock.                         *)
RecoverJob(j) ==
  /\ At(Worker, "recover") /\ j \in runner[Worker].todo
  /\ JobIsFree(j)
  /\ runner' = [runner EXCEPT ![Worker].todo = @ \ {j}]
  /\ IF job[j].status \notin InFlight THEN UNCHANGED <<job, attempt>>
     ELSE /\ attempt' = [m \in Remotes |-> IF m[1] = j THEN Marked(attempt[m]) ELSE attempt[m]]
          /\ job' = [job EXCEPT ![j] =
               IF \E p \in Parts : attempt'[<<j, p>>] = "lost"
               THEN [@ EXCEPT !.status = "failed", !.billing = "pending_own"]
               ELSE Resumed(@)]
  /\ UNCHANGED <<adopted, noted, slots>> /\ World /\ Locks /\ Others
Recovered ==
  /\ At(Worker, "recover") /\ runner[Worker].todo = {}
  /\ Goto(Worker, "idle")
  /\ UNCHANGED <<job, slots>> /\ Ledger /\ World /\ Locks /\ Others

(* claim_job, before the job lock is taken.  The worker takes the oldest    *)
(* queued job, a CLI process the one it was called for.                     *)
Claim(r, j) ==
  /\ At(r, "idle")
  /\ job[j].status = "queued"
  /\ r = Worker => \A k \in Jobs : job[k].status = "queued" => j <= k
  /\ LET row == [job[j] EXCEPT !.status = "parsing"] IN
     /\ job' = [job EXCEPT ![j] = row]
     /\ runner' = [runner EXCEPT ![r] = [IdleRunner EXCEPT !.pc = "claimed", !.job = j, !.row = row]]
  /\ UNCHANGED slots /\ Ledger /\ World /\ Locks /\ Others

LockJob(r) ==
  /\ At(r, "claimed")
  /\ JobIsFree(MyJob(r))
  /\ jobLock' = [jobLock EXCEPT ![MyJob(r)] = r]
  /\ Goto(r, "start")
  /\ UNCHANGED <<job, slots, docLock>> /\ Ledger /\ World /\ Others

(* Download or validation. *)
Start(r) ==
  /\ At(r, "start")
  /\ \/ Write(r, [runner[r].row EXCEPT !.status = "parsing"], "slot")
     \/ Goto(r, "fail") /\ UNCHANGED job
  /\ UNCHANGED slots /\ Ledger /\ World /\ Locks /\ Others

(* parse_slot: entered again by the job that holds it. *)
EnterSlot(r) ==
  /\ At(r, "slot")
  /\ IF MyJob(r) \in slots \/ Cardinality(slots) < SlotLimit
     THEN slots' = slots \union {MyJob(r)} /\ Goto(r, "doc")
     ELSE Goto(r, "fail") /\ UNCHANGED slots
  /\ UNCHANGED job /\ Ledger /\ World /\ Locks /\ Others

(* convert: flock on the cache entry; mutated form: no lock.                *)
DocumentIsFree_Always(d) == TRUE
DocumentIsFree(d) == docLock[d] = Nobody
LockDocument(r) ==
  /\ At(r, "doc")
  /\ DocumentIsFree(MyDoc(r))
  /\ docLock' = [docLock EXCEPT ![MyDoc(r)] = r]
  /\ Goto(r, "convert")
  /\ UNCHANGED <<job, slots, jobLock>> /\ Ledger /\ World /\ Others

(* adopt: a consumer attempt, unless the job is itself the payer. *)
Adopt(j, ms) == adopted' = [adopted EXCEPT ![j] = @ \union {m \in ms : m[1] # j}]

(* _convert_locked: a cache hit (with the public document's payers), a good *)
(* text layer, or the provider; no consent, or an error.                    *)
Convert(r) ==
  LET d == MyDoc(r) IN
  /\ At(r, "convert")
  /\ \/ /\ files[d].cached
        /\ Adopt(MyJob(r), IF d \in Public THEN files[d].payers ELSE {})
        /\ Goto(r, "release") /\ UNCHANGED files
     \/ /\ ~files[d].cached /\ UNCHANGED adopted
        /\ \/ files[d].text /\ files' = [files EXCEPT ![d].cached = TRUE] /\ Goto(r, "release")
           \/ ~files[d].text /\ Goto(r, "lookup") /\ UNCHANGED files
           \/ Goto(r, "abort") /\ UNCHANGED files
  /\ UNCHANGED <<job, attempt, noted, slots, remote>> /\ Locks /\ Others

(* find_remote: this job's submission or adoption. *)
FindRemote(j, p) ==
  IF attempt[<<j, p>>] = "submitted" THEN {<<j, p>>} ELSE {m \in adopted[j] : m[2] = p}

PollFor(r, m) == runner' = [runner EXCEPT ![r].pc = "poll", ![r].remote = m]

(* _parse_once up to the submission: resume, refuse, adopt or begin. *)
Lookup(r) ==
  LET j == MyJob(r)  p == runner[r].part  side == files[MyDoc(r)].sidecar[p]
      known == FindRemote(j, p)  refused == attempt[Me(r)] \in Unresolved
  IN
  /\ At(r, "lookup")
  /\ \/ \E m \in known : PollFor(r, m) /\ UNCHANGED <<attempt, adopted>>
     \/ known = {} /\ refused /\ Goto(r, "abort") /\ UNCHANGED <<attempt, adopted>>
     \/ /\ known = {} /\ ~refused /\ side # NoRemote
        /\ Adopt(j, {side}) /\ PollFor(r, side) /\ UNCHANGED attempt
     \/ /\ known = {} /\ ~refused /\ side = NoRemote
        /\ attempt' = [attempt EXCEPT ![Me(r)] = "submitting"]
        /\ Goto(r, "create") /\ UNCHANGED adopted
  /\ UNCHANGED <<job, noted, slots>> /\ World /\ Locks /\ Others

(* parsing.create: accepted, certainly refused, or an unknown outcome. *)
Create(r) ==
  LET accepted == remote' = [remote EXCEPT ![Me(r)].state = "running", ![Me(r)].sent = @ + 1]
      end(state) == attempt' = [attempt EXCEPT ![Me(r)] = state] /\ Goto(r, "abort")
  IN
  /\ At(r, "create")
  /\ \/ accepted /\ Goto(r, "record") /\ UNCHANGED attempt
     \/ end("rejected") /\ UNCHANGED remote
     \/ end("lost") /\ (accepted \/ UNCHANGED remote)
  /\ UNCHANGED <<job, adopted, noted, slots, files>> /\ Locks /\ Others

Record(r) ==
  /\ At(r, "record")
  /\ attempt' = [attempt EXCEPT ![Me(r)] = "submitted"]
  /\ Goto(r, "sidecar")
  /\ UNCHANGED <<job, adopted, noted, slots>> /\ World /\ Locks /\ Others

(* The sidecar is a hint: it may fail to be written. *)
WriteSidecar(r) ==
  /\ At(r, "sidecar")
  /\ \/ files' = [files EXCEPT ![MyDoc(r)].sidecar[runner[r].part] = Me(r)]
     \/ UNCHANGED files
  /\ PollFor(r, Me(r))
  /\ UNCHANGED <<job, slots, remote>> /\ Ledger /\ Locks /\ Others

(* complete_remote: the status is overwritten, credits only filled while    *)
(* unknown.                                                                 *)
Complete(n, status, paid) == [status |-> status, paid |-> n.paid \/ paid]

Ended(m) == remote[m].state \in Ends

(* Waiting for the remote parse, then its result: read, unreadable, or an   *)
(* error on the way.  Part 2 repairs the bad pages of part 1.  Which those  *)
(* are depends on the result alone, so another run decides the same.        *)
Poll(r) ==
  LET m == runner[r].remote IN
  /\ At(r, "poll")
  /\ \/ Goto(r, "abort") /\ UNCHANGED noted
     \/ /\ Ended(m)
        /\ noted' = [noted EXCEPT ![m] = Complete(@, "terminal", remote[m].usage)]
        /\ \/ /\ remote[m].state = "completed"
              /\ runner' = [runner EXCEPT ![r].pc = "payers", ![r].log = @ \union {m}]
           \/ /\ remote[m].state = "flawed"
              /\ runner' = [runner EXCEPT ![r].pc = "lookup", ![r].log = @ \union {m},
                                          ![r].part = @ + 1]
           \/ Goto(r, "abort")
  /\ UNCHANGED <<job, attempt, adopted, slots>> /\ World /\ Locks /\ Others

(* The payer reference of a public document is written before its cache     *)
(* entry.  Mutated form: it is not.                                         *)
Payers_None(d, log) == {}
Payers(d, log) == IF d \in Public THEN log ELSE {}
StorePayers(r) ==
  /\ At(r, "payers")
  /\ files' = [files EXCEPT ![MyDoc(r)].payers = Payers(MyDoc(r), runner[r].log)]
  /\ Goto(r, "cache")
  /\ UNCHANGED <<job, slots, remote>> /\ Ledger /\ Locks /\ Others
StoreCache(r) ==
  /\ At(r, "cache")
  /\ files' = [files EXCEPT ![MyDoc(r)].cached = TRUE, ![MyDoc(r)].made = runner[r].log]
  /\ Goto(r, "release")
  /\ UNCHANGED <<job, slots, remote>> /\ Ledger /\ Locks /\ Others

UnlockDocument(r) ==
  docLock' = [d \in Documents |-> IF docLock[d] = r THEN Nobody ELSE docLock[d]]
UnlockJob(r) == jobLock' = [j \in Jobs |-> IF jobLock[j] = r THEN Nobody ELSE jobLock[j]]

(* _remote_parse_may_be_running, on leaving the slot with an error; mutated *)
(* form: the slot goes with the error.                                      *)
KeepSlot_Never(j) == FALSE
KeepSlot(j) == Counted(j) # {} /\ ~RemoteTerminal(j)

(* The conversion failed; or the process was interrupted in it, which keeps *)
(* the slot by the same rule and leaves the job in flight.                  *)
Abort(r) ==
  /\ At(r, "abort")
  /\ slots' = IF KeepSlot(MyJob(r)) THEN slots ELSE slots \ {MyJob(r)}
  /\ UnlockDocument(r)
  /\ \/ Goto(r, "fail") /\ UNCHANGED <<jobLock, crashes>>
     \/ /\ crashes < MaxCrashes /\ crashes' = crashes + 1
        /\ runner' = [runner EXCEPT ![r] = Stopped(r)]
        /\ UnlockJob(r)
  /\ UNCHANGED <<job, admin>> /\ Ledger /\ World

Release(r) ==
  /\ At(r, "release")
  /\ slots' = slots \ {MyJob(r)}
  /\ UnlockDocument(r)
  /\ Goto(r, "validate")
  /\ UNCHANGED <<job, jobLock>> /\ Ledger /\ World /\ Others

Validate(r) ==
  /\ At(r, "validate")
  /\ Write(r, [runner[r].row EXCEPT !.status = "validating",
                                    !.billing = Billing(MyJob(r), @, TRUE)], "build")
  /\ UNCHANGED slots /\ Ledger /\ World /\ Locks /\ Others

(* The converted text is stored and the dataset built (DatasetBuild). *)
Build(r) ==
  /\ At(r, "build")
  /\ Write(r, [runner[r].row EXCEPT !.status = "building"], "ready")
  /\ UNCHANGED slots /\ Ledger /\ World /\ Locks /\ Others
Ready(r) ==
  /\ At(r, "ready")
  /\ LET row == [runner[r].row EXCEPT !.status = "ready"] IN
     \/ r = Worker /\ Write(r, row, "attach") /\ UNCHANGED jobLock
     \/ r \in Clis /\ WriteLast(r, row)
     \/ Goto(r, "fail") /\ UNCHANGED <<job, jobLock>>
  /\ UNCHANGED <<slots, docLock>> /\ Ledger /\ World /\ Others

Attach(r) ==
  /\ At(r, "attach")
  /\ \E outcome \in Attachments \ {""} :
       WriteLast(r, [runner[r].row EXCEPT !.attachment = outcome])
  /\ UNCHANGED <<slots, docLock>> /\ Ledger /\ World /\ Others

Fail(r) ==
  /\ At(r, "fail")
  /\ WriteLast(r, [runner[r].row EXCEPT !.status = "failed",
                                        !.billing = Billing(MyJob(r), @, FALSE)])
  /\ UNCHANGED <<slots, docLock>> /\ Ledger /\ World /\ Others

RunnerStep(r) ==
  \/ (\E j \in Jobs : Claim(r, j))
  \/ LockJob(r) \/ Start(r) \/ EnterSlot(r) \/ LockDocument(r) \/ Convert(r) \/ Lookup(r)
  \/ Create(r) \/ Record(r) \/ WriteSidecar(r) \/ Poll(r) \/ StorePayers(r) \/ StoreCache(r)
  \/ Abort(r) \/ Release(r) \/ Validate(r) \/ Build(r) \/ Ready(r) \/ Attach(r) \/ Fail(r)
WorkerStep == WorkerStart \/ (\E j \in Jobs : RecoverJob(j)) \/ Recovered

(* A process dies: its file locks go, its rows stay. *)
Crash(r) ==
  /\ runner[r].pc \notin {"down", "idle"}
  /\ crashes < MaxCrashes /\ crashes' = crashes + 1
  /\ runner' = [runner EXCEPT ![r] = Stopped(r)]
  /\ UnlockJob(r) /\ UnlockDocument(r)
  /\ UNCHANGED <<job, slots, admin>> /\ Ledger /\ World

-----------------------------------------------------------------------------
(* The admin: reconcile_job.                                                *)

RunnersOnly == UNCHANGED <<files, remote, docLock, runner, crashes>>

(* The known remotes of its attempts that are not settled yet; mutated form: *)
(* a remote that ended is.                                                  *)
Unsettled_Running(j) ==
  {m \in Counted(j) : (m \in adopted[j] \/ attempt[m] = "submitted") /\ noted[m].status # "terminal"}
Unsettled(j) ==
  {m \in Counted(j) : /\ m \in adopted[j] \/ attempt[m] = "submitted"
                      /\ noted[m].status # "terminal" \/ ~noted[m].paid}

ReconcileStart(j) ==
  /\ admin.pc = "idle"
  /\ JobIsFree(j)
  /\ jobLock' = [jobLock EXCEPT ![j] = "admin"]
  /\ admin' = [IdleAdmin EXCEPT !.pc = "fetch", !.job = j, !.row = job[j], !.todo = Unsettled(j)]
  /\ UNCHANGED <<job, slots>> /\ Ledger /\ RunnersOnly

(* fetch_remote, outside any transaction; an error ends the reconciliation. *)
ReconcileFetch(m) ==
  /\ admin.pc = "fetch" /\ m \in admin.todo
  /\ admin' = [admin EXCEPT !.pc = "note", !.remote = m, !.todo = @ \ {m},
                            !.status = IF Ended(m) THEN "terminal" ELSE "running",
                            !.paid = remote[m].usage]
  /\ UNCHANGED <<job, slots, jobLock>> /\ Ledger /\ RunnersOnly
ReconcileFetched ==
  /\ admin.pc = "fetch" /\ admin.todo = {}
  /\ admin' = [admin EXCEPT !.pc = "settle"]
  /\ UNCHANGED <<job, slots, jobLock>> /\ Ledger /\ RunnersOnly
ReconcileFails ==
  /\ admin.pc = "fetch" /\ admin.todo # {}
  /\ admin' = IdleAdmin
  /\ jobLock' = [jobLock EXCEPT ![admin.job] = Nobody]
  /\ UNCHANGED <<job, slots>> /\ Ledger /\ RunnersOnly

ReconcileNote ==
  /\ admin.pc = "note"
  /\ noted' = [noted EXCEPT ![admin.remote] = Complete(@, admin.status, admin.paid)]
  /\ admin' = [admin EXCEPT !.pc = "fetch", !.remote = NoRemote, !.status = "", !.paid = FALSE]
  /\ UNCHANGED <<job, attempt, adopted, slots, jobLock>> /\ RunnersOnly

(* The slot is released and the billing fields written, from the row read   *)
(* at the start.                                                            *)
ReconcileSettle ==
  LET j == admin.job  row == [admin.row EXCEPT !.billing = Billing(j, @, FALSE)] IN
  /\ admin.pc = "settle"
  /\ slots' = IF Counted(j) # {} /\ RemoteTerminal(j) /\ admin.row.status \in Terminal
              THEN slots \ {j} ELSE slots
  /\ job' = IF Counted(j) # {} /\ row # admin.row THEN [job EXCEPT ![j] = row] ELSE job
  /\ admin' = IdleAdmin
  /\ jobLock' = [jobLock EXCEPT ![j] = Nobody]
  /\ Ledger /\ RunnersOnly

AdminStep ==
  \/ (\E j \in Jobs : ReconcileStart(j))
  \/ (\E m \in Remotes : ReconcileFetch(m))
  \/ ReconcileFetched \/ ReconcileFails \/ ReconcileNote \/ ReconcileSettle

-----------------------------------------------------------------------------
(* The provider: a remote parse ends, and its usage is reported some time   *)
(* after that.  Pages are called bad only where another part repairs them.  *)

ProviderOnly ==
  UNCHANGED <<job, attempt, adopted, noted, slots, files, jobLock, docLock, runner, admin, crashes>>
RemoteEnds(m) ==
  /\ remote[m].state = "running"
  /\ \E state \in {s \in Ends : s = "flawed" => m[2] + 1 \in Parts} : remote' = [remote EXCEPT ![m].state = state]
  /\ ProviderOnly
UsageReported(m) ==
  /\ Ended(m) /\ ~remote[m].usage
  /\ remote' = [remote EXCEPT ![m].usage = TRUE]
  /\ ProviderOnly
ProviderStep == \E m \in Remotes : RemoteEnds(m) \/ UsageReported(m)

(* The worker finds no queued job. *)
NothingQueued ==
  At(Worker, "idle") /\ (\A j \in Jobs : job[j].status # "queued") /\ UNCHANGED vars

Next ==
  \/ \E r \in Runners : RunnerStep(r) \/ Crash(r)
  \/ WorkerStep \/ AdminStep \/ ProviderStep \/ NothingQueued

Spec == Init /\ [][Next]_vars

(* The worker runs and is restarted, a file lock wanted for ever is had some *)
(* time, the provider ends and reports every parse, and pending billing is   *)
(* reconciled again and again until the provider answers.                    *)
Fairness ==
  /\ WF_vars(RunnerStep(Worker) \/ WorkerStep)
  /\ SF_vars(LockJob(Worker)) /\ \A j \in Jobs : SF_vars(RecoverJob(j))
  /\ \A m \in Remotes : WF_vars(RemoteEnds(m)) /\ WF_vars(UsageReported(m))
  /\ \A j \in Jobs : SF_vars(job[j].billing \in Pending /\ ReconcileStart(j))
  /\ \A m \in Remotes : SF_vars(ReconcileFetch(m))
  /\ WF_vars(ReconcileFetched \/ ReconcileNote \/ ReconcileSettle)
FairSpec == Spec /\ Fairness

-----------------------------------------------------------------------------
(* What running imports promises.                                           *)

(* A job never submits a part of its document twice, whatever crashes or    *)
(* restarts: its next run resumes the remote parse it finds, or refuses.    *)
SubmittedOnce == \A m \in Remotes : remote[m].sent <= 1

(* Nobody submits a part of a document whose remote parse or result is on   *)
(* record, for the job's owner or, of public documents, for anyone.         *)
NeverPaidAgain ==
  [][\A m \in Remotes : remote'[m].sent # remote[m].sent =>
       LET f == files[DocumentOf[m[1]]] IN ~f.cached /\ f.sidecar[m[2]] = NoRemote]_vars

(* No more remote parses run at the provider than there are slots: a slot   *)
(* outlives the process that took it for as long as its parse may run.      *)
RunningWithinLimit == Cardinality({m \in Remotes : remote[m].state = "running"}) <= SlotLimit

(* A job whose remote ID was lost keeps its slot, and once it is over its    *)
(* billing is pending, until somebody looks into it (docs/operations.md).   *)
LostIsKept ==
  \A j \in Jobs : Lost(j) =>
    /\ j \in slots
    /\ job[j].status \in Terminal => job[j].billing = "pending_own"

(* All three: the worker's death costs no second bill, hides none, and lets  *)
(* no more parses run at once than the policy says.                          *)
SubmissionsAreAccounted == SubmittedOnce /\ LostIsKept /\ RunningWithinLimit

(* The billing of a job that is over is confirmed only when the usage of     *)
(* every parse the provider ran for it is known and, if it read a public     *)
(* document from the cache, of those that made the cache entry.              *)
ConfirmedIsPaid ==
  \A j \in Jobs : job[j].status \in Terminal /\ job[j].billing = "confirmed" =>
    /\ \A p \in Parts : remote[<<j, p>>].state # "none" => noted[<<j, p>>].paid
    /\ DocumentOf[j] \in Public /\ job[j].status = "ready" =>
         \A m \in files[DocumentOf[j]].made : noted[m].paid

(* A job that is ready or failed stays so. *)
TerminalStays ==
  [][\A j \in Jobs : job[j].status \in Terminal => job'[j].status = job[j].status]_vars

(* A queued job ends, although the worker dies in between, it ends once, and *)
(* pending billing is confirmed some time, unless a remote ID was lost.      *)
JobsSettle ==
  /\ TerminalStays
  /\ \A j \in Jobs : job[j].status = "queued" ~> job[j].status \in Terminal
  /\ \A j \in Jobs : job[j].billing \in Pending ~> job[j].billing = "confirmed" \/ Lost(j)
=============================================================================
