------------------------------ MODULE ChatQueue ------------------------------
(***************************************************************************)
(* Asking a question: the API admits it (api/app.py), the one chat worker  *)
(* answers it (api/worker.py, api/chat_runner.py) and finishes its news    *)
(* later (api/news_updates.py), while reports are rebuilt, conversations   *)
(* deleted, and both processes may die.                                    *)
(*                                                                         *)
(* A run is named by its idempotency key; SessionOf gives the conversation *)
(* the key is used in (UNIQUE(session_id, idempotency_key)).  One report.  *)
(***************************************************************************)
EXTENDS Naturals

CONSTANTS
  Sessions, Keys, SessionOf,
  WithoutReport,   \* sessions created for an upload: no dataset yet
  Requests,        \* POST /api/chat and answer-with-report calls
  Workers,         \* processes started as `worker --queue chat`
  Nobody, NoKey,
  MaxAttempts,     \* news_updates.MAX_ATTEMPTS
  MaxBuilds, MaxDeaths, MaxCrashes  \* bounds: rebuilds, API deaths, worker crashes

ASSUME ChatAssumption ==
  /\ SessionOf \in [Keys -> Sessions]
  /\ WithoutReport \subseteq Sessions
  /\ NoKey \notin Keys /\ Nobody \notin Workers
  /\ MaxAttempts \in Nat /\ MaxBuilds \in Nat /\ MaxDeaths \in Nat /\ MaxCrashes \in Nat

VARIABLES
  session,   \* chat_sessions: exists, dataset_generation (0: no dataset), read_only
  data,      \* the report: current generation, usable at all, dataset_lock
  run,       \* chat_runs
  news,      \* news_updates, at most one per run
  charged,   \* usage rows of kind "question" written for a key
  created,   \* runs created so far: the order of created_at
  req, worker,
  singleton, \* the process that holds the queue's ProcessSingleton
  deaths, crashes

vars == <<session, data, run, news, charged, created, req, worker, singleton, deaths,
          crashes>>

Active == {"queued", "running"}
RunStates == {"none", "succeeded", "failed", "interrupted"} \union Active
Tasks == {"", "discovery", "qa"}
WorkerPoints == {"down", "idle", "read", "context", "plan", "resolve", "lock", "activate",
                 "pipeline", "answer", "fail", "news", "newsWork", "newsWrite"}
(* answers and updates count a run's assistant messages; basis is the        *)
(* generation its answer was computed from (0: not from a report).          *)
NoRun == [state |-> "none", override |-> FALSE, gen |-> 0, ticket |-> 0, task |-> "",
          answers |-> 0, updates |-> 0, basis |-> 0]
NoNews == [state |-> "none", attempts |-> 0, due |-> FALSE, late |-> FALSE]
NewRequest == [pc |-> "new", key |-> NoKey, override |-> FALSE, gen |-> 0]
(* The worker's locals: the run row as it read it, and what it will write;   *)
(* flag is "make the session read-only", "news to finish" or "expired".      *)
IdleWorker == [pc |-> "idle", key |-> NoKey, override |-> FALSE, gen |-> 0,
               state |-> "none", task |-> "", basis |-> 0, flag |-> FALSE]
DownWorker == [IdleWorker EXCEPT !.pc = "down"]

TypeOK ==
  /\ session \in [Sessions -> [exists : BOOLEAN, gen : Nat, readOnly : BOOLEAN]]
  /\ data \in [gen : Nat \ {0}, usable : BOOLEAN, lock : Workers \union {Nobody}]
  /\ run \in [Keys -> [state : RunStates, override : BOOLEAN, gen : Nat, ticket : Nat,
                       task : Tasks, answers : Nat, updates : Nat, basis : Nat]]
  /\ news \in [Keys -> [state : {"none", "pending", "running", "done", "expired"},
                        attempts : Nat, due : BOOLEAN, late : BOOLEAN]]
  /\ charged \in [Keys -> Nat] /\ created \in Nat
  /\ req \in [Requests -> [pc : {"new", "check", "submit", "done"}, key : Keys \union {NoKey},
                           override : BOOLEAN, gen : Nat]]
  /\ worker \in [Workers -> [pc : WorkerPoints, key : Keys \union {NoKey}, override : BOOLEAN,
                             gen : Nat, state : RunStates, task : Tasks, basis : Nat,
                             flag : BOOLEAN]]
  /\ singleton \in Workers \union {Nobody}
  /\ deaths \in Nat /\ crashes \in Nat

Init ==
  /\ session = [s \in Sessions |-> [exists |-> TRUE, readOnly |-> FALSE,
                                    gen |-> IF s \in WithoutReport THEN 0 ELSE 1]]
  /\ data = [gen |-> 1, usable |-> TRUE, lock |-> Nobody]
  /\ run = [k \in Keys |-> NoRun]
  /\ news = [k \in Keys |-> NoNews]
  /\ charged = [k \in Keys |-> 0] /\ created = 0
  /\ req = [r \in Requests |-> NewRequest]
  /\ worker = [w \in Workers |-> DownWorker]
  /\ singleton = Nobody
  /\ deaths = 0 /\ crashes = 0

RunsOf(s) == {k \in Keys : SessionOf[k] = s}

(* mark_session_read_only: a deleted session stays deleted. *)
ReadOnly(s) == session' = [session EXCEPT ![s].readOnly = @ \/ session[s].exists]

(* Is a report no longer what a session was pinned to?  Access, artifacts    *)
(* and generation, as check_session_dataset and the worker test them.        *)
(* Mutated forms: any generation will do; a report being built has changed.  *)
Changed_Generation(gen) == ~data.usable
Changed_Building(gen) == ~data.usable \/ data.gen # gen \/ data.lock # Nobody
Changed(gen) == ~data.usable \/ data.gen # gen

-----------------------------------------------------------------------------
(* The API.                                                                *)

Respond(r) == req' = [req EXCEPT ![r].pc = "done"]
ApiOnly == UNCHANGED <<data, news, worker, singleton, crashes>>

(* chat and answer_with_report: the reads before any check.  An override    *)
(* needs a report and a run of the same conversation that was a search.     *)
ChatRead(r, k, override) ==
  LET s == SessionOf[k] IN
  /\ req[r].pc = "new"
  /\ session[s].exists
  /\ override => \E o \in RunsOf(s) : run[o].task = "discovery"
  /\ IF run[k].state # "none" \/ session[s].readOnly \/ (override /\ session[s].gen = 0)
     THEN Respond(r)                               \* replay, or refused
     ELSE req' = [req EXCEPT ![r] = [pc |-> IF session[s].gen = 0 THEN "submit" ELSE "check",
                     key |-> k, override |-> override, gen |-> session[s].gen]]
  /\ ApiOnly /\ UNCHANGED <<session, run, charged, created, deaths>>

(* check_session_dataset *)
ChatCheck(r) ==
  /\ req[r].pc = "check"
  /\ \/ Changed(req[r].gen) /\ ReadOnly(SessionOf[req[r].key]) /\ Respond(r)
     \/ /\ ~Changed(req[r].gen)
        /\ req' = [req EXCEPT ![r].pc = "submit"]
        /\ UNCHANGED session
     \/ Respond(r) /\ UNCHANGED session            \* not ready for the moment
  /\ ApiOnly /\ UNCHANGED <<run, charged, created, deaths>>

(* The lookups inside the submission transaction.                            *)
MayCreate(k) ==
  /\ run[k].state = "none"
  /\ \A o \in RunsOf(SessionOf[k]) : run[o].state \notin Active

(* The submission transaction.  admit_question commits in the acquisition   *)
(* database before the web transaction inserts the run, and the insert is    *)
(* lost when the conversation is gone (foreign key) or the API dies.  What   *)
(* the run says of its report is what the request read at the start.         *)
ChatSubmit(r) ==
  LET k == req[r].key IN
  /\ req[r].pc = "submit"
  /\ Respond(r)
  /\ \/ UNCHANGED <<run, charged, created, deaths>>  \* replay, active run, quota refused
     \/ /\ MayCreate(k)
        /\ charged' = IF req[r].override THEN charged ELSE [charged EXCEPT ![k] = @ + 1]
        /\ \/ /\ session[SessionOf[k]].exists
              /\ run' = [run EXCEPT ![k] = [NoRun EXCEPT !.state = "queued", !.gen = req[r].gen,
                                              !.override = req[r].override, !.ticket = created]]
              /\ created' = created + 1
              /\ UNCHANGED deaths
           \/ ~session[SessionOf[k]].exists /\ UNCHANGED <<run, created, deaths>>
           \/ deaths < MaxDeaths /\ deaths' = deaths + 1 /\ UNCHANGED <<run, created>>
  /\ ApiOnly /\ UNCHANGED session

ApiStep ==
  \E r \in Requests :
    \/ \E k \in Keys, override \in BOOLEAN : ChatRead(r, k, override)
    \/ ChatCheck(r) \/ ChatSubmit(r)

-----------------------------------------------------------------------------
(* The chat worker: one question at a time.                                *)

At(w, pc) == worker[w].pc = pc
Goto(w, pc) == worker' = [worker EXCEPT ![w].pc = pc]
Free(w) == worker' = [worker EXCEPT ![w] = IdleWorker]
Elsewhere == UNCHANGED <<charged, created, req, deaths, crashes>>
NoTables == UNCHANGED <<session, run, news, singleton>> /\ Elsewhere

(* Leaving `with dataset_lock`, if the worker was in it.                     *)
Unlock(w) == data' = IF data.lock = w THEN [data EXCEPT !.lock = Nobody] ELSE data

(* interrupt_running_runs; mutated forms: the run is tried again, left as it *)
(* was, or given its error code as its status.                              *)
Recovered_Requeued(state) == IF state = "running" THEN "queued" ELSE state
Recovered_Left(state) == state
Recovered_Code(state) == IF state = "running" THEN "worker_restarted" ELSE state
Recovered(state) == IF state = "running" THEN "interrupted" ELSE state
(* recover_news_updates; mutated form: without its WHERE clause.             *)
NewsRecovered_All(state) == IF state = "none" THEN state ELSE "pending"
NewsRecovered(state) == IF state = "running" THEN "pending" ELSE state

(* run_worker: the singleton first, then recovery, then the loop. *)
WorkerStart(w) ==
  /\ At(w, "down")
  /\ singleton = Nobody
  /\ singleton' = w
  /\ run' = [k \in Keys |-> [run[k] EXCEPT !.state = Recovered(@)]]
  /\ news' = [k \in Keys |-> [news[k] EXCEPT !.state = NewsRecovered(@)]]
  /\ Goto(w, "idle")
  /\ UNCHANGED <<session, data>> /\ Elsewhere

Queued == {k \in Keys : run[k].state = "queued"}

(* claim_next_run: the oldest queued run. *)
ClaimRun(w, k) ==
  /\ At(w, "idle")
  /\ k \in Queued
  /\ \A o \in Queued : run[k].ticket <= run[o].ticket
  /\ run' = [run EXCEPT ![k].state = "running"]
  /\ worker' = [worker EXCEPT ![w] = [IdleWorker EXCEPT !.pc = "read", !.key = k]]
  /\ UNCHANGED <<session, data, news, singleton>> /\ Elsewhere

(* process_chat_run reads run and session: the cascade may have taken both. *)
ReadRun(w) ==
  LET k == worker[w].key IN
  /\ At(w, "read")
  /\ IF run[k].state = "none" THEN Free(w)
     ELSE worker' = [worker EXCEPT ![w].pc = "context", ![w].override = run[k].override,
                                   ![w].gen = run[k].gen]
  /\ UNCHANGED data /\ NoTables

Finish(w, state, task) ==
  worker' = [worker EXCEPT ![w].pc = "answer", ![w].state = state, ![w].task = task]
FailReadOnly(w) == worker' = [worker EXCEPT ![w].pc = "fail", ![w].flag = TRUE]

(* _effective_question: rewritten, in need of a clarification, or failed.    *)
Context(w) ==
  /\ At(w, "context")
  /\ Goto(w, "plan") \/ Finish(w, "succeeded", "") \/ Finish(w, "failed", "")
  /\ UNCHANGED data /\ NoTables

(* The planner, unless the run is an override: a search for a report, a      *)
(* question, or an error.  A question without a report gets a card.          *)
Plan(w) ==
  /\ At(w, "plan")
  /\ \/ ~worker[w].override /\ (Finish(w, "succeeded", "discovery") \/ Goto(w, "fail"))
     \/ worker[w].gen = 0 /\ Finish(w, "succeeded", "qa")
     \/ worker[w].gen # 0 /\ Goto(w, "resolve")
  /\ UNCHANGED data /\ NoTables

Resolve(w) ==
  /\ At(w, "resolve")
  /\ IF data.usable THEN Goto(w, "lock") ELSE FailReadOnly(w)
  /\ UNCHANGED data /\ NoTables

TakeLock(w) ==
  /\ At(w, "lock")
  /\ data.lock = Nobody
  /\ data' = [data EXCEPT !.lock = w]
  /\ Goto(w, "activate")
  /\ NoTables

(* activate: the pinned generation, another one, or not ready just now. *)
Activate(w) ==
  /\ At(w, "activate")
  /\ \/ ~Changed(worker[w].gen) /\ Goto(w, "pipeline")
     \/ Changed(worker[w].gen) /\ FailReadOnly(w)
     \/ Goto(w, "fail")
  /\ UNCHANGED data /\ NoTables

(* The pipeline reads the report until it ends, then the lock is released;   *)
(* flag: its news is incomplete (needs_update).                             *)
Pipeline(w) ==
  /\ At(w, "pipeline")
  /\ \/ Goto(w, "fail")
     \/ \E incomplete \in BOOLEAN :
          worker' = [worker EXCEPT ![w].pc = "answer", ![w].state = "succeeded",
                       ![w].task = "qa", ![w].basis = data.gen, ![w].flag = incomplete]
  /\ Unlock(w) /\ NoTables

(* _succeed, _succeed_structured, _finish_context: message, terminal state    *)
(* and news update in one transaction.  A run that is no longer running makes *)
(* it raise, which ends the worker.                                          *)
StoreAnswer(w) ==
  LET k == worker[w].key  me == worker[w] IN
  /\ At(w, "answer")
  /\ IF run[k].state = "running"
     THEN /\ run' = [run EXCEPT ![k].state = me.state, ![k].task = me.task,
                               ![k].answers = @ + 1, ![k].basis = me.basis]
          /\ news' = IF me.flag THEN [news EXCEPT ![k] = [NoNews EXCEPT !.state = "pending"]]
                     ELSE news
          /\ Free(w) /\ UNCHANGED singleton
     ELSE /\ IF run[k].state = "none" THEN Free(w) /\ UNCHANGED singleton
             ELSE worker' = [worker EXCEPT ![w] = DownWorker] /\ singleton' = Nobody
          /\ UNCHANGED <<run, news>>
  /\ UNCHANGED <<session, data>> /\ Elsewhere

(* _fail, inside the dataset lock or not. *)
StoreFailure(w) ==
  LET k == worker[w].key IN
  /\ At(w, "fail")
  /\ IF worker[w].flag THEN ReadOnly(SessionOf[k]) ELSE UNCHANGED session
  /\ run' = IF run[k].state = "running" THEN [run EXCEPT ![k].state = "failed"] ELSE run
  /\ Unlock(w) /\ Free(w)
  /\ UNCHANGED <<news, singleton>> /\ Elsewhere

(* No question waits: claim_due_news_update. *)
NoQuestion(w) ==
  At(w, "idle") /\ Queued = {} /\ Goto(w, "news") /\ UNCHANGED data /\ NoTables

(* Attempts are only compared with MAX_ATTEMPTS: they are counted up to it. *)
OneMore(n) == IF n < MaxAttempts THEN n + 1 ELSE n
DueNews == {k \in Keys : news[k].state = "pending" /\ news[k].due}
ClaimNews(w) ==
  /\ At(w, "news")
  /\ \/ \E k \in DueNews :
          /\ news' = [news EXCEPT ![k].state = "running", ![k].attempts = OneMore(@)]
          /\ worker' = [worker EXCEPT ![w] = [IdleWorker EXCEPT !.pc = "newsWork", !.key = k]]
     \/ DueNews = {} /\ Free(w) /\ UNCHANGED news
  /\ UNCHANGED <<session, data, run, singleton>> /\ Elsewhere

(* Expired, no provider any more, still pending, an error, or an analysis.   *)
(* The last attempt may fail with an error only once more.  Mutated form:    *)
(* the deadline is not looked at.                                            *)
GiveUp_OnError(k, error) == error /\ news[k].attempts >= MaxAttempts
GiveUp(k, error) == news[k].late \/ (error /\ news[k].attempts >= MaxAttempts)
NewsWork(w) ==
  LET k == worker[w].key IN
  /\ At(w, "newsWork")
  /\ \E result \in {"analysis", "waiting", "error", "off"} :
       worker' = [worker EXCEPT ![w].pc = "newsWrite",
         ![w].state = CASE result = "off" \/ GiveUp(k, result = "error") -> "failed"
                        [] ~GiveUp(k, FALSE) /\ result = "analysis"       -> "succeeded"
                        [] OTHER                                         -> "queued"]
  /\ UNCHANGED data /\ NoTables

(* The final transaction of run_news_update_once. *)
NewsWrite(w) ==
  LET k == worker[w].key IN
  /\ At(w, "newsWrite")
  /\ IF news[k].state = "none" THEN UNCHANGED <<run, news>>  \* conversation deleted
     ELSE IF worker[w].state = "queued"
     THEN news' = [news EXCEPT ![k].state = "pending", ![k].due = FALSE] /\ UNCHANGED run
     ELSE /\ news' = [news EXCEPT ![k].state =
                        IF worker[w].state = "succeeded" THEN "done" ELSE "expired"]
          /\ run' = [run EXCEPT ![k].updates = @ + 1]
  /\ Free(w)
  /\ UNCHANGED <<session, data, singleton>> /\ Elsewhere

WorkerStep(w) ==
  \/ WorkerStart(w) \/ (\E k \in Keys : ClaimRun(w, k)) \/ ReadRun(w) \/ Context(w)
  \/ Plan(w) \/ Resolve(w) \/ TakeLock(w) \/ Activate(w) \/ Pipeline(w)
  \/ StoreAnswer(w) \/ StoreFailure(w)
  \/ NoQuestion(w) \/ ClaimNews(w) \/ NewsWork(w) \/ NewsWrite(w)

(* Locks and singleton are files locked by the process: they go with it. *)
WorkerCrash(w) ==
  /\ ~At(w, "down")
  /\ crashes < MaxCrashes
  /\ crashes' = crashes + 1
  /\ worker' = [worker EXCEPT ![w] = DownWorker]
  /\ singleton' = Nobody
  /\ Unlock(w)
  /\ UNCHANGED <<session, run, news, charged, created, req, deaths>>

-----------------------------------------------------------------------------
(* The rest of the system.                                                 *)

WorldOnly == UNCHANGED <<charged, created, req, worker, singleton, deaths, crashes>>

(* delete_owned_session, with the cascade over runs and news updates. *)
DeleteSession(s) ==
  /\ session[s].exists
  /\ session' = [session EXCEPT ![s].exists = FALSE]
  /\ run' = [k \in Keys |-> IF SessionOf[k] = s THEN NoRun ELSE run[k]]
  /\ news' = [k \in Keys |-> IF SessionOf[k] = s THEN NoNews ELSE news[k]]
  /\ UNCHANGED data /\ WorldOnly

(* attach_session_dataset, by the import worker. *)
Attach(s) ==
  /\ session[s].exists /\ session[s].gen = 0 /\ ~session[s].readOnly
  /\ session' = [session EXCEPT ![s].gen = data.gen]
  /\ UNCHANGED <<data, run, news>> /\ WorldOnly

(* A build switches to its new generation under the dataset lock. *)
Rebuild ==
  /\ data.lock = Nobody
  /\ data.gen <= MaxBuilds
  /\ data' = [data EXCEPT !.gen = @ + 1]
  /\ UNCHANGED <<session, run, news>> /\ WorldOnly

(* The report is unshared, deleted, or loses its artifacts. *)
ReportLost ==
  /\ data.usable
  /\ data' = [data EXCEPT !.usable = FALSE]
  /\ UNCHANGED <<session, run, news>> /\ WorldOnly

(* due_at and expires_at pass. *)
NewsDue ==
  /\ \E k \in Keys : /\ news[k].state = "pending" /\ ~news[k].due
                     /\ news' = [news EXCEPT ![k].due = TRUE]
  /\ UNCHANGED <<session, data, run>> /\ WorldOnly
NewsLate ==
  /\ \E k \in Keys : /\ news[k].state \in {"pending", "running"} /\ ~news[k].late
                     /\ news' = [news EXCEPT ![k].late = TRUE]
  /\ UNCHANGED <<session, data, run>> /\ WorldOnly

Next ==
  \/ ApiStep
  \/ \E w \in Workers : WorkerStep(w) \/ WorkerCrash(w)
  \/ \E s \in Sessions : DeleteSession(s) \/ Attach(s)
  \/ Rebuild \/ ReportLost \/ NewsDue \/ NewsLate

(* A worker is running or restarted, and the clock advances. *)
Fairness ==
  /\ WF_vars(\E w \in Workers : WorkerStep(w))
  /\ WF_vars(NewsDue) /\ WF_vars(NewsLate)
Spec == Init /\ [][Next]_vars
FairSpec == Spec /\ Fairness
-----------------------------------------------------------------------------
(* What the queue promises.                                                *)

Answering == WorkerPoints \ {"down", "idle", "news", "newsWork", "newsWrite"}

(* A running run is in the hands of the live worker, and the worker's run is *)
(* still running (or deleted) until it stores the answer: no run stays       *)
(* running for ever, and no answer is computed to be thrown away by          *)
(* finish_run's RuntimeError.                                                *)
RunningIsOwned ==
  /\ \A k \in Keys : run[k].state = "running" =>
       \/ singleton = Nobody
       \/ worker[singleton].pc \in Answering /\ worker[singleton].key = k
  /\ \A w \in Workers : worker[w].pc \in Answering =>
       run[worker[w].key].state \in {"none", "running"}

(* Every financial answer was computed from the generation its conversation  *)
(* is pinned to, although reports are rebuilt at any moment between the      *)
(* API's check and the pipeline's end.                                       *)
AnswerFromPinnedGeneration ==
  \A k \in Keys : run[k].basis # 0 =>
    run[k].basis = run[k].gen /\ run[k].gen = session[SessionOf[k]].gen

(* A conversation is closed to new questions only because its report is gone *)
(* or rebuilt, never because it is busy or being built.                      *)
ReadOnlyIsJustified ==
  \A s \in Sessions : session[s].readOnly =>
    session[s].gen # 0 /\ (~data.usable \/ data.gen # session[s].gen)

(* A question gets at most one news message, and only after its answer from  *)
(* the report: restarting the worker never posts a second one.               *)
NewsOnce ==
  \A k \in Keys : run[k].updates <= 1
    /\ (run[k].updates = 1 => run[k].basis # 0 /\ run[k].answers = 1)

(* The question quota is charged once per question, however often its key is *)
(* sent (docs/operations.md).  A deleted conversation has no question.       *)
ChargedOnce ==
  \A k \in Keys : session[SessionOf[k]].exists => charged[k] <= 1

(* Every question the API accepted ends: answered, failed, interrupted, or   *)
(* deleted with its conversation.                                            *)
QuestionEnds == \A k \in Keys : run[k].state = "queued" ~> run[k].state \notin Active

(* A promised news message is written, if only to say that none will come.   *)
NewsEnds ==
  \A k \in Keys : news[k].state = "pending" ~> news[k].state \notin {"pending", "running"}

(* Both: what the API accepted or promised comes to an end.                  *)
PromisesEnd == QuestionEnds /\ NewsEnds

(* The queue implements one question at a time, taken up once and ended for  *)
(* good, with one message at most and none after the conversation is gone:   *)
(* recovery marks a half-answered run interrupted and never queues it again, *)
(* so the model is not called twice for it (docs/operations.md).             *)
Phase(k) ==
  IF ~session[SessionOf[k]].exists THEN "gone"
  ELSE CASE run[k].state = "none"    -> "none"   [] run[k].state = "queued" -> "asked"
         [] run[k].state = "running" -> "taken"  [] OTHER                   -> "ended"
Question == INSTANCE QuestionAnswer WITH
  phase <- [k \in Keys |-> Phase(k)],
  answers <- [k \in Keys |-> run[k].answers],
  updates <- [k \in Keys |-> run[k].updates]
QuestionSpec == Question!Spec
=============================================================================
