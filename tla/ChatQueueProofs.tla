--------------------------- MODULE ChatQueueProofs ---------------------------
(***************************************************************************)
(* The chat queue for every number of conversations, keys, requests and    *)
(* workers.  The invariant follows what is read where: a run keeps what its *)
(* request read of the conversation (RunOK), the conversation's pin never   *)
(* changes once set (SessionOK), and the one live worker's locals agree     *)
(* with the row it claimed until it writes that row (WorkerOK).             *)
(***************************************************************************)
EXTENDS ChatQueue, TLAPS

(* The rows of TypeOK, named. *)
SessionRow == [exists : BOOLEAN, gen : Nat, readOnly : BOOLEAN]
DataRow == [gen : Nat \ {0}, usable : BOOLEAN, lock : Workers \union {Nobody}]
RunRow == [state : RunStates, override : BOOLEAN, gen : Nat, ticket : Nat,
           task : Tasks, answers : Nat, updates : Nat, basis : Nat]
NewsStates == {"none", "pending", "running", "done", "expired"}
NewsRow == [state : NewsStates, attempts : Nat, due : BOOLEAN, late : BOOLEAN]
RequestRow == [pc : {"new", "check", "submit", "done"}, key : Keys \union {NoKey},
               override : BOOLEAN, gen : Nat]
Locals == [pc : WorkerPoints, key : Keys \union {NoKey}, override : BOOLEAN,
           gen : Nat, state : RunStates, task : Tasks, basis : Nat, flag : BOOLEAN]

Types ==
  /\ session \in [Sessions -> SessionRow] /\ data \in DataRow
  /\ run \in [Keys -> RunRow] /\ news \in [Keys -> NewsRow]
  /\ charged \in [Keys -> Nat] /\ created \in Nat
  /\ req \in [Requests -> RequestRow] /\ worker \in [Workers -> Locals]
  /\ singleton \in Workers \union {Nobody}
  /\ deaths \in Nat /\ crashes \in Nat

(* One run and its news update. *)
RunOK(k) ==
  /\ run[k].state \in {"none"} \union Active =>
       /\ run[k].answers = 0 /\ run[k].updates = 0 /\ run[k].basis = 0
       /\ news[k].state = "none"
  /\ ~session[SessionOf[k]].exists => run[k].state = "none"
  /\ (run[k].state # "none" /\ run[k].gen # 0) => run[k].gen = session[SessionOf[k]].gen
  /\ run[k].basis # 0 => run[k].basis = run[k].gen
  /\ run[k].answers \in {0, 1} /\ run[k].updates \in {0, 1}
  /\ (news[k].state # "none" \/ run[k].updates = 1) => run[k].answers = 1 /\ run[k].basis # 0
  /\ news[k].state \in {"pending", "running"} => run[k].updates = 0

(* At any time one run at most is running, and who runs it is alive. *)
OneRunning ==
  \A k1, k2 \in Keys : run[k1].state = "running" /\ run[k2].state = "running" => k1 = k2
RunningHeld ==
  \A k \in Keys : run[k].state = "running" =>
    \A w \in Workers : singleton = w => worker[w].pc \in Answering /\ worker[w].key = k

RunsInv == (\A k \in Keys : RunOK(k)) /\ OneRunning /\ RunningHeld

(* A conversation is pinned to a generation there has been. *)
SessionOK(s) ==
  /\ session[s].gen <= data.gen
  /\ session[s].readOnly => session[s].gen # 0 /\ Changed(session[s].gen)
SessionsInv == \A s \in Sessions : SessionOK(s)

(* What a request read of its conversation. *)
RequestOK(r) ==
  req[r].pc \in {"check", "submit"} =>
    /\ req[r].key \in Keys
    /\ req[r].gen # 0 => req[r].gen = session[SessionOf[req[r].key]].gen
    /\ req[r].pc = "check" => req[r].gen # 0
RequestsInv == \A r \in Requests : RequestOK(r)

Locking == {"activate", "pipeline"}
Before == Answering \ {"answer", "fail"}
(* The worker at its program point: which process, which run, which report. *)
ProcessOK(w) ==
  /\ (worker[w].pc # "down") <=> (singleton = w)
  /\ worker[w].pc \in Locking => data.lock = w
ClaimedOK(w) == LET me == worker[w]  k == me.key IN
  /\ me.pc \in Answering =>
       /\ k \in Keys
       /\ run[k].state = "running" \/ (run[k].state = "none" /\ ~session[SessionOf[k]].exists)
       /\ (me.pc # "read" /\ run[k].state = "running") => me.gen = run[k].gen
  /\ me.pc \in {"newsWork", "newsWrite"} => k \in Keys /\ news[k].state \in {"none", "running"}
LocalsOK(w) == LET me == worker[w] IN
  /\ me.pc \in Before => ~me.flag /\ me.basis = 0
  /\ me.pc \in {"resolve", "lock"} \union Locking => me.gen # 0
  /\ me.pc = "pipeline" => data.gen = me.gen
  /\ me.pc = "answer" => /\ me.state \in {"succeeded", "failed"}
                         /\ me.basis # 0 => me.basis = me.gen
                         /\ me.flag => me.basis # 0
  /\ (me.pc = "fail" /\ me.flag /\ run[me.key].state = "running") => me.gen # 0 /\ Changed(me.gen)
WorkersInv == \A w \in Workers : ProcessOK(w) /\ ClaimedOK(w) /\ LocalsOK(w)

IInv == Types /\ RunsInv /\ SessionsInv /\ RequestsInv /\ WorkersInv

-----------------------------------------------------------------------------
(* Names, and rows made from them.                                          *)

LEMMA TypesAre == Types <=> TypeOK
BY DEF Types, TypeOK, SessionRow, DataRow, RunRow, NewsStates, NewsRow, RequestRow, Locals

LEMMA Names ==
  /\ {"none", "queued", "running", "succeeded", "failed", "interrupted"} = RunStates
  /\ {"", "discovery", "qa"} = Tasks
  /\ Answering = {"read", "context", "plan", "resolve", "lock", "activate", "pipeline",
                  "answer", "fail"}
  /\ WorkerPoints = Answering \union {"down", "idle", "news", "newsWork", "newsWrite"}
  /\ Before = {"read", "context", "plan", "resolve", "lock", "activate", "pipeline"}
BY DEF RunStates, Active, Tasks, WorkerPoints, Answering, Before

LEMMA Rows ==
  /\ NoRun \in RunRow /\ NoRun.state = "none" /\ NoRun.gen = 0 /\ NoRun.answers = 0
     /\ NoRun.updates = 0 /\ NoRun.basis = 0
  /\ NoNews \in NewsRow /\ NoNews.state = "none"
  /\ IdleWorker \in Locals /\ IdleWorker.pc = "idle" /\ ~IdleWorker.flag /\ IdleWorker.basis = 0
  /\ DownWorker \in Locals /\ DownWorker.pc = "down"
  /\ \A k \in Keys : SessionOf[k] \in Sessions
BY Names, ChatAssumption DEF NoRun, RunRow, NoNews, NewsStates, NewsRow, IdleWorker, DownWorker, Locals

(* A run row after one of its fields is written. *)
SameBut(new, old, state) ==
  /\ new.state = state /\ new.gen = old.gen /\ new.basis = old.basis
  /\ new.answers = old.answers /\ new.updates = old.updates

LEMMA StateWritten ==
  ASSUME NEW row \in RunRow, NEW state \in RunStates
  PROVE  [row EXCEPT !.state = state] \in RunRow
         /\ SameBut([row EXCEPT !.state = state], row, state)
BY DEF RunRow, SameBut

LEMMA NewsWritten ==
  ASSUME NEW row \in NewsRow, NEW state \in NewsStates
  PROVE  [row EXCEPT !.state = state] \in NewsRow
         /\ [row EXCEPT !.state = state].state = state
BY DEF NewsRow

LEMMA InitIInv == Init => IInv
<1> SUFFICES ASSUME Init PROVE IInv
  OBVIOUS
<1>1. /\ \A s \in Sessions : session[s].exists /\ ~session[s].readOnly /\ session[s].gen \in {0, 1}
      /\ data.gen = 1
      /\ \A k \in Keys : run[k] = NoRun /\ news[k] = NoNews
      /\ \A r \in Requests : req[r].pc = "new"
      /\ \A w \in Workers : worker[w] = DownWorker /\ singleton # w
  BY ChatAssumption DEF Init, NewRequest
<1>2. Types
  <2>1. session \in [Sessions -> SessionRow] /\ data \in DataRow
    BY DEF Init, SessionRow, DataRow
  <2>2. req \in [Requests -> RequestRow]
    BY DEF Init, NewRequest, RequestRow
  <2> QED BY <2>1, <2>2, Rows DEF Types, Init
<1>3. RunsInv
  BY <1>1, Rows DEF RunsInv, RunOK, OneRunning, RunningHeld
<1>4. SessionsInv /\ RequestsInv
  BY <1>1 DEF SessionsInv, SessionOK, RequestsInv, RequestOK
<1>5. WorkersInv
  BY <1>1, Rows, Names DEF WorkersInv, ProcessOK, ClaimedOK, LocalsOK, Locking
<1> QED BY <1>2, <1>3, <1>4, <1>5 DEF IInv

-----------------------------------------------------------------------------
(* What stays true of those who do not move.                                *)

LEMMA OthersAreDown ==
  ASSUME WorkersInv, NEW w \in Workers, worker[w].pc # "down" \/ singleton = Nobody
  PROVE  \A v \in Workers : v # w => worker[v].pc = "down" /\ singleton # v
BY ChatAssumption DEF WorkersInv, ProcessOK

LEMMA DownIsOK ==
  ASSUME NEW v \in Workers, worker[v].pc = "down", singleton # v
  PROVE  ProcessOK(v) /\ ClaimedOK(v) /\ LocalsOK(v)
BY Names DEF ProcessOK, ClaimedOK, LocalsOK, Locking

(* Only w moves, and it was the live one or becomes it. *)
LEMMA OneMoves ==
  ASSUME IInv, NEW w \in Workers, worker[w].pc # "down" \/ singleton = Nobody,
         \A v \in Workers : v # w => worker'[v] = worker[v], singleton' \in {w, Nobody},
         ProcessOK(w)', ClaimedOK(w)', LocalsOK(w)'
  PROVE  WorkersInv'
<1> SUFFICES ASSUME NEW v \in Workers, v # w PROVE (ProcessOK(v) /\ ClaimedOK(v) /\ LocalsOK(v))'
  BY DEF WorkersInv
<1>1. worker'[v].pc = "down" /\ singleton' # v
  BY OthersAreDown, ChatAssumption DEF IInv
<1> QED BY <1>1, Names DEF ProcessOK, ClaimedOK, LocalsOK, Locking

LEMMA RequestsKeep ==
  ASSUME IInv, UNCHANGED req,
         \A s \in Sessions : session'[s].gen = session[s].gen \/ session[s].gen = 0
  PROVE  RequestsInv'
BY Rows DEF IInv, RequestsInv, RequestOK

LEMMA SessionsKeep ==
  ASSUME IInv, UNCHANGED session, data'.gen = data.gen, data'.usable = data.usable
  PROVE  SessionsInv'
BY DEF IInv, SessionsInv, SessionOK, Changed

(* A step of the live worker that writes no table, taking or freeing the lock. *)
LEMMA LocalStep ==
  ASSUME IInv, NEW w \in Workers, worker[w].pc # "down", NEW me \in Locals,
         worker' = [worker EXCEPT ![w] = me], NoTables,
         data' \in DataRow, data'.gen = data.gen, data'.usable = data.usable,
         me.pc # "down", me.pc \in Locking => data'.lock = w,
         worker[w].pc \in Answering => 
           \/ me.pc \in Answering /\ me.key = worker[w].key
           \/ run[worker[w].key].state = "none",
         ClaimedOK(w)', LocalsOK(w)'
  PROVE  IInv'
<1>1. /\ UNCHANGED <<session, run, news, singleton, charged, created, req, deaths, crashes>>
      /\ worker' \in [Workers -> Locals] /\ worker'[w] = me
      /\ \A v \in Workers : v # w => worker'[v] = worker[v]
      /\ singleton = w
  BY DEF NoTables, Elsewhere, IInv, Types, WorkersInv, ProcessOK
<1>2. Types'
  BY <1>1 DEF IInv, Types
<1>3. RunsInv'
  <2>1. \A k \in Keys : RunOK(k)'
    BY <1>1 DEF IInv, RunsInv, RunOK
  <2>2. OneRunning'
    BY <1>1 DEF IInv, RunsInv, OneRunning
  <2>3. RunningHeld'
    BY <1>1 DEF IInv, RunsInv, RunningHeld
  <2> QED BY <2>1, <2>2, <2>3 DEF RunsInv
<1>4. SessionsInv' /\ RequestsInv'
  BY <1>1, SessionsKeep, RequestsKeep
<1>5. ProcessOK(w)'
  BY <1>1 DEF ProcessOK
<1>6. WorkersInv'
  BY <1>1, <1>5, OneMoves
<1> QED BY <1>2, <1>3, <1>4, <1>6 DEF IInv

-----------------------------------------------------------------------------
(* The worker's local steps.                                                *)

LEMMA Knows ==
  ASSUME IInv, NEW w \in Workers
  PROVE  /\ worker[w] \in Locals /\ data \in DataRow /\ worker \in [Workers -> Locals]
         /\ ProcessOK(w) /\ ClaimedOK(w) /\ LocalsOK(w)
BY DEF IInv, Types, WorkersInv

(* Going on with the same question. *)
LEMMA Continues ==
  ASSUME IInv, NEW w \in Workers, NEW me \in Locals,
         worker' = [worker EXCEPT ![w] = me], UNCHANGED data, NoTables,
         worker[w].pc \in Before, worker[w].pc # "read",
         me.pc \in Answering \ {"read", "pipeline", "activate"}, me.key = worker[w].key,
         me.gen = worker[w].gen, me.basis = 0, ~me.flag,
         me.pc \in {"resolve", "lock"} => me.gen # 0,
         me.pc = "answer" => me.state \in {"succeeded", "failed"}
  PROVE  IInv'
<1>1. worker'[w] = me /\ UNCHANGED <<session, run, news>>
  BY Knows DEF NoTables
<1>2. ClaimedOK(w)'
  BY <1>1, Knows, Names DEF ClaimedOK
<1>3. LocalsOK(w)'
  BY <1>1, Names DEF LocalsOK, Locking
<1> QED BY <1>2, <1>3, Knows, LocalStep, Names DEF Locking

LEMMA PointOf ==
  ASSUME NEW me \in Locals, NEW pc \in WorkerPoints
  PROVE  /\ [me EXCEPT !.pc = pc] \in Locals /\ [me EXCEPT !.pc = pc].pc = pc
         /\ [me EXCEPT !.pc = pc].key = me.key /\ [me EXCEPT !.pc = pc].gen = me.gen
         /\ [me EXCEPT !.pc = pc].basis = me.basis /\ [me EXCEPT !.pc = pc].flag = me.flag
         /\ [me EXCEPT !.pc = pc].state = me.state
BY DEF Locals

LEMMA ContextKeeps ==
  ASSUME IInv, NEW w \in Workers, Context(w) \/ Plan(w)
  PROVE  IInv'
<1>1. PICK old \in Locals : old = worker[w]
  BY Knows
<1>2. worker[w].pc \in {"context", "plan"} /\ UNCHANGED data /\ NoTables
      /\ old.basis = 0 /\ ~old.flag
  BY <1>1, Knows, Names DEF Context, Plan, At, LocalsOK
<1>3. ASSUME NEW pc \in {"plan", "resolve", "fail"}, Goto(w, pc), pc = "resolve" => old.gen # 0
      PROVE  IInv'
  <2>1. PICK me \in Locals : me = [old EXCEPT !.pc = pc]
    BY PointOf, Names
  <2>2. worker' = [worker EXCEPT ![w] = me]
    BY <1>1, <1>3, <2>1 DEF Goto
  <2>3. /\ me.pc = pc /\ me.key = old.key /\ me.gen = old.gen /\ me.basis = old.basis
        /\ me.flag = old.flag
    BY <2>1 DEF Locals
  <2> QED BY <1>1, <1>2, <1>3, <2>2, <2>3, Continues, Names
<1>4. ASSUME NEW state \in {"succeeded", "failed"}, NEW task \in Tasks, Finish(w, state, task)
      PROVE  IInv'
  <2>1. PICK me : me = [old EXCEPT !.pc = "answer", !.state = state, !.task = task]
    OBVIOUS
  <2>2. /\ me \in Locals /\ me.pc = "answer" /\ me.key = old.key /\ me.gen = old.gen
        /\ me.basis = old.basis /\ me.flag = old.flag /\ me.state = state
    BY <1>1, <2>1, Names DEF Locals
  <2>3. worker' = [worker EXCEPT ![w] = me]
    BY <1>1, <1>4, <2>1 DEF Finish
  <2> QED BY <1>1, <1>2, <2>2, <2>3, Continues, Names
<1> QED BY <1>1, <1>3, <1>4, Names DEF Context, Plan

LEMMA ReadRunKeeps ==
  ASSUME IInv, NEW w \in Workers, ReadRun(w)
  PROVE  IInv'
<1>1. PICK old \in Locals, k \in Keys : old = worker[w] /\ k = worker[w].key
  BY Knows, Names DEF ReadRun, At, ClaimedOK
<1>2. old.pc = "read" /\ UNCHANGED data /\ NoTables /\ run[k] \in RunRow
      /\ old.basis = 0 /\ ~old.flag
  BY <1>1, Knows, Names DEF ReadRun, At, LocalsOK, IInv, Types
<1>3. CASE run[k].state = "none"
  <2>1. worker' = [worker EXCEPT ![w] = IdleWorker] /\ worker'[w] = IdleWorker
    BY <1>1, <1>3, Knows DEF ReadRun, Free
  <2>2. worker'[w].pc = "idle"
    BY <2>1, Rows
  <2>3. ClaimedOK(w)' /\ LocalsOK(w)'
    BY <2>2, Names DEF ClaimedOK, LocalsOK, Locking
  <2> QED BY <1>1, <1>2, <1>3, <2>1, <2>3, Rows, Knows, LocalStep DEF Locking
<1>4. CASE run[k].state # "none"
  <2>1. PICK me : me = [old EXCEPT !.pc = "context", !.override = run[k].override, !.gen = run[k].gen]
    OBVIOUS
  <2>2. me \in Locals /\ me.pc = "context" /\ me.key = k /\ me.gen = run[k].gen
        /\ me.basis = 0 /\ ~me.flag
    BY <1>1, <1>2, <2>1, Names DEF Locals, RunRow
  <2>3. worker' = [worker EXCEPT ![w] = me]
    BY <1>1, <1>4, <2>1 DEF ReadRun
  <2>4. worker'[w] = me /\ UNCHANGED <<session, run, news>>
    BY <1>2, <2>3, Knows DEF NoTables
  <2>5. ClaimedOK(w)'
    BY <1>1, <1>2, <2>2, <2>4, Knows, Names DEF ClaimedOK
  <2>6. LocalsOK(w)'
    BY <2>2, <2>4, Names DEF LocalsOK, Locking
  <2> QED BY <1>1, <1>2, <2>2, <2>3, <2>5, <2>6, Knows, LocalStep, Names DEF Locking
<1> QED BY <1>3, <1>4

LEMMA PassedLocals ==
  ASSUME NEW w \in Workers,
         \/ (worker[w].pc = "fail" /\ worker[w].gen # 0 /\ Changed(worker[w].gen))'
         \/ worker'[w].pc \in {"down", "idle", "news", "newsWork", "newsWrite"}
  PROVE  LocalsOK(w)'
BY Names DEF LocalsOK, Locking

LEMMA ResolveKeeps ==
  ASSUME IInv, NEW w \in Workers, Resolve(w)
  PROVE  IInv'
<1>1. PICK old \in Locals : old = worker[w]
  BY Knows
<1>2. old.pc = "resolve" /\ UNCHANGED data /\ NoTables /\ old.basis = 0 /\ ~old.flag /\ old.gen # 0
  BY <1>1, Knows, Names DEF Resolve, At, LocalsOK
<1>3. CASE data.usable
  <2>1. PICK me : me = [old EXCEPT !.pc = "lock"]
    OBVIOUS
  <2>2. /\ me \in Locals /\ me.pc = "lock" /\ me.key = old.key /\ me.gen = old.gen
        /\ me.basis = 0 /\ ~me.flag
    BY <1>2, <2>1, Names DEF Locals
  <2>3. worker' = [worker EXCEPT ![w] = me]
    BY <1>1, <1>3, <2>1 DEF Resolve, Goto
  <2> QED BY <1>1, <1>2, <2>2, <2>3, Continues, Names
<1>4. CASE ~data.usable
  <2>1. PICK me : me = [old EXCEPT !.pc = "fail", !.flag = TRUE]
    OBVIOUS
  <2>2. me \in Locals /\ me.pc = "fail" /\ me.key = old.key /\ me.gen = old.gen
    BY <2>1, Names DEF Locals
  <2>3. worker' = [worker EXCEPT ![w] = me] /\ worker'[w] = me
    BY <1>1, <1>4, <2>1, Knows DEF Resolve, FailReadOnly
  <2>4. ClaimedOK(w)'
    BY <1>1, <1>2, <2>2, <2>3, Knows, Names DEF ClaimedOK, NoTables
  <2>5. LocalsOK(w)'
    BY <1>2, <1>4, <2>2, <2>3, PassedLocals DEF Changed
  <2> QED BY <1>1, <1>2, <2>2, <2>3, <2>4, <2>5, Knows, LocalStep, Names DEF Locking
<1> QED BY <1>3, <1>4

LEMMA TakeLockKeeps ==
  ASSUME IInv, NEW w \in Workers, TakeLock(w)
  PROVE  IInv'
<1>1. PICK old \in Locals : old = worker[w]
  BY Knows
<1>2. old.pc = "lock" /\ NoTables /\ old.basis = 0 /\ ~old.flag /\ old.gen # 0
  BY <1>1, Knows, Names DEF TakeLock, At, LocalsOK
<1>3. data' \in DataRow /\ data'.gen = data.gen /\ data'.usable = data.usable /\ data'.lock = w
  BY Knows DEF TakeLock, DataRow
<1>4. PICK me : me = [old EXCEPT !.pc = "activate"]
  OBVIOUS
<1>5. /\ me \in Locals /\ me.pc = "activate" /\ me.key = old.key /\ me.gen = old.gen
      /\ me.basis = 0 /\ ~me.flag
  BY <1>2, <1>4, Names DEF Locals
<1>6. worker' = [worker EXCEPT ![w] = me] /\ worker'[w] = me
  BY <1>1, <1>4, Knows DEF TakeLock, Goto
<1>7. ClaimedOK(w)'
  BY <1>1, <1>2, <1>5, <1>6, Knows, Names DEF ClaimedOK, NoTables
<1>8. LocalsOK(w)'
  BY <1>2, <1>5, <1>6, Names DEF LocalsOK, Locking
<1> QED BY <1>1, <1>2, <1>3, <1>5, <1>6, <1>7, <1>8, LocalStep, Names DEF Locking

LEMMA ActivateKeeps ==
  ASSUME IInv, NEW w \in Workers, Activate(w)
  PROVE  IInv'
<1>1. PICK old \in Locals : old = worker[w]
  BY Knows
<1>2. /\ old.pc = "activate" /\ UNCHANGED data /\ NoTables /\ old.basis = 0 /\ ~old.flag
      /\ old.gen # 0 /\ data.lock = w
  BY <1>1, Knows, Names DEF Activate, At, LocalsOK, ProcessOK, Locking
<1>3. CASE ~Changed(old.gen) /\ Goto(w, "pipeline")
  <2>1. PICK me : me = [old EXCEPT !.pc = "pipeline"]
    OBVIOUS
  <2>2. /\ me \in Locals /\ me.pc = "pipeline" /\ me.key = old.key /\ me.gen = old.gen
        /\ me.basis = 0 /\ ~me.flag
    BY <1>2, <2>1, Names DEF Locals
  <2>3. worker' = [worker EXCEPT ![w] = me] /\ worker'[w] = me
    BY <1>1, <1>3, <2>1, Knows DEF Goto
  <2>4. ClaimedOK(w)'
    <3>1. UNCHANGED <<session, run, news>>
      BY <1>2 DEF NoTables
    <3>2. /\ old.key \in Keys
          /\ run[old.key].state = "running"
                \/ (run[old.key].state = "none" /\ ~session[SessionOf[old.key]].exists)
          /\ run[old.key].state = "running" => old.gen = run[old.key].gen
      BY <1>1, <1>2, Knows, Names DEF ClaimedOK
    <3> QED BY <3>1, <3>2, <2>2, <2>3 DEF ClaimedOK
  <2>5. LocalsOK(w)'
    BY <1>2, <1>3, <2>2, <2>3, Names DEF LocalsOK, Locking, Changed
  <2> QED BY <1>1, <1>2, <2>2, <2>3, <2>4, <2>5, Knows, LocalStep, Names DEF Locking
<1>4. CASE Changed(old.gen) /\ FailReadOnly(w)
  <2>1. PICK me : me = [old EXCEPT !.pc = "fail", !.flag = TRUE]
    OBVIOUS
  <2>2. me \in Locals /\ me.pc = "fail" /\ me.key = old.key /\ me.gen = old.gen
    BY <2>1, Names DEF Locals
  <2>3. worker' = [worker EXCEPT ![w] = me] /\ worker'[w] = me
    BY <1>1, <1>4, <2>1, Knows DEF FailReadOnly
  <2>4. ClaimedOK(w)'
    BY <1>1, <1>2, <2>2, <2>3, Knows, Names, ZenonT(60) DEF ClaimedOK, NoTables
  <2>5. LocalsOK(w)'
    BY <1>2, <1>4, <2>2, <2>3, PassedLocals DEF Changed
  <2> QED BY <1>1, <1>2, <2>2, <2>3, <2>4, <2>5, Knows, LocalStep, Names DEF Locking
<1>5. CASE Goto(w, "fail")
  <2>1. PICK me : me = [old EXCEPT !.pc = "fail"]
    OBVIOUS
  <2>2. /\ me \in Locals /\ me.pc = "fail" /\ me.key = old.key /\ me.gen = old.gen
        /\ me.basis = 0 /\ ~me.flag
    BY <1>2, <2>1, Names DEF Locals
  <2>3. worker' = [worker EXCEPT ![w] = me]
    BY <1>1, <1>5, <2>1 DEF Goto
  <2> QED BY <1>1, <1>2, <2>2, <2>3, Continues, Names
<1> QED BY <1>1, <1>3, <1>4, <1>5 DEF Activate

LEMMA PipelineKeeps ==
  ASSUME IInv, NEW w \in Workers, Pipeline(w)
  PROVE  IInv'
<1>1. PICK old \in Locals : old = worker[w]
  BY Knows
<1>2. /\ old.pc = "pipeline" /\ NoTables /\ old.basis = 0 /\ ~old.flag
      /\ old.gen = data.gen /\ data.gen \in Nat \ {0}
  BY <1>1, Knows, Names DEF Pipeline, At, LocalsOK, DataRow
<1>3. data' \in DataRow /\ data'.gen = data.gen /\ data'.usable = data.usable
  BY Knows DEF Pipeline, Unlock, DataRow
<1>4. PICK incomplete \in BOOLEAN :
        \/ Goto(w, "fail")
        \/ worker' = [worker EXCEPT ![w].pc = "answer", ![w].state = "succeeded",
                        ![w].task = "qa", ![w].basis = data.gen, ![w].flag = incomplete]
  BY DEF Pipeline
<1> DEFINE failed == [old EXCEPT !.pc = "fail"]
           answer == [old EXCEPT !.pc = "answer", !.state = "succeeded", !.task = "qa",
                                 !.basis = data.gen, !.flag = incomplete]
<1>5. PICK me \in {failed, answer} : worker' = [worker EXCEPT ![w] = me]
  BY <1>1, <1>4 DEF Goto
<1>6. /\ me \in Locals /\ me.key = old.key /\ me.gen = old.gen
      /\ me.pc \in {"answer", "fail"} /\ (me.pc = "fail" => ~me.flag)
      /\ me.pc = "answer" => me.state = "succeeded" /\ me.basis = data.gen
  BY <1>2, <1>5, Names, ZenonT(60) DEF Locals
<1> HIDE DEF failed, answer
<1>7. worker'[w] = me
  BY <1>5, Knows
<1>8. ClaimedOK(w)'
  BY <1>1, <1>2, <1>6, <1>7, Knows, Names DEF ClaimedOK, NoTables
<1>9. LocalsOK(w)'
  BY <1>2, <1>6, <1>7, Names DEF LocalsOK, Locking
<1> QED BY <1>1, <1>2, <1>3, <1>5, <1>6, <1>8, <1>9, LocalStep, Names DEF Locking

LEMMA IdleStepsKeep ==
  ASSUME IInv, NEW w \in Workers, NoQuestion(w) \/ NewsWork(w)
  PROVE  IInv'
<1>1. PICK old \in Locals : old = worker[w]
  BY Knows
<1>2. old.pc \in {"idle", "newsWork"} /\ UNCHANGED data /\ NoTables
  BY <1>1 DEF NoQuestion, NewsWork, At
<1>3. PICK me : /\ worker' = [worker EXCEPT ![w] = me]
                /\ me \in Locals /\ me.key = old.key
                /\ \/ me.pc = "news"
                   \/ me.pc = "newsWrite" /\ old.pc = "newsWork"
  <2>1. CASE NoQuestion(w)
    <3>1. PICK me : me = [old EXCEPT !.pc = "news"]
      OBVIOUS
    <3>2. me \in Locals /\ me.key = old.key /\ me.pc = "news"
      BY <3>1, Names DEF Locals
    <3> QED BY <1>1, <2>1, <3>1, <3>2 DEF NoQuestion, Goto
  <2>2. CASE NewsWork(w)
    <3>1. PICK state \in {"failed", "succeeded", "queued"} :
            worker' = [worker EXCEPT ![w].pc = "newsWrite", ![w].state = state]
      BY <2>2 DEF NewsWork
    <3>2. PICK me : me = [old EXCEPT !.pc = "newsWrite", !.state = state]
      OBVIOUS
    <3>3. me \in Locals /\ me.key = old.key /\ me.pc = "newsWrite"
      BY <3>2, Names DEF Locals
    <3>4. worker' = [worker EXCEPT ![w] = me] /\ old.pc = "newsWork"
      BY <1>1, <2>2, <3>1, <3>2 DEF NewsWork, At
    <3> QED BY <3>3, <3>4
  <2> QED BY <2>1, <2>2
<1>4. worker'[w] = me
  BY <1>3, Knows
<1>5. ClaimedOK(w)'
  BY <1>1, <1>2, <1>3, <1>4, Knows, Names DEF ClaimedOK, NoTables
<1>6. LocalsOK(w)'
  BY <1>3, <1>4, PassedLocals
<1> QED BY <1>1, <1>2, <1>3, <1>5, <1>6, Knows, LocalStep, Names DEF Locking

-----------------------------------------------------------------------------
(* The worker's transactions.                                               *)

LEMMA ClaimRunKeeps ==
  ASSUME IInv, NEW w \in Workers, NEW k \in Keys, ClaimRun(w, k)
  PROVE  IInv'
<1>1. /\ worker[w].pc = "idle" /\ singleton = w /\ run[k].state = "queued"
      /\ UNCHANGED <<session, data, news, singleton, charged, created, req, deaths, crashes>>
  BY Knows DEF ClaimRun, At, Queued, Elsewhere, ProcessOK
<1>2. \A j \in Keys : run[j].state # "running"
  BY <1>1, Names DEF IInv, RunsInv, RunningHeld
<1>3. PICK me : me = [IdleWorker EXCEPT !.pc = "read", !.key = k]
  OBVIOUS
<1>4. /\ me \in Locals /\ me.pc = "read" /\ me.key = k /\ ~me.flag /\ me.basis = 0
  BY <1>3, Rows, Names DEF Locals
<1>5. worker' = [worker EXCEPT ![w] = me] /\ worker'[w] = me /\ worker' \in [Workers -> Locals]
      /\ \A v \in Workers : v # w => worker'[v] = worker[v]
  BY <1>3, <1>4, Knows DEF ClaimRun
<1>6. /\ run' \in [Keys -> RunRow] /\ SameBut(run'[k], run[k], "running")
      /\ \A j \in Keys : j # k => run'[j] = run[j]
  BY StateWritten, Names DEF ClaimRun, IInv, Types
<1>7. Types'
  BY <1>1, <1>5, <1>6 DEF IInv, Types
<1>8. RunsInv'
  <2>1. RunOK(k)'
    BY <1>1, <1>6 DEF IInv, RunsInv, RunOK, SameBut, Active
  <2>2. ASSUME NEW j \in Keys, j # k PROVE RunOK(j)'
    BY <1>1, <1>6, <2>2 DEF IInv, RunsInv, RunOK
  <2>3. OneRunning' /\ RunningHeld'
    BY <1>1, <1>2, <1>4, <1>5, <1>6, Names, ChatAssumption, ZenonT(60) DEF OneRunning, RunningHeld
  <2> QED BY <2>1, <2>2, <2>3 DEF RunsInv
<1>9. SessionsInv' /\ RequestsInv'
  BY <1>1, SessionsKeep, RequestsKeep
<1>10. ProcessOK(w)' /\ ClaimedOK(w)' /\ LocalsOK(w)'
  BY <1>1, <1>4, <1>5, <1>6, Names DEF ProcessOK, ClaimedOK, LocalsOK, Locking, SameBut
<1>11. WorkersInv'
  BY <1>1, <1>5, <1>10, OneMoves
<1> QED BY <1>7, <1>8, <1>9, <1>11 DEF IInv

LEMMA StoreAnswerKeeps ==
  ASSUME IInv, NEW w \in Workers, StoreAnswer(w)
  PROVE  IInv'
<1>1. PICK me \in Locals, k \in Keys : me = worker[w] /\ k = worker[w].key
  BY Knows, Names, ZenonT(60) DEF StoreAnswer, At, ClaimedOK
<1>2. /\ me.pc = "answer" /\ singleton = w
      /\ UNCHANGED <<session, data, charged, created, req, deaths, crashes>>
      /\ run[k].state = "running" \/ (run[k].state = "none" /\ ~session[SessionOf[k]].exists)
      /\ run[k].state = "running" => me.gen = run[k].gen
      /\ me.state \in {"succeeded", "failed"} /\ (me.basis # 0 => me.basis = me.gen)
      /\ me.flag => me.basis # 0
  BY <1>1, Knows, Names DEF StoreAnswer, At, ClaimedOK, LocalsOK, ProcessOK, Elsewhere
<1>3. singleton' = w
  BY <1>1, <1>2 DEF StoreAnswer
<1>4. /\ worker'[w] = IdleWorker /\ worker' \in [Workers -> Locals]
      /\ \A v \in Workers : v # w => worker'[v] = worker[v]
  <2>1. worker' = [worker EXCEPT ![w] = IdleWorker]
    BY <1>1, <1>2 DEF StoreAnswer, Free
  <2> QED BY <2>1, Knows, Rows, SMTT(60)
<1>5. SessionsInv' /\ RequestsInv'
  BY <1>2, SessionsKeep, RequestsKeep
<1>6. ProcessOK(w)' /\ ClaimedOK(w)' /\ LocalsOK(w)'
  <2>1. worker'[w].pc = "idle"
    BY <1>4, Rows
  <2> QED BY <1>3, <2>1, Names, PassedLocals DEF ProcessOK, ClaimedOK, Locking
<1>7. WorkersInv'
  <2>1. worker[w].pc # "down"
    BY <1>1, <1>2
  <2> QED BY <1>3, <1>4, <1>6, <2>1, OneMoves
<1>8. ASSUME NEW j \in Keys, j # k, run[j].state = "running" PROVE FALSE
  BY <1>1, <1>2, <1>8 DEF IInv, RunsInv, RunningHeld
<1>9. CASE run[k].state = "running"
  <2>0. PICK row \in RunRow : row = run[k]
    BY DEF IInv, Types
  <2>1. PICK new : new = [row EXCEPT !.state = me.state, !.task = me.task,
                                     !.answers = row.answers + 1, !.basis = me.basis]
    OBVIOUS
  <2>2. row.answers + 1 \in Nat /\ me.state \in RunStates /\ me.task \in Tasks /\ me.basis \in Nat
    BY DEF RunRow, Locals
  <2>3. /\ new \in RunRow /\ new.state = me.state /\ new.gen = run[k].gen
        /\ new.answers = run[k].answers + 1 /\ new.updates = run[k].updates
        /\ new.basis = me.basis
    BY <2>0, <2>1, <2>2 DEF RunRow
  <2>4. run' = [run EXCEPT ![k] = new]
    <3>1. run' = [run EXCEPT ![k].state = me.state, ![k].task = me.task,
                             ![k].answers = run[k].answers + 1, ![k].basis = me.basis]
      BY <1>1, <1>9 DEF StoreAnswer
    <3> QED BY <2>0, <2>1, <3>1
  <2>5. /\ run' \in [Keys -> RunRow] /\ run'[k] = new
        /\ \A j \in Keys : j # k => run'[j] = run[j]
    BY <2>3, <2>4 DEF IInv, Types
  <2>6. PICK update : update = [NoNews EXCEPT !.state = "pending"]
    OBVIOUS
  <2>7. update \in NewsRow /\ update.state = "pending"
    BY <2>6, Rows, NewsWritten DEF NewsStates
  <2>8. news' = IF me.flag THEN [news EXCEPT ![k] = update] ELSE news
    BY <1>1, <1>9, <2>6 DEF StoreAnswer
  <2>9. /\ news' \in [Keys -> NewsRow]
        /\ news'[k].state = IF me.flag THEN "pending" ELSE news[k].state
        /\ \A j \in Keys : j # k => news'[j] = news[j]
    BY <2>7, <2>8 DEF IInv, Types
  <2>10. Types'
    BY <1>2, <1>3, <1>4, <2>5, <2>9 DEF IInv, Types
  <2>11. RunOK(k)'
    BY <1>2, <1>9, <2>3, <2>5, <2>9 DEF IInv, RunsInv, RunOK, Active
  <2>12. ASSUME NEW j \in Keys, j # k PROVE RunOK(j)'
    BY <1>2, <2>5, <2>9, <2>12 DEF IInv, RunsInv, RunOK
  <2>13. OneRunning' /\ RunningHeld'
    BY <1>2, <1>8, <2>3, <2>5 DEF OneRunning, RunningHeld
  <2> QED BY <1>5, <1>7, <2>10, <2>11, <2>12, <2>13 DEF IInv, RunsInv
<1>10. CASE run[k].state = "none"
  <2>1. UNCHANGED <<run, news>>
    BY <1>1, <1>10 DEF StoreAnswer
  <2>2. Types'
    BY <1>2, <1>3, <1>4, <2>1 DEF IInv, Types
  <2>3. \A j \in Keys : RunOK(j)'
    BY <1>2, <2>1 DEF IInv, RunsInv, RunOK
  <2>4. OneRunning' /\ RunningHeld'
    BY <1>8, <1>10, <2>1 DEF OneRunning, RunningHeld
  <2> QED BY <1>5, <1>7, <2>2, <2>3, <2>4 DEF IInv, RunsInv
<1> QED BY <1>2, <1>9, <1>10

LEMMA StoreFailureKeeps ==
  ASSUME IInv, NEW w \in Workers, StoreFailure(w)
  PROVE  IInv'
<1>1. PICK me \in Locals, k \in Keys : me = worker[w] /\ k = worker[w].key
  BY Knows, Names DEF StoreFailure, At, ClaimedOK
<1>2. /\ me.pc = "fail" /\ singleton = w
      /\ UNCHANGED <<news, singleton, charged, created, req, deaths, crashes>>
      /\ run[k].state = "running" \/ (run[k].state = "none" /\ ~session[SessionOf[k]].exists)
      /\ run[k].state = "running" => me.gen = run[k].gen
      /\ (me.flag /\ run[k].state = "running") => me.gen # 0 /\ Changed(me.gen)
  BY <1>1, Knows, Names DEF StoreFailure, At, ClaimedOK, LocalsOK, ProcessOK, Elsewhere
<1>3. /\ worker'[w] = IdleWorker /\ worker' \in [Workers -> Locals]
      /\ \A v \in Workers : v # w => worker'[v] = worker[v]
  BY Knows, Rows DEF StoreFailure, Free
<1>4. data' \in DataRow /\ data'.gen = data.gen /\ data'.usable = data.usable
  BY Knows DEF StoreFailure, Unlock, DataRow
<1>5. PICK s \in Sessions : s = SessionOf[k]
  BY Rows
<1>6. session[s] \in SessionRow /\ session \in [Sessions -> SessionRow]
  BY DEF IInv, Types
<1>7. /\ session' \in [Sessions -> SessionRow]
      /\ \A x \in Sessions : /\ session'[x].exists <=> session[x].exists
                             /\ session'[x].gen = session[x].gen
      /\ \A x \in Sessions : x # s \/ ~me.flag \/ ~session[s].exists =>
                             (session'[x].readOnly <=> session[x].readOnly)
  <2>1. CASE me.flag
    <3>1. PICK closed \in BOOLEAN :
            /\ session' = [session EXCEPT ![s].readOnly = closed]
            /\ ~session[s].exists => (closed <=> session[s].readOnly)
      BY <1>1, <1>5, <2>1 DEF StoreFailure, ReadOnly
    <3>2. /\ session' \in [Sessions -> SessionRow] /\ \A x \in Sessions : x # s => session'[x] = session[x]
          /\ session'[s].exists = session[s].exists /\ session'[s].gen = session[s].gen
          /\ session'[s].readOnly = closed
      BY <1>6, <3>1 DEF SessionRow
    <3> QED BY <2>1, <3>1, <3>2
  <2>2. CASE ~me.flag
    BY <1>1, <1>6, <2>2 DEF StoreFailure
  <2> QED BY <2>1, <2>2
<1>8. ASSUME NEW j \in Keys, j # k, run[j].state = "running" PROVE FALSE
  BY <1>1, <1>2, <1>8 DEF IInv, RunsInv, RunningHeld
<1>9. /\ run' \in [Keys -> RunRow]
      /\ run[k].state = "running" => SameBut(run'[k], run[k], "failed")
      /\ run[k].state = "none" => run'[k] = run[k]
      /\ \A j \in Keys : j # k => run'[j] = run[j]
  BY <1>1, StateWritten, Names DEF StoreFailure, IInv, Types
<1>10. Types'
  BY <1>2, <1>3, <1>4, <1>7, <1>9 DEF IInv, Types
<1>11. RunsInv'
  <2>1. CASE run[k].state = "running"
    <3>1. RunOK(k)'
      BY <1>2, <1>5, <1>7, <1>9, <2>1 DEF IInv, RunsInv, RunOK, Active, SameBut
    <3>2. ASSUME NEW j \in Keys, j # k PROVE RunOK(j)'
      BY <1>2, <1>7, <1>9, <3>2, Rows DEF IInv, RunsInv, RunOK
    <3>3. OneRunning' /\ RunningHeld'
      BY <1>8, <1>9, <2>1 DEF OneRunning, RunningHeld, SameBut
    <3> QED BY <3>1, <3>2, <3>3 DEF RunsInv
  <2>2. CASE run[k].state = "none"
    <3>1. \A j \in Keys : run'[j] = run[j]
      BY <1>9, <2>2
    <3>2. \A j \in Keys : RunOK(j)'
      BY <1>2, <1>7, <3>1, Rows DEF IInv, RunsInv, RunOK
    <3>3. OneRunning' /\ RunningHeld'
      BY <1>8, <2>2, <3>1 DEF OneRunning, RunningHeld
    <3> QED BY <3>2, <3>3 DEF RunsInv
  <2> QED BY <1>2, <2>1, <2>2
<1>12. SessionsInv'
  <2>1. ASSUME NEW x \in Sessions PROVE SessionOK(x)'
    <3>1. CASE x = s /\ me.flag /\ session[s].exists
      <4>1. run[k].state = "running" /\ me.gen = session[s].gen /\ me.gen # 0 /\ Changed(me.gen)
        BY <1>2, <1>5, <3>1 DEF IInv, RunsInv, RunOK
      <4> QED BY <1>4, <1>7, <3>1, <4>1 DEF IInv, SessionsInv, SessionOK, Changed
    <3>2. CASE ~(x = s /\ me.flag /\ session[s].exists)
      BY <1>4, <1>7, <3>2 DEF IInv, SessionsInv, SessionOK, Changed
    <3> QED BY <3>1, <3>2
  <2> QED BY <2>1 DEF SessionsInv
<1>13. RequestsInv'
  BY <1>2, <1>7, RequestsKeep
<1>14. ProcessOK(w)' /\ ClaimedOK(w)' /\ LocalsOK(w)'
  <2>1. worker'[w].pc = "idle"
    BY <1>3, Rows
  <2> QED BY <1>2, <2>1, Names, PassedLocals DEF ProcessOK, ClaimedOK, Locking
<1>15. WorkersInv'
  <2>1. worker[w].pc # "down" /\ singleton' = w
    BY <1>1, <1>2
  <2> QED BY <2>1, <1>3, <1>14, OneMoves
<1> QED BY <1>10, <1>11, <1>12, <1>13, <1>15 DEF IInv

(* Only news updates that are not new are written: their runs are untouched. *)
LEMMA RunsWithNews ==
  ASSUME IInv, UNCHANGED <<session, run>>,
         \A j \in Keys : \/ news'[j].state = news[j].state
                         \/ news[j].state \in {"pending", "running"} /\ news'[j].state # "none"
  PROVE  \A j \in Keys : RunOK(j)'
BY SMTT(60) DEF IInv, RunsInv, RunOK

LEMMA ClaimNewsKeeps ==
  ASSUME IInv, NEW w \in Workers, ClaimNews(w)
  PROVE  IInv'
<1>1. /\ worker[w].pc = "news" /\ singleton = w
      /\ UNCHANGED <<session, data, run, singleton, charged, created, req, deaths, crashes>>
  BY Knows DEF ClaimNews, At, Elsewhere, ProcessOK
<1>2. \A j \in Keys : run[j].state # "running"
  BY <1>1, Names DEF IInv, RunsInv, RunningHeld
<1>3. SessionsInv' /\ RequestsInv'
  BY <1>1, SessionsKeep, RequestsKeep
<1>4. OneRunning' /\ RunningHeld'
  BY <1>1, <1>2 DEF OneRunning, RunningHeld
<1>5. ASSUME NEW me \in Locals, worker' = [worker EXCEPT ![w] = me], news' \in [Keys -> NewsRow],
             \A j \in Keys : \/ news'[j].state = news[j].state
                             \/ news[j].state = "pending" /\ news'[j].state = "running",
             \/ me.pc = "idle"
             \/ me.pc = "newsWork" /\ me.key \in Keys /\ news'[me.key].state = "running"
      PROVE  IInv'
  <2>1. /\ worker'[w] = me /\ worker' \in [Workers -> Locals]
        /\ \A v \in Workers : v # w => worker'[v] = worker[v]
    BY <1>5, Knows
  <2>2. Types'
    BY <1>1, <1>5, <2>1 DEF IInv, Types
  <2>3. \A j \in Keys : RunOK(j)'
    BY <1>1, <1>5, RunsWithNews
  <2>4. ProcessOK(w)' /\ ClaimedOK(w)' /\ LocalsOK(w)'
    <3>1. worker'[w].pc \in {"idle", "newsWork"} /\ singleton' = w
      BY <1>1, <1>5, <2>1
    <3>2. ClaimedOK(w)'
      BY <1>5, <2>1, <3>1, Names DEF ClaimedOK
    <3> QED BY <3>1, <3>2, PassedLocals DEF ProcessOK, Locking
  <2>5. WorkersInv'
    <3>1. worker[w].pc # "down" /\ singleton' = w
      BY <1>1
    <3> QED BY <2>1, <2>4, <3>1, OneMoves
  <2> QED BY <1>3, <1>4, <2>2, <2>3, <2>5 DEF IInv, RunsInv
<1>6. ASSUME NEW k \in DueNews,
             news' = [news EXCEPT ![k].state = "running", ![k].attempts = OneMore(@)],
             worker' = [worker EXCEPT ![w] = [IdleWorker EXCEPT !.pc = "newsWork", !.key = k]]
      PROVE  IInv'
  <2>1. k \in Keys /\ news[k].state = "pending" /\ news \in [Keys -> NewsRow]
    BY <1>6 DEF DueNews, IInv, Types
  <2>2. OneMore(news[k].attempts) \in Nat
    BY <2>1, ChatAssumption DEF OneMore, NewsRow
  <2>3. /\ news' \in [Keys -> NewsRow] /\ news'[k].state = "running"
        /\ \A j \in Keys : j # k => news'[j] = news[j]
    BY <1>6, <2>1, <2>2 DEF NewsRow, NewsStates
  <2>4. PICK me : me = [IdleWorker EXCEPT !.pc = "newsWork", !.key = k]
    OBVIOUS
  <2>5. me \in Locals /\ me.pc = "newsWork" /\ me.key = k
    BY <2>1, <2>4, Rows, Names DEF Locals
  <2>6. worker' = [worker EXCEPT ![w] = me]
    BY <1>6, <2>4
  <2> QED BY <1>5, <2>1, <2>3, <2>5, <2>6
<1>7. ASSUME Free(w), UNCHANGED news PROVE IInv'
  <2>1. news' \in [Keys -> NewsRow] /\ worker' = [worker EXCEPT ![w] = IdleWorker]
    BY <1>7 DEF IInv, Types, Free
  <2> QED BY <1>5, <1>7, <2>1, Rows
<1> QED BY <1>6, <1>7 DEF ClaimNews

LEMMA NewsWriteKeeps ==
  ASSUME IInv, NEW w \in Workers, NewsWrite(w)
  PROVE  IInv'
<1>1. PICK k \in Keys : k = worker[w].key
  BY Knows DEF NewsWrite, At, ClaimedOK
<1>2. /\ worker[w].pc = "newsWrite" /\ singleton = w /\ news[k].state \in {"none", "running"}
      /\ UNCHANGED <<session, data, singleton, charged, created, req, deaths, crashes>>
  BY <1>1, Knows DEF NewsWrite, At, ClaimedOK, ProcessOK, Elsewhere
<1>3. \A j \in Keys : run[j].state # "running"
  BY <1>2, Names DEF IInv, RunsInv, RunningHeld
<1>4. SessionsInv' /\ RequestsInv'
  BY <1>2, SessionsKeep, RequestsKeep
<1>5. /\ worker'[w] = IdleWorker /\ worker' \in [Workers -> Locals]
      /\ \A v \in Workers : v # w => worker'[v] = worker[v]
  <2>1. worker' = [worker EXCEPT ![w] = IdleWorker]
    BY DEF NewsWrite, Free
  <2> QED BY <2>1, Knows, Rows
<1>6. WorkersInv'
  <2>1. worker'[w].pc = "idle" /\ singleton' = w /\ worker[w].pc # "down"
    BY <1>2, <1>5, Rows
  <2>2. ProcessOK(w)' /\ ClaimedOK(w)' /\ LocalsOK(w)'
    BY <2>1, Names, PassedLocals DEF ProcessOK, ClaimedOK, Locking
  <2> QED BY <1>5, <2>1, <2>2, OneMoves
<1>7. /\ news' \in [Keys -> NewsRow] /\ run' \in [Keys -> RunRow]
      /\ \A j \in Keys : j # k => news'[j] = news[j] /\ run'[j] = run[j]
      /\ \/ news'[k] = news[k] /\ run'[k] = run[k]
         \/ news[k].state = "running" /\ news'[k].state = "pending" /\ run'[k] = run[k]
         \/ /\ news[k].state = "running" /\ news'[k].state \in {"done", "expired"}
            /\ run'[k] = [run[k] EXCEPT !.updates = run[k].updates + 1]
  <2>1. news \in [Keys -> NewsRow] /\ run \in [Keys -> RunRow]
    BY DEF IInv, Types
  <2>2. CASE UNCHANGED <<run, news>>
    BY <2>1, <2>2
  <2>3. CASE /\ news[k].state # "none"
             /\ news' = [news EXCEPT ![k].state = "pending", ![k].due = FALSE] /\ UNCHANGED run
    BY <1>2, <2>1, <2>3 DEF NewsRow, NewsStates
  <2>4. CASE /\ news[k].state # "none"
             /\ news' = [news EXCEPT ![k].state =
                           IF worker[w].state = "succeeded" THEN "done" ELSE "expired"]
             /\ run' = [run EXCEPT ![k].updates = @ + 1]
    <3>1. news' \in [Keys -> NewsRow] /\ news'[k].state \in {"done", "expired"}
      BY <2>1, <2>4 DEF NewsRow, NewsStates
    <3>2. run' \in [Keys -> RunRow] /\ run'[k] = [run[k] EXCEPT !.updates = run[k].updates + 1]
      BY <2>1, <2>4 DEF RunRow
    <3> QED BY <1>2, <2>1, <2>4, <3>1, <3>2
  <2> QED BY <1>1, <2>2, <2>3, <2>4 DEF NewsWrite
<1>8. Types'
  BY <1>2, <1>5, <1>7 DEF IInv, Types
<1>9. /\ run'[k].state = run[k].state /\ run'[k].gen = run[k].gen /\ run'[k].basis = run[k].basis
      /\ run'[k].answers = run[k].answers
      /\ run'[k].updates = IF news'[k].state \in {"done", "expired"} /\ news[k].state = "running"
                           THEN run[k].updates + 1 ELSE run[k].updates
  <2>1. run[k] \in RunRow
    BY DEF IInv, Types
  <2> QED BY <1>7, <2>1 DEF RunRow
<1>10. RunOK(k)'
  BY <1>2, <1>7, <1>9 DEF IInv, RunsInv, RunOK, Active
<1>11. ASSUME NEW j \in Keys, j # k PROVE RunOK(j)'
  BY <1>2, <1>7, <1>11 DEF IInv, RunsInv, RunOK
<1>12. OneRunning' /\ RunningHeld'
  BY <1>3, <1>7, <1>9 DEF OneRunning, RunningHeld
<1> QED BY <1>4, <1>6, <1>8, <1>10, <1>11, <1>12 DEF IInv, RunsInv

LEMMA WorkerStartKeeps ==
  ASSUME IInv, NEW w \in Workers, WorkerStart(w)
  PROVE  IInv'
<1>1. /\ worker[w].pc = "down" /\ singleton = Nobody /\ singleton' = w
      /\ UNCHANGED <<session, data, charged, created, req, deaths, crashes>>
  BY DEF WorkerStart, At, Elsewhere
<1>2. /\ run' \in [Keys -> RunRow]
      /\ \A j \in Keys : SameBut(run'[j], run[j],
           IF run[j].state = "running" THEN "interrupted" ELSE run[j].state)
  <2>1. ASSUME NEW j \in Keys
        PROVE  /\ run'[j] = [run[j] EXCEPT !.state = Recovered(run[j].state)]
               /\ run[j] \in RunRow /\ Recovered(run[j].state) \in RunStates
    BY Names DEF WorkerStart, Recovered, IInv, Types, RunRow
  <2>2. ASSUME NEW j \in Keys
        PROVE  run'[j] \in RunRow /\ SameBut(run'[j], run[j], Recovered(run[j].state))
    <3>1. PICK row \in RunRow, state \in RunStates : row = run[j] /\ state = Recovered(run[j].state)
      BY <2>1
    <3>2. run'[j] = [row EXCEPT !.state = state]
      BY <2>1, <3>1
    <3> QED BY <3>1, <3>2, StateWritten
  <2>3. run' = [j \in Keys |-> run'[j]]
    BY DEF WorkerStart
  <2> QED BY <2>2, <2>3 DEF Recovered
<1>3. /\ news' \in [Keys -> NewsRow]
      /\ \A j \in Keys : news'[j].state =
           IF news[j].state = "running" THEN "pending" ELSE news[j].state
  <2>1. ASSUME NEW j \in Keys
        PROVE  /\ news'[j] = [news[j] EXCEPT !.state = NewsRecovered(news[j].state)]
               /\ news[j] \in NewsRow /\ NewsRecovered(news[j].state) \in NewsStates
    BY DEF WorkerStart, NewsRecovered, IInv, Types, NewsRow, NewsStates
  <2>2. ASSUME NEW j \in Keys
        PROVE  news'[j] \in NewsRow /\ news'[j].state = NewsRecovered(news[j].state)
    <3>1. PICK row \in NewsRow, state \in NewsStates :
            row = news[j] /\ state = NewsRecovered(news[j].state)
      BY <2>1
    <3>2. news'[j] = [row EXCEPT !.state = state]
      BY <2>1, <3>1
    <3> QED BY <3>1, <3>2, NewsWritten
  <2>3. news' = [j \in Keys |-> news'[j]]
    BY DEF WorkerStart
  <2> QED BY <2>2, <2>3 DEF NewsRecovered
<1>4. PICK me : me = [worker[w] EXCEPT !.pc = "idle"]
  OBVIOUS
<1>5. me \in Locals /\ me.pc = "idle"
  <2>1. worker[w] \in Locals /\ "idle" \in WorkerPoints
    BY Knows, Names
  <2> QED BY <1>4, <2>1 DEF Locals
<1>6. /\ worker'[w] = me /\ worker' \in [Workers -> Locals]
      /\ \A v \in Workers : v # w => worker'[v] = worker[v]
  BY <1>4, <1>5, Knows DEF WorkerStart, Goto
<1>7. Types'
  BY <1>1, <1>2, <1>3, <1>6 DEF IInv, Types
<1>8. ASSUME NEW j \in Keys PROVE RunOK(j)'
  BY <1>1, <1>2, <1>3 DEF IInv, RunsInv, RunOK, SameBut, Active
<1>9. OneRunning' /\ RunningHeld'
  BY <1>2 DEF OneRunning, RunningHeld, SameBut
<1>10. SessionsInv' /\ RequestsInv'
  BY <1>1, SessionsKeep, RequestsKeep
<1>11. WorkersInv'
  <2>1. worker'[w].pc = "idle"
    BY <1>5, <1>6
  <2>2. ProcessOK(w)' /\ ClaimedOK(w)' /\ LocalsOK(w)'
    BY <1>1, <2>1, Names, PassedLocals DEF ProcessOK, ClaimedOK, Locking
  <2> QED BY <1>1, <1>6, <2>2, OneMoves
<1> QED BY <1>7, <1>8, <1>9, <1>10, <1>11 DEF IInv, RunsInv

LEMMA WorkerCrashKeeps ==
  ASSUME IInv, NEW w \in Workers, WorkerCrash(w)
  PROVE  IInv'
<1>1. /\ worker[w].pc # "down" /\ singleton' = Nobody
      /\ UNCHANGED <<session, run, news, charged, created, req, deaths>>
  BY DEF WorkerCrash, At
<1>2. crashes' \in Nat
  BY DEF WorkerCrash, IInv, Types
<1>3. /\ worker'[w] = DownWorker /\ worker' \in [Workers -> Locals]
      /\ \A v \in Workers : v # w => worker'[v] = worker[v]
  BY Knows, Rows DEF WorkerCrash
<1>4. data' \in DataRow /\ data'.gen = data.gen /\ data'.usable = data.usable
  BY Knows DEF WorkerCrash, Unlock, DataRow
<1>5. Types'
  BY <1>1, <1>2, <1>3, <1>4 DEF IInv, Types
<1>6. \A j \in Keys : RunOK(j)'
  BY <1>1 DEF IInv, RunsInv, RunOK
<1>7. OneRunning' /\ RunningHeld'
  BY <1>1, ChatAssumption DEF IInv, RunsInv, OneRunning, RunningHeld
<1>8. SessionsInv' /\ RequestsInv'
  BY <1>1, <1>4, SessionsKeep, RequestsKeep
<1>9. WorkersInv'
  <2>1. worker'[w].pc = "down" /\ singleton' # w
    BY <1>1, <1>3, Rows, ChatAssumption
  <2>2. ProcessOK(w)' /\ ClaimedOK(w)' /\ LocalsOK(w)'
    BY <2>1, Names, PassedLocals DEF ProcessOK, ClaimedOK, Locking
  <2> QED BY <1>1, <1>3, <2>2, OneMoves
<1> QED BY <1>5, <1>6, <1>7, <1>8, <1>9 DEF IInv, RunsInv

-----------------------------------------------------------------------------
(* The API and the rest of the system move while the worker is anywhere.    *)

(* What they may do to the rows and the report the worker is holding.       *)
Gentle ==
  /\ UNCHANGED <<worker, singleton>> /\ data'.lock = data.lock
  /\ \A k \in Keys : run[k].state = "running" =>
       \/ run'[k].state = "running" /\ run'[k].gen = run[k].gen
       \/ run'[k].state = "none" /\ ~session'[SessionOf[k]].exists
  /\ \A k \in Keys : run[k].state = "none" /\ ~session[SessionOf[k]].exists =>
       run'[k].state = "none" /\ ~session'[SessionOf[k]].exists
  /\ \A k \in Keys : run'[k].state = "running" => run[k].state = "running"
  /\ \A k \in Keys : news[k].state \in {"none", "running"} => news'[k].state \in {"none", "running"}
  /\ data'.gen = data.gen \/ data.lock = Nobody
  /\ data.gen <= data'.gen /\ (data'.usable => data.usable)

(* A report that has changed stays changed: generations are never reused.   *)
LEMMA StaysChanged ==
  ASSUME Types, Types', Gentle, NEW gen \in Nat, gen <= data.gen, Changed(gen)
  PROVE  Changed(gen)'
<1>1. CASE ~data.usable
  BY <1>1 DEF Gentle, Changed
<1>2. CASE data.gen # gen
  <2>1. data'.gen \in Nat /\ data.gen \in Nat /\ data.gen <= data'.gen
    BY DEF Types, DataRow, Gentle
  <2>2. data'.gen # gen
    BY <1>2, <2>1
  <2> QED BY <2>2 DEF Changed
<1> QED BY <1>1, <1>2 DEF Changed

LEMMA WorkersUndisturbed ==
  ASSUME IInv, Types', Gentle
  PROVE  WorkersInv' /\ OneRunning' /\ RunningHeld'
<1>1. OneRunning' /\ RunningHeld'
  BY DEF IInv, RunsInv, OneRunning, RunningHeld, Gentle
<1>2. ASSUME NEW w \in Workers PROVE (ProcessOK(w) /\ ClaimedOK(w) /\ LocalsOK(w))'
  <2>1. worker'[w] = worker[w] /\ ProcessOK(w)'
    BY <1>2, Knows DEF Gentle, ProcessOK
  <2>2. ClaimedOK(w)'
    BY <1>2, <2>1, Knows DEF Gentle, ClaimedOK
  <2>3. worker[w].pc = "pipeline" => data'.gen = data.gen
    BY <1>2, Knows, ChatAssumption DEF Gentle, ProcessOK, Locking
  <2>4. CASE worker[w].pc # "fail"
    <3>1. LocalsOK(w)'
      BY <1>2, <2>1, <2>3, <2>4, Knows DEF LocalsOK
    <3> QED BY <2>1, <2>2, <3>1
  <2>5. CASE worker[w].pc = "fail"
    <3>1. CASE worker[w].flag /\ run'[worker[w].key].state = "running"
      <4>1. PICK k \in Keys : k = worker[w].key
        BY <1>2, <2>5, Knows, Names DEF ClaimedOK
      <4>2. PICK gen \in Nat : gen = worker[w].gen
        BY <1>2, Knows DEF Locals
      <4>3. run[k].state = "running" /\ run[k].gen = gen
        BY <1>2, <2>5, <3>1, <4>1, <4>2, Knows, Names DEF Gentle, ClaimedOK
      <4>4. gen # 0 /\ Changed(gen)
        BY <1>2, <2>5, <3>1, <4>1, <4>2, <4>3, Knows DEF LocalsOK
      <4>5. gen <= data.gen
        BY <4>3, <4>4, Rows DEF IInv, RunsInv, RunOK, SessionsInv, SessionOK
      <4>6. Changed(gen)'
        BY <4>4, <4>5, StaysChanged DEF IInv
      <4>7. LocalsOK(w)'
        BY <2>1, <2>5, <4>2, <4>4, <4>6, Names DEF LocalsOK, Locking
      <4> QED BY <2>1, <2>2, <4>7
    <3>2. CASE ~(worker[w].flag /\ run'[worker[w].key].state = "running")
      <4>1. LocalsOK(w)'
        BY <2>1, <2>5, <3>2, Names DEF LocalsOK, Locking
      <4> QED BY <2>1, <2>2, <4>1
    <3> QED BY <3>1, <3>2
  <2> QED BY <2>1, <2>2, <2>4, <2>5
<1> QED BY <1>1, <1>2 DEF WorkersInv

LEMMA ChatReadKeeps ==
  ASSUME IInv, NEW r \in Requests, NEW k \in Keys, NEW override \in BOOLEAN, ChatRead(r, k, override)
  PROVE  IInv'
<1>1. UNCHANGED <<session, data, run, news, charged, created, worker, singleton, deaths, crashes>>
  BY DEF ChatRead, ApiOnly
<1>2. PICK s \in Sessions : s = SessionOf[k]
  BY Rows
<1>3. session[s] \in SessionRow /\ req \in [Requests -> RequestRow]
  BY DEF IInv, Types
<1>4. PICK new : /\ req' = [req EXCEPT ![r] = new]
                 /\ \/ new = [req[r] EXCEPT !.pc = "done"]
                    \/ new = [pc |-> IF session[s].gen = 0 THEN "submit" ELSE "check",
                              key |-> k, override |-> override, gen |-> session[s].gen]
  <2>1. CASE Respond(r)
    <3>1. req' = [req EXCEPT ![r] = [req[r] EXCEPT !.pc = "done"]]
      BY <2>1 DEF Respond
    <3> QED BY <3>1
  <2>2. CASE req' = [req EXCEPT ![r] = [pc |-> IF session[s].gen = 0 THEN "submit" ELSE "check",
                              key |-> k, override |-> override, gen |-> session[s].gen]]
    BY <2>2
  <2> QED BY <1>2, <2>1, <2>2 DEF ChatRead
<1>5. /\ new \in RequestRow
      /\ \/ new.pc = "done"
         \/ /\ new.pc = IF session[s].gen = 0 THEN "submit" ELSE "check"
            /\ new.key = k /\ new.gen = session[s].gen
  BY <1>3, <1>4 DEF RequestRow, SessionRow
<1>6. req' \in [Requests -> RequestRow] /\ req'[r] = new /\ \A x \in Requests : x # r => req'[x] = req[x]
  BY <1>3, <1>4, <1>5
<1>7. Types'
  BY <1>1, <1>6 DEF IInv, Types
<1>8. Gentle
  BY <1>1, <1>3 DEF Gentle, IInv, Types, DataRow
<1>9. \A j \in Keys : RunOK(j)'
  BY <1>1 DEF IInv, RunsInv, RunOK
<1>10. SessionsInv'
  BY <1>1, SessionsKeep
<1>11. RequestsInv'
  <2>1. ASSUME NEW x \in Requests, x # r PROVE RequestOK(x)'
    BY <1>1, <1>6, <2>1 DEF IInv, RequestsInv, RequestOK
  <2>2. RequestOK(r)'
    BY <1>1, <1>2, <1>5, <1>6 DEF RequestOK
  <2> QED BY <2>1, <2>2 DEF RequestsInv
<1> QED BY <1>7, <1>8, <1>9, <1>10, <1>11, WorkersUndisturbed DEF IInv, RunsInv

(* Answering a request, whatever becomes of the rest.                       *)
LEMMA Responded ==
  ASSUME IInv, NEW r \in Requests, NEW pc \in {"submit", "done"}, req[r].pc \in {"check", "submit"},
         req' = [req EXCEPT ![r].pc = pc],
         \A s \in Sessions : session'[s].gen = session[s].gen
  PROVE  req' \in [Requests -> RequestRow] /\ RequestsInv'
<1>1. PICK old \in RequestRow : old = req[r]
  BY DEF IInv, Types
<1>2. PICK new : new = [old EXCEPT !.pc = pc]
  OBVIOUS
<1>3. new \in RequestRow /\ new.pc = pc /\ new.key = old.key /\ new.gen = old.gen
  BY <1>1, <1>2 DEF RequestRow
<1>4. req' = [req EXCEPT ![r] = new]
  BY <1>1, <1>2
<1>5. req' \in [Requests -> RequestRow] /\ req'[r] = new /\ \A x \in Requests : x # r => req'[x] = req[x]
  BY <1>3, <1>4 DEF IInv, Types
<1>6. ASSUME NEW x \in Requests PROVE RequestOK(x)'
  BY <1>1, <1>3, <1>5, Rows DEF IInv, RequestsInv, RequestOK
<1> QED BY <1>5, <1>6 DEF RequestsInv

(* Only what a conversation lets in changes, not its pin.                   *)
LEMMA RunsUnderSessions ==
  ASSUME IInv, UNCHANGED <<run, news>>,
         \A s \in Sessions : /\ session'[s].exists <=> session[s].exists
                             /\ session'[s].gen = session[s].gen
  PROVE  \A k \in Keys : RunOK(k)'
BY Rows DEF IInv, RunsInv, RunOK

LEMMA ChatCheckKeeps ==
  ASSUME IInv, NEW r \in Requests, ChatCheck(r)
  PROVE  IInv'
<1>1. /\ UNCHANGED <<data, run, news, charged, created, worker, singleton, deaths, crashes>>
      /\ req[r].pc = "check"
  BY DEF ChatCheck, ApiOnly
<1>2. PICK s \in Sessions : s = SessionOf[req[r].key] /\ req[r].gen = session[s].gen /\ req[r].gen # 0
  BY <1>1, Rows DEF IInv, RequestsInv, RequestOK
<1>3. session \in [Sessions -> SessionRow] /\ session[s] \in SessionRow
  BY DEF IInv, Types
<1>4. /\ session' \in [Sessions -> SessionRow]
      /\ session'[s].exists <=> session[s].exists
      /\ session'[s].gen = session[s].gen
      /\ (session'[s].readOnly => session[s].readOnly) \/ Changed(session[s].gen)
      /\ \A x \in Sessions : x # s => session'[x] = session[x]
  <2>1. CASE Changed(req[r].gen) /\ ReadOnly(s)
    <3>1. PICK closed \in BOOLEAN : session' = [session EXCEPT ![s].readOnly = closed]
      BY <2>1, <1>3 DEF ReadOnly, SessionRow
    <3>2. PICK new : new = [session[s] EXCEPT !.readOnly = closed]
      OBVIOUS
    <3>3. /\ new \in SessionRow /\ new.gen = session[s].gen
          /\ (new.exists => session[s].exists) /\ (session[s].exists => new.exists)
      BY <1>3, <3>2 DEF SessionRow
    <3>4. session' = [session EXCEPT ![s] = new]
      BY <3>1, <3>2
    <3>5. /\ session' \in [Sessions -> SessionRow] /\ session'[s] = new
          /\ \A x \in Sessions : x # s => session'[x] = session[x]
      BY <1>3, <3>3, <3>4
    <3>6. Changed(session[s].gen)
      BY <1>2, <2>1
    <3> QED BY <3>3, <3>5, <3>6
  <2>2. CASE UNCHANGED session
    BY <1>3, <2>2
  <2> QED BY <1>2, <2>1, <2>2 DEF ChatCheck
<1>4a. \A x \in Sessions : (session'[x].exists <=> session[x].exists)
                          /\ session'[x].gen = session[x].gen
  <2> SUFFICES ASSUME NEW x \in Sessions
               PROVE  (session'[x].exists <=> session[x].exists) /\ session'[x].gen = session[x].gen
    OBVIOUS
  <2> QED BY <1>4
<1>5. PICK pc \in {"submit", "done"} : req' = [req EXCEPT ![r].pc = pc]
  BY DEF ChatCheck, Respond
<1>6. req' \in [Requests -> RequestRow] /\ RequestsInv'
  BY <1>1, <1>4a, <1>5, Responded
<1>7. Types'
  BY <1>1, <1>4, <1>6 DEF IInv, Types
<1>8. Gentle
  BY <1>1, <1>4a, Rows DEF Gentle, IInv, Types, DataRow
<1>9. \A k \in Keys : RunOK(k)'
  BY <1>1, <1>4a, RunsUnderSessions
<1>10. ASSUME NEW x \in Sessions PROVE SessionOK(x)'
  <2>1. session'[x].gen = session[x].gen
        /\ (session'[x].readOnly => session[x].readOnly \/ Changed(session[x].gen))
    BY <1>4
  <2>2. session'[x].readOnly => session[x].gen # 0
    BY <1>2, <1>4 DEF IInv, SessionsInv, SessionOK
  <2> QED BY <1>1, <2>1, <2>2 DEF IInv, SessionsInv, SessionOK, Changed
<1> QED BY <1>6, <1>7, <1>8, <1>9, <1>10, WorkersUndisturbed DEF IInv, RunsInv, SessionsInv

LEMMA ChatSubmitKeeps ==
  ASSUME IInv, NEW r \in Requests, ChatSubmit(r)
  PROVE  IInv'
<1>1. /\ UNCHANGED <<session, data, news, worker, singleton, crashes>>
      /\ req[r].pc = "submit" /\ req' = [req EXCEPT ![r].pc = "done"]
  BY DEF ChatSubmit, ApiOnly, Respond
<1>2. req' \in [Requests -> RequestRow] /\ RequestsInv'
  BY <1>1, Responded
<1>3. PICK k \in Keys, old \in RequestRow :
        /\ k = req[r].key /\ old = req[r]
        /\ old.gen # 0 => old.gen = session[SessionOf[k]].gen
  BY <1>1 DEF IInv, Types, RequestsInv, RequestOK
<1>4. charged' \in [Keys -> Nat] /\ created' \in Nat /\ deaths' \in Nat
  BY DEF ChatSubmit, IInv, Types
<1>5. SessionsInv'
  BY <1>1, SessionsKeep
<1>6. CASE UNCHANGED run
  <2>1. Types'
    BY <1>1, <1>2, <1>4, <1>6 DEF IInv, Types
  <2>2. Gentle
    BY <1>1, <1>6 DEF Gentle, IInv, Types, DataRow
  <2>3. \A j \in Keys : RunOK(j)'
    BY <1>1, <1>6 DEF IInv, RunsInv, RunOK
  <2> QED BY <1>2, <1>5, <2>1, <2>2, <2>3, WorkersUndisturbed DEF IInv, RunsInv
<1>7. CASE /\ MayCreate(k) /\ session[SessionOf[k]].exists
           /\ run' = [run EXCEPT ![k] = [NoRun EXCEPT !.state = "queued", !.gen = old.gen,
                                           !.override = old.override, !.ticket = created]]
  <2>1. PICK new : new = [NoRun EXCEPT !.state = "queued", !.gen = old.gen,
                                       !.override = old.override, !.ticket = created]
    OBVIOUS
  <2>2. created \in Nat /\ old.gen \in Nat /\ old.override \in BOOLEAN /\ NoRun \in RunRow
    BY Rows DEF IInv, Types, RequestRow
  <2>3. /\ new \in RunRow /\ new.state = "queued" /\ new.gen = old.gen
        /\ new.answers = NoRun.answers /\ new.updates = NoRun.updates /\ new.basis = NoRun.basis
    BY <2>1, <2>2, Names DEF RunRow
  <2>4. run' \in [Keys -> RunRow] /\ run'[k] = new /\ \A j \in Keys : j # k => run'[j] = run[j]
    BY <1>7, <2>1, <2>3 DEF IInv, Types
  <2>5. run[k].state = "none"
    BY <1>7 DEF MayCreate
  <2>6. Types'
    BY <1>1, <1>2, <1>4, <2>4 DEF IInv, Types
  <2>7. Gentle
    BY <1>1, <1>7, <2>3, <2>4, <2>5 DEF Gentle, IInv, Types, DataRow
  <2>8. RunOK(k)'
    BY <1>1, <1>3, <1>7, <2>3, <2>4, <2>5, Rows DEF IInv, RunsInv, RunOK, Active
  <2>9. ASSUME NEW j \in Keys, j # k PROVE RunOK(j)'
    BY <1>1, <2>4, <2>9 DEF IInv, RunsInv, RunOK
  <2> QED BY <1>2, <1>5, <2>6, <2>7, <2>8, <2>9, WorkersUndisturbed DEF IInv, RunsInv
<1> QED BY <1>3, <1>6, <1>7 DEF ChatSubmit

LEMMA DeleteSessionKeeps ==
  ASSUME IInv, NEW s \in Sessions, DeleteSession(s)
  PROVE  IInv'
<1>1. UNCHANGED <<data, charged, created, req, worker, singleton, deaths, crashes>>
  BY DEF DeleteSession, WorldOnly
<1>2. /\ session' \in [Sessions -> SessionRow]
      /\ ~session'[s].exists /\ session'[s].gen = session[s].gen
      /\ session'[s].readOnly => session[s].readOnly
      /\ \A x \in Sessions : x # s => session'[x] = session[x]
  <2>1. session \in [Sessions -> SessionRow]
    BY DEF IInv, Types
  <2>2. PICK old \in SessionRow : old = session[s]
    BY <2>1
  <2>3. PICK new : new = [old EXCEPT !.exists = FALSE]
    OBVIOUS
  <2>4. new \in SessionRow /\ ~new.exists /\ new.gen = old.gen /\ (new.readOnly => old.readOnly)
    BY <2>2, <2>3 DEF SessionRow
  <2>5. session' = [session EXCEPT ![s] = new]
    BY <2>2, <2>3 DEF DeleteSession
  <2>6. /\ session' \in [Sessions -> SessionRow] /\ session'[s] = new
        /\ \A x \in Sessions : x # s => session'[x] = session[x]
    BY <2>1, <2>4, <2>5
  <2> QED BY <2>2, <2>4, <2>6
<1>3. /\ run' \in [Keys -> RunRow] /\ news' \in [Keys -> NewsRow]
      /\ \A k \in Keys : /\ SessionOf[k] = s => run'[k] = NoRun /\ news'[k] = NoNews
                         /\ SessionOf[k] # s => run'[k] = run[k] /\ news'[k] = news[k]
  BY Rows DEF DeleteSession, IInv, Types
<1>4. Types'
  BY <1>1, <1>2, <1>3 DEF IInv, Types
<1>5. Gentle
  <2>1. data.gen \in Nat
    BY DEF IInv, Types, DataRow
  <2>2. ASSUME NEW k \in Keys
        PROVE  \/ run'[k].state = "none" /\ ~session'[SessionOf[k]].exists /\ news'[k].state = "none"
               \/ run'[k] = run[k] /\ news'[k] = news[k]
                  /\ session'[SessionOf[k]] = session[SessionOf[k]]
    BY <1>2, <1>3, Rows
  <2> QED BY <1>1, <2>1, <2>2 DEF Gentle
<1>6. ASSUME NEW k \in Keys PROVE RunOK(k)'
  <2>1. CASE SessionOf[k] = s
    <3>1. run'[k] = NoRun /\ news'[k] = NoNews
      BY <1>3, <2>1
    <3> QED BY <3>1, Rows DEF RunOK
  <2>2. CASE SessionOf[k] # s
    <3>1. run'[k] = run[k] /\ news'[k] = news[k] /\ session'[SessionOf[k]] = session[SessionOf[k]]
      BY <1>2, <1>3, <2>2, Rows
    <3> QED BY <3>1 DEF IInv, RunsInv, RunOK
  <2> QED BY <2>1, <2>2
<1>7. ASSUME NEW x \in Sessions PROVE SessionOK(x)'
  BY <1>1, <1>2 DEF IInv, SessionsInv, SessionOK, Changed
<1>8. RequestsInv'
  <2>1. ASSUME NEW x \in Sessions PROVE session'[x].gen = session[x].gen
    BY <1>2, <2>1
  <2> QED BY <1>1, <2>1, RequestsKeep
<1> QED BY <1>4, <1>5, <1>6, <1>7, <1>8, WorkersUndisturbed DEF IInv, RunsInv, SessionsInv

LEMMA AttachKeeps ==
  ASSUME IInv, NEW s \in Sessions, Attach(s)
  PROVE  IInv'
<1>1. /\ UNCHANGED <<data, run, news, charged, created, req, worker, singleton, deaths, crashes>>
      /\ session[s].gen = 0 /\ ~session[s].readOnly
  BY DEF Attach, WorldOnly
<1>2. /\ session' \in [Sessions -> SessionRow] /\ session'[s].gen = data.gen
      /\ ~session'[s].readOnly /\ session'[s].exists /\ session[s].exists
      /\ \A x \in Sessions : x # s => session'[x] = session[x]
  <2>1. session \in [Sessions -> SessionRow]
    BY DEF IInv, Types
  <2>2. PICK old \in SessionRow : old = session[s] /\ old.exists /\ ~old.readOnly
    BY <1>1, <2>1 DEF Attach
  <2>3. PICK gen \in Nat : gen = data.gen
    BY DEF IInv, Types, DataRow
  <2>4. PICK new : new = [old EXCEPT !.gen = gen]
    OBVIOUS
  <2>5. new \in SessionRow /\ new.gen = gen /\ new.exists /\ ~new.readOnly
    BY <2>2, <2>4 DEF SessionRow
  <2>6. session' = [session EXCEPT ![s] = new]
    BY <2>2, <2>3, <2>4 DEF Attach
  <2>7. /\ session' \in [Sessions -> SessionRow] /\ session'[s] = new
        /\ \A x \in Sessions : x # s => session'[x] = session[x]
    BY <2>1, <2>5, <2>6
  <2> QED BY <2>2, <2>3, <2>5, <2>7
<1>3. Types'
  BY <1>1, <1>2 DEF IInv, Types
<1>4. Gentle
  <2>1. data.gen \in Nat
    BY DEF IInv, Types, DataRow
  <2>2. ASSUME NEW x \in Sessions PROVE session'[x].exists <=> session[x].exists
    BY <1>2, <2>2
  <2> QED BY <1>1, <2>1, <2>2, Rows DEF Gentle
<1>5. ASSUME NEW k \in Keys PROVE RunOK(k)'
  <2>1. CASE SessionOf[k] = s
    BY <1>1, <1>2, <2>1 DEF IInv, RunsInv, RunOK
  <2>2. CASE SessionOf[k] # s
    BY <1>1, <1>2, <2>2, Rows DEF IInv, RunsInv, RunOK
  <2> QED BY <2>1, <2>2
<1>6. ASSUME NEW x \in Sessions PROVE SessionOK(x)'
  BY <1>1, <1>2 DEF IInv, Types, DataRow, SessionsInv, SessionOK, Changed
<1>7. RequestsInv'
  <2>1. ASSUME NEW x \in Sessions PROVE session'[x].gen = session[x].gen \/ session[x].gen = 0
    BY <1>1, <1>2, <2>1
  <2> QED BY <1>1, <2>1, RequestsKeep
<1> QED BY <1>3, <1>4, <1>5, <1>6, <1>7, WorkersUndisturbed DEF IInv, RunsInv, SessionsInv

LEMMA ReportKeeps ==
  ASSUME IInv, Rebuild \/ ReportLost
  PROVE  IInv'
<1>1. UNCHANGED <<session, run, news, charged, created, req, worker, singleton, deaths, crashes>>
  BY DEF Rebuild, ReportLost, WorldOnly
<1>2. /\ data' \in DataRow /\ data'.lock = data.lock
      /\ data'.gen = data.gen \/ (data'.gen = data.gen + 1 /\ data.lock = Nobody)
      /\ data'.usable => data.usable
      /\ data.gen \in Nat /\ data'.gen \in Nat /\ data.gen <= data'.gen
  <2>1. data \in DataRow
    BY DEF IInv, Types
  <2>2. CASE Rebuild
    <3>1. data' = [data EXCEPT !.gen = data.gen + 1] /\ data.lock = Nobody
      BY <2>2 DEF Rebuild
    <3>2. data.gen \in Nat /\ data.gen + 1 \in Nat \ {0} /\ data.gen <= data.gen + 1
      BY <2>1 DEF DataRow
    <3>3. /\ data' \in DataRow /\ data'.lock = data.lock /\ data'.gen = data.gen + 1
          /\ data'.usable => data.usable
      BY <2>1, <3>1, <3>2 DEF DataRow
    <3> QED BY <3>1, <3>2, <3>3
  <2>3. CASE ReportLost
    <3>1. data' = [data EXCEPT !.usable = FALSE]
      BY <2>3 DEF ReportLost
    <3>2. data' \in DataRow /\ data'.lock = data.lock /\ data'.gen = data.gen /\ ~data'.usable
      BY <2>1, <3>1 DEF DataRow
    <3>3. data.gen \in Nat
      BY <2>1 DEF DataRow
    <3> QED BY <3>2, <3>3
  <2> QED BY <2>2, <2>3
<1>3. Types'
  BY <1>1, <1>2 DEF IInv, Types
<1>4. Gentle
  BY <1>1, <1>2 DEF Gentle
<1>5. \A k \in Keys : RunOK(k)'
  BY <1>1 DEF IInv, RunsInv, RunOK
<1>6. ASSUME NEW s \in Sessions PROVE SessionOK(s)'
  <2>1. PICK gen \in Nat : gen = session[s].gen /\ gen <= data.gen
    BY DEF IInv, Types, SessionRow, SessionsInv, SessionOK
  <2>2. gen <= data'.gen
    BY <1>2, <2>1
  <2>3. Changed(gen) => Changed(gen)'
    BY <1>3, <1>4, <2>1, StaysChanged DEF IInv
  <2>4. session'[s] = session[s] /\ (session[s].readOnly => gen # 0 /\ Changed(gen))
    BY <1>1, <2>1 DEF IInv, SessionsInv, SessionOK
  <2> QED BY <2>1, <2>2, <2>3, <2>4 DEF SessionOK
<1>7. RequestsInv'
  BY <1>1, RequestsKeep
<1> QED BY <1>3, <1>4, <1>5, <1>6, <1>7, WorkersUndisturbed DEF IInv, RunsInv, SessionsInv

LEMMA ClockKeeps ==
  ASSUME IInv, NewsDue \/ NewsLate
  PROVE  IInv'
<1>1. UNCHANGED <<session, data, run, charged, created, req, worker, singleton, deaths, crashes>>
  BY DEF NewsDue, NewsLate, WorldOnly
<1>2. news' \in [Keys -> NewsRow] /\ \A k \in Keys : news'[k].state = news[k].state
  BY ZenonT(60) DEF NewsDue, NewsLate, IInv, Types, NewsRow
<1>3. Types'
  BY <1>1, <1>2 DEF IInv, Types
<1>4. Gentle
  BY <1>1, <1>2 DEF Gentle, IInv, Types, DataRow
<1>5. \A k \in Keys : RunOK(k)'
  BY <1>1, <1>2 DEF IInv, RunsInv, RunOK
<1>6. SessionsInv' /\ RequestsInv'
  BY <1>1, SessionsKeep, RequestsKeep
<1> QED BY <1>3, <1>4, <1>5, <1>6, WorkersUndisturbed DEF IInv, RunsInv

-----------------------------------------------------------------------------
(* The invariant of every behaviour, and what follows from it.              *)

LEMMA NextIInv == IInv /\ [Next]_vars => IInv'
<1> SUFFICES ASSUME IInv, [Next]_vars PROVE IInv'
  OBVIOUS
<1>1. CASE UNCHANGED vars
  BY <1>1 DEF vars, IInv, Types, RunsInv, RunOK, OneRunning, RunningHeld, SessionsInv, SessionOK,
     Changed, RequestsInv, RequestOK, WorkersInv, ProcessOK, ClaimedOK, LocalsOK
<1>2. CASE ApiStep
  BY <1>2, ChatReadKeeps, ChatCheckKeeps, ChatSubmitKeeps DEF ApiStep
<1>3. ASSUME NEW w \in Workers, WorkerStep(w) \/ WorkerCrash(w) PROVE IInv'
  BY <1>3, WorkerStartKeeps, ClaimRunKeeps, ReadRunKeeps, ContextKeeps, ResolveKeeps, TakeLockKeeps,
     ActivateKeeps, PipelineKeeps, StoreAnswerKeeps, StoreFailureKeeps, IdleStepsKeep,
     ClaimNewsKeeps, NewsWriteKeeps, WorkerCrashKeeps DEF WorkerStep
<1>4. ASSUME NEW s \in Sessions, DeleteSession(s) \/ Attach(s) PROVE IInv'
  BY <1>4, DeleteSessionKeeps, AttachKeeps
<1>5. CASE Rebuild \/ ReportLost \/ NewsDue \/ NewsLate
  BY <1>5, ReportKeeps, ClockKeeps
<1> QED BY <1>1, <1>2, <1>3, <1>4, <1>5 DEF Next

(* IInv holds in every reachable state.                                     *)
THEOREM Invariance == Spec => []IInv
<1>1. Init => IInv
  BY InitIInv
<1>2. IInv /\ [Next]_vars => IInv'
  BY NextIInv
<1> QED BY <1>1, <1>2, PTL DEF Spec

(* The tables, the report and the locals keep their types.                  *)
THEOREM TypeCorrect == Spec => []TypeOK
<1>1. IInv => TypeOK
  BY TypesAre DEF IInv
<1> QED BY <1>1, Invariance, PTL

(* With any number of workers started and killed, a running run is in the   *)
(* hands of the live one, whose answer will be stored.                      *)
THEOREM NoRunIsOrphaned == Spec => []RunningIsOwned
<1>1. IInv => RunningIsOwned
  <2> SUFFICES ASSUME IInv PROVE RunningIsOwned
    OBVIOUS
  <2>1. ASSUME NEW k \in Keys, run[k].state = "running"
        PROVE  singleton = Nobody \/ (worker[singleton].pc \in Answering /\ worker[singleton].key = k)
    BY <2>1 DEF IInv, Types, RunsInv, RunningHeld
  <2>2. ASSUME NEW w \in Workers, worker[w].pc \in Answering
        PROVE  run[worker[w].key].state \in {"none", "running"}
    BY <2>2, Knows DEF ClaimedOK
  <2> QED BY <2>1, <2>2 DEF RunningIsOwned
<1> QED BY <1>1, Invariance, PTL

(* An answer from a report is from the generation its conversation is pinned *)
(* to, whatever is rebuilt between the API's check and the pipeline's end.   *)
THEOREM AnswersFromPinned == Spec => []AnswerFromPinnedGeneration
<1>1. IInv => AnswerFromPinnedGeneration
  <2> SUFFICES ASSUME IInv, NEW k \in Keys, run[k].basis # 0
               PROVE  run[k].basis = run[k].gen /\ run[k].gen = session[SessionOf[k]].gen
    BY DEF AnswerFromPinnedGeneration
  <2> QED BY DEF IInv, RunsInv, RunOK
<1> QED BY <1>1, Invariance, PTL

(* No conversation is closed but for a report that is gone or rebuilt.      *)
THEOREM ClosedForCause == Spec => []ReadOnlyIsJustified
<1>1. IInv => ReadOnlyIsJustified
  BY DEF IInv, SessionsInv, SessionOK, Changed, ReadOnlyIsJustified
<1> QED BY <1>1, Invariance, PTL

(* A question gets one news message at most, after its answer.              *)
THEOREM OneNewsMessage == Spec => []NewsOnce
<1>1. IInv => NewsOnce
  BY DEF IInv, RunsInv, RunOK, NewsOnce
<1> QED BY <1>1, Invariance, PTL

-----------------------------------------------------------------------------
(* The queue implements the promise of QuestionAnswer.                      *)

(* What a question is to the promise: all that a step may show of it.       *)
Same(k) == Phase(k)' = Phase(k) /\ run'[k].answers = run[k].answers
           /\ run'[k].updates = run[k].updates

LEMMA Stutters ==
  ASSUME \A k \in Keys : Same(k)
  PROVE  UNCHANGED Question!vars
BY DEF Question!vars, Same

LEMMA QuietStep ==
  ASSUME UNCHANGED run, \A s \in Sessions : session'[s].exists <=> session[s].exists
  PROVE  UNCHANGED Question!vars
<1> SUFFICES ASSUME NEW k \in Keys PROVE Same(k)
  BY Stutters
<1>1. session'[SessionOf[k]].exists <=> session[SessionOf[k]].exists
  BY Rows
<1> QED BY <1>1 DEF Same, Phase

(* The phases, from the run's row. *)
PhaseFacts(k) ==
  /\ Phase(k) = "gone" <=> ~session[SessionOf[k]].exists
  /\ run[k].state # "none" => session[SessionOf[k]].exists
  /\ (run[k].state = "none" /\ session[SessionOf[k]].exists) => Phase(k) = "none"
  /\ run[k].state = "queued" <=> Phase(k) = "asked"
  /\ run[k].state = "running" <=> Phase(k) = "taken"
  /\ run[k].state \in {"succeeded", "failed", "interrupted"} <=> Phase(k) = "ended"
  /\ run[k].state \in {"none"} \union Active => run[k].answers = 0 /\ run[k].updates = 0

AllPhases == \A k \in Keys : PhaseFacts(k)

LEMMA Phases == IInv => AllPhases
<1> SUFFICES ASSUME IInv, NEW k \in Keys PROVE PhaseFacts(k)
  BY DEF AllPhases
<1>1. PICK state \in RunStates : state = run[k].state
  BY DEF IInv, Types, RunRow
<1>2. PICK exists \in BOOLEAN : exists <=> session[SessionOf[k]].exists
  OBVIOUS
<1>3. /\ state # "none" => exists
      /\ state \in {"none"} \union Active => run[k].answers = 0 /\ run[k].updates = 0
  BY <1>1, <1>2 DEF IInv, RunsInv, RunOK
<1>4. Phase(k) = IF ~exists THEN "gone"
                 ELSE CASE state = "none" -> "none" [] state = "queued" -> "asked"
                        [] state = "running" -> "taken" [] OTHER -> "ended"
  BY <1>1, <1>2 DEF Phase
<1>5. CASE ~exists
  <2>1. Phase(k) = "gone" /\ state = "none"
    BY <1>3, <1>4, <1>5
  <2> QED BY <1>1, <1>2, <1>3, <1>5, <2>1 DEF PhaseFacts
<1>6. CASE exists
  <2>1. \/ state = "none" /\ Phase(k) = "none"
        \/ state = "queued" /\ Phase(k) = "asked"
        \/ state = "running" /\ Phase(k) = "taken"
        \/ state \in {"succeeded", "failed", "interrupted"} /\ Phase(k) = "ended"
    BY <1>4, <1>6, Names
  <2> QED BY <1>1, <1>2, <1>3, <1>6, <2>1 DEF PhaseFacts
<1> QED BY <1>5, <1>6

LEMMA PhasesAfter == IInv' => AllPhases'
BY Phases, PTL

(* A step that ends a question, with a message or without one. *)
LEMMA Ends ==
  ASSUME IInv, IInv', NEW k \in Keys, run[k].state = "running",
         run'[k].state \in {"succeeded", "failed", "interrupted"},
         run'[k].answers \in {1, run[k].answers}, run'[k].updates = run[k].updates,
         \A j \in Keys : j # k => Same(j)
  PROVE  Question!Next
<1>1. Phase(k) = "taken" /\ Phase(k)' = "ended"
  BY Phases, PhasesAfter DEF AllPhases, PhaseFacts
<1>2. Question!End(k)
  BY <1>1 DEF Question!End, Same
<1> QED BY <1>2 DEF Question!Next

(* Only the row of k is written. *)
OthersSame(k) ==
  /\ \A j \in Keys : j # k => run'[j] = run[j]
  /\ \A s \in Sessions : session'[s].exists <=> session[s].exists

LEMMA OthersStutter ==
  ASSUME NEW k \in Keys, OthersSame(k)
  PROVE  \A j \in Keys : j # k => Same(j)
<1> SUFFICES ASSUME NEW j \in Keys, j # k PROVE Same(j)
  OBVIOUS
<1>1. run'[j] = run[j] /\ (session'[SessionOf[j]].exists <=> session[SessionOf[j]].exists)
  BY Rows DEF OthersSame
<1> QED BY <1>1 DEF Same, Phase

LEMMA AskRefines ==
  ASSUME IInv, IInv', NEW r \in Requests, ChatSubmit(r)
  PROVE  [Question!Next]_Question!vars
<1>1. UNCHANGED session /\ req[r].key \in Keys
  BY DEF ChatSubmit, IInv, RequestsInv, RequestOK
<1>2. CASE UNCHANGED run
  BY <1>1, <1>2, QuietStep
<1>3. ASSUME NEW k \in Keys, MayCreate(k), session[SessionOf[k]].exists, k = req[r].key,
             run' = [run EXCEPT ![k] = [NoRun EXCEPT !.state = "queued", !.gen = req[r].gen,
                                          !.override = req[r].override, !.ticket = created]]
      PROVE  Question!Next
  <2>1. run[k].state = "none" /\ run'[k].state = "queued"
    BY <1>3 DEF MayCreate, IInv, Types, NoRun
  <2>2. OthersSame(k)
    BY <1>1, <1>3 DEF OthersSame, IInv, Types
  <2>3. /\ Phase(k) = "none" /\ Phase(k)' = "asked"
        /\ run'[k].answers = run[k].answers /\ run'[k].updates = run[k].updates
    BY <1>3, <2>1, Phases, PhasesAfter DEF AllPhases, PhaseFacts, Active
  <2>4. Question!Ask(k)
    BY <2>2, <2>3, OthersStutter DEF Question!Ask, Same
  <2> QED BY <2>4 DEF Question!Next
<1> QED BY <1>1, <1>2, <1>3 DEF ChatSubmit

LEMMA TakeUpRefines ==
  ASSUME IInv, IInv', NEW w \in Workers, NEW k \in Keys, ClaimRun(w, k)
  PROVE  Question!Next
<1>1. /\ worker[w].pc = "idle" /\ singleton = w /\ run[k].state = "queued"
      /\ UNCHANGED session
  BY Knows DEF ClaimRun, At, Queued, ProcessOK
<1>2. \A j \in Keys : run[j].state # "running"
  BY <1>1, Names DEF IInv, RunsInv, RunningHeld
<1>3. run'[k].state = "running" /\ OthersSame(k)
  BY <1>1 DEF ClaimRun, IInv, Types, OthersSame, RunRow
<1>4. /\ Phase(k) = "asked" /\ Phase(k)' = "taken" /\ \A o \in Keys : Phase(o) # "taken"
      /\ run'[k].answers = run[k].answers /\ run'[k].updates = run[k].updates
  BY <1>1, <1>2, <1>3, Phases, PhasesAfter DEF AllPhases, PhaseFacts, Active
<1>5. Question!TakeUp(k)
  BY <1>3, <1>4, OthersStutter DEF Question!TakeUp, Same
<1> QED BY <1>5 DEF Question!Next

LEMMA AnswerRefines ==
  ASSUME IInv, IInv', NEW w \in Workers, StoreAnswer(w)
  PROVE  [Question!Next]_Question!vars
<1>1. PICK me \in Locals, k \in Keys : me = worker[w] /\ k = worker[w].key
  BY Knows, Names DEF StoreAnswer, At, ClaimedOK
<1>2. UNCHANGED session /\ me.state \in {"succeeded", "failed"}
  BY <1>1, Knows, Names DEF StoreAnswer, At, LocalsOK
<1>3. CASE run[k].state = "running"
  <2>1. run' = [run EXCEPT ![k].state = me.state, ![k].task = me.task,
                           ![k].answers = run[k].answers + 1, ![k].basis = me.basis]
    BY <1>1, <1>3 DEF StoreAnswer
  <2>2. /\ run'[k].state = me.state /\ run'[k].answers = run[k].answers + 1
        /\ run'[k].updates = run[k].updates /\ OthersSame(k)
    BY <1>2, <2>1 DEF IInv, Types, RunRow, OthersSame
  <2>3. run[k].answers = 0
    BY <1>3, Phases DEF AllPhases, PhaseFacts, Active
  <2>4. run'[k].answers = 1
    BY <2>2, <2>3
  <2> QED BY <1>2, <1>3, <2>2, <2>4, OthersStutter, Ends
<1>4. CASE run[k].state # "running"
  <2>1. UNCHANGED run
    BY <1>1, <1>4 DEF StoreAnswer
  <2> QED BY <1>2, <2>1, QuietStep
<1> QED BY <1>3, <1>4

(* mark_session_read_only leaves the conversation there. *)
LEMMA ReadOnlyStays ==
  ASSUME Types, NEW s \in Sessions, ReadOnly(s) \/ UNCHANGED session
  PROVE  \A x \in Sessions : session'[x].exists <=> session[x].exists
<1>1. CASE ReadOnly(s)
  <2>1. PICK row \in SessionRow, closed \in BOOLEAN :
          row = session[s] /\ session' = [session EXCEPT ![s] = [row EXCEPT !.readOnly = closed]]
    BY <1>1 DEF Types, SessionRow, ReadOnly
  <2>2. PICK new : new = [row EXCEPT !.readOnly = closed]
    OBVIOUS
  <2>3. new.exists <=> row.exists
    BY <2>2 DEF SessionRow
  <2>4. session'[s] = new /\ \A x \in Sessions : x # s => session'[x] = session[x]
    BY <2>1, <2>2 DEF Types
  <2>5. ASSUME NEW x \in Sessions PROVE session'[x].exists <=> session[x].exists
    BY <2>1, <2>3, <2>4, <2>5
  <2> QED BY <2>5
<1> QED BY <1>1

LEMMA FailureRefines ==
  ASSUME IInv, IInv', NEW w \in Workers, StoreFailure(w)
  PROVE  [Question!Next]_Question!vars
<1>1. PICK k \in Keys : k = worker[w].key
  BY Knows, Names DEF StoreFailure, At, ClaimedOK
<1>2. \A x \in Sessions : session'[x].exists <=> session[x].exists
  BY <1>1, Rows, ReadOnlyStays DEF StoreFailure, IInv
<1>3. CASE run[k].state = "running"
  <2>1. run' = [run EXCEPT ![k].state = "failed"]
    BY <1>1, <1>3 DEF StoreFailure
  <2>2. /\ run'[k].state = "failed" /\ run'[k].answers = run[k].answers
        /\ run'[k].updates = run[k].updates /\ OthersSame(k)
    BY <1>2, <2>1 DEF IInv, Types, RunRow, OthersSame
  <2> QED BY <1>3, <2>2, OthersStutter, Ends
<1>4. CASE run[k].state # "running"
  <2>1. UNCHANGED run
    BY <1>1, <1>4 DEF StoreFailure
  <2> QED BY <1>2, <2>1, QuietStep
<1> QED BY <1>3, <1>4

LEMMA NewsRefines ==
  ASSUME IInv, IInv', NEW w \in Workers, NewsWrite(w)
  PROVE  [Question!Next]_Question!vars
<1>1. PICK k \in Keys : k = worker[w].key
  BY Knows DEF NewsWrite, At, ClaimedOK
<1>2. UNCHANGED session /\ news[k].state \in {"none", "running"}
  BY <1>1, Knows DEF NewsWrite, At, ClaimedOK
<1>3. CASE UNCHANGED run
  BY <1>2, <1>3, QuietStep
<1>4. CASE news[k].state # "none" /\ run' = [run EXCEPT ![k].updates = @ + 1]
  <2>1. news[k].state = "running" /\ run[k].answers = 1 /\ run[k].updates = 0
    BY <1>2, <1>4 DEF IInv, RunsInv, RunOK
  <2>2. /\ run'[k].state = run[k].state /\ run'[k].answers = run[k].answers
        /\ run'[k].updates = run[k].updates + 1 /\ OthersSame(k)
    BY <1>2, <1>4 DEF IInv, Types, RunRow, OthersSame
  <2>3. run[k].state \in {"succeeded", "failed", "interrupted"}
    <3>1. run[k].state \in RunStates /\ run[k].state \notin {"none"} \union Active
      BY <2>1, Phases DEF IInv, Types, RunRow, AllPhases, PhaseFacts
    <3> QED BY <3>1, Names DEF Active
  <2>4. Phase(k) = "ended" /\ Phase(k)' = "ended" /\ run'[k].updates = 1
    BY <2>1, <2>2, <2>3, Phases, PhasesAfter DEF AllPhases, PhaseFacts
  <2>5. \A j \in Keys : j # k => Same(j)
    BY <2>2, OthersStutter
  <2>6. Question!News(k)
    BY <2>1, <2>2, <2>4, <2>5 DEF Question!News, Same
  <2> QED BY <2>6 DEF Question!Next
<1> QED BY <1>1, <1>3, <1>4 DEF NewsWrite

(* Recovery ends the one question that was taken up, if there is one. *)
LEMMA StartRefines ==
  ASSUME IInv, IInv', NEW w \in Workers, WorkerStart(w)
  PROVE  [Question!Next]_Question!vars
<1>1. UNCHANGED session
  BY DEF WorkerStart
<1>2. ASSUME NEW j \in Keys
      PROVE  /\ run[j].state # "running" => run'[j] = run[j]
             /\ run[j].state = "running" => run'[j].state = "interrupted"
             /\ run'[j].answers = run[j].answers /\ run'[j].updates = run[j].updates
  <2>1. PICK row \in RunRow : row = run[j]
    BY DEF IInv, Types
  <2>2. run'[j] = [row EXCEPT !.state = IF row.state = "running" THEN "interrupted" ELSE row.state]
    BY <2>1 DEF WorkerStart, Recovered
  <2> QED BY <2>1, <2>2 DEF RunRow
<1>3. CASE \E k \in Keys : run[k].state = "running"
  <2>1. PICK k \in Keys : run[k].state = "running"
    BY <1>3
  <2>2. \A j \in Keys : j # k => run'[j] = run[j]
    BY <1>2, <2>1 DEF IInv, RunsInv, OneRunning
  <2>3. OthersSame(k)
    BY <1>1, <2>2 DEF OthersSame
  <2> QED BY <1>2, <2>1, <2>3, OthersStutter, Ends
<1>4. CASE \A k \in Keys : run[k].state # "running"
  <2>1. \A k \in Keys : Same(k)
    BY <1>1, <1>2, <1>4 DEF Same, Phase
  <2> QED BY <2>1, Stutters
<1> QED BY <1>3, <1>4

LEMMA DeleteRefines ==
  ASSUME IInv, IInv', NEW s \in Sessions, DeleteSession(s)
  PROVE  Question!Next
<1>1. ~session'[s].exists /\ \A x \in Sessions : x # s => session'[x] = session[x]
  BY DEF DeleteSession, IInv, Types, SessionRow
<1>2. ASSUME NEW k \in Keys
      PROVE  /\ Phase(k)' = IF k \in RunsOf(s) THEN "gone" ELSE Phase(k)
             /\ run'[k].answers = IF k \in RunsOf(s) THEN 0 ELSE run[k].answers
             /\ run'[k].updates = IF k \in RunsOf(s) THEN 0 ELSE run[k].updates
  <2>1. CASE SessionOf[k] = s
    <3>1. run'[k] = NoRun /\ k \in RunsOf(s)
      BY <2>1 DEF DeleteSession, RunsOf
    <3> QED BY <1>1, <2>1, <3>1, Rows DEF Phase
  <2>2. CASE SessionOf[k] # s
    <3>1. run'[k] = run[k] /\ session'[SessionOf[k]] = session[SessionOf[k]] /\ k \notin RunsOf(s)
      BY <1>1, <2>2, Rows DEF DeleteSession, RunsOf
    <3> QED BY <3>1 DEF Phase
  <2> QED BY <2>1, <2>2
<1>3. Question!Delete(RunsOf(s))
  BY <1>2 DEF Question!Delete
<1>4. RunsOf(s) \in SUBSET Keys
  BY DEF RunsOf
<1> QED BY <1>3, <1>4 DEF Question!Next

LEMMA AttachRefines ==
  ASSUME IInv, NEW s \in Sessions, Attach(s)
  PROVE  UNCHANGED Question!vars
<1>1. PICK row \in SessionRow, gen \in Nat :
        row = session[s] /\ session' = [session EXCEPT ![s] = [row EXCEPT !.gen = gen]]
  BY DEF Attach, IInv, Types, DataRow
<1>2. PICK new : new = [row EXCEPT !.gen = gen]
  OBVIOUS
<1>3. new.exists <=> row.exists
  BY <1>2 DEF SessionRow
<1>4. session'[s] = new /\ \A x \in Sessions : x # s => session'[x] = session[x]
  BY <1>1, <1>2 DEF IInv, Types
<1>5. \A x \in Sessions : session'[x].exists <=> session[x].exists
  <2> SUFFICES ASSUME NEW x \in Sessions PROVE session'[x].exists <=> session[x].exists
    OBVIOUS
  <2> QED BY <1>1, <1>3, <1>4
<1> QED BY <1>5, QuietStep DEF Attach

LEMMA StepRefines == IInv /\ IInv' /\ [Next]_vars => [Question!Next]_Question!vars
<1> SUFFICES ASSUME IInv, IInv', [Next]_vars PROVE [Question!Next]_Question!vars
  OBVIOUS
<1> DEFINE Refined == [Question!Next]_Question!vars
<1>1. CASE UNCHANGED <<session, run>>
  BY <1>1, QuietStep
<1>2. CASE ApiStep
  <2>1. ASSUME NEW r \in Requests, ChatCheck(r) PROVE Refined
    <3>1. SessionOf[req[r].key] \in Sessions /\ UNCHANGED run
      BY <2>1, Rows DEF ChatCheck, IInv, RequestsInv, RequestOK
    <3>2. \A x \in Sessions : session'[x].exists <=> session[x].exists
      BY <2>1, <3>1, ReadOnlyStays DEF ChatCheck, IInv
    <3> QED BY <3>1, <3>2, QuietStep
  <2> QED BY <1>1, <1>2, <2>1, AskRefines DEF ApiStep, ChatRead
<1>3. ASSUME NEW w \in Workers, WorkerStep(w) \/ WorkerCrash(w) PROVE Refined
  <2>1. CASE \/ ReadRun(w) \/ Context(w) \/ Plan(w) \/ Resolve(w) \/ TakeLock(w) \/ Activate(w)
             \/ Pipeline(w) \/ NoQuestion(w) \/ NewsWork(w)
    BY <1>1, <2>1 DEF ReadRun, Context, Plan, Resolve, TakeLock, Activate, Pipeline, NoQuestion,
       NewsWork, NoTables
  <2>2. CASE ClaimNews(w) \/ WorkerCrash(w)
    BY <1>1, <2>2 DEF ClaimNews, WorkerCrash
  <2> QED BY <1>3, <2>1, <2>2, StartRefines, TakeUpRefines, AnswerRefines, FailureRefines,
          NewsRefines DEF WorkerStep
<1>4. ASSUME NEW s \in Sessions, DeleteSession(s) \/ Attach(s) PROVE Refined
  BY <1>4, DeleteRefines, AttachRefines
<1>5. CASE Rebuild \/ ReportLost \/ NewsDue \/ NewsLate
  BY <1>1, <1>5 DEF Rebuild, ReportLost, NewsDue, NewsLate
<1>6. CASE UNCHANGED vars
  BY <1>1, <1>6 DEF vars
<1> QED BY <1>2, <1>3, <1>4, <1>5, <1>6 DEF Next

(* Every behaviour of the queue, with workers and API killed at any point,  *)
(* is one of QuestionAnswer: no question is taken up twice, none after it   *)
(* ended, and a deleted conversation stays silent.                          *)
THEOREM ImplementsQuestion == Spec => QuestionSpec
<1>1. Init => Question!Init
  <2> SUFFICES ASSUME Init PROVE Question!Init
    OBVIOUS
  <2>1. ASSUME NEW k \in Keys
        PROVE  Phase(k) = "none" /\ run[k].answers = 0 /\ run[k].updates = 0
    BY Rows DEF Init, Phase
  <2> QED BY <2>1 DEF Question!Init
<1>2. IInv /\ IInv' /\ [Next]_vars => [Question!Next]_Question!vars
  BY StepRefines
<1> QED BY <1>1, <1>2, Invariance, PTL DEF Spec, QuestionSpec, Question!Spec
=============================================================================
