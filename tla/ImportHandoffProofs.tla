------------------------- MODULE ImportHandoffProofs -------------------------
(***************************************************************************)
(* The hand-off protocol for every number of keys, requests and sessions.  *)
(* The invariant has two halves: what the two databases say to each other  *)
(* (DataInv), and what an actor in the middle of the protocol still knows  *)
(* about the rows it read earlier (RequestsInv, WorkerInv).  Every          *)
(* transaction is shown once to keep DataInv and whatever anybody else      *)
(* knows (Keeps); the steps of requests and worker then only differ in      *)
(* where they go next.                                                     *)
(***************************************************************************)
EXTENDS ImportHandoff, TLAPS

JobExists(k) == job[k].state # "none"

(* What an actor knows of a hand-off row it read or wrote earlier: the row  *)
(* may have been replaced since, but never while its session is hidden.     *)
CopyOK(k, c) ==
  /\ c.id \in 1..rows
  /\ c.target \in Sessions
  /\ session[c.target].state # "absent"
  /\ RowStands(k, c) => (c.target = handoff[k].target /\ c.created = handoff[k].created)
  /\ session[c.target].state = "provisioning" => (c.created /\ RowStands(k, c))

RowOK(k) ==
  /\ handoff[k].state = "none" => handoff[k] = NoRow
  /\ handoff[k].state # "none" =>
       /\ handoff[k].id \in 1..rows
       /\ handoff[k].target \in Sessions
       /\ session[handoff[k].target].state # "absent"
       /\ session[handoff[k].target].state = "provisioning" =>
            (handoff[k].created /\ handoff[k].state \in Unfinished)
  /\ handoff[k].state \in {"job_created", "linked"} => JobExists(k)
  /\ handoff[k].state = "linked" => k \in linkedEver

JobOK(k) ==
  /\ JobExists(k) =>
       /\ job[k].target \in Sessions
       /\ session[job[k].target].state # "absent"
       /\ session[job[k].target].state = "provisioning" =>
            handoff[k].target = job[k].target
  /\ k \in linkedEver =>
       JobExists(k) /\ session[job[k].target].state # "provisioning"
  /\ job[k].state \in Dispatched => k \in linkedEver
  /\ job[k].state = "attached" => session[job[k].target].data

DataType ==
  /\ session \in [Sessions -> [state : SessionStates, job : Keys \union {NoKey},
                               data : BOOLEAN]]
  /\ handoff \in [Keys -> Row]
  /\ job \in [Keys -> [state : JobStates, target : MaybeSession,
                       src : MaybeSession, old : BOOLEAN]]
  /\ rows \in Nat
  /\ linkedEver \subseteq Keys
  /\ crashes \in Nat

DataInv ==
  /\ DataType
  /\ \A k \in Keys : RowOK(k) /\ JobOK(k)
  /\ ProvisioningIsReachable
  /\ OneReportPerSession

CopyPoints == {"check", "slot", "record", "link", "cancel", "abort"}
KeyPoints == CopyPoints \union {"release", "heldRelease", "heldCancel", "run", "attach"}

(* What every actor at a point of the protocol relies on. *)
Knows(pc, k, c) ==
  /\ pc \in KeyPoints => k \in Keys
  /\ pc \in CopyPoints => CopyOK(k, c)
  /\ pc \in {"record", "link"} => JobExists(k)
  /\ pc \in {"release", "heldRelease"} => k \in linkedEver

RequestType ==
  req \in [Requests -> [pc : RequestPoints, key : Keys \union {NoKey},
                        src : MaybeSession, copy : RowCopy]]
WorkerType ==
  worker \in [pc : WorkerPoints, key : Keys \union {NoKey}, copy : RowCopy,
              todo : SUBSET TodoItem, held : SUBSET Keys]

RequestsInv ==
  /\ RequestType
  /\ \A r \in Requests : Knows(req[r].pc, req[r].key, req[r].copy)

TodoInv ==
  \A t \in worker.todo : CopyOK(t.key, t.copy) /\ (~t.started => JobExists(t.key))

WorkerInv ==
  /\ WorkerType
  /\ Knows(worker.pc, worker.key, worker.copy)
  /\ TodoInv
  /\ worker.pc = "run" => job[worker.key].state = "running"
  /\ worker.pc = "attach" => job[worker.key].state = "ready"

IInv == DataInv /\ RequestsInv /\ WorkerInv

-----------------------------------------------------------------------------
(* What no transaction takes away from the others.                          *)

Keeps ==
  /\ \A k \in Keys, c \in RowCopy : CopyOK(k, c) => CopyOK(k, c)'
  /\ \A k \in Keys : JobExists(k) => JobExists(k)'
  /\ linkedEver \subseteq linkedEver'

(* ... and what only the worker changes: the job it is running. *)
KeepsRunning ==
  \A k \in Keys : job[k].state \in {"running", "ready"} => job'[k].state = job[k].state

(* A local step changes no table. *)
LEMMA QuietKeeps ==
  ASSUME DataInv, Quiet
  PROVE  DataInv' /\ Keeps /\ KeepsRunning
BY DEF DataInv, Quiet, DataType, RowOK, JobOK, JobExists, ProvisioningIsReachable,
       OneReportPerSession, Keeps, KeepsRunning, CopyOK, RowStands

LEMMA UpdatedRow ==
  ASSUME NEW row \in Row, NEW state \in HandoffStates
  PROVE  /\ Updated(row, state) \in Row
         /\ Updated(row, state).id = row.id
         /\ Updated(row, state).target = row.target
         /\ Updated(row, state).created = row.created
         /\ Updated(row, state).state = state
BY DEF Updated, Row

(* update_handoff, seen row by row. *)
LEMMA UpdateRowEffect ==
  ASSUME DataType, NEW k \in Keys, NEW c \in RowCopy, NEW state \in HandoffStates,
         UpdateRow(k, c, state)
  PROVE  /\ handoff' \in [Keys -> Row]
         /\ \A j \in Keys : /\ handoff'[j].id = handoff[j].id
                            /\ handoff'[j].target = handoff[j].target
                            /\ handoff'[j].created = handoff[j].created
         /\ \A j \in Keys : handoff'[j].state =
               IF j = k /\ RowStands(k, c) THEN state ELSE handoff[j].state
         /\ \A j \in Keys : ~(j = k /\ RowStands(k, c)) => handoff'[j] = handoff[j]
BY UpdatedRow DEF DataType, UpdateRow

LEMMA AbortKeeps ==
  ASSUME DataInv, NEW k \in Keys, NEW c \in RowCopy, CopyOK(k, c), AbortTxn(k, c)
  PROVE  DataInv' /\ Keeps /\ KeepsRunning
<1> DEFINE Gone(s) == s = c.target /\ c.created /\ session[s].state = "provisioning"
<1>1. /\ session' \in [Sessions -> [state : SessionStates, job : Keys \union {NoKey},
                                   data : BOOLEAN]]
      /\ \A s \in Sessions : /\ session'[s].state = IF Gone(s) THEN "deleted" ELSE session[s].state
                             /\ session'[s].data = session[s].data
  BY DEF DataInv, DataType, AbortTxn, CopyOK, SessionStates
<1>2. /\ handoff' \in [Keys -> Row]
      /\ \A j \in Keys : /\ handoff'[j].id = handoff[j].id
                         /\ handoff'[j].target = handoff[j].target
                         /\ handoff'[j].created = handoff[j].created
      /\ \A j \in Keys : handoff'[j].state =
            IF j = k /\ RowStands(k, c) THEN "aborted" ELSE handoff[j].state
      /\ \A j \in Keys : ~(j = k /\ RowStands(k, c)) => handoff'[j] = handoff[j]
  BY UpdateRowEffect DEF DataInv, AbortTxn, HandoffStates
<1>3. UNCHANGED <<job, rows, linkedEver, crashes>>
  BY DEF AbortTxn
<1>4. DataType'
  BY <1>1, <1>2, <1>3 DEF DataInv, DataType
<1>5. \A j \in Keys : RowOK(j)'
  BY <1>1, <1>2, <1>3 DEF DataInv, RowOK, CopyOK, RowStands, JobExists, Unfinished, NoRow
<1>6. \A j \in Keys : JobOK(j)'
  BY <1>1, <1>2, <1>3 DEF DataInv, JobOK, JobExists
<1>7. ProvisioningIsReachable'
  BY <1>1, <1>2 DEF DataInv, ProvisioningIsReachable, CopyOK, RowStands
<1>8. OneReportPerSession'
  BY <1>3 DEF DataInv, OneReportPerSession
<1>9. Keeps /\ KeepsRunning
  BY <1>1, <1>2, <1>3 DEF Keeps, KeepsRunning, CopyOK, RowStands, JobExists
<1> QED BY <1>4, <1>5, <1>6, <1>7, <1>8, <1>9 DEF DataInv

(* "job_created" *)
LEMMA RecordKeeps ==
  ASSUME DataInv, NEW k \in Keys, NEW c \in RowCopy, CopyOK(k, c), JobExists(k),
         UpdateRow(k, c, "job_created"), UNCHANGED <<session, job, rows, linkedEver, crashes>>
  PROVE  DataInv' /\ Keeps /\ KeepsRunning
<1>1. /\ handoff' \in [Keys -> Row]
      /\ \A j \in Keys : /\ handoff'[j].id = handoff[j].id
                         /\ handoff'[j].target = handoff[j].target
                         /\ handoff'[j].created = handoff[j].created
      /\ \A j \in Keys : handoff'[j].state =
            IF j = k /\ RowStands(k, c) THEN "job_created" ELSE handoff[j].state
      /\ \A j \in Keys : ~(j = k /\ RowStands(k, c)) => handoff'[j] = handoff[j]
  BY UpdateRowEffect DEF DataInv, HandoffStates, Unfinished
<1>2. DataType'
  BY <1>1 DEF DataInv, DataType
<1>3. \A j \in Keys : RowOK(j)'
  BY <1>1 DEF DataInv, RowOK, CopyOK, RowStands, JobExists, Unfinished, NoRow
<1>4. \A j \in Keys : JobOK(j)'
  BY <1>1 DEF DataInv, JobOK, JobExists
<1>5. ProvisioningIsReachable'
  BY <1>1 DEF DataInv, ProvisioningIsReachable, Unfinished
<1>6. OneReportPerSession'
  BY DEF DataInv, OneReportPerSession
<1>7. Keeps /\ KeepsRunning
  BY <1>1 DEF Keeps, KeepsRunning, CopyOK, RowStands, JobExists
<1> QED BY <1>2, <1>3, <1>4, <1>5, <1>6, <1>7 DEF DataInv

LEMMA LinkKeeps ==
  ASSUME DataInv, NEW k \in Keys, NEW c \in RowCopy, CopyOK(k, c), JobExists(k), LinkTxn(k, c)
  PROVE  DataInv' /\ Keeps /\ KeepsRunning /\ k \in linkedEver'
<1>1. /\ session' \in [Sessions -> [state : SessionStates, job : Keys \union {NoKey},
                                   data : BOOLEAN]]
      /\ \A s \in Sessions : /\ session'[s].state = IF s = c.target THEN "live" ELSE session[s].state
                             /\ session'[s].data = session[s].data
  BY DEF DataInv, DataType, LinkTxn, CopyOK, SessionStates
<1>2. /\ handoff' \in [Keys -> Row]
      /\ \A j \in Keys : /\ handoff'[j].id = handoff[j].id
                         /\ handoff'[j].target = handoff[j].target
                         /\ handoff'[j].created = handoff[j].created
      /\ \A j \in Keys : handoff'[j].state = IF j = k THEN "linked" ELSE handoff[j].state
      /\ \A j \in Keys : j # k => handoff'[j] = handoff[j]
  BY UpdateRowEffect DEF DataInv, LinkTxn, HandoffStates
<1>3. linkedEver' = linkedEver \union {k} /\ UNCHANGED <<job, rows, crashes>> /\ RowStands(k, c)
  BY DEF LinkTxn
<1>4. DataType'
  BY <1>1, <1>2, <1>3 DEF DataInv, DataType
<1>5. \A j \in Keys : RowOK(j)'
  BY <1>1, <1>2, <1>3 DEF DataInv, RowOK, CopyOK, RowStands, JobExists, Unfinished, NoRow
<1>6. \A j \in Keys : JobOK(j)'
  BY <1>1, <1>2, <1>3 DEF DataInv, JobOK, JobExists, CopyOK
<1>7. ProvisioningIsReachable'
  BY <1>1, <1>2, <1>3 DEF DataInv, ProvisioningIsReachable, CopyOK
<1>8. OneReportPerSession'
  BY <1>3 DEF DataInv, OneReportPerSession
<1>9. Keeps /\ KeepsRunning
  BY <1>1, <1>2, <1>3 DEF Keeps, KeepsRunning, CopyOK, RowStands, JobExists
<1> QED BY <1>3, <1>4, <1>5, <1>6, <1>7, <1>8, <1>9 DEF DataInv

(* A transaction that touches one job, which exists, and no web table.      *)
JobMoves(k, state) ==
  /\ job' = [job EXCEPT ![k].state = state]
  /\ UNCHANGED <<session, handoff, rows, linkedEver, crashes>>

LEMMA JobMoveKeeps ==
  ASSUME DataInv, NEW k \in Keys, JobExists(k), NEW state \in JobStates \ {"none", "attached"},
         state \in Dispatched => k \in linkedEver, JobMoves(k, state)
  PROVE  DataInv' /\ Keeps
<1>1. /\ job' \in [Keys -> [state : JobStates, target : MaybeSession,
                            src : MaybeSession, old : BOOLEAN]]
      /\ \A j \in Keys : /\ job'[j].state = IF j = k THEN state ELSE job[j].state
                         /\ job'[j].target = job[j].target
  BY DEF DataInv, DataType, JobMoves
<1>2. UNCHANGED <<session, handoff, rows, linkedEver, crashes>>
  BY DEF JobMoves
<1>3. DataType'
  BY <1>1, <1>2 DEF DataInv, DataType
<1>4. \A j \in Keys : RowOK(j)' /\ JobOK(j)'
  BY <1>1, <1>2 DEF DataInv, RowOK, JobOK, JobExists
<1>5. ProvisioningIsReachable'
  BY <1>2 DEF DataInv, ProvisioningIsReachable
<1>6. OneReportPerSession'
  BY <1>1, <1>2 DEF DataInv, OneReportPerSession
<1>7. Keeps
  BY <1>1, <1>2 DEF Keeps, CopyOK, RowStands, JobExists
<1> QED BY <1>3, <1>4, <1>5, <1>6, <1>7 DEF DataInv

LEMMA CancelHeldKeeps ==
  ASSUME DataInv, NEW k \in Keys, CancelHeld(k)
  PROVE  DataInv' /\ Keeps /\ KeepsRunning
<1>1. CASE job[k].state = "held"
  <2>1. JobMoves(k, "cancelled")
    BY <1>1 DEF CancelHeld, JobMoves
  <2>2. DataInv' /\ Keeps
    BY <1>1, <2>1, JobMoveKeeps DEF JobExists, JobStates, Dispatched
  <2>3. KeepsRunning
    BY <1>1, <2>1 DEF DataInv, DataType, JobMoves, KeepsRunning
  <2> QED BY <2>2, <2>3
<1>2. CASE job[k].state # "held"
  BY <1>2, QuietKeeps DEF CancelHeld, Quiet
<1> QED BY <1>1, <1>2

LEMMA ReleaseHoldKeeps ==
  ASSUME DataInv, NEW k \in Keys, k \in linkedEver, ReleaseHold(k)
  PROVE  DataInv' /\ Keeps /\ KeepsRunning
<1>1. CASE job[k].state = "held"
  <2>1. JobMoves(k, "queued")
    BY <1>1 DEF ReleaseHold, JobMoves
  <2>2. DataInv' /\ Keeps
    BY <1>1, <2>1, JobMoveKeeps DEF JobExists, JobStates, Dispatched
  <2>3. KeepsRunning
    BY <1>1, <2>1 DEF DataInv, DataType, JobMoves, KeepsRunning
  <2> QED BY <2>2, <2>3
<1>2. CASE job[k].state # "held"
  BY <1>2, QuietKeeps DEF ReleaseHold, Quiet
<1> QED BY <1>1, <1>2

(* The insert of _begin: a row nobody has seen, with its target session.    *)
InsertsRow(k, new) ==
  /\ handoff[k].state \in {"none", "aborted"}
  /\ handoff' = [handoff EXCEPT ![k] = new]
  /\ rows' = rows + 1
  /\ UNCHANGED <<job, linkedEver, crashes>>
  /\ session' \in [Sessions -> [state : SessionStates, job : Keys \union {NoKey},
                                data : BOOLEAN]]
  /\ \A s \in Sessions : /\ session'[s].data = session[s].data
                         /\ s # new.target => session'[s].state = session[s].state
  /\ ~new.created => (session[new.target].state = "live" /\ session'[new.target].state = "live")
  /\ new.created => /\ session[new.target].state = "absent"
                    /\ session'[new.target].state = "provisioning"

LEMMA InsertKeeps ==
  ASSUME DataInv, NEW k \in Keys, NEW new \in Row, NEW copy \in RowCopy,
         new.id = rows + 1, new.target \in Sessions, new.state = "started",
         copy.id = new.id, copy.target = new.target, copy.created = new.created,
         InsertsRow(k, new)
  PROVE  DataInv' /\ Keeps /\ KeepsRunning /\ CopyOK(k, copy)'
<1>1. /\ \A j \in Keys : handoff'[j] = IF j = k THEN new ELSE handoff[j]
      /\ handoff[k].state \in {"none", "aborted"}
      /\ rows \in Nat /\ rows' = rows + 1 /\ UNCHANGED <<job, linkedEver, crashes>>
  BY DEF DataInv, DataType, InsertsRow
<1>2. /\ \A s \in Sessions : session[s].state # "absent" => session'[s].state = session[s].state
      /\ \A s \in Sessions : session'[s].state = "provisioning" =>
           (session[s].state = "provisioning" \/ (s = new.target /\ new.created))
      /\ \A s \in Sessions : session'[s].data = session[s].data
      /\ session'[new.target].state # "absent"
      /\ session[new.target].state # "provisioning"
  <2>1. CASE new.created
    BY <2>1 DEF InsertsRow
  <2>2. CASE ~new.created
    BY <2>2 DEF InsertsRow
  <2> QED BY <2>1, <2>2
<1>3. rows + 1 \in 1..rows' /\ \A n \in 1..rows : n \in 1..rows' /\ n # rows + 1
  BY <1>1
<1>4. DataType'
  BY <1>1 DEF DataInv, DataType, InsertsRow
<1>5. \A j \in Keys : RowOK(j)'
  <2>1. RowOK(k)'
    BY <1>1, <1>2, <1>3 DEF RowOK, Unfinished
  <2>2. ASSUME NEW j \in Keys, j # k PROVE RowOK(j)'
    <3>1. RowOK(j) /\ handoff'[j] = handoff[j]
      BY <2>2, <1>1 DEF DataInv
    <3> QED BY <3>1, <1>1, <1>2, <1>3 DEF RowOK, JobExists
  <2> QED BY <2>1, <2>2
<1>6. \A j \in Keys : JobOK(j)'
  <2> SUFFICES ASSUME NEW j \in Keys PROVE JobOK(j)'
    OBVIOUS
  <2>1. JobOK(j) /\ RowOK(j)
    BY DEF DataInv
  <2>2. JobExists(j) /\ j = k => session[job[j].target].state # "provisioning"
    BY <2>1, <1>1, HandoffAssumption DEF RowOK, JobOK, Unfinished, NoRow
  <2> QED BY <2>1, <2>2, <1>1, <1>2 DEF JobOK, JobExists
<1>7. ProvisioningIsReachable'
  <2> SUFFICES ASSUME NEW s \in Sessions, session'[s].state = "provisioning"
               PROVE  \E j \in Keys : /\ handoff'[j].state \in Unfinished
                                      /\ handoff'[j].created /\ handoff'[j].target = s
    BY DEF ProvisioningIsReachable
  <2>1. CASE s = new.target
    <3>1. new.created
      BY <2>1, <1>2
    <3> QED BY <2>1, <3>1, <1>1 DEF Unfinished
  <2>2. CASE s # new.target
    <3>1. PICK j \in Keys : /\ handoff[j].state \in Unfinished
                            /\ handoff[j].created /\ handoff[j].target = s
      BY <2>2, <1>2 DEF DataInv, ProvisioningIsReachable
    <3>2. j # k
      BY <3>1, <1>1 DEF Unfinished
    <3> QED BY <3>1, <3>2, <1>1
  <2> QED BY <2>1, <2>2
<1>8. OneReportPerSession'
  BY <1>1 DEF DataInv, OneReportPerSession
<1>9. Keeps /\ KeepsRunning
  <2>1. ASSUME NEW j \in Keys, NEW c \in RowCopy, CopyOK(j, c)
        PROVE  CopyOK(j, c)'
    <3>1. /\ c.id \in 1..rows' /\ c.id # rows + 1 /\ c.target \in Sessions
          /\ session'[c.target].state = session[c.target].state
          /\ session'[c.target].state # "absent"
      BY <2>1, <1>2, <1>3 DEF CopyOK
    <3>2. CASE j = k
      <4>1. session[c.target].state # "provisioning"
        BY <3>2, <2>1, <1>1 DEF CopyOK, RowStands, DataInv, RowOK, Unfinished, NoRow
      <4> QED BY <3>1, <3>2, <4>1, <1>1 DEF CopyOK, RowStands
    <3>3. CASE j # k
      BY <3>1, <3>3, <2>1, <1>1 DEF CopyOK, RowStands
    <3> QED BY <3>2, <3>3
  <2> QED BY <2>1, <1>1 DEF Keeps, KeepsRunning, JobExists
<1>10. CopyOK(k, copy)'
  BY <1>1, <1>2, <1>3 DEF CopyOK, RowStands
<1> QED BY <1>4, <1>5, <1>6, <1>7, <1>8, <1>9, <1>10 DEF DataInv

LEMMA BeginFreshKeeps ==
  ASSUME DataInv, NEW r \in Requests, NEW k \in Keys, NEW src \in MaybeSession,
         NEW target \in Sessions, BeginFresh(r, k, src, target)
  PROVE  /\ DataInv' /\ Keeps /\ KeepsRunning
         /\ \E copy \in RowCopy :
              /\ CopyOK(k, copy)'
              /\ req' = [req EXCEPT ![r] =
                           [pc |-> "check", key |-> k, src |-> src, copy |-> copy]]
<1>1. Reusable(src) \in BOOLEAN /\ rows \in Nat
  BY DEF Reusable, DataInv, DataType
<1>2. PICK new \in Row : new =
        [id |-> rows + 1, target |-> target, created |-> ~Reusable(src),
         state |-> "started", src |-> src, hasJob |-> FALSE, stale |-> FALSE]
  <2>1. [id |-> rows + 1, target |-> target, created |-> ~Reusable(src),
         state |-> "started", src |-> src, hasJob |-> FALSE, stale |-> FALSE] \in Row
    BY <1>1 DEF Row, MaybeSession, HandoffStates, Unfinished
  <2> QED BY <2>1
<1>3. PICK copy \in RowCopy : copy =
        [id |-> rows + 1, target |-> target, created |-> ~Reusable(src)]
  <2>1. [id |-> rows + 1, target |-> target, created |-> ~Reusable(src)] \in RowCopy
    BY <1>1 DEF RowCopy, MaybeSession
  <2> QED BY <2>1
<1>4. InsertsRow(k, new)
  <2>1. /\ handoff[k].state \in {"none", "aborted"}
        /\ handoff' = [handoff EXCEPT ![k] = new]
        /\ rows' = rows + 1
        /\ UNCHANGED <<job, linkedEver, crashes>>
    BY <1>2 DEF BeginFresh
  <2>2. CASE Reusable(src)
    <3>1. target = src /\ src # NoSession /\ session[src].state = "live" /\ session' = session
      BY <2>2 DEF BeginFresh, Reusable
    <3>2. ~new.created /\ new.target = target
      BY <2>2, <1>2
    <3> QED BY <2>1, <3>1, <3>2 DEF DataInv, DataType, InsertsRow
  <2>3. CASE ~Reusable(src)
    <3>1. /\ session[target].state = "absent"
          /\ session' = [session EXCEPT ![target].state = "provisioning"]
      BY <2>3 DEF BeginFresh
    <3>2. new.created /\ new.target = target
      BY <2>3, <1>2
    <3>3. /\ session' \in [Sessions -> [state : SessionStates, job : Keys \union {NoKey},
                                      data : BOOLEAN]]
          /\ \A s \in Sessions : /\ session'[s].data = session[s].data
                                 /\ s # target => session'[s].state = session[s].state
          /\ session'[target].state = "provisioning"
      BY <3>1 DEF DataInv, DataType, SessionStates
    <3> QED BY <2>1, <3>1, <3>2, <3>3 DEF InsertsRow
  <2> QED BY <2>2, <2>3
<1>5. DataInv' /\ Keeps /\ KeepsRunning /\ CopyOK(k, copy)'
  BY <1>2, <1>3, <1>4, InsertKeeps
<1>6. req' = [req EXCEPT ![r] = [pc |-> "check", key |-> k, src |-> src, copy |-> copy]]
  BY <1>3 DEF BeginFresh
<1> QED BY <1>5, <1>6

(* The insert of _admit_job. *)
LEMMA AdmitKeeps ==
  ASSUME DataInv, NEW k \in Keys, NEW c \in RowCopy, CopyOK(k, c), ~JobExists(k),
         NEW src \in MaybeSession,
         job' = [job EXCEPT ![k] = [state |-> "held", target |-> c.target,
                                    src |-> src, old |-> FALSE]],
         UNCHANGED <<session, handoff, rows, linkedEver, crashes>>
  PROVE  DataInv' /\ Keeps /\ KeepsRunning /\ JobExists(k)'
<1>1. /\ job' \in [Keys -> [state : JobStates, target : MaybeSession,
                            src : MaybeSession, old : BOOLEAN]]
      /\ job'[k].state = "held" /\ job'[k].target = c.target
      /\ \A j \in Keys : j # k => job'[j] = job[j]
  BY DEF DataInv, DataType, JobStates, CopyOK, MaybeSession
<1>2. DataType'
  BY <1>1 DEF DataInv, DataType
<1>3. \A j \in Keys : RowOK(j)' /\ JobOK(j)'
  BY <1>1 DEF DataInv, RowOK, JobOK, JobExists, CopyOK, RowStands, Dispatched
<1>4. ProvisioningIsReachable'
  BY DEF DataInv, ProvisioningIsReachable
<1>5. OneReportPerSession'
  BY <1>1 DEF DataInv, OneReportPerSession
<1>6. Keeps /\ KeepsRunning /\ JobExists(k)'
  BY <1>1 DEF Keeps, KeepsRunning, CopyOK, RowStands, JobExists
<1> QED BY <1>2, <1>3, <1>4, <1>5, <1>6 DEF DataInv

LEMMA DeleteKeeps ==
  ASSUME DataInv, NEW s \in Sessions, DeleteSession(s)
  PROVE  DataInv' /\ Keeps /\ KeepsRunning
<1>1. /\ session' \in [Sessions -> [state : SessionStates, job : Keys \union {NoKey},
                                   data : BOOLEAN]]
      /\ \A x \in Sessions : /\ session'[x].data = session[x].data
                             /\ session'[x].state = IF x = s THEN "deleted" ELSE session[x].state
      /\ session[s].state = "live"
  BY DEF DataInv, DataType, DeleteSession, SessionStates
<1>2. UNCHANGED <<handoff, job, rows, linkedEver, crashes>>
  BY DEF DeleteSession
<1>3. DataType'
  BY <1>1, <1>2 DEF DataInv, DataType
<1>4. \A j \in Keys : RowOK(j)' /\ JobOK(j)'
  BY <1>1, <1>2 DEF DataInv, RowOK, JobOK, JobExists
<1>5. ProvisioningIsReachable'
  BY <1>1, <1>2 DEF DataInv, ProvisioningIsReachable
<1>6. OneReportPerSession'
  BY <1>2 DEF DataInv, OneReportPerSession
<1>7. Keeps /\ KeepsRunning
  BY <1>1, <1>2 DEF Keeps, KeepsRunning, CopyOK, RowStands, JobExists
<1> QED BY <1>3, <1>4, <1>5, <1>6, <1>7 DEF DataInv

LEMMA TimePassesKeeps ==
  ASSUME DataInv, TimePasses
  PROVE  DataInv' /\ Keeps /\ KeepsRunning
<1>1. /\ handoff' \in [Keys -> Row]
      /\ \A j \in Keys : /\ handoff'[j].id = handoff[j].id
                         /\ handoff'[j].target = handoff[j].target
                         /\ handoff'[j].created = handoff[j].created
                         /\ handoff'[j].state = handoff[j].state
                         /\ handoff'[j] = [handoff[j] EXCEPT !.stale = handoff[j].state # "none"]
  BY ZenonT(60) DEF DataInv, DataType, TimePasses, Row
<1>2. /\ job' \in [Keys -> [state : JobStates, target : MaybeSession,
                            src : MaybeSession, old : BOOLEAN]]
      /\ \A j \in Keys : job'[j].state = job[j].state /\ job'[j].target = job[j].target
  BY DEF DataInv, DataType, TimePasses
<1>3. UNCHANGED <<session, rows, linkedEver, crashes>>
  BY DEF TimePasses
<1>4. DataType'
  BY <1>1, <1>2, <1>3 DEF DataInv, DataType
<1>5. \A j \in Keys : handoff[j] = NoRow => handoff'[j] = NoRow
  BY <1>1 DEF DataInv, DataType, Row, NoRow
<1>6. \A j \in Keys : RowOK(j)' /\ JobOK(j)'
  BY <1>1, <1>2, <1>3, <1>5 DEF DataInv, RowOK, JobOK, JobExists
<1>7. ProvisioningIsReachable'
  BY <1>1, <1>3 DEF DataInv, ProvisioningIsReachable
<1>8. OneReportPerSession'
  BY <1>2 DEF DataInv, OneReportPerSession
<1>9. Keeps /\ KeepsRunning
  BY <1>1, <1>2, <1>3 DEF Keeps, KeepsRunning, CopyOK, RowStands, JobExists
<1> QED BY <1>4, <1>6, <1>7, <1>8, <1>9 DEF DataInv

(* recover_interrupted_jobs only moves running jobs. *)
LEMMA WorkerStartKeeps ==
  ASSUME DataInv, WorkerStart
  PROVE  DataInv' /\ Keeps
<1>1. PICK lost \in SUBSET {k \in Keys : job[k].state = "running"} :
        job' = [k \in Keys |->
                  IF job[k].state # "running" THEN job[k]
                  ELSE [job[k] EXCEPT !.state = IF k \in lost THEN "failed" ELSE "queued"]]
  BY DEF WorkerStart
<1>2. \A k \in Keys : /\ job'[k].target = job[k].target
                      /\ job[k].state # "running" => job'[k].state = job[k].state
                      /\ job[k].state = "running" => job'[k].state \in {"failed", "queued"}
  BY <1>1 DEF DataInv, DataType
<1>3. job' \in [Keys -> [state : JobStates, target : MaybeSession,
                         src : MaybeSession, old : BOOLEAN]]
  BY <1>1 DEF DataInv, DataType, JobStates, Dispatched
<1>4. UNCHANGED <<session, handoff, rows, linkedEver, crashes>>
  BY DEF WorkerStart
<1>5. DataType'
  BY <1>3, <1>4 DEF DataInv, DataType
<1>6. \A k \in Keys : RowOK(k)' /\ JobOK(k)'
  BY <1>2, <1>4 DEF DataInv, RowOK, JobOK, JobExists, Dispatched
<1>7. ProvisioningIsReachable'
  BY <1>4 DEF DataInv, ProvisioningIsReachable
<1>8. OneReportPerSession'
  BY <1>2 DEF DataInv, OneReportPerSession
<1>9. Keeps
  BY <1>2, <1>4 DEF Keeps, CopyOK, RowStands, JobExists
<1> QED BY <1>5, <1>6, <1>7, <1>8, <1>9 DEF DataInv

LEMMA AttachKeeps ==
  ASSUME DataInv, WorkerInv, Attach
  PROVE  DataInv' /\ Keeps
<1> DEFINE k == worker.key  s == job[k].target
<1>1. k \in Keys /\ job[k].state = "ready" /\ k \in linkedEver
  BY DEF Attach, At, WorkerInv, Knows, KeyPoints, DataInv, JobOK, Dispatched
<1>2. JobExists(k) /\ s \in Sessions /\ session[s].state # "provisioning"
  BY <1>1 DEF DataInv, JobOK, JobExists
<1>3. UNCHANGED <<handoff, rows, linkedEver, crashes>>
  BY DEF Attach
<1>4. CASE CanAttach(s)
  <2>1. /\ session' = [session EXCEPT ![s].data = TRUE]
        /\ job' = [job EXCEPT ![k].state = "attached"]
        /\ session[s].data = FALSE
    BY <1>4, <1>2 DEF Attach, CanAttach, DataInv, DataType
  <2>2. /\ session' \in [Sessions -> [state : SessionStates, job : Keys \union {NoKey},
                                     data : BOOLEAN]]
        /\ \A x \in Sessions : /\ session'[x].state = session[x].state
                               /\ session'[x].data = (x = s \/ session[x].data)
    BY <2>1, <1>2 DEF DataInv, DataType
  <2>3. /\ job' \in [Keys -> [state : JobStates, target : MaybeSession,
                             src : MaybeSession, old : BOOLEAN]]
        /\ \A j \in Keys : /\ job'[j].state = IF j = k THEN "attached" ELSE job[j].state
                           /\ job'[j].target = job[j].target
    BY <2>1, <1>1, ZenonT(60) DEF DataInv, DataType, JobStates, Dispatched
  <2>4. DataType'
    BY <2>2, <2>3, <1>3 DEF DataInv, DataType
  <2>5. \A j \in Keys : RowOK(j)' /\ JobOK(j)'
    BY <2>2, <2>3, <1>1, <1>2, <1>3 DEF DataInv, RowOK, JobOK, JobExists
  <2>6. ProvisioningIsReachable'
    BY <2>2, <1>3 DEF DataInv, ProvisioningIsReachable
  <2>7. OneReportPerSession'
    BY <2>1, <2>3 DEF DataInv, OneReportPerSession, JobOK
  <2>8. Keeps
    BY <2>2, <2>3, <1>3 DEF Keeps, CopyOK, RowStands, JobExists
  <2> QED BY <2>4, <2>5, <2>6, <2>7, <2>8 DEF DataInv
<1>5. CASE ~CanAttach(s)
  <2>1. JobMoves(k, "unattached")
    BY <1>3, <1>5 DEF Attach, JobMoves
  <2> QED BY <2>1, <1>1, <1>2, JobMoveKeeps DEF JobStates, Dispatched
<1> QED BY <1>4, <1>5

LEMMA ClaimKeeps ==
  ASSUME DataInv, NEW k \in Keys, Claim(k)
  PROVE  DataInv' /\ Keeps /\ job'[k].state = "running"
<1>1. JobMoves(k, "running") /\ job[k].state = "queued"
  BY DEF Claim, JobMoves
<1>2. JobExists(k) /\ k \in linkedEver
  BY <1>1 DEF JobExists, DataInv, JobOK, Dispatched
<1>3. job'[k].state = "running"
  BY <1>1 DEF JobMoves, DataInv, DataType
<1> QED BY <1>1, <1>2, <1>3, JobMoveKeeps DEF JobStates, Dispatched

LEMMA FinishJobKeeps ==
  ASSUME DataInv, WorkerInv, FinishJob
  PROVE  DataInv' /\ Keeps /\ (worker'.pc = "attach" => job'[worker.key].state = "ready")
<1>1. /\ worker.key \in Keys /\ job[worker.key].state = "running"
      /\ JobExists(worker.key) /\ worker.key \in linkedEver
  BY DEF FinishJob, At, WorkerInv, Knows, KeyPoints, JobExists, DataInv, JobOK, Dispatched
<1>2. PICK result \in {"ready", "failed"} :
        /\ job' = [job EXCEPT ![worker.key].state = result]
        /\ worker' = IF result = "ready" THEN [worker EXCEPT !.pc = "attach"] ELSE IdleWorker
        /\ UNCHANGED <<session, handoff, rows, linkedEver, crashes>>
  BY DEF FinishJob
<1>3. JobMoves(worker.key, result)
  BY <1>2 DEF JobMoves
<1>4. DataInv' /\ Keeps
  BY <1>1, <1>3, JobMoveKeeps DEF JobStates, Dispatched
<1>5. worker'.pc = "attach" => job'[worker.key].state = "ready"
  BY <1>1, <1>2 DEF DataInv, DataType, IdleWorker
<1> QED BY <1>4, <1>5

-----------------------------------------------------------------------------
(* The actors: what they know survives the others' transactions.            *)

LEMMA KnowledgeKeeps ==
  ASSUME NEW pc, NEW k, NEW c \in RowCopy, Knows(pc, k, c), Keeps
  PROVE  Knows(pc, k, c)'
BY DEF Knows, Keeps, CopyPoints, KeyPoints

LEMMA RequestsKeep ==
  ASSUME RequestsInv, Keeps, UNCHANGED req
  PROVE  RequestsInv'
<1>1. RequestType'
  BY DEF RequestsInv, RequestType
<1>2. ASSUME NEW r \in Requests PROVE Knows(req[r].pc, req[r].key, req[r].copy)'
  <2>1. PICK pc, k, c : pc = req[r].pc /\ k = req[r].key /\ c = req[r].copy
    OBVIOUS
  <2>2. c \in RowCopy /\ Knows(pc, k, c)
    BY <2>1 DEF RequestsInv, RequestType
  <2>3. Knows(pc, k, c)'
    BY <2>2, KnowledgeKeeps
  <2> QED BY <2>1, <2>3 DEF Knows, CopyOK, RowStands, JobExists
<1> QED BY <1>1, <1>2 DEF RequestsInv

(* The acting request knows enough at the point it goes to. *)
LEMMA RequestMoves ==
  ASSUME RequestsInv, Keeps, NEW r \in Requests, RequestType',
         \A x \in Requests : x # r => req'[x] = req[x],
         Knows(req[r].pc, req[r].key, req[r].copy)'
  PROVE  RequestsInv'
<1>1. ASSUME NEW x \in Requests, x # r PROVE Knows(req[x].pc, req[x].key, req[x].copy)'
  <2>1. PICK pc, k, c : pc = req[x].pc /\ k = req[x].key /\ c = req[x].copy
    OBVIOUS
  <2>2. c \in RowCopy /\ Knows(pc, k, c)
    BY <2>1 DEF RequestsInv, RequestType
  <2>3. Knows(pc, k, c)'
    BY <2>2, KnowledgeKeeps
  <2>4. req'[x] = req[x]
    BY <1>1
  <2> QED BY <2>1, <2>3, <2>4 DEF Knows, CopyOK, RowStands, JobExists
<1> QED BY <1>1 DEF RequestsInv

LEMMA GotoKeeps ==
  ASSUME RequestsInv, Keeps, NEW r \in Requests, NEW pc \in RequestPoints, Goto(r, pc),
         NEW k, NEW c, k = req[r].key, c = req[r].copy, Knows(pc, k, c)'
  PROVE  RequestsInv'
<1>1. /\ RequestType'
      /\ \A x \in Requests : x # r => req'[x] = req[x]
      /\ req'[r].pc = pc /\ req'[r].key = k /\ req'[r].copy = c
  BY DEF RequestsInv, RequestType, Goto
<1>2. Knows(req[r].pc, req[r].key, req[r].copy)'
  BY <1>1 DEF Knows, CopyOK, RowStands, JobExists
<1> QED BY <1>1, <1>2, RequestMoves

LEMMA AnswerKeeps ==
  ASSUME RequestsInv, Keeps, NEW r \in Requests, Answer(r)
  PROVE  RequestsInv'
<1>1. [NewRequest EXCEPT !.pc = "done"] \in
        [pc : RequestPoints, key : Keys \union {NoKey}, src : MaybeSession, copy : RowCopy]
  BY DEF NewRequest, RequestPoints, MaybeSession, RowCopy, NoCopy
<1>2. /\ RequestType'
      /\ \A x \in Requests : x # r => req'[x] = req[x]
      /\ req'[r] = [NewRequest EXCEPT !.pc = "done"]
  BY <1>1 DEF RequestsInv, RequestType, Answer
<1>3. req'[r].pc = "done"
  BY <1>2 DEF NewRequest
<1>4. Knows(req[r].pc, req[r].key, req[r].copy)'
  BY <1>3 DEF Knows, KeyPoints, CopyPoints
<1> QED BY <1>2, <1>4, RequestMoves

LEMMA TodoKeeps ==
  ASSUME WorkerType, TodoInv, Keeps, NEW t \in worker.todo
  PROVE  CopyOK(t.key, t.copy)' /\ (~t.started => JobExists(t.key)')
<1>1. t.key \in Keys /\ t.copy \in RowCopy
  BY DEF WorkerType, TodoItem
<1> QED BY <1>1 DEF TodoInv, Keeps

LEMMA WorkerKeeps ==
  ASSUME WorkerInv, Keeps, KeepsRunning, UNCHANGED worker
  PROVE  WorkerInv'
<1>1. PICK pc, k, c : pc = worker.pc /\ k = worker.key /\ c = worker.copy
  OBVIOUS
<1>2. c \in RowCopy /\ Knows(pc, k, c)
  BY <1>1 DEF WorkerInv, WorkerType
<1>3. Knows(pc, k, c)'
  BY <1>2, KnowledgeKeeps
<1>4. Knows(worker.pc, worker.key, worker.copy)'
  BY <1>1, <1>3 DEF Knows, CopyOK, RowStands, JobExists
<1>5. TodoInv'
  <2>1. ASSUME NEW t \in worker'.todo
        PROVE  CopyOK(t.key, t.copy)' /\ (~t.started => JobExists(t.key)')
    BY TodoKeeps DEF WorkerInv
  <2> QED BY <2>1 DEF TodoInv
<1>6. /\ worker.pc = "run" => job'[worker.key].state = "running"
      /\ worker.pc = "attach" => job'[worker.key].state = "ready"
  BY DEF WorkerInv, KeepsRunning, Knows, KeyPoints
<1> QED BY <1>4, <1>5, <1>6 DEF WorkerInv, WorkerType

-----------------------------------------------------------------------------
(* Every step of a request keeps the invariant.                             *)

(* What a request at a point of the protocol has. *)
LEMMA RequestHas ==
  ASSUME IInv, NEW r \in Requests
  PROVE  /\ req[r].copy \in RowCopy /\ req[r].src \in MaybeSession
         /\ Knows(req[r].pc, req[r].key, req[r].copy)
BY DEF IInv, RequestsInv, RequestType

LEMMA RequestLocal ==
  ASSUME IInv, NEW r \in Requests, UNCHANGED worker, Quiet,
         NEW pc \in RequestPoints, Goto(r, pc), Knows(pc, req[r].key, req[r].copy)
  PROVE  IInv'
<1>1. DataInv' /\ Keeps /\ KeepsRunning
  BY QuietKeeps DEF IInv
<1>2. PICK k, c : k = req[r].key /\ c = req[r].copy
  OBVIOUS
<1>3. Knows(pc, k, c)'
  BY <1>1, <1>2, RequestHas, KnowledgeKeeps
<1>4. RequestsInv'
  BY <1>1, <1>2, <1>3, GotoKeeps DEF IInv
<1>5. WorkerInv'
  BY <1>1, WorkerKeeps DEF IInv
<1> QED BY <1>1, <1>4, <1>5 DEF IInv

LEMMA RequestQuits ==
  ASSUME IInv, NEW r \in Requests, UNCHANGED worker, Answer(r),
         DataInv', Keeps, KeepsRunning
  PROVE  IInv'
BY AnswerKeeps, WorkerKeeps DEF IInv

(* A transaction, then on to pc. *)
LEMMA RequestAdvances ==
  ASSUME IInv, NEW r \in Requests, UNCHANGED worker, DataInv', Keeps, KeepsRunning,
         NEW pc \in RequestPoints, Goto(r, pc), NEW k, NEW c,
         k = req[r].key, c = req[r].copy, Knows(pc, k, c)'
  PROVE  IInv'
BY GotoKeeps, WorkerKeeps DEF IInv

LEMMA BeginReplayKeeps ==
  ASSUME IInv, NEW r \in Requests, NEW k \in Keys, NEW src \in MaybeSession,
         BeginReplay(r, k, src)
  PROVE  IInv'
<1>1. DataInv' /\ Keeps /\ KeepsRunning /\ UNCHANGED worker
  BY QuietKeeps DEF IInv, BeginReplay, AtRequest
<1>2. CASE Answer(r)
  BY <1>1, <1>2, RequestQuits
<1>3. CASE req' = [req EXCEPT ![r] =
              [pc |-> CASE handoff[k].state = "linked"  -> "release"
                        [] handoff[k].state = "started" -> "check"
                        [] OTHER                        -> "link",
               key |-> k, src |-> src, copy |-> CopyOf(k)]]
  <2>1. PICK pc, c : /\ c = CopyOf(k)
                     /\ pc = CASE handoff[k].state = "linked"  -> "release"
                               [] handoff[k].state = "started" -> "check"
                               [] OTHER                        -> "link"
    OBVIOUS
  <2>2. /\ handoff[k].state \in Unfinished \union {"linked"}
        /\ handoff[k] \in Row /\ RowOK(k)
    BY DEF IInv, DataInv, DataType, BeginReplay
  <2>3. c \in RowCopy /\ CopyOK(k, c)
    BY <2>1, <2>2 DEF CopyOf, RowCopy, Row, RowOK, CopyOK, RowStands, Unfinished
  <2>4. pc \in {"release", "check", "link"} /\ Knows(pc, k, c)
    BY <2>1, <2>2, <2>3 DEF Knows, CopyPoints, KeyPoints, RowOK, Unfinished
  <2>5. Knows(pc, k, c)'
    BY <1>1, <2>3, <2>4, KnowledgeKeeps
  <2>6. req' = [req EXCEPT ![r] = [pc |-> pc, key |-> k, src |-> src, copy |-> c]]
    BY <1>3, <2>1
  <2>7. /\ RequestType'
        /\ \A x \in Requests : x # r => req'[x] = req[x]
        /\ req'[r].pc = pc /\ req'[r].key = k /\ req'[r].copy = c
    BY <2>3, <2>4, <2>6 DEF IInv, RequestsInv, RequestType, RequestPoints
  <2>8. Knows(req[r].pc, req[r].key, req[r].copy)'
    BY <2>5, <2>7 DEF Knows, CopyOK, RowStands, JobExists
  <2>9. RequestsInv'
    BY <1>1, <2>7, <2>8, RequestMoves DEF IInv
  <2> QED BY <1>1, <2>9, WorkerKeeps DEF IInv
<1> QED BY <1>2, <1>3 DEF BeginReplay

LEMMA BeginFreshStep ==
  ASSUME IInv, NEW r \in Requests, NEW k \in Keys, NEW src \in MaybeSession,
         NEW target \in Sessions, BeginFresh(r, k, src, target)
  PROVE  IInv'
<1>0. DataInv /\ UNCHANGED worker
  BY DEF IInv, BeginFresh, AtRequest
<1>1. /\ DataInv' /\ Keeps /\ KeepsRunning
      /\ \E copy \in RowCopy :
           /\ CopyOK(k, copy)'
           /\ req' = [req EXCEPT ![r] =
                        [pc |-> "check", key |-> k, src |-> src, copy |-> copy]]
  BY <1>0, BeginFreshKeeps
<1>2. PICK c \in RowCopy :
        /\ CopyOK(k, c)'
        /\ req' = [req EXCEPT ![r] = [pc |-> "check", key |-> k, src |-> src, copy |-> c]]
  BY <1>1
<1>3. /\ RequestType'
      /\ \A x \in Requests : x # r => req'[x] = req[x]
      /\ req'[r].pc = "check" /\ req'[r].key = k /\ req'[r].copy = c
  BY <1>2 DEF IInv, RequestsInv, RequestType, RequestPoints
<1>4. Knows(req[r].pc, req[r].key, req[r].copy)'
  BY <1>2, <1>3 DEF Knows, CopyOK, RowStands, CopyPoints, KeyPoints
<1>5. RequestsInv'
  BY <1>1, <1>3, <1>4, RequestMoves DEF IInv
<1> QED BY <1>0, <1>1, <1>5, WorkerKeeps DEF IInv

LEMMA RequestStepKeeps ==
  ASSUME IInv, NEW r \in Requests, RequestStep(r)
  PROVE  IInv'
<1>1. CASE CheckExisting(r)
  <2>1. PICK pc \in RequestPoints :
          /\ pc = IF job[req[r].key].state = "none" THEN "slot"
                  ELSE IF SameRequest(r) THEN "record" ELSE "abort"
          /\ Goto(r, pc)
    BY <1>1 DEF CheckExisting, RequestPoints
  <2>2. Knows(pc, req[r].key, req[r].copy)
    BY <1>1, <2>1, RequestHas
       DEF CheckExisting, AtRequest, Knows, CopyPoints, KeyPoints, JobExists
  <2> QED BY <1>1, <2>1, <2>2, RequestLocal DEF CheckExisting, AtRequest
<1>2. CASE CreateRefused(r)
  <2>1. Knows("abort", req[r].key, req[r].copy)
    BY <1>2, RequestHas DEF CreateRefused, AtRequest, Knows, CopyPoints, KeyPoints
  <2> QED BY <1>2, <2>1, RequestLocal DEF CreateRefused, AtRequest, RequestPoints
<1>3. CASE AdmitJob(r)
  <2> DEFINE k == req[r].key
  <2>1. /\ k \in Keys /\ CopyOK(k, req[r].copy) /\ UNCHANGED worker
        /\ req[r].copy \in RowCopy /\ req[r].src \in MaybeSession
    BY <1>3, RequestHas DEF AdmitJob, AtRequest, Knows, CopyPoints, KeyPoints
  <2>2. ASSUME UNCHANGED job, NEW pc \in {"record", "abort"}, Goto(r, pc),
               pc = "record" => JobExists(k)
        PROVE  IInv'
    <3>1. Knows(pc, k, req[r].copy)
      BY <2>1, <2>2 DEF Knows, CopyPoints, KeyPoints
    <3>2. Quiet
      BY <1>3, <2>2 DEF AdmitJob, Quiet
    <3> QED BY <2>1, <2>2, <3>1, <3>2, RequestLocal DEF RequestPoints
  <2>3. CASE JobExists(k) /\ UNCHANGED job
    <3>1. PICK pc \in {"record", "abort"} : Goto(r, pc)
      BY <1>3, <2>3 DEF AdmitJob, JobExists
    <3> QED BY <2>2, <2>3, <3>1
  <2>4. CASE ~JobExists(k) /\ UNCHANGED job /\ Goto(r, "abort")
    BY <2>2, <2>4
  <2>5. CASE ~JobExists(k) /\ job' = [job EXCEPT ![k] = NewJob(r)] /\ Goto(r, "record")
    <3>1. PICK c \in RowCopy, src \in MaybeSession, key \in Keys :
            c = req[r].copy /\ src = req[r].src /\ key = k
      BY <2>1
    <3>2. DataInv' /\ Keeps /\ KeepsRunning /\ JobExists(key)'
      BY <1>3, <2>1, <2>5, <3>1, AdmitKeeps DEF IInv, AdmitJob, NewJob
    <3>3. CopyOK(key, c)'
      BY <2>1, <3>1, <3>2 DEF Keeps
    <3>4. Knows("record", key, c)'
      BY <3>2, <3>3 DEF Knows, CopyPoints, KeyPoints
    <3> QED BY <2>1, <2>5, <3>1, <3>2, <3>4, RequestAdvances DEF RequestPoints
  <2> QED BY <1>3, <2>3, <2>4, <2>5 DEF AdmitJob, JobExists
<1>4. CASE RecordJob(r)
  <2>1. PICK k \in Keys, c \in RowCopy : k = req[r].key /\ c = req[r].copy
    BY <1>4, RequestHas DEF RecordJob, AtRequest, Knows, CopyPoints, KeyPoints
  <2>2. CopyOK(k, c) /\ JobExists(k) /\ UNCHANGED worker
    BY <1>4, <2>1, RequestHas DEF RecordJob, AtRequest, Knows, CopyPoints
  <2>3. DataInv' /\ Keeps /\ KeepsRunning
    BY <1>4, <2>1, <2>2, RecordKeeps DEF IInv, RecordJob
  <2>4. Knows("link", k, c)'
    BY <2>2, <2>3 DEF Knows, Keeps
  <2> QED BY <1>4, <2>1, <2>2, <2>3, <2>4, RequestAdvances DEF RecordJob, RequestPoints
<1>5. CASE RequestLink(r)
  <2>1. PICK k \in Keys, c \in RowCopy : k = req[r].key /\ c = req[r].copy
    BY <1>5, RequestHas DEF RequestLink, AtRequest, Knows, CopyPoints, KeyPoints
  <2>2. CopyOK(k, c) /\ JobExists(k) /\ UNCHANGED worker
    BY <1>5, <2>1, RequestHas DEF RequestLink, AtRequest, Knows, CopyPoints
  <2>3. CASE LinkTxn(k, c) /\ Goto(r, "release")
    <3>1. DataInv' /\ Keeps /\ KeepsRunning /\ k \in linkedEver'
      BY <2>2, <2>3, LinkKeeps DEF IInv
    <3>2. Knows("release", k, c)'
      BY <3>1 DEF Knows, CopyPoints, KeyPoints
    <3> QED BY <2>1, <2>2, <2>3, <3>1, <3>2, RequestAdvances DEF RequestPoints
  <2>4. CASE LinkAlreadyDone(k, c) /\ Goto(r, "release") /\ Quiet
    <3>1. k \in linkedEver
      BY <2>4 DEF LinkAlreadyDone, IInv, DataInv, RowOK
    <3>2. Knows("release", req[r].key, req[r].copy)
      BY <2>1, <3>1 DEF Knows, CopyPoints, KeyPoints
    <3> QED BY <2>2, <2>4, <3>2, RequestLocal DEF RequestPoints
  <2>5. CASE LinkRefused(k, c) /\ Goto(r, "cancel") /\ Quiet
    <3>1. Knows("cancel", req[r].key, req[r].copy)
      BY <2>1, <2>2 DEF Knows, CopyPoints, KeyPoints
    <3> QED BY <2>2, <2>5, <3>1, RequestLocal DEF RequestPoints
  <2>6. CASE Answer(r) /\ Quiet
    BY <2>2, <2>6, QuietKeeps, RequestQuits DEF IInv
  <2> QED BY <1>5, <2>1, <2>3, <2>4, <2>5, <2>6 DEF RequestLink
<1>6. CASE RequestCancel(r)
  <2>1. PICK k \in Keys, c \in RowCopy : k = req[r].key /\ c = req[r].copy
    BY <1>6, RequestHas DEF RequestCancel, AtRequest, Knows, CopyPoints, KeyPoints
  <2>2. CopyOK(k, c) /\ UNCHANGED worker
    BY <1>6, <2>1, RequestHas DEF RequestCancel, AtRequest, Knows, CopyPoints
  <2>3. DataInv' /\ Keeps /\ KeepsRunning
    BY <1>6, <2>1, CancelHeldKeeps DEF IInv, RequestCancel
  <2>4. Knows("abort", k, c)'
    BY <2>2, <2>3 DEF Knows, Keeps
  <2> QED BY <1>6, <2>1, <2>2, <2>3, <2>4, RequestAdvances DEF RequestCancel, RequestPoints
<1>7. CASE RequestAbort(r)
  <2>1. /\ req[r].key \in Keys /\ req[r].copy \in RowCopy
        /\ CopyOK(req[r].key, req[r].copy) /\ UNCHANGED worker
    BY <1>7, RequestHas DEF RequestAbort, AtRequest, Knows, CopyPoints, KeyPoints
  <2>2. PICK k \in Keys, c \in RowCopy : k = req[r].key /\ c = req[r].copy
    BY <2>1
  <2>3. DataInv' /\ Keeps /\ KeepsRunning
    BY <1>7, <2>1, <2>2, AbortKeeps DEF IInv, RequestAbort
  <2> QED BY <1>7, <2>1, <2>3, RequestQuits DEF RequestAbort
<1>8. CASE RequestRelease(r)
  <2>1. PICK k \in Keys : k = req[r].key /\ k \in linkedEver
    BY <1>8, RequestHas DEF RequestRelease, AtRequest, Knows, KeyPoints
  <2>2. DataInv' /\ Keeps /\ KeepsRunning
    BY <1>8, <2>1, ReleaseHoldKeeps DEF IInv, RequestRelease
  <2> QED BY <1>8, <2>2, RequestQuits DEF RequestRelease, AtRequest
<1> QED BY <1>1, <1>2, <1>3, <1>4, <1>5, <1>6, <1>7, <1>8 DEF RequestStep

-----------------------------------------------------------------------------
(* Every step of the worker keeps the invariant.                            *)

(* The worker goes on to pc with the row it holds, and no job changed that   *)
(* it was running.                                                          *)
LEMMA MoveKeeps ==
  ASSUME WorkerInv, Keeps, NEW pc \in WorkerPoints \ {"run", "attach"}, Move(pc),
         NEW k, NEW c, k = worker.key, c = worker.copy, Knows(pc, k, c)'
  PROVE  WorkerInv'
<1>1. /\ WorkerType'
      /\ worker'.pc = pc /\ worker'.key = k /\ worker'.copy = c /\ worker'.todo = worker.todo
  BY DEF WorkerInv, WorkerType, Move
<1>2. Knows(worker.pc, worker.key, worker.copy)'
  BY <1>1 DEF Knows, CopyOK, RowStands, JobExists
<1>3. TodoInv'
  <2>1. ASSUME NEW t \in worker'.todo
        PROVE  CopyOK(t.key, t.copy)' /\ (~t.started => JobExists(t.key)')
    BY <1>1, TodoKeeps DEF WorkerInv
  <2> QED BY <2>1 DEF TodoInv
<1> QED BY <1>1, <1>2, <1>3 DEF WorkerInv

LEMMA BackKeeps ==
  ASSUME WorkerInv, Keeps, NEW pc \in {"pick", "held"}, Back(pc)
  PROVE  WorkerInv'
<1>1. /\ WorkerType'
      /\ worker'.pc = pc /\ worker'.todo = worker.todo
  BY DEF WorkerInv, WorkerType, Back, WorkerPoints, NoCopy, RowCopy, MaybeSession
<1>2. Knows(worker.pc, worker.key, worker.copy)'
  BY <1>1 DEF Knows, CopyPoints, KeyPoints
<1>3. TodoInv'
  <2>1. ASSUME NEW t \in worker'.todo
        PROVE  CopyOK(t.key, t.copy)' /\ (~t.started => JobExists(t.key)')
    BY <1>1, TodoKeeps DEF WorkerInv
  <2> QED BY <2>1 DEF TodoInv
<1> QED BY <1>1, <1>2, <1>3 DEF WorkerInv

(* A worker with nothing in hand. *)
LEMMA FreshWorkerKeeps ==
  ASSUME NEW pc \in {"down", "idle", "take"}, worker' = [IdleWorker EXCEPT !.pc = pc]
  PROVE  WorkerInv'
<1>1. /\ WorkerType' /\ worker'.pc = pc /\ worker'.todo = {}
  BY DEF WorkerType, IdleWorker, WorkerPoints, NoCopy, RowCopy, MaybeSession
<1> QED BY <1>1 DEF WorkerInv, Knows, CopyPoints, KeyPoints, TodoInv

LEMMA WorkerHas ==
  ASSUME IInv
  PROVE  worker.copy \in RowCopy /\ Knows(worker.pc, worker.key, worker.copy)
BY DEF IInv, WorkerInv, WorkerType

LEMMA WorkerLocal ==
  ASSUME IInv, UNCHANGED req, Quiet,
         NEW pc \in WorkerPoints \ {"run", "attach"}, Move(pc),
         Knows(pc, worker.key, worker.copy)
  PROVE  IInv'
<1>1. DataInv' /\ Keeps
  BY QuietKeeps DEF IInv
<1>2. PICK k, c : k = worker.key /\ c = worker.copy
  OBVIOUS
<1>3. Knows(pc, k, c)'
  BY <1>1, <1>2, WorkerHas, KnowledgeKeeps
<1>4. WorkerInv'
  BY <1>1, <1>2, <1>3, MoveKeeps DEF IInv
<1> QED BY <1>1, <1>4, RequestsKeep DEF IInv

LEMMA WorkerAdvances ==
  ASSUME IInv, UNCHANGED req, DataInv', Keeps,
         NEW pc \in WorkerPoints \ {"run", "attach"}, Move(pc), NEW k, NEW c,
         k = worker.key, c = worker.copy, Knows(pc, k, c)'
  PROVE  IInv'
BY MoveKeeps, RequestsKeep DEF IInv

LEMMA WorkerReturns ==
  ASSUME IInv, UNCHANGED req, DataInv', Keeps, NEW pc \in {"pick", "held"}, Back(pc)
  PROVE  IInv'
BY BackKeeps, RequestsKeep DEF IInv

LEMMA WorkerDrops ==
  ASSUME IInv, UNCHANGED req, DataInv', Keeps,
         NEW pc \in {"down", "idle", "take"}, worker' = [IdleWorker EXCEPT !.pc = pc]
  PROVE  IInv'
BY FreshWorkerKeeps, RequestsKeep DEF IInv

LEMMA RecoveryStarts ==
  ASSUME IInv, StartRecovery
  PROVE  IInv'
<1>1. DataInv' /\ Keeps /\ UNCHANGED req
  BY QuietKeeps DEF IInv, StartRecovery, At
<1>2. PICK items \in SUBSET TodoItem, old \in SUBSET Keys :
        /\ \A t \in items : \E k \in Keys :
             /\ t = [key |-> k, copy |-> CopyOf(k), started |-> handoff[k].state = "started"]
             /\ handoff[k].state \in Unfinished
        /\ worker' = [worker EXCEPT !.pc = "pick", !.held = old, !.todo = items]
  <2> DEFINE new(k) == [key |-> k, copy |-> CopyOf(k), started |-> handoff[k].state = "started"]
             items == {new(k) : k \in StaleRows}
  <2>1. \A k \in Keys : new(k) \in TodoItem
    BY DEF IInv, DataInv, DataType, CopyOf, Row, RowCopy, TodoItem
  <2>2. items \in SUBSET TodoItem /\ OldHeldJobs \in SUBSET Keys
    BY <2>1 DEF StaleRows, OldHeldJobs
  <2>3. \A t \in items : \E k \in Keys : t = new(k) /\ handoff[k].state \in Unfinished
    BY DEF StaleRows
  <2>4. worker' = [worker EXCEPT !.pc = "pick", !.held = OldHeldJobs, !.todo = items]
    BY DEF StartRecovery
  <2> HIDE DEF items
  <2> QED BY <2>2, <2>3, <2>4
<1>3. /\ WorkerType' /\ worker'.pc = "pick" /\ worker'.todo = items
  BY <1>2 DEF IInv, WorkerInv, WorkerType, WorkerPoints
<1>4. ASSUME NEW t \in items
      PROVE  CopyOK(t.key, t.copy)' /\ (~t.started => JobExists(t.key)')
  <2>1. PICK k \in Keys :
             /\ t = [key |-> k, copy |-> CopyOf(k), started |-> handoff[k].state = "started"]
             /\ handoff[k].state \in Unfinished
    BY <1>2, <1>4
  <2>2. RowOK(k) /\ t.copy \in RowCopy /\ t.key = k
    BY <1>2, <2>1 DEF IInv, DataInv, TodoItem
  <2>3. CopyOK(k, t.copy) /\ (~t.started => JobExists(k))
    BY <2>1, <2>2 DEF CopyOf, RowOK, CopyOK, RowStands, Unfinished
  <2> QED BY <2>2, <2>3, <1>1 DEF Keeps
<1>5. WorkerInv'
  BY <1>3, <1>4 DEF WorkerInv, TodoInv, Knows, CopyPoints, KeyPoints
<1> QED BY <1>1, <1>5, RequestsKeep DEF IInv

LEMMA HandoffPicked ==
  ASSUME IInv, PickHandoff
  PROVE  IInv'
<1>1. DataInv' /\ Keeps /\ UNCHANGED req
  BY QuietKeeps DEF IInv, PickHandoff, At
<1>2. CASE \E t \in worker.todo :
             worker' = [worker EXCEPT !.pc = IF t.started THEN "check" ELSE "link",
                                      !.key = t.key, !.copy = t.copy, !.todo = @ \ {t}]
  <2>1. PICK t \in worker.todo :
             worker' = [worker EXCEPT !.pc = IF t.started THEN "check" ELSE "link",
                                      !.key = t.key, !.copy = t.copy, !.todo = @ \ {t}]
    BY <1>2
  <2>2. t \in TodoItem /\ t.key \in Keys /\ t.copy \in RowCopy
    BY DEF IInv, WorkerInv, WorkerType, TodoItem
  <2>3. /\ worker'.pc = IF t.started THEN "check" ELSE "link"
        /\ worker'.key = t.key /\ worker'.copy = t.copy /\ worker'.todo = worker.todo \ {t}
        /\ WorkerType'
    BY <2>1, <2>2 DEF IInv, WorkerInv, WorkerType, WorkerPoints
  <2>4. ASSUME NEW u \in worker.todo
        PROVE  CopyOK(u.key, u.copy)' /\ (~u.started => JobExists(u.key)')
    BY <1>1, TodoKeeps DEF IInv, WorkerInv
  <2>5. TodoInv'
    BY <2>3, <2>4 DEF TodoInv
  <2>6. PICK key, c : key = t.key /\ c = t.copy
    OBVIOUS
  <2>7. key \in Keys /\ CopyOK(key, c)' /\ (~t.started => JobExists(key)')
    BY <2>2, <2>4, <2>6
  <2>8. Knows(worker.pc, worker.key, worker.copy)'
    BY <2>3, <2>6, <2>7 DEF Knows, CopyPoints, KeyPoints, CopyOK, RowStands, JobExists
  <2>9. WorkerInv'
    BY <2>3, <2>5, <2>8 DEF WorkerInv
  <2> QED BY <1>1, <2>9, RequestsKeep DEF IInv
<1>3. CASE /\ worker.todo = {}
           /\ worker' = [worker EXCEPT !.pc = "held", !.held = {k \in @ : job[k].state = "held"}]
  <2>1. WorkerType' /\ worker'.pc = "held" /\ worker'.todo = {}
    BY <1>3, ZenonT(60) DEF IInv, WorkerInv, WorkerType, WorkerPoints
  <2>2. WorkerInv'
    BY <2>1 DEF WorkerInv, TodoInv, Knows, CopyPoints, KeyPoints
  <2> QED BY <1>1, <2>2, RequestsKeep DEF IInv
<1> QED BY <1>2, <1>3 DEF PickHandoff

LEMMA HeldPicked ==
  ASSUME IInv, PickHeld
  PROVE  IInv'
<1>1. DataInv' /\ Keeps /\ UNCHANGED req /\ worker.pc = "held" /\ Quiet
  BY QuietKeeps DEF IInv, PickHeld, At
<1>2. CASE worker' = [IdleWorker EXCEPT !.pc = "take"]
  BY <1>1, <1>2, WorkerDrops
<1>3. CASE \E k \in worker.held :
          \/ /\ handoff[k].hasJob /\ handoff[k].state = "linked"
             /\ worker' = [worker EXCEPT !.pc = "heldRelease", !.key = k, !.held = @ \ {k}]
          \/ /\ ~handoff[k].hasJob \/ handoff[k].state = "aborted"
             /\ worker' = [worker EXCEPT !.pc = "heldCancel", !.key = k, !.held = @ \ {k}]
          \/ /\ handoff[k].hasJob /\ handoff[k].state \in Unfinished
             /\ worker' = [worker EXCEPT !.held = @ \ {k}]
  <2>1. PICK k \in worker.held :
          \/ /\ handoff[k].state = "linked"
             /\ worker' = [worker EXCEPT !.pc = "heldRelease", !.key = k, !.held = @ \ {k}]
          \/ worker' = [worker EXCEPT !.pc = "heldCancel", !.key = k, !.held = @ \ {k}]
          \/ worker' = [worker EXCEPT !.held = @ \ {k}]
    BY <1>3
  <2>2. k \in Keys
    BY DEF IInv, WorkerInv, WorkerType
  <2>3. /\ WorkerType' /\ worker'.todo = worker.todo
        /\ \/ worker'.pc \in {"heldRelease", "heldCancel"} /\ worker'.key = k
           \/ worker'.pc = "held"
        /\ worker'.pc = "heldRelease" => handoff[k].state = "linked"
    BY <1>1, <2>1, <2>2 DEF IInv, WorkerInv, WorkerType, WorkerPoints
  <2>4. worker'.pc = "heldRelease" => k \in linkedEver'
    BY <1>1, <2>2, <2>3 DEF IInv, DataInv, RowOK, Quiet
  <2>5. Knows(worker.pc, worker.key, worker.copy)'
    BY <2>2, <2>3, <2>4 DEF Knows, CopyPoints, KeyPoints
  <2>6. ASSUME NEW u \in worker.todo
        PROVE  CopyOK(u.key, u.copy)' /\ (~u.started => JobExists(u.key)')
    BY <1>1, TodoKeeps DEF IInv, WorkerInv
  <2>7. WorkerInv'
    BY <2>3, <2>5, <2>6 DEF WorkerInv, TodoInv
  <2> QED BY <1>1, <2>7, RequestsKeep, SMTT(60) DEF IInv
<1> QED BY <1>2, <1>3, ZenonT(60) DEF PickHeld

LEMMA RecoveryStepKeeps ==
  ASSUME IInv,
         \/ RecoverCheck \/ RecoverAbort \/ RecoverRecord
         \/ RecoverLink \/ RecoverCancel \/ RecoverRelease
  PROVE  IInv'
<1> USE DEF At, CopyPoints, KeyPoints
<1>0. PICK k \in Keys, c \in RowCopy : k = worker.key /\ c = worker.copy
  BY WorkerHas DEF Knows, RecoverCheck, RecoverAbort, RecoverRecord, RecoverLink,
                   RecoverCancel, RecoverRelease
<1>1. /\ Knows(worker.pc, k, c) /\ UNCHANGED req /\ DataInv
      /\ worker.pc \in CopyPoints => CopyOK(k, c)
  BY <1>0, WorkerHas DEF Knows, RecoverCheck, RecoverAbort, RecoverRecord, RecoverLink,
                        RecoverCancel, RecoverRelease, IInv
<1>2. CASE RecoverCheck
  <2>1. PICK pc \in {"abort", "record"} :
          Move(pc) /\ (pc = "record" => JobExists(worker.key))
    BY <1>2 DEF RecoverCheck, JobExists
  <2>2. Knows(pc, worker.key, worker.copy)
    BY <1>0, <1>1, <1>2, <2>1 DEF RecoverCheck, Knows
  <2> QED BY <1>1, <1>2, <2>1, <2>2, WorkerLocal DEF RecoverCheck, WorkerPoints
<1>3. CASE RecoverAbort
  <2>1. DataInv' /\ Keeps
    BY <1>0, <1>1, <1>3, AbortKeeps DEF RecoverAbort
  <2> QED BY <1>1, <1>3, <2>1, WorkerReturns DEF RecoverAbort
<1>4. CASE RecoverRecord
  <2>1. CopyOK(k, c) /\ JobExists(k)
    BY <1>1, <1>4 DEF RecoverRecord, Knows
  <2>2. DataInv' /\ Keeps
    BY <1>0, <1>1, <1>4, <2>1, RecordKeeps DEF RecoverRecord
  <2>3. Knows("link", k, c)'
    BY <2>1, <2>2 DEF Knows, Keeps
  <2> QED BY <1>0, <1>1, <1>4, <2>2, <2>3, WorkerAdvances DEF RecoverRecord, WorkerPoints
<1>5. CASE RecoverLink
  <2>1. CopyOK(k, c) /\ JobExists(k)
    BY <1>1, <1>5 DEF RecoverLink, Knows
  <2>2. CASE LinkTxn(k, c) /\ Move("release")
    <3>1. DataInv' /\ Keeps /\ k \in linkedEver'
      BY <1>1, <2>1, <2>2, LinkKeeps
    <3>2. Knows("release", k, c)'
      BY <3>1 DEF Knows
    <3> QED BY <1>0, <1>1, <2>2, <3>1, <3>2, WorkerAdvances DEF WorkerPoints
  <2>3. CASE LinkAlreadyDone(k, c) /\ Move("release") /\ Quiet
    <3>1. k \in linkedEver
      BY <1>1, <2>3 DEF LinkAlreadyDone, DataInv, RowOK
    <3>2. Knows("release", worker.key, worker.copy)
      BY <1>0, <3>1 DEF Knows
    <3> QED BY <1>1, <2>3, <3>2, WorkerLocal DEF WorkerPoints
  <2>4. CASE LinkRefused(k, c) /\ Move("cancel") /\ Quiet
    <3>1. Knows("cancel", worker.key, worker.copy)
      BY <1>0, <2>1 DEF Knows
    <3> QED BY <1>1, <2>4, <3>1, WorkerLocal DEF WorkerPoints
  <2>5. CASE worker' = [IdleWorker EXCEPT !.pc = "take"] /\ Quiet
    BY <1>1, <2>5, QuietKeeps, WorkerDrops
  <2> QED BY <1>0, <1>5, <2>2, <2>3, <2>4, <2>5 DEF RecoverLink
<1>6. CASE RecoverCancel
  <2>1. CopyOK(k, c)
    BY <1>1, <1>6 DEF RecoverCancel, Knows
  <2>2. DataInv' /\ Keeps
    BY <1>0, <1>1, <1>6, CancelHeldKeeps DEF RecoverCancel
  <2>3. Knows("abort", k, c)'
    BY <2>1, <2>2 DEF Knows, Keeps
  <2> QED BY <1>0, <1>1, <1>6, <2>2, <2>3, WorkerAdvances DEF RecoverCancel, WorkerPoints
<1>7. CASE RecoverRelease
  <2>1. k \in linkedEver
    BY <1>1, <1>7 DEF RecoverRelease, Knows
  <2>2. DataInv' /\ Keeps
    BY <1>0, <1>1, <1>7, <2>1, ReleaseHoldKeeps DEF RecoverRelease
  <2> QED BY <1>1, <1>7, <2>2, WorkerReturns DEF RecoverRelease
<1> QED BY <1>2, <1>3, <1>4, <1>5, <1>6, <1>7

LEMMA WorkerStepKeeps ==
  ASSUME IInv, WorkerStep
  PROVE  IInv'
<1>0. DataInv /\ WorkerInv
  BY DEF IInv
<1>1. CASE WorkerStart
  <2>1. worker' = [IdleWorker EXCEPT !.pc = "idle"] /\ UNCHANGED req
    <3>1. worker' = IdleWorker /\ UNCHANGED req
      BY <1>1 DEF WorkerStart, At
    <3> QED BY <3>1 DEF IdleWorker
  <2> QED BY <1>0, <1>1, <2>1, WorkerStartKeeps, WorkerDrops
<1>2. CASE StartRecovery
  BY <1>2, RecoveryStarts
<1>3. CASE PickHandoff
  BY <1>3, HandoffPicked
<1>4. CASE \/ RecoverCheck \/ RecoverAbort \/ RecoverRecord
           \/ RecoverLink \/ RecoverCancel \/ RecoverRelease
  BY <1>4, RecoveryStepKeeps
<1>5. CASE PickHeld
  BY <1>5, HeldPicked
<1>6. CASE HeldRelease
  <2>1. PICK k \in Keys : k = worker.key /\ k \in linkedEver
    BY <1>6, WorkerHas DEF HeldRelease, At, Knows, KeyPoints
  <2>2. DataInv' /\ Keeps
    BY <1>0, <1>6, <2>1, ReleaseHoldKeeps DEF HeldRelease
  <2> QED BY <1>6, <2>2, WorkerReturns DEF HeldRelease, At
<1>7. CASE HeldCancel
  <2>1. PICK k \in Keys : k = worker.key
    BY <1>7, WorkerHas DEF HeldCancel, At, Knows, KeyPoints
  <2>2. DataInv' /\ Keeps
    BY <1>0, <1>7, <2>1, CancelHeldKeeps DEF HeldCancel
  <2> QED BY <1>7, <2>2, WorkerReturns DEF HeldCancel, At
<1>8. ASSUME NEW k \in Keys, Claim(k) PROVE IInv'
  <2>1. DataInv' /\ Keeps /\ job'[k].state = "running"
    BY <1>0, <1>8, ClaimKeeps
  <2>2. UNCHANGED req /\ worker' = [IdleWorker EXCEPT !.pc = "run", !.key = k]
    BY <1>8 DEF Claim, At
  <2>3. WorkerType' /\ worker'.pc = "run" /\ worker'.key = k /\ worker'.todo = {}
    BY <2>2 DEF WorkerType, IdleWorker, WorkerPoints, NoCopy, RowCopy, MaybeSession
  <2>4. WorkerInv'
    BY <2>1, <2>3 DEF WorkerInv, TodoInv, Knows, CopyPoints, KeyPoints
  <2> QED BY <2>1, <2>2, <2>4, RequestsKeep DEF IInv
<1>9. CASE NothingToClaim
  <2>1. Knows("idle", worker.key, worker.copy)
    BY DEF Knows, CopyPoints, KeyPoints
  <2> QED BY <1>9, <2>1, WorkerLocal DEF NothingToClaim, At, WorkerPoints
<1>10. CASE FinishJob
  <2>1. /\ DataInv' /\ Keeps /\ UNCHANGED req
        /\ worker'.pc = "attach" => job'[worker.key].state = "ready"
    BY <1>0, <1>10, FinishJobKeeps DEF FinishJob, At
  <2>2. CASE worker' = IdleWorker
    BY <2>1, <2>2, WorkerDrops DEF IdleWorker
  <2>3. CASE worker' = [worker EXCEPT !.pc = "attach"]
    <3>1. PICK k \in Keys : k = worker.key
      BY <1>10, WorkerHas DEF FinishJob, At, Knows, KeyPoints
    <3>2. /\ WorkerType' /\ worker'.pc = "attach" /\ worker'.key = k
          /\ worker'.todo = worker.todo
      BY <1>0, <2>3, <3>1 DEF WorkerInv, WorkerType, WorkerPoints
    <3>3. ASSUME NEW u \in worker.todo
          PROVE  CopyOK(u.key, u.copy)' /\ (~u.started => JobExists(u.key)')
      BY <1>0, <2>1, TodoKeeps DEF WorkerInv
    <3>4. WorkerInv'
      BY <2>1, <3>1, <3>2, <3>3 DEF WorkerInv, TodoInv, Knows, CopyPoints, KeyPoints
    <3> QED BY <2>1, <3>4, RequestsKeep DEF IInv
  <2> QED BY <1>10, <2>2, <2>3 DEF FinishJob
<1>11. CASE Attach
  <2>1. worker' = [IdleWorker EXCEPT !.pc = "idle"] /\ UNCHANGED req
    BY <1>11 DEF Attach, At, IdleWorker
  <2> QED BY <1>0, <1>11, <2>1, AttachKeeps, WorkerDrops
<1> QED BY <1>1, <1>2, <1>3, <1>4, <1>5, <1>6, <1>7, <1>8, <1>9, <1>10, <1>11 DEF WorkerStep

-----------------------------------------------------------------------------
(* The invariant. *)

LEMMA InitIInv == Init => IInv
<1> SUFFICES ASSUME Init PROVE IInv
  OBVIOUS
<1>1. DataType
  <2>1. session \in [Sessions -> [state : SessionStates, job : Keys \union {NoKey},
                                 data : BOOLEAN]]
    BY DEF Init, SessionStates
  <2>2. NoRow \in Row
    BY DEF NoRow, Row, MaybeSession, HandoffStates
  <2>3. NoJob \in [state : JobStates, target : MaybeSession, src : MaybeSession, old : BOOLEAN]
    BY DEF NoJob, MaybeSession, JobStates
  <2> QED BY <2>1, <2>2, <2>3 DEF Init, DataType
<1>2. /\ \A s \in Sessions : session[s].state \in {"live", "absent"}
      /\ \A k \in Keys : handoff[k] = NoRow /\ job[k].state = "none"
      /\ linkedEver = {}
  BY DEF Init, NoJob
<1>3. \A k \in Keys : RowOK(k) /\ JobOK(k)
  <2>1. NoRow.state = "none"
    BY DEF NoRow
  <2> QED BY <1>2, <2>1 DEF RowOK, JobOK, JobExists, Dispatched
<1>4. ProvisioningIsReachable /\ OneReportPerSession
  BY <1>2 DEF ProvisioningIsReachable, OneReportPerSession
<1>5. RequestsInv
  <2>1. NewRequest \in [pc : RequestPoints, key : Keys \union {NoKey},
                        src : MaybeSession, copy : RowCopy] /\ NewRequest.pc = "new"
    BY DEF NewRequest, RequestPoints, MaybeSession, RowCopy, NoCopy
  <2> QED BY <2>1 DEF Init, RequestsInv, RequestType, Knows, CopyPoints, KeyPoints
<1>6. WorkerInv
  <2>1. WorkerType /\ worker.pc = "down" /\ worker.todo = {}
    BY DEF Init, DownWorker, IdleWorker, WorkerType, WorkerPoints, NoCopy, RowCopy, MaybeSession
  <2> QED BY <2>1 DEF WorkerInv, Knows, CopyPoints, KeyPoints, TodoInv
<1> QED BY <1>1, <1>3, <1>4, <1>5, <1>6 DEF IInv, DataInv

LEMMA NextIInv == IInv /\ [Next]_vars => IInv'
<1> SUFFICES ASSUME IInv, [Next]_vars PROVE IInv'
  OBVIOUS
<1>0. DataInv /\ RequestsInv /\ WorkerInv
  BY DEF IInv
<1>1. ASSUME NEW r \in Requests, RequestBegins(r) PROVE IInv'
  <2>1. PICK k \in Keys, src \in MaybeSession :
          BeginReplay(r, k, src) \/ \E target \in Sessions : BeginFresh(r, k, src, target)
    BY <1>1 DEF RequestBegins
  <2> QED BY <2>1, BeginReplayKeeps, BeginFreshStep
<1>2. ASSUME NEW r \in Requests, RequestStep(r) PROVE IInv'
  BY <1>2, RequestStepKeeps
<1>3. ASSUME NEW r \in Requests, RequestDies(r) PROVE IInv'
  BY <1>0, <1>3, QuietKeeps, RequestQuits DEF RequestDies
<1>4. CASE WorkerStep
  BY <1>4, WorkerStepKeeps
<1>5. CASE WorkerCrash
  <2>1. /\ worker' = [IdleWorker EXCEPT !.pc = "down"] /\ UNCHANGED req
        /\ crashes' = crashes + 1 /\ UNCHANGED <<session, handoff, job, rows, linkedEver>>
    BY <1>5 DEF WorkerCrash, DownWorker
  <2>2. DataType'
    BY <1>0, <2>1 DEF DataInv, DataType
  <2>3. (\A k \in Keys : RowOK(k)' /\ JobOK(k)') /\ ProvisioningIsReachable'
        /\ OneReportPerSession' /\ Keeps
    BY <1>0, <2>1 DEF DataInv, RowOK, JobOK, JobExists, ProvisioningIsReachable,
                      OneReportPerSession, Keeps, CopyOK, RowStands
  <2> QED BY <2>1, <2>2, <2>3, WorkerDrops DEF DataInv
<1>6. ASSUME NEW s \in Sessions, DeleteSession(s) PROVE IInv'
  BY <1>0, <1>6, DeleteKeeps, RequestsKeep, WorkerKeeps DEF DeleteSession, IInv
<1>7. CASE TimePasses
  BY <1>0, <1>7, TimePassesKeeps, RequestsKeep, WorkerKeeps DEF TimePasses, IInv
<1>8. CASE UNCHANGED vars
  <2>1. Quiet /\ UNCHANGED req /\ UNCHANGED worker
    BY <1>8 DEF vars, Quiet
  <2> QED BY <1>0, <2>1, QuietKeeps, RequestsKeep, WorkerKeeps DEF IInv
<1> QED BY <1>1, <1>2, <1>3, <1>4, <1>5, <1>6, <1>7, <1>8 DEF Next

LEMMA Invariance == Spec => []IInv
<1> QED BY InitIInv, NextIInv, PTL DEF Spec

(* Every table, program point and copied row has its type, for every number *)
(* of keys, requests and sessions (handoff.py's state CHECK among them).    *)
THEOREM TypeCorrect == Spec => []TypeOK
<1>1. IInv => TypeOK
  BY DEF IInv, DataInv, DataType, RequestsInv, RequestType, WorkerInv, WorkerType, TypeOK
<1> QED BY <1>1, Invariance, PTL

(* No worker ever claims the job of an import nobody can find: whatever      *)
(* dies when, dispatch (release_dispatch_hold) follows the link transaction. *)
THEOREM DispatchFollowsLink == Spec => []DispatchedJobIsLinked
<1>1. IInv => DispatchedJobIsLinked
  <2> SUFFICES ASSUME IInv, NEW k \in Keys, job[k].state \in Dispatched
               PROVE  k \in linkedEver /\ session[job[k].target].state \in {"live", "deleted"}
    BY DEF DispatchedJobIsLinked
  <2>1. JobOK(k) /\ k \in linkedEver
    BY DEF IInv, DataInv, JobOK
  <2>2. /\ job[k].target \in Sessions
        /\ session[job[k].target].state \notin {"absent", "provisioning"}
    BY <2>1 DEF JobOK
  <2> QED BY <2>1, <2>2 DEF IInv, DataInv, DataType, SessionStates
<1> QED BY <1>1, Invariance, PTL

(* A hidden session is always in the hands of an unfinished hand-off row,   *)
(* where recover_handoffs finds it.                                         *)
THEOREM HiddenSessionsAreReachable == Spec => []ProvisioningIsReachable
<1>1. IInv => ProvisioningIsReachable
  BY DEF IInv, DataInv
<1> QED BY <1>1, Invariance, PTL

(* attach_session_dataset never gives one conversation two reports.         *)
THEOREM SessionsHaveOneReport == Spec => []OneReportPerSession
<1>1. IInv => OneReportPerSession
  BY DEF IInv, DataInv
<1> QED BY <1>1, Invariance, PTL

-----------------------------------------------------------------------------
(* The two databases implement the promise of ImportConfirm.                *)

LEMMA SameOutcomes ==
  ASSUME \A k \in Keys : Outcome(job'[k].state) = Outcome(job[k].state),
         UNCHANGED linkedEver
  PROVE  UNCHANGED Confirm!vars
BY DEF Confirm!vars

LEMMA OutcomeMoves ==
  ASSUME NEW k \in Keys, NEW o,
         \A j \in Keys : j # k => job'[j].state = job[j].state,
         Outcome(job'[k].state) = o
  PROVE  [j \in Keys |-> Outcome(job[j].state)]' =
           [[j \in Keys |-> Outcome(job[j].state)] EXCEPT ![k] = o]
<1>1. \A j \in Keys : Outcome(job'[j].state) = IF j = k THEN o ELSE Outcome(job[j].state)
  OBVIOUS
<1> QED BY <1>1

LEMMA LinkRefines ==
  ASSUME DataType, NEW k \in Keys, NEW c, JobExists(k), LinkTxn(k, c)
  PROVE  Confirm!Next
<1>1. Outcome(job[k].state) # "absent"
  BY DEF JobExists, Outcome
<1>2. Confirm!Link(k)
  BY <1>1 DEF Confirm!Link, LinkTxn
<1> QED BY <1>2 DEF Confirm!Next

LEMMA ReleaseRefines ==
  ASSUME DataType, NEW k \in Keys, k \in linkedEver, ReleaseHold(k)
  PROVE  [Confirm!Next]_Confirm!vars
<1>1. CASE job[k].state = "held"
  <2>1. job' = [job EXCEPT ![k].state = "queued"] /\ UNCHANGED linkedEver
    BY <1>1 DEF ReleaseHold
  <2>2. /\ job'[k].state = "queued"
        /\ \A j \in Keys : j # k => job'[j].state = job[j].state
    BY <2>1 DEF DataType
  <2>3. Outcome(job[k].state) = "reserved" /\ Outcome(job'[k].state) = "dispatched"
    BY <1>1, <2>2 DEF Outcome
  <2>4. Confirm!Dispatch(k)
    BY <2>1, <2>2, <2>3, OutcomeMoves DEF Confirm!Dispatch
  <2> QED BY <2>4 DEF Confirm!Next
<1>2. CASE job[k].state # "held"
  BY <1>2, SameOutcomes DEF ReleaseHold
<1> QED BY <1>1, <1>2

LEMMA CancelRefines ==
  ASSUME DataType, NEW k \in Keys, CancelHeld(k)
  PROVE  [Confirm!Next]_Confirm!vars
<1>1. CASE job[k].state = "held"
  <2>1. job' = [job EXCEPT ![k].state = "cancelled"] /\ UNCHANGED linkedEver
    BY <1>1 DEF CancelHeld
  <2>2. /\ job'[k].state = "cancelled"
        /\ \A j \in Keys : j # k => job'[j].state = job[j].state
    BY <2>1 DEF DataType
  <2>3. Outcome(job[k].state) = "reserved" /\ Outcome(job'[k].state) = "cancelled"
    BY <1>1, <2>2 DEF Outcome
  <2>4. Confirm!Cancel(k)
    BY <2>1, <2>2, <2>3, OutcomeMoves DEF Confirm!Cancel
  <2> QED BY <2>4 DEF Confirm!Next
<1>2. CASE job[k].state # "held"
  BY <1>2, SameOutcomes DEF CancelHeld
<1> QED BY <1>1, <1>2

LEMMA AdmitRefines ==
  ASSUME IInv, NEW r \in Requests, AdmitJob(r)
  PROVE  [Confirm!Next]_Confirm!vars
<1>1. PICK k \in Keys : k = req[r].key
  BY RequestHas DEF AdmitJob, AtRequest, Knows, CopyPoints, KeyPoints
<1>2. CASE UNCHANGED job
  BY <1>2, SameOutcomes DEF AdmitJob
<1>3. CASE job[k].state = "none" /\ job' = [job EXCEPT ![k] = NewJob(r)]
  <2>1. job'[k] = NewJob(r) /\ \A j \in Keys : j # k => job'[j].state = job[j].state
    BY <1>3 DEF IInv, DataInv, DataType
  <2>2. Outcome(job[k].state) = "absent" /\ Outcome(job'[k].state) = "reserved"
    BY <1>3, <2>1 DEF Outcome, NewJob
  <2>3. Confirm!Reserve(k)
    BY <2>1, <2>2, OutcomeMoves DEF Confirm!Reserve, AdmitJob
  <2> QED BY <2>3 DEF Confirm!Next
<1> QED BY <1>1, <1>2, <1>3 DEF AdmitJob

LEMMA StepRefines == IInv /\ [Next]_vars => [Confirm!Next]_Confirm!vars
<1> SUFFICES ASSUME IInv, [Next]_vars PROVE [Confirm!Next]_Confirm!vars
  OBVIOUS
<1>0. DataType /\ WorkerInv
  BY DEF IInv, DataInv
<1>1. CASE UNCHANGED <<job, linkedEver>>
  BY <1>1, SameOutcomes
<1>2. ASSUME NEW r \in Requests, RequestStep(r) PROVE [Confirm!Next]_Confirm!vars
  <2>1. CASE CheckExisting(r) \/ CreateRefused(r) \/ RecordJob(r) \/ RequestAbort(r)
    <3>1. UNCHANGED <<job, linkedEver>>
      BY <2>1 DEF CheckExisting, CreateRefused, RecordJob, RequestAbort, AbortTxn, Quiet
    <3> QED BY <3>1, <1>1
  <2>2. CASE AdmitJob(r)
    BY <2>2, AdmitRefines
  <2>3. CASE RequestLink(r)
    <3>1. PICK k \in Keys : k = req[r].key /\ JobExists(k)
      BY <2>3, RequestHas DEF RequestLink, AtRequest, Knows, CopyPoints, KeyPoints
    <3>2. LinkTxn(k, req[r].copy) \/ Quiet
      BY <2>3, <3>1 DEF RequestLink
    <3>3. CASE LinkTxn(k, req[r].copy)
      <4>1. PICK c : c = req[r].copy
        OBVIOUS
      <4> QED BY <1>0, <3>1, <3>3, <4>1, LinkRefines
    <3>4. CASE Quiet
      BY <1>1, <3>4 DEF Quiet
    <3> QED BY <3>2, <3>3, <3>4
  <2>4. CASE RequestCancel(r)
    <3>1. PICK k \in Keys : k = req[r].key
      BY <2>4, RequestHas DEF RequestCancel, AtRequest, Knows, CopyPoints, KeyPoints
    <3> QED BY <1>0, <2>4, <3>1, CancelRefines DEF RequestCancel
  <2>5. CASE RequestRelease(r)
    <3>1. PICK k \in Keys : k = req[r].key /\ k \in linkedEver
      BY <2>5, RequestHas DEF RequestRelease, AtRequest, Knows, CopyPoints, KeyPoints
    <3> QED BY <1>0, <2>5, <3>1, ReleaseRefines DEF RequestRelease
  <2> QED BY <1>2, <2>1, <2>2, <2>3, <2>4, <2>5 DEF RequestStep
<1>3. ASSUME NEW r \in Requests, RequestBegins(r) \/ RequestDies(r)
      PROVE [Confirm!Next]_Confirm!vars
  BY <1>1, <1>3 DEF RequestBegins, BeginReplay, BeginFresh, RequestDies, Quiet
<1>4. CASE WorkerStep
  <2>1. CASE StartRecovery \/ PickHandoff \/ RecoverCheck \/ RecoverAbort \/ RecoverRecord
             \/ PickHeld \/ NothingToClaim
    <3>1. UNCHANGED <<job, linkedEver>>
      BY <2>1 DEF StartRecovery, PickHandoff, RecoverCheck, RecoverAbort, RecoverRecord,
                  PickHeld, NothingToClaim, AbortTxn, Quiet
    <3> QED BY <3>1, <1>1, SMTT(60)
  <2>2. CASE WorkerStart
    <3>1. \A k \in Keys : Outcome(job'[k].state) = Outcome(job[k].state)
      <4>1. PICK lost \in SUBSET {k \in Keys : job[k].state = "running"} :
              job' = [k \in Keys |->
                        IF job[k].state # "running" THEN job[k]
                        ELSE [job[k] EXCEPT !.state = IF k \in lost THEN "failed" ELSE "queued"]]
        BY <2>2 DEF WorkerStart
      <4>2. ASSUME NEW k \in Keys
            PROVE  \/ job'[k].state = job[k].state
                   \/ job[k].state = "running" /\ job'[k].state \in {"failed", "queued"}
        BY <4>1 DEF DataType
      <4> QED BY <4>2 DEF Outcome
    <3> QED BY <2>2, <3>1, SameOutcomes DEF WorkerStart
  <2>3. CASE RecoverLink
    <3>1. PICK k \in Keys, c \in RowCopy : k = worker.key /\ c = worker.copy /\ JobExists(k)
      BY <2>3, WorkerHas DEF RecoverLink, At, Knows, CopyPoints, KeyPoints
    <3>2. LinkTxn(k, c) \/ Quiet
      BY <2>3, <3>1 DEF RecoverLink
    <3>3. CASE LinkTxn(k, c)
      BY <1>0, <3>1, <3>3, LinkRefines
    <3>4. CASE Quiet
      BY <1>1, <3>4 DEF Quiet
    <3> QED BY <3>2, <3>3, <3>4
  <2>4. CASE RecoverCancel \/ HeldCancel
    <3>1. PICK k \in Keys : k = worker.key
      BY <2>4, WorkerHas DEF RecoverCancel, HeldCancel, At, Knows, CopyPoints, KeyPoints
    <3> QED BY <1>0, <2>4, <3>1, CancelRefines DEF RecoverCancel, HeldCancel
  <2>5. CASE RecoverRelease \/ HeldRelease
    <3>1. PICK k \in Keys : k = worker.key /\ k \in linkedEver
      BY <2>5, WorkerHas DEF RecoverRelease, HeldRelease, At, Knows, CopyPoints, KeyPoints
    <3> QED BY <1>0, <2>5, <3>1, ReleaseRefines DEF RecoverRelease, HeldRelease
  <2>6. ASSUME NEW k \in Keys, NEW state \in Dispatched, job[k].state \in Dispatched,
               job' = [job EXCEPT ![k].state = state], UNCHANGED linkedEver
        PROVE  [Confirm!Next]_Confirm!vars
    <3>1. \A j \in Keys : job'[j].state = IF j = k THEN state ELSE job[j].state
      BY <1>0, <2>6 DEF DataType
    <3>2. \A s \in Dispatched : Outcome(s) = "dispatched"
      BY DEF Outcome, Dispatched
    <3> QED BY <2>6, <3>1, <3>2, SameOutcomes
  <2>7. ASSUME NEW k \in Keys, Claim(k) PROVE [Confirm!Next]_Confirm!vars
    BY <2>6, <2>7 DEF Claim, Dispatched
  <2>8. CASE FinishJob
    <3>1. PICK k \in Keys : k = worker.key /\ job[k].state = "running"
      BY <1>0, <2>8, WorkerHas DEF FinishJob, At, Knows, KeyPoints, WorkerInv
    <3>2. PICK state \in {"ready", "failed"} : job' = [job EXCEPT ![k].state = state]
      BY <2>8, <3>1 DEF FinishJob
    <3> QED BY <2>6, <2>8, <3>1, <3>2 DEF FinishJob, Dispatched
  <2>9. CASE Attach
    <3>1. PICK k \in Keys : k = worker.key /\ job[k].state = "ready"
      BY <1>0, <2>9, WorkerHas DEF Attach, At, Knows, KeyPoints, WorkerInv
    <3>2. PICK state \in {"attached", "unattached"} : job' = [job EXCEPT ![k].state = state]
      BY <2>9, <3>1 DEF Attach
    <3> QED BY <2>6, <2>9, <3>1, <3>2 DEF Attach, Dispatched
  <2> QED BY <1>4, <2>1, <2>2, <2>3, <2>4, <2>5, <2>7, <2>8, <2>9 DEF WorkerStep
<1>5. CASE WorkerCrash \/ (\E s \in Sessions : DeleteSession(s)) \/ UNCHANGED vars
  BY <1>1, <1>5 DEF WorkerCrash, DeleteSession, vars
<1>6. CASE TimePasses
  <2>1. \A k \in Keys : job'[k].state = job[k].state
    BY <1>0, <1>6 DEF DataType, TimePasses
  <2> QED BY <1>6, <2>1, SameOutcomes DEF TimePasses
<1> QED BY <1>2, <1>3, <1>4, <1>5, <1>6 DEF Next

(* Whatever interleaves, crashes or is retried, the hand-off reserves, links *)
(* and then dispatches a job, or cancels it, once (confirm_import,           *)
(* recover_handoffs): it implements the one-database promise.                *)
THEOREM ImplementsConfirm == Spec => ConfirmSpec
<1>1. Init => Confirm!Init
  <2> SUFFICES ASSUME Init PROVE Confirm!Init
    OBVIOUS
  <2>1. \A k \in Keys : job[k].state = "none"
    BY DEF Init, NoJob
  <2>2. \A k \in Keys : Outcome(job[k].state) = "absent"
    BY <2>1 DEF Outcome
  <2> QED BY <2>2 DEF Init, Confirm!Init
<1>2. IInv /\ [Next]_vars => [Confirm!Next]_Confirm!vars
  BY StepRefines
<1> QED BY <1>1, <1>2, Invariance, PTL DEF Spec, ConfirmSpec, Confirm!Spec
=============================================================================
