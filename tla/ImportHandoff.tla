---------------------------- MODULE ImportHandoff ----------------------------
(***************************************************************************)
(* Confirming an import across two databases that share no transaction:    *)
(* the web database (sessions, import_handoffs) and the acquisition        *)
(* database (import_jobs).  api/handoff.py is the protocol; api/imports.py *)
(* runs it in API requests and, for recovery, in the import worker, which  *)
(* also claims the jobs the protocol releases.                             *)
(*                                                                         *)
(* One owner.  An idempotency key names at most one job (UNIQUE(owner,     *)
(* key) in import_jobs) and at most one hand-off row, so both are          *)
(* functions of the key.  Every database transaction is one action; the    *)
(* gap between two transactions of one actor is where others interleave.   *)
(***************************************************************************)
EXTENDS Naturals, FiniteSets

CONSTANTS
  Keys,            \* idempotency keys
  Requests,        \* confirm_import calls, each made once: a retry is another one
  Sessions,        \* session ids, used or still to be generated
  SourceSessions,  \* the conversations that exist at the start
  NoKey, NoSession,
  OwnerLimit,      \* policy.per_owner_concurrency
  SlowRequests,    \* may a request outlive STALE_AFTER?
  MaxRows,         \* bound: hand-off rows ever inserted
  MaxCrashes       \* bound: crashes of the import worker

ASSUME HandoffAssumption ==
  /\ SourceSessions \subseteq Sessions
  /\ NoSession \notin Sessions
  /\ NoKey \notin Keys
  /\ SlowRequests \in BOOLEAN
  /\ MaxRows \in Nat /\ MaxCrashes \in Nat

VARIABLES
  session,   \* chat_sessions: visibility, import_job_id, "has a dataset"
  handoff,   \* import_handoffs by idempotency key
  job,       \* import_jobs by idempotency key
  req,       \* the API requests: program point and what each one read
  worker,    \* the import worker: recovery pass or job being run
  rows,      \* hand-off rows inserted so far (row ids)
  linkedEver,\* history: keys whose link transaction committed
  crashes

vars == <<session, handoff, job, req, worker, rows, linkedEver, crashes>>

Unfinished == {"started", "job_created"}
HandoffStates == {"none", "aborted", "linked"} \union Unfinished
Dispatched == {"queued", "running", "ready", "attached", "unattached", "failed"}
JobStates == {"none", "held", "cancelled"} \union Dispatched
SessionStates == {"absent", "provisioning", "live", "deleted"}
RequestPoints == {"new", "check", "slot", "record", "link", "cancel", "abort",
                  "release", "done"}
WorkerPoints == {"down", "idle", "take", "pick", "check", "abort", "record", "link",
                 "cancel", "release", "held", "heldRelease", "heldCancel",
                 "run", "attach"}

MaybeSession == Sessions \union {NoSession}

(* The parts of a row an actor keeps from its first read of it. *)
RowCopy == [id : Nat, target : MaybeSession, created : BOOLEAN]
NoCopy == [id |-> 0, target |-> NoSession, created |-> FALSE]
Row == [id : Nat, target : MaybeSession, created : BOOLEAN,
        state : HandoffStates, src : MaybeSession, hasJob : BOOLEAN, stale : BOOLEAN]
NoRow == [id |-> 0, target |-> NoSession, created |-> FALSE, state |-> "none",
          src |-> NoSession, hasJob |-> FALSE, stale |-> FALSE]
NoJob == [state |-> "none", target |-> NoSession, src |-> NoSession, old |-> FALSE]
CopyOf(k) == [id |-> handoff[k].id, target |-> handoff[k].target,
              created |-> handoff[k].created]
TodoItem == [key : Keys, copy : RowCopy, started : BOOLEAN]
NewRequest == [pc |-> "new", key |-> NoKey, src |-> NoSession, copy |-> NoCopy]
IdleWorker == [pc |-> "idle", key |-> NoKey, copy |-> NoCopy, todo |-> {}, held |-> {}]
DownWorker == [IdleWorker EXCEPT !.pc = "down"]

TypeOK ==
  /\ session \in [Sessions -> [state : SessionStates, job : Keys \union {NoKey},
                               data : BOOLEAN]]
  /\ handoff \in [Keys -> Row]
  /\ job \in [Keys -> [state : JobStates, target : MaybeSession,
                       src : MaybeSession, old : BOOLEAN]]
  /\ req \in [Requests -> [pc : RequestPoints, key : Keys \union {NoKey},
                           src : MaybeSession, copy : RowCopy]]
  /\ worker \in [pc : WorkerPoints, key : Keys \union {NoKey}, copy : RowCopy,
                 todo : SUBSET TodoItem, held : SUBSET Keys]
  /\ rows \in Nat
  /\ linkedEver \subseteq Keys
  /\ crashes \in Nat

Init ==
  /\ session = [s \in Sessions |->
                  [state |-> IF s \in SourceSessions THEN "live" ELSE "absent",
                   job |-> NoKey, data |-> FALSE]]
  /\ handoff = [k \in Keys |-> NoRow]
  /\ job = [k \in Keys |-> NoJob]
  /\ req = [r \in Requests |-> NewRequest]
  /\ worker = DownWorker
  /\ rows = 0
  /\ linkedEver = {}
  /\ crashes = 0

-----------------------------------------------------------------------------
(* What the protocol reads.                                                *)

RowStands(k, copy) == handoff[k].id = copy.id

(* _has_competing_import, and the two columns _begin looks at.  A session   *)
(* without a dataset is never read-only, so data stands for both columns.   *)
Reusable(s) ==
  /\ s # NoSession
  /\ ~session[s].data
  /\ \/ session[s].job = NoKey
     \/ job[session[s].job].state \in {"none", "failed", "cancelled"}

(* count_jobs over the processing statuses; a held job is "queued". *)
SlotTaken ==
  Cardinality({k \in Keys : job[k].state \in {"held", "queued", "running"}}) >= OwnerLimit

(* set_session_import's WHERE clause. *)
CanLink(s) == session[s].state \in {"provisioning", "live"} /\ ~session[s].data

-----------------------------------------------------------------------------
(* The transactions, shared by requests and by recovery.                   *)

(* update_handoff: the state is written whatever it was.  Mutated form: an  *)
(* abort writes a state the table's CHECK does not know.                    *)
Updated_UnknownState(row, state) ==
  [row EXCEPT !.state = IF state = "aborted" THEN "failed" ELSE state]
Updated(row, state) ==
  [row EXCEPT !.state = state, !.stale = FALSE, !.hasJob = (state # "aborted") \/ @]
UpdateRow(k, copy, state) ==
  handoff' = IF RowStands(k, copy) THEN [handoff EXCEPT ![k] = Updated(@, state)] ELSE handoff

(* mutated form: the hidden target session is left behind *)
AbortTxn_KeepsSession(k, copy) ==
  UpdateRow(k, copy, "aborted") /\ UNCHANGED <<session, job, rows, linkedEver, crashes>>

(* _abort *)
AbortTxn(k, copy) ==
  /\ UpdateRow(k, copy, "aborted")
  /\ session' = IF copy.created /\ session[copy.target].state = "provisioning"
                THEN [session EXCEPT ![copy.target].state = "deleted"]
                ELSE session
  /\ UNCHANGED <<job, rows, linkedEver, crashes>>

(* set_session_import, finish_provisioning and "linked" in one transaction *)
LinkTxn(k, copy) ==
  /\ RowStands(k, copy)
  /\ handoff[k].state # "linked"
  /\ CanLink(copy.target)
  /\ session' = [session EXCEPT ![copy.target].state = "live", ![copy.target].job = k]
  /\ UpdateRow(k, copy, "linked")
  /\ linkedEver' = linkedEver \union {k}
  /\ UNCHANGED <<job, rows, crashes>>

LinkAlreadyDone(k, copy) == RowStands(k, copy) /\ handoff[k].state = "linked"
LinkRefused(k, copy) ==
  RowStands(k, copy) /\ handoff[k].state # "linked" /\ ~CanLink(copy.target)

(* mutated form: cancels a job that is already queued, too *)
CancelHeld_AnyQueued(k) ==
  /\ job' = IF job[k].state \in {"held", "queued"}
            THEN [job EXCEPT ![k].state = "cancelled"] ELSE job
  /\ UNCHANGED <<session, handoff, rows, linkedEver, crashes>>

(* cancel_held_job and release_dispatch_hold act on a held job only. *)
CancelHeld(k) ==
  /\ job' = IF job[k].state = "held" THEN [job EXCEPT ![k].state = "cancelled"] ELSE job
  /\ UNCHANGED <<session, handoff, rows, linkedEver, crashes>>
ReleaseHold(k) ==
  /\ job' = IF job[k].state = "held" THEN [job EXCEPT ![k].state = "queued"] ELSE job
  /\ UNCHANGED <<session, handoff, rows, linkedEver, crashes>>

-----------------------------------------------------------------------------
(* An API request.                                                         *)

Goto(r, pc) == req' = [req EXCEPT ![r].pc = pc]
Answer(r) == req' = [req EXCEPT ![r] = [NewRequest EXCEPT !.pc = "done"]]
AtRequest(r, pc) == req[r].pc = pc /\ UNCHANGED worker
Quiet == UNCHANGED <<session, handoff, job, rows, linkedEver, crashes>>

(* _begin, when the key has a row that is not aborted. *)
BeginReplay(r, k, src) ==
  /\ AtRequest(r, "new")
  /\ handoff[k].state \in Unfinished \union {"linked"}
  /\ \/ handoff[k].src # src /\ Answer(r)      \* another choice: conflict
     \/ /\ handoff[k].src = src
        /\ req' = [req EXCEPT ![r] =
              [pc |-> CASE handoff[k].state = "linked"  -> "release"
                        [] handoff[k].state = "started" -> "check"
                        [] OTHER                        -> "link",
               key |-> k, src |-> src, copy |-> CopyOf(k)]]
  /\ Quiet

(* _begin, first request of a key or restart after an aborted one: the row  *)
(* and, unless the source conversation can take the report, a hidden target *)
(* session are inserted together.                                           *)
BeginFresh(r, k, src, target) ==
  /\ AtRequest(r, "new")
  /\ handoff[k].state \in {"none", "aborted"}
  /\ src # NoSession => session[src].state = "live"
  /\ IF Reusable(src) THEN target = src ELSE session[target].state = "absent"
  /\ rows < MaxRows
  /\ rows' = rows + 1
  /\ handoff' = [handoff EXCEPT ![k] =
        [id |-> rows + 1, target |-> target, created |-> ~Reusable(src),
         state |-> "started", src |-> src, hasJob |-> FALSE, stale |-> FALSE]]
  /\ session' = IF Reusable(src) THEN session
                ELSE [session EXCEPT ![target].state = "provisioning"]
  /\ req' = [req EXCEPT ![r] =
        [pc |-> "check", key |-> k, src |-> src,
         copy |-> [id |-> rows + 1, target |-> target, created |-> ~Reusable(src)]]]
  /\ UNCHANGED <<job, linkedEver, crashes>>

(* The job confirm_import asks for; mutated form: without hold=True. *)
NewJob_NoHold(r) == [state |-> "queued", target |-> req[r].copy.target,
                     src |-> req[r].src, old |-> FALSE]
NewJob(r) == [state |-> "held", target |-> req[r].copy.target,
              src |-> req[r].src, old |-> FALSE]
SameRequest(r) == LET j == job[req[r].key] IN
  j.src = req[r].src /\ j.target = req[r].copy.target

(* _existing_job, read before anything is reserved. *)
CheckExisting(r) ==
  /\ AtRequest(r, "check")
  /\ Goto(r, IF job[req[r].key].state = "none" THEN "slot"
             ELSE IF SameRequest(r) THEN "record" ELSE "abort")
  /\ Quiet

(* check_import_slot outside the transaction, or a PDF, candidate or budget *)
(* that is refused: create_job raises and confirm_import aborts.            *)
CreateRefused(r) ==
  /\ AtRequest(r, "slot")
  /\ Goto(r, "abort")
  /\ Quiet

(* _admit_job: identity, slot, reservation and insert in one transaction. *)
AdmitJob(r) ==
  LET k == req[r].key IN
  /\ AtRequest(r, "slot")
  /\ \/ /\ job[k].state # "none"
        /\ Goto(r, IF SameRequest(r) THEN "record" ELSE "abort")
        /\ UNCHANGED job
     \/ /\ job[k].state = "none"
        /\ SlotTaken
        /\ Goto(r, "abort")
        /\ UNCHANGED job
     \/ /\ job[k].state = "none"
        /\ ~SlotTaken
        /\ job' = [job EXCEPT ![k] = NewJob(r)]
        /\ Goto(r, "record")
  /\ UNCHANGED <<session, handoff, rows, linkedEver, crashes>>

RecordJob(r) ==
  /\ AtRequest(r, "record")
  /\ UpdateRow(req[r].key, req[r].copy, "job_created")
  /\ Goto(r, "link")
  /\ UNCHANGED <<session, job, rows, linkedEver, crashes>>

RequestLink(r) ==
  LET k == req[r].key  c == req[r].copy IN
  /\ AtRequest(r, "link")
  /\ \/ LinkTxn(k, c) /\ Goto(r, "release")
     \/ LinkAlreadyDone(k, c) /\ Goto(r, "release") /\ Quiet
     \/ LinkRefused(k, c) /\ Goto(r, "cancel") /\ Quiet
     \/ ~RowStands(k, c) /\ Answer(r) /\ Quiet  \* the row is gone: TypeError

RequestCancel(r) ==
  AtRequest(r, "cancel") /\ CancelHeld(req[r].key) /\ Goto(r, "abort")

RequestAbort(r) ==
  AtRequest(r, "abort") /\ AbortTxn(req[r].key, req[r].copy) /\ Answer(r)

RequestRelease(r) ==
  AtRequest(r, "release") /\ ReleaseHold(req[r].key) /\ Answer(r)

(* The API process dies, or a transaction raises (database locked). *)
RequestDies(r) ==
  /\ req[r].pc \notin {"new", "done"}
  /\ Answer(r)
  /\ Quiet /\ UNCHANGED worker

RequestStep(r) ==
  \/ CheckExisting(r) \/ CreateRefused(r) \/ AdmitJob(r) \/ RecordJob(r)
  \/ RequestLink(r) \/ RequestCancel(r) \/ RequestAbort(r) \/ RequestRelease(r)

(* A client names a conversation it can see, or one it has just deleted. *)
RequestBegins(r) ==
  \E k \in Keys, src \in MaybeSession :
    /\ src # NoSession => session[src].state \in {"live", "deleted"}
    /\ \/ BeginReplay(r, k, src)
       \/ \E target \in Sessions : BeginFresh(r, k, src, target)

-----------------------------------------------------------------------------
(* The import worker.                                                      *)

At(pc) == worker.pc = pc /\ UNCHANGED req
Move(pc) == worker' = [worker EXCEPT !.pc = pc]
Back(pc) == worker' = [worker EXCEPT !.pc = pc, !.key = NoKey, !.copy = NoCopy]

(* build_import_handler: recover_interrupted_jobs once, before any claim. *)
WorkerStart ==
  /\ At("down")
  /\ \E lost \in SUBSET {k \in Keys : job[k].state = "running"} :
       job' = [k \in Keys |->
                 IF job[k].state # "running" THEN job[k]
                 ELSE [job[k] EXCEPT !.state = IF k \in lost THEN "failed" ELSE "queued"]]
  /\ worker' = IdleWorker
  /\ UNCHANGED <<session, handoff, rows, linkedEver, crashes>>

(* list_unfinished_handoffs and held_jobs against the cutoff, with mutated  *)
(* form: rows whose job is not recorded are missed.                          *)
StaleRows_JobCreated == {k \in Keys : handoff[k].state = "job_created" /\ handoff[k].stale}
StaleRows == {k \in Keys : handoff[k].state \in Unfinished /\ handoff[k].stale}
OldHeldJobs == {k \in Keys : job[k].state = "held" /\ job[k].old}

(* recover_handoffs: list_unfinished_handoffs with the cutoff of this pass,  *)
(* which also decides which jobs its second loop may touch.                 *)
StartRecovery ==
  /\ At("idle")
  /\ worker' = [worker EXCEPT !.pc = "pick",
        !.held = OldHeldJobs,
        !.todo = {[key |-> k, copy |-> CopyOf(k), started |-> handoff[k].state = "started"] :
                    k \in StaleRows}]
  /\ Quiet

PickHandoff ==
  /\ At("pick")
  /\ \/ \E t \in worker.todo :
          worker' = [worker EXCEPT !.pc = IF t.started THEN "check" ELSE "link",
                                   !.key = t.key, !.copy = t.copy, !.todo = @ \ {t}]
     \/ /\ worker.todo = {}
        /\ worker' = [worker EXCEPT !.pc = "held",
                        !.held = {k \in @ : job[k].state = "held"}]
  /\ Quiet

RecoverCheck ==  \* get_job_by_idempotency
  /\ At("check")
  /\ Move(IF job[worker.key].state = "none" THEN "abort" ELSE "record")
  /\ Quiet

RecoverAbort == At("abort") /\ AbortTxn(worker.key, worker.copy) /\ Back("pick")

RecoverRecord ==
  /\ At("record")
  /\ UpdateRow(worker.key, worker.copy, "job_created")
  /\ Move("link")
  /\ UNCHANGED <<session, job, rows, linkedEver, crashes>>

RecoverLink ==
  LET k == worker.key  c == worker.copy IN
  /\ At("link")
  /\ \/ LinkTxn(k, c) /\ Move("release")
     \/ LinkAlreadyDone(k, c) /\ Move("release") /\ Quiet
     \/ LinkRefused(k, c) /\ Move("cancel") /\ Quiet
     \/ ~RowStands(k, c) /\ worker' = [IdleWorker EXCEPT !.pc = "take"] /\ Quiet

RecoverCancel == At("cancel") /\ CancelHeld(worker.key) /\ Move("abort")
RecoverRelease == At("release") /\ ReleaseHold(worker.key) /\ Back("pick")

(* Second loop: held jobs past the cutoff, judged by get_handoff_by_job. *)
PickHeld ==
  /\ At("held")
  /\ \/ \E k \in worker.held :
          \/ /\ handoff[k].hasJob /\ handoff[k].state = "linked"
             /\ worker' = [worker EXCEPT !.pc = "heldRelease", !.key = k, !.held = @ \ {k}]
          \/ /\ ~handoff[k].hasJob \/ handoff[k].state = "aborted"
             /\ worker' = [worker EXCEPT !.pc = "heldCancel", !.key = k, !.held = @ \ {k}]
          \/ /\ handoff[k].hasJob /\ handoff[k].state \in Unfinished
             /\ worker' = [worker EXCEPT !.held = @ \ {k}]
     \/ worker.held = {} /\ worker' = [IdleWorker EXCEPT !.pc = "take"]
  /\ Quiet

HeldRelease == At("heldRelease") /\ ReleaseHold(worker.key) /\ Back("held")
HeldCancel == At("heldCancel") /\ CancelHeld(worker.key) /\ Back("held")

(* next_queued_job and claim_job; with nothing to claim the loop comes      *)
(* round to its housekeeping again.                                         *)
Claim(k) ==
  /\ At("idle") \/ At("take")
  /\ job[k].state = "queued"
  /\ job' = [job EXCEPT ![k].state = "running"]
  /\ worker' = [IdleWorker EXCEPT !.pc = "run", !.key = k]
  /\ UNCHANGED <<session, handoff, rows, linkedEver, crashes>>

NothingToClaim ==
  /\ At("take")
  /\ \A k \in Keys : job[k].state # "queued"
  /\ Move("idle")
  /\ Quiet

FinishJob ==
  /\ At("run")
  /\ \E result \in {"ready", "failed"} :
       /\ job' = [job EXCEPT ![worker.key].state = result]
       /\ worker' = IF result = "ready" THEN [worker EXCEPT !.pc = "attach"] ELSE IdleWorker
  /\ UNCHANGED <<session, handoff, rows, linkedEver, crashes>>

(* attach_session_dataset's WHERE clause. *)
CanAttach(s) == session[s].state \in {"provisioning", "live"} /\ ~session[s].data

(* attach_session_dataset, then session_attached or session_attachment_error *)
Attach ==
  LET k == worker.key  s == job[k].target IN
  /\ At("attach")
  /\ session' = IF CanAttach(s) THEN [session EXCEPT ![s].data = TRUE] ELSE session
  /\ job' = [job EXCEPT ![k].state = IF CanAttach(s) THEN "attached" ELSE "unattached"]
  /\ worker' = IdleWorker
  /\ UNCHANGED <<handoff, rows, linkedEver, crashes>>

WorkerCrash ==
  /\ worker.pc # "down" /\ UNCHANGED req
  /\ crashes < MaxCrashes
  /\ crashes' = crashes + 1
  /\ worker' = DownWorker
  /\ UNCHANGED <<session, handoff, job, rows, linkedEver>>

WorkerStep ==
  \/ WorkerStart \/ StartRecovery \/ PickHandoff \/ RecoverCheck \/ RecoverAbort
  \/ RecoverRecord \/ RecoverLink \/ RecoverCancel \/ RecoverRelease
  \/ PickHeld \/ HeldRelease \/ HeldCancel
  \/ (\E k \in Keys : Claim(k)) \/ NothingToClaim \/ FinishJob \/ Attach

-----------------------------------------------------------------------------
(* The user deletes a conversation; STALE_AFTER passes.                     *)

DeleteSession(s) ==
  /\ session[s].state = "live"
  /\ session' = [session EXCEPT ![s].state = "deleted"]
  /\ UNCHANGED <<handoff, job, req, worker, rows, linkedEver, crashes>>

(* Every row and job written so far becomes older than the cutoff of the    *)
(* next pass.  Only with SlowRequests while a request is in the middle.     *)
TimePasses ==
  /\ SlowRequests \/ \A r \in Requests : req[r].pc \in {"new", "done"}
  /\ handoff' = [k \in Keys |-> [handoff[k] EXCEPT !.stale = handoff[k].state # "none"]]
  /\ job' = [k \in Keys |-> [job[k] EXCEPT !.old = job[k].state # "none"]]
  /\ UNCHANGED <<session, req, worker, rows, linkedEver, crashes>>

Next ==
  \/ \E r \in Requests : RequestBegins(r) \/ RequestStep(r) \/ RequestDies(r)
  \/ WorkerStep
  \/ WorkerCrash
  \/ \E s \in Sessions : DeleteSession(s)
  \/ TimePasses

(* The worker loop runs and time passes.  No request is fair: it may hang.  *)
Fairness == WF_vars(WorkerStep) /\ WF_vars(TimePasses)
Spec == Init /\ [][Next]_vars
FairSpec == Spec /\ Fairness

-----------------------------------------------------------------------------
(* Properties.                                                             *)

(* A job the worker may claim, or has run, was linked to its conversation  *)
(* first, and that conversation is one the user can see or has deleted     *)
(* since: work is never spent on an import nobody can find.                *)
DispatchedJobIsLinked ==
  \A k \in Keys : job[k].state \in Dispatched =>
    /\ k \in linkedEver
    /\ session[job[k].target].state \in {"live", "deleted"}

(* A hidden session always belongs to exactly one hand-off row that is      *)
(* still unfinished, so recovery can reach it whoever dies when.            *)
ProvisioningIsReachable ==
  \A s \in Sessions : session[s].state = "provisioning" =>
    \E k \in Keys : /\ handoff[k].state \in Unfinished
                    /\ handoff[k].created
                    /\ handoff[k].target = s

(* However many imports race into one conversation, at most one report is   *)
(* ever attached to it ("an import can never swap the report underneath an  *)
(* existing conversation", attach_session_dataset).                         *)
OneReportPerSession ==
  \A k1, k2 \in Keys :
    (k1 # k2 /\ job[k1].state = "attached" /\ job[k2].state = "attached")
      => job[k1].target # job[k2].target

(* A held job keeps a slot and a reservation: it is released or cancelled   *)
(* whichever actor dies, as long as the worker runs and time passes.        *)
HoldIsResolved == \A k \in Keys : (job[k].state = "held") ~> (job[k].state # "held")

(* A hidden session is shown or removed.                                    *)
ProvisioningEnds ==
  \A s \in Sessions : (session[s].state = "provisioning") ~> (session[s].state # "provisioning")

(* Both: whoever dies, no hand-off leaves anything half-done behind.         *)
HandoffSettles == HoldIsResolved /\ ProvisioningEnds

(* "Nothing was created last time" (comment of _begin): an aborted hand-off *)
(* has no import that was dispatched.                                       *)
AbortedCreatedNothing ==
  \A k \in Keys : handoff[k].state = "aborted" => job[k].state \notin Dispatched

(* What became of a job, as far as the promise of an import goes. *)
Outcome(state) ==
  CASE state = "none" -> "absent"         [] state = "held" -> "reserved"
    [] state = "cancelled" -> "cancelled" [] OTHER -> "dispatched"

(* The protocol implements link-before-dispatch: a reserved job is linked    *)
(* and then dispatched, or cancelled, and neither is undone (handoff.py).    *)
Confirm == INSTANCE ImportConfirm WITH
  linked <- linkedEver, outcome <- [k \in Keys |-> Outcome(job[k].state)]
ConfirmSpec == Confirm!Spec
=============================================================================
