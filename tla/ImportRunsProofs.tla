-------------------------- MODULE ImportRunsProofs ---------------------------
(***************************************************************************)
(* Proofs about ImportRuns, for every set of jobs, documents and CLI       *)
(* processes, every number of slots and every number of crashes: the types *)
(* are right, no part of a document is submitted twice or after its parse  *)
(* or result is on record, and billing is confirmed only of what is paid.  *)
(*                                                                         *)
(* None of these is inductive.  What makes them so is who holds which file *)
(* lock at which program point, and what may not change meanwhile: the     *)
(* job's row, its attempts, and the cache entry of its document.           *)
(***************************************************************************)
EXTENDS ImportRuns, FiniteSetTheorems, TLAPS

USE RunsAssumption

-----------------------------------------------------------------------------
(* The program points: from the claim on, under the job's lock, under the   *)
(* document's, and while the document is being parsed.                      *)

ParsePoints == {"lookup", "create", "record", "sidecar", "poll", "payers", "cache"}
DocPoints == ParsePoints \union {"convert", "abort", "release"}
WorkPoints == DocPoints \union {"slot", "doc", "validate", "build", "ready"}
LockedPoints == WorkPoints \union {"start", "attach", "fail"}
JobPoints == LockedPoints \union {"claimed"}
EarlyPoints == {"claimed", "start", "slot", "doc", "convert"}
ConvertedPoints == {"release", "validate", "build", "ready", "attach"}

(* Who is at a point under a lock holds it. *)
HoldsLocks(r) ==
  /\ runner[r].pc \in JobPoints => runner[r].job \in Jobs
  /\ runner[r].pc \in LockedPoints => jobLock[runner[r].job] = r
  /\ runner[r].pc \in DocPoints => docLock[MyDoc(r)] = r
LocksInv ==
  /\ \A r \in Runners : HoldsLocks(r)
  /\ admin.pc # "idle" => admin.job \in Jobs /\ jobLock[admin.job] = "admin"

(* A job that is worked on is in flight, and the row that is attached is    *)
(* the job's.                                                               *)
StatusInv ==
  \A r \in Runners :
    /\ runner[r].pc \in WorkPoints => job[runner[r].job].status \in InFlight
    /\ runner[r].pc = "attach" => job[runner[r].job] = runner[r].row /\ runner[r].row.status = "ready"

(* What is not on the ledger was never sent. *)
SentAt(m) ==
  /\ remote[m].sent <= 1
  /\ attempt[m] \in {"none", "rejected"} => remote[m].sent = 0 /\ remote[m].state = "none"
  /\ remote[m].state = "flawed" => m[2] + 1 \in Parts
RunnerSends(r) ==
  /\ runner[r].pc = "create" =>
       attempt[Me(r)] = "submitting" /\ remote[Me(r)].sent = 0 /\ remote[Me(r)].state = "none"
  /\ runner[r].pc = "record" => attempt[Me(r)] = "submitting"
  /\ runner[r].pc = "sidecar" => attempt[Me(r)] = "submitted"
SentInv == (\A m \in Remotes : SentAt(m)) /\ \A r \in Runners : RunnerSends(r)

(* Every remote parse that a job, a sidecar, a cache entry or a payer       *)
(* reference names is a submitted one, and a runner's are its job's.        *)
Submitted(m) == attempt[m] = "submitted"
FileKnown(f) ==
  /\ \A p \in Parts : f.sidecar[p] # NoRemote => Submitted(f.sidecar[p]) /\ f.sidecar[p][2] = p
  /\ \A m \in f.made \union f.payers : Submitted(m)
RunnerKnows(r) ==
  /\ runner[r].pc \in EarlyPoints => runner[r].log = {}
  /\ runner[r].pc \in ParsePoints =>
       \A m \in runner[r].log : Submitted(m) /\ m \in Counted(runner[r].job)
  /\ runner[r].pc = "poll" => /\ Submitted(runner[r].remote) /\ runner[r].remote \in Counted(runner[r].job)
                              /\ runner[r].remote[2] = runner[r].part
KnownInv ==
  /\ \A j \in Jobs : \A m \in adopted[j] : Submitted(m)
  /\ \A d \in Documents : FileKnown(files[d])
  /\ \A r \in Runners : RunnerKnows(r)

(* A cache entry is made once, of public documents after the payer reference *)
(* that names what made it; a part is created while there is no sidecar.     *)
CacheAt(d) ==
  /\ ~files[d].cached => files[d].made = {}
  /\ files[d].cached /\ d \in Public => files[d].made \subseteq files[d].payers
RunnerCaches(r) ==
  /\ runner[r].pc \in ParsePoints => ~files[MyDoc(r)].cached
  /\ runner[r].pc = "cache" /\ MyDoc(r) \in Public => files[MyDoc(r)].payers = runner[r].log
  /\ runner[r].pc = "create" => files[MyDoc(r)].sidecar[runner[r].part] = NoRemote
CacheInv == (\A d \in Documents : CacheAt(d)) /\ \A r \in Runners : RunnerCaches(r)

(* A job that has its document counts what made the cache entry. *)
Served(j) ==
  LET f == files[DocumentOf[j]] IN
  f.cached /\ (DocumentOf[j] \in Public => f.made \subseteq Counted(j))
ReadyInv ==
  /\ \A j \in Jobs : job[j].status = "ready" => Served(j)
  /\ \A r \in Runners : runner[r].pc \in ConvertedPoints => Served(runner[r].job)

(* Confirmed billing, in the job or about to be written to it. *)
PaidFor(j) == \A m \in Counted(j) : noted[m].paid /\ (m \in Own(j) => attempt[m] \notin Unresolved)
JobIsPaid(j) == job[j].status \in Terminal /\ job[j].billing = "confirmed" => PaidFor(j)
RunnerPays(r) ==
  runner[r].pc \in {"build", "ready"} /\ runner[r].row.billing = "confirmed" => PaidFor(runner[r].job)
BillingInv == (\A j \in Jobs : JobIsPaid(j)) /\ \A r \in Runners : RunnerPays(r)

(* The row the admin has read is the job's, but that it may be claimed. *)
AdminInv ==
  /\ admin.pc # "idle" =>
       \/ job[admin.job] = admin.row
       \/ admin.row.status = "queued" /\ job[admin.job] = [admin.row EXCEPT !.status = "parsing"]
  /\ admin.pc = "note" => admin.remote \in Remotes

IInv ==
  /\ TypeOK /\ LocksInv /\ StatusInv /\ SentInv /\ KnownInv /\ CacheInv /\ ReadyInv
  /\ BillingInv /\ AdminInv
-----------------------------------------------------------------------------
(* What steps do to a runner, field by field. *)

RunnerType == [pc : RunnerPoints, job : Jobs \union {0}, row : JobRow,
               part : Parts, remote : Remotes \union {NoRemote},
               log : SUBSET Remotes, todo : SUBSET Jobs]

Becomes(r, pc, j, row, part, m, log) ==
  /\ runner' \in [Runners -> RunnerType]
  /\ \A q \in Runners : q # r => runner'[q] = runner[q]
  /\ runner'[r].pc = pc /\ runner'[r].job = j /\ runner'[r].row = row
  /\ runner'[r].part = part /\ runner'[r].remote = m /\ runner'[r].log = log
GoesOn(r, pc, row) ==
  Becomes(r, pc, runner[r].job, row, runner[r].part, runner[r].remote, runner[r].log)

LEMMA Distinct ==
  /\ Nobody \notin Runners /\ "admin" \notin Runners /\ Nobody # "admin" /\ NoRemote \notin Remotes
  /\ \A j \in Jobs : DocumentOf[j] \in Documents
  /\ 1 \in Parts /\ Parts \subseteq {1, 2} /\ Worker \in Runners
BY DEF RunsAssumption, Runners

(* Goto changes nothing but the program point. *)
LEMMA GotoDoes ==
  ASSUME TypeOK, NEW r \in Runners, NEW pc \in RunnerPoints, Goto(r, pc)
  PROVE  GoesOn(r, pc, runner[r].row)
<1>1. runner \in [Runners -> RunnerType]  BY DEF TypeOK, RunnerType
<1> DEFINE u == [runner[r] EXCEPT !.pc = pc]
<1>2. u \in RunnerType  BY <1>1 DEF RunnerType
<1>3. /\ u.pc = pc /\ u.job = runner[r].job /\ u.row = runner[r].row
      /\ u.part = runner[r].part /\ u.remote = runner[r].remote /\ u.log = runner[r].log
  BY <1>1 DEF RunnerType
<1>4. runner' = [runner EXCEPT ![r] = u]  BY <1>1 DEF Goto
<1> HIDE DEF u
<1>5. QED  BY <1>1, <1>2, <1>3, <1>4 DEF GoesOn, Becomes

(* Write changes the row too, and the job's. *)
LEMMA WriteDoes ==
  ASSUME TypeOK, NEW r \in Runners, NEW pc \in RunnerPoints, NEW row \in JobRow,
         runner[r].job \in Jobs, Write(r, row, pc)
  PROVE  /\ GoesOn(r, pc, row)
         /\ job' \in [Jobs -> JobRow] /\ job'[runner[r].job] = row
         /\ \A j \in Jobs : j # runner[r].job => job'[j] = job[j]
<1>1. runner \in [Runners -> RunnerType]  BY DEF TypeOK, RunnerType
<1> DEFINE u == [runner[r] EXCEPT !.row = row, !.pc = pc]
<1>2. u \in RunnerType  BY <1>1 DEF RunnerType
<1>3. /\ u.pc = pc /\ u.job = runner[r].job /\ u.row = row
      /\ u.part = runner[r].part /\ u.remote = runner[r].remote /\ u.log = runner[r].log
  BY <1>1 DEF RunnerType
<1>4. runner' = [runner EXCEPT ![r] = u]  BY <1>1 DEF Write, RunnerType
<1>5. job' = [job EXCEPT ![runner[r].job] = row] /\ job \in [Jobs -> JobRow]  BY DEF Write, MyJob, TypeOK
<1> HIDE DEF u
<1>6. GoesOn(r, pc, row)  BY <1>1, <1>2, <1>3, <1>4 DEF GoesOn, Becomes
<1>7. QED  BY <1>5, <1>6
(* A runner that is free, or was stopped. *)
LEMMA IdleFields ==
  ASSUME NEW r \in Runners
  PROVE  /\ IdleRunner \in RunnerType /\ Stopped(r) \in RunnerType
         /\ IdleRunner.pc = "idle" /\ Stopped(r).pc \in {"down", "idle"}
         /\ NewRow \in JobRow
<1>1. NewRow \in JobRow
  BY DEF NewRow, JobRow, Billings, Attachments
<1>2. IdleRunner \in RunnerType /\ IdleRunner.pc = "idle"
  <2>1. 1 \in Parts  BY DEF RunsAssumption
  <2> QED  BY <1>1, <2>1 DEF IdleRunner, RunnerType, RunnerPoints
<1> DEFINE pc == IF r = Worker THEN "down" ELSE "idle"
<1>3. pc \in {"down", "idle"}  OBVIOUS
<1>4. Stopped(r) = [IdleRunner EXCEPT !.pc = pc]  BY DEF Stopped
<1>5. Stopped(r) \in RunnerType /\ Stopped(r).pc = pc
  <2> HIDE DEF pc
  <2> QED  BY <1>2, <1>3, <1>4 DEF RunnerType, RunnerPoints
<1>6. QED  BY <1>1, <1>2, <1>3, <1>5
(* Two runners at work hold different jobs, and parse different documents. *)
LEMMA Alone ==
  ASSUME LocksInv, NEW q \in Runners, NEW r \in Runners, q # r
  PROVE  /\ runner[q].pc \in LockedPoints /\ runner[r].pc \in LockedPoints
              => runner[q].job # runner[r].job
         /\ runner[q].pc \in DocPoints /\ runner[r].pc \in DocPoints => MyDoc(q) # MyDoc(r)
BY DEF LocksInv, HoldsLocks, MyDoc, MyJob

(* The program points under a lock, by inclusion. *)
LEMMA Points ==
  /\ ParsePoints \subseteq DocPoints /\ DocPoints \subseteq WorkPoints
  /\ WorkPoints \subseteq LockedPoints /\ LockedPoints \subseteq JobPoints
  /\ "attach" \in LockedPoints /\ EarlyPoints \subseteq JobPoints
  /\ ConvertedPoints \subseteq LockedPoints
  /\ {"create", "record", "sidecar", "poll", "cache"} \subseteq ParsePoints
  /\ {"build", "ready"} \subseteq WorkPoints
  /\ {"down", "idle", "recover"} \cap JobPoints = {}
BY DEF ParsePoints, DocPoints, WorkPoints, LockedPoints, JobPoints, EarlyPoints, ConvertedPoints

-----------------------------------------------------------------------------
(* The steps that leave the ledger, the files and the provider alone.       *)

Quiet == UNCHANGED <<attempt, adopted, noted, files, remote, admin>>
(* A runner takes free locks and gives up its own. *)
LocksBy(r) ==
  /\ jobLock' \in [Jobs -> Runners \union {Nobody, "admin"}]
  /\ docLock' \in [Documents -> Runners \union {Nobody}]
  /\ \A k \in Jobs : jobLock[k] \notin {r, Nobody} => jobLock'[k] = jobLock[k]
  /\ \A d \in Documents : docLock[d] \notin {r, Nobody} => docLock'[d] = docLock[d]
(* It writes the row of its job, if at all, and under the lock of the job.   *)
RowBy(r) ==
  /\ job' \in [Jobs -> JobRow]
  /\ \A k \in Jobs : k # runner[r].job => job'[k] = job[k]
  /\ job' = job \/ runner[r].pc \in LockedPoints
(* What it writes when the job is over. *)
RowIsRight(row, j) ==
  /\ row.status = "ready" => Served(j)
  /\ row.status \in Terminal /\ row.billing = "confirmed" => PaidFor(j)

(* The others keep theirs meanwhile. *)
LEMMA OthersHold ==
  ASSUME LocksInv, NEW r \in Runners, NEW q \in Runners, q # r, runner'[q] = runner[q], LocksBy(r)
  PROVE  HoldsLocks(q)'
<1>1. HoldsLocks(q) /\ q \notin {r, Nobody}  BY Distinct DEF LocksInv
<1>2. runner[q].pc \in LockedPoints => runner[q].job \in Jobs /\ jobLock'[runner[q].job] = q
  BY <1>1, Points DEF HoldsLocks, LocksBy
<1>3. runner[q].pc \in DocPoints => MyDoc(q) \in Documents
  BY <1>1, Points, Distinct DEF HoldsLocks, MyDoc, MyJob
<1>4. runner[q].pc \in DocPoints => docLock'[MyDoc(q)] = q
  BY <1>1, <1>3 DEF HoldsLocks, LocksBy
<1> QED  BY <1>1, <1>2, <1>4 DEF HoldsLocks, MyDoc, MyJob

(* The runner goes on with its job. *)
LEMMA QuietKeeps ==
  ASSUME IInv, NEW r \in Runners, runner[r].pc \in JobPoints, NEW pc \in JobPoints, NEW row \in JobRow,
         GoesOn(r, pc, row), Quiet, LocksBy(r), RowBy(r), slots' \subseteq Jobs, crashes' \in Nat,
         pc \in LockedPoints => jobLock'[runner[r].job] = r,
         pc \in DocPoints => docLock'[MyDoc(r)] = r,
         pc \in WorkPoints => job'[runner[r].job].status \in InFlight,
         pc = "attach" => job'[runner[r].job] = row /\ row.status = "ready",
         pc \in EarlyPoints => runner[r].pc \in EarlyPoints,
         pc \in ParsePoints => runner[r].log = {} /\ ~files[MyDoc(r)].cached,
         pc \notin {"create", "record", "sidecar", "poll", "cache"},
         pc \in ConvertedPoints => Served(runner[r].job),
         RowIsRight(job'[runner[r].job], runner[r].job),
         pc \in {"build", "ready"} /\ row.billing = "confirmed" => PaidFor(runner[r].job)
  PROVE  IInv'
<1> DEFINE j == runner[r].job
<1>a. /\ TypeOK /\ LocksInv /\ StatusInv /\ SentInv /\ KnownInv /\ CacheInv /\ ReadyInv
      /\ BillingInv /\ AdminInv
      /\ j \in Jobs
  BY DEF IInv, LocksInv, HoldsLocks
<1>d. /\ runner' \in [Runners -> RunnerType]
      /\ \A q \in Runners : q # r => runner'[q] = runner[q]
      /\ runner'[r].pc = pc /\ runner'[r].job = j /\ runner'[r].row = row
      /\ runner'[r].log = runner[r].log /\ runner'[r].part = runner[r].part
  BY DEF GoesOn, Becomes
<1>e. \A q \in Runners : q # r /\ runner[q].pc \in LockedPoints => job'[runner[q].job] = job[runner[q].job]
  BY <1>a, Alone, Points, ZenonT(60) DEF RowBy, LocksInv, HoldsLocks
<1>f. \A k \in Jobs : (Served(k) => Served(k)') /\ (PaidFor(k) => PaidFor(k)')
  BY DEF Quiet, Served, PaidFor, Counted, Own
<1> HIDE DEF j
<1>1. TypeOK'
  BY <1>a, <1>d DEF TypeOK, RunnerType, Quiet, LocksBy, RowBy
<1>2. LocksInv'
  <2>1. ASSUME NEW q \in Runners  PROVE HoldsLocks(q)'
    <3>1. CASE q = r  BY <3>1, <1>a, <1>d DEF HoldsLocks, MyDoc, MyJob, j
    <3>2. CASE q # r  BY <3>2, <1>a, <1>d, OthersHold
    <3> QED  BY <3>1, <3>2
  <2>2. admin'.pc # "idle" => admin'.job \in Jobs /\ jobLock'[admin'.job] = "admin"
    BY <1>a, Distinct DEF LocksInv, Quiet, LocksBy
  <2> QED  BY <2>1, <2>2 DEF LocksInv
<1>3. StatusInv'
  BY <1>a, <1>d, <1>e, Points DEF StatusInv, j
<1>4. SentInv'
  BY <1>a, <1>d DEF SentInv, SentAt, RunnerSends, Me, MyJob, Quiet
<1>5. KnownInv'
  <2>1. ASSUME NEW q \in Runners  PROVE RunnerKnows(q)'
    <3>1. RunnerKnows(q) /\ RunnerKnows(r)  BY <1>a DEF KnownInv
    <3> QED  BY <3>1, <1>d DEF RunnerKnows, Quiet, Submitted, Counted, Own
  <2>2. \A d \in Documents : FileKnown(files[d])'
    BY <1>a DEF KnownInv, FileKnown, Quiet, Submitted
  <2> QED  BY <2>1, <2>2, <1>a DEF KnownInv, Quiet, Submitted
<1>6. CacheInv'
  BY <1>a, <1>d DEF CacheInv, CacheAt, RunnerCaches, Quiet, MyDoc, MyJob, j
<1>7. ReadyInv'
  BY <1>a, <1>d, <1>f, Points, ZenonT(60) DEF ReadyInv, LocksInv, HoldsLocks, RowBy, RowIsRight, j
<1>8. BillingInv'
  <2>1. ASSUME NEW q \in Runners  PROVE RunnerPays(q)'
    BY <1>a, <1>d, <1>f, Points DEF BillingInv, RunnerPays, LocksInv, HoldsLocks, j
  <2>2. ASSUME NEW k \in Jobs  PROVE JobIsPaid(k)'
    BY <1>a, <1>f DEF BillingInv, JobIsPaid, RowBy, RowIsRight, j
  <2> QED  BY <2>1, <2>2 DEF BillingInv
<1>9. AdminInv'
  <2>1. runner[r].pc \in LockedPoints /\ admin.pc # "idle" => admin.job # j
    BY <1>a, Distinct DEF LocksInv, HoldsLocks, j
  <2> QED  BY <2>1, <1>a DEF AdminInv, Quiet, RowBy, j, LocksInv
<1> QED  BY <1>1, <1>2, <1>3, <1>4, <1>5, <1>6, <1>7, <1>8, <1>9 DEF IInv
(* Billing calls confirmed only what is paid. *)
LEMMA BillingIsRight ==
  ASSUME NEW j, NEW was \in Billings, NEW converted \in BOOLEAN
  PROVE  /\ Billing(j, was, converted) \in Billings
         /\ Billing(j, was, converted) = "confirmed" => PaidFor(j)
BY DEF Billing, Billings, PaidFor, OwnPending, OtherPending, Counted

(* What the invariant says of one runner at work. *)
LEMMA AtWork ==
  ASSUME IInv, NEW r \in Runners, runner[r].pc \in JobPoints
  PROVE  /\ TypeOK /\ runner[r] \in RunnerType /\ runner[r].job \in Jobs
         /\ runner[r].row \in JobRow /\ job \in [Jobs -> JobRow]
         /\ jobLock \in [Jobs -> Runners \union {Nobody, "admin"}]
         /\ docLock \in [Documents -> Runners \union {Nobody}]
         /\ files[MyDoc(r)].made \subseteq Remotes
         /\ MyDoc(r) \in Documents /\ slots \subseteq Jobs /\ crashes \in Nat
         /\ HoldsLocks(r) /\ RunnerKnows(r) /\ RunnerPays(r)
         /\ runner[r].pc \in WorkPoints => job[runner[r].job].status \in InFlight
         /\ runner[r].pc \in ParsePoints => ~files[MyDoc(r)].cached
         /\ runner[r].pc \in ConvertedPoints => Served(runner[r].job)
         /\ RowIsRight(job[runner[r].job], runner[r].job)
<1>1. TypeOK /\ LocksInv /\ StatusInv /\ KnownInv /\ CacheInv /\ ReadyInv /\ BillingInv  BY DEF IInv
<1>2. runner[r] \in RunnerType /\ runner[r].job \in Jobs /\ runner[r].row \in JobRow
  BY <1>1 DEF TypeOK, RunnerType, LocksInv, HoldsLocks
<1>3. MyDoc(r) \in Documents  BY <1>2, Distinct DEF MyDoc, MyJob
<1>4. RowIsRight(job[runner[r].job], runner[r].job)
  BY <1>1, <1>2 DEF RowIsRight, ReadyInv, BillingInv, JobIsPaid
<1>5. files[MyDoc(r)].made \subseteq Remotes  BY <1>1, <1>3 DEF TypeOK
<1> QED
  BY <1>1, <1>2, <1>3, <1>4, <1>5
  DEF LocksInv, StatusInv, KnownInv, CacheInv, RunnerCaches, ReadyInv, BillingInv, TypeOK

(* What most of the quiet steps do: the locks stay. *)
LEMMA LocksStay ==
  ASSUME TypeOK, Locks, NEW r \in Runners
  PROVE  LocksBy(r)
BY DEF TypeOK, Locks, LocksBy

LEMMA LockJobKeeps ==
  ASSUME IInv, NEW r \in Runners, LockJob(r)
  PROVE  IInv'
<1>1. runner[r].pc = "claimed" /\ runner[r].pc \in JobPoints /\ runner[r].pc \in EarlyPoints
  BY DEF LockJob, At, JobPoints, EarlyPoints
<1> DEFINE j == runner[r].job
<1>2. GoesOn(r, "start", runner[r].row)
  BY <1>1, AtWork, GotoDoes DEF LockJob, RunnerPoints
<1>3. /\ Quiet /\ UNCHANGED <<job, slots, docLock, crashes>>
      /\ jobLock[j] = Nobody /\ jobLock' = [jobLock EXCEPT ![j] = r]
  BY DEF LockJob, Quiet, Ledger, World, Others, JobIsFree, MyJob
<1>4. LocksBy(r) /\ RowBy(r) /\ jobLock'[j] = r
  BY <1>1, <1>3, AtWork DEF LocksBy, RowBy
<1>5. /\ "start" \in JobPoints \ (DocPoints \union WorkPoints \union ParsePoints \union ConvertedPoints)
      /\ "start" \in EarlyPoints
  BY DEF JobPoints, LockedPoints, DocPoints, WorkPoints, ParsePoints, EarlyPoints, ConvertedPoints
<1>6. RowIsRight(job'[j], j)  BY <1>1, <1>3, AtWork
<1> HIDE DEF j
<1>7. QED
  BY <1>1, <1>2, <1>3, <1>4, <1>5, <1>6, AtWork, QuietKeeps DEF j

LEMMA StartKeeps ==
  ASSUME IInv, NEW r \in Runners, Start(r)
  PROVE  IInv'
<1>1. runner[r].pc = "start" /\ runner[r].pc \in LockedPoints /\ runner[r].pc \in EarlyPoints
  BY DEF Start, At, LockedPoints, EarlyPoints
<1>2. /\ Quiet /\ UNCHANGED <<slots, crashes>> /\ LocksBy(r) /\ jobLock' = jobLock
      /\ jobLock[runner[r].job] = r
  BY <1>1, AtWork, LocksStay, Points DEF Start, Quiet, Ledger, World, Locks, Others, HoldsLocks
<1>3. CASE Write(r, [runner[r].row EXCEPT !.status = "parsing"], "slot")
  <2> DEFINE row == [runner[r].row EXCEPT !.status = "parsing"]
  <2>1. row \in JobRow /\ row.status = "parsing"
    BY <1>1, AtWork, Points DEF JobRow, InFlight
  <2> HIDE DEF row
  <2>2. /\ GoesOn(r, "slot", row) /\ RowBy(r) /\ job'[runner[r].job] = row
    <3>1. "slot" \in RunnerPoints /\ Write(r, row, "slot")  BY <1>3 DEF RunnerPoints, row
    <3> QED  BY <2>1, <3>1, <1>1, AtWork, WriteDoes, Points DEF RowBy
  <2>3. RowIsRight(row, runner[r].job) /\ row.status \in InFlight
    BY <2>1 DEF RowIsRight, Terminal, InFlight
  <2>4. "slot" \in JobPoints \ (DocPoints \union ParsePoints \union ConvertedPoints) /\ "slot" \in EarlyPoints
    BY DEF JobPoints, LockedPoints, DocPoints, WorkPoints, ParsePoints, EarlyPoints, ConvertedPoints
  <2> QED  BY <1>1, <1>2, <2>1, <2>2, <2>3, <2>4, AtWork, QuietKeeps, Points
<1>4. CASE Goto(r, "fail") /\ UNCHANGED job
  <2>1. GoesOn(r, "fail", runner[r].row)  BY <1>1, <1>4, AtWork, GotoDoes, Points DEF RunnerPoints
  <2>2. "fail" \in JobPoints \ (WorkPoints \union ConvertedPoints \union EarlyPoints)
    BY DEF JobPoints, LockedPoints, DocPoints, WorkPoints, ParsePoints, EarlyPoints, ConvertedPoints
  <2> QED
    BY <1>1, <1>2, <1>4, <2>1, <2>2, AtWork, QuietKeeps, Points DEF RowBy
<1> QED  BY <1>3, <1>4 DEF Start
(* Goto alone, to where no attempt is looked at. *)
LEMMA GotoKeeps ==
  ASSUME IInv, NEW r \in Runners, runner[r].pc \in JobPoints, NEW pc \in {"doc", "convert", "abort", "fail", "validate"},
         Goto(r, pc), Quiet, UNCHANGED job, LocksBy(r), slots' \subseteq Jobs, crashes' \in Nat,
         jobLock'[runner[r].job] = r,
         pc \in DocPoints => docLock'[MyDoc(r)] = r,
         pc \in WorkPoints => runner[r].pc \in WorkPoints,
         pc \in EarlyPoints => runner[r].pc \in EarlyPoints,
         pc = "validate" => Served(runner[r].job)
  PROVE  IInv'
<1>1. GoesOn(r, pc, runner[r].row)
  <2>1. pc \in RunnerPoints  BY DEF RunnerPoints
  <2> QED  BY <2>1, AtWork, GotoDoes
<1>2. RowBy(r) /\ RowIsRight(job'[runner[r].job], runner[r].job)
  BY AtWork DEF RowBy
<1>3. /\ pc \in LockedPoints /\ pc \in JobPoints
      /\ pc \notin ParsePoints \union {"build", "ready", "attach", "create", "record", "sidecar", "poll", "cache"}
      /\ pc \in ConvertedPoints => pc = "validate"
  BY DEF JobPoints, LockedPoints, DocPoints, WorkPoints, ParsePoints, ConvertedPoints
<1>4. pc \in WorkPoints => job'[runner[r].job].status \in InFlight
  BY AtWork
<1> QED
  BY <1>1, <1>2, <1>3, <1>4, AtWork, QuietKeeps

LEMMA EnterSlotKeeps ==
  ASSUME IInv, NEW r \in Runners, EnterSlot(r)
  PROVE  IInv'
<1>1. runner[r].pc = "slot" /\ runner[r].pc \in WorkPoints /\ runner[r].pc \in EarlyPoints
  BY DEF EnterSlot, At, WorkPoints, EarlyPoints
<1>2. /\ Quiet /\ UNCHANGED <<job, crashes>> /\ LocksBy(r) /\ jobLock'[runner[r].job] = r
      /\ slots' \subseteq Jobs /\ crashes' \in Nat
  BY <1>1, AtWork, LocksStay, Points
  DEF EnterSlot, Quiet, Ledger, World, Locks, Others, HoldsLocks, MyJob
<1>3. PICK pc \in {"doc", "fail"} : Goto(r, pc)  BY DEF EnterSlot
<1>4. pc \notin DocPoints  BY DEF DocPoints, ParsePoints
<1> QED  BY <1>1, <1>2, <1>3, <1>4, GotoKeeps, Points

LEMMA LockDocumentKeeps ==
  ASSUME IInv, NEW r \in Runners, LockDocument(r)
  PROVE  IInv'
<1>1. runner[r].pc = "doc" /\ runner[r].pc \in WorkPoints /\ runner[r].pc \in EarlyPoints
  BY DEF LockDocument, At, WorkPoints, EarlyPoints
<1>2. /\ Quiet /\ UNCHANGED <<job, slots, crashes>> /\ jobLock' = jobLock
      /\ docLock' = [docLock EXCEPT ![MyDoc(r)] = r] /\ docLock[MyDoc(r)] = Nobody
  BY DEF LockDocument, Quiet, Ledger, World, Others, DocumentIsFree
<1>3. LocksBy(r) /\ docLock'[MyDoc(r)] = r /\ jobLock'[runner[r].job] = r
  BY <1>1, <1>2, AtWork, Points DEF LocksBy, HoldsLocks
<1>4. slots' \subseteq Jobs /\ crashes' \in Nat /\ Goto(r, "convert")
  BY <1>1, <1>2, AtWork, Points DEF LockDocument
<1> QED  BY <1>1, <1>2, <1>3, <1>4, GotoKeeps, Points

(* The document's lock is given up with the slot. *)
LEMMA UnlockDocumentDoes ==
  ASSUME TypeOK, NEW r \in Runners, UnlockDocument(r)
  PROVE  /\ docLock' \in [Documents -> Runners \union {Nobody}]
         /\ \A d \in Documents : docLock[d] # r => docLock'[d] = docLock[d]
BY DEF TypeOK, UnlockDocument

LEMMA ReleaseKeeps ==
  ASSUME IInv, NEW r \in Runners, Release(r)
  PROVE  IInv'
<1>1. runner[r].pc = "release" /\ runner[r].pc \in WorkPoints /\ runner[r].pc \in ConvertedPoints
  BY DEF Release, At, WorkPoints, DocPoints, ConvertedPoints
<1>2. /\ Quiet /\ UNCHANGED <<job, crashes>> /\ jobLock' = jobLock /\ Goto(r, "validate")
      /\ slots' \subseteq slots /\ UnlockDocument(r)
  BY DEF Release, Quiet, Ledger, World, Others
<1>3. LocksBy(r) /\ jobLock'[runner[r].job] = r
  BY <1>1, <1>2, AtWork, Points, UnlockDocumentDoes DEF LocksBy, HoldsLocks
<1>4. "validate" \notin DocPoints \union EarlyPoints  BY DEF DocPoints, ParsePoints, EarlyPoints
<1>5. slots' \subseteq Jobs /\ crashes' \in Nat /\ Served(runner[r].job)
  BY <1>1, <1>2, AtWork, Points
<1> QED  BY <1>1, <1>2, <1>3, <1>4, <1>5, GotoKeeps, Points

LEMMA ValidateKeeps ==
  ASSUME IInv, NEW r \in Runners, Validate(r)
  PROVE  IInv'
<1>1. runner[r].pc = "validate" /\ runner[r].pc \in LockedPoints /\ runner[r].pc \in ConvertedPoints
  BY DEF Validate, At, LockedPoints, WorkPoints, ConvertedPoints
<1>2. /\ Quiet /\ UNCHANGED <<slots, crashes>> /\ LocksBy(r) /\ jobLock' = jobLock
      /\ jobLock[runner[r].job] = r
  BY <1>1, AtWork, LocksStay, Points DEF Validate, Quiet, Ledger, World, Locks, Others, HoldsLocks
<1> DEFINE row == [runner[r].row EXCEPT !.status = "validating", !.billing = Billing(runner[r].job, @, TRUE)]
<1>3. /\ row \in JobRow /\ row.status = "validating"
      /\ row.billing = "confirmed" => PaidFor(runner[r].job)
  <2>1. runner[r].row \in JobRow  BY <1>1, AtWork, Points
  <2> DEFINE b == Billing(runner[r].job, runner[r].row.billing, TRUE)
  <2>2. b \in Billings /\ (b = "confirmed" => PaidFor(runner[r].job))
    BY <2>1, BillingIsRight DEF JobRow
  <2>3. row = [runner[r].row EXCEPT !.status = "validating", !.billing = b]  BY <2>1 DEF JobRow
  <2> HIDE DEF b, row
  <2> QED  BY <2>1, <2>2, <2>3 DEF JobRow, InFlight
<1>4. Write(r, row, "build")  BY DEF Validate, MyJob
<1> HIDE DEF row
<1>5. GoesOn(r, "build", row) /\ RowBy(r) /\ job'[runner[r].job] = row
  <2>1. "build" \in RunnerPoints  BY DEF RunnerPoints
  <2> QED  BY <1>1, <1>3, <1>4, <2>1, AtWork, WriteDoes, Points DEF RowBy
<1>6. RowIsRight(row, runner[r].job) /\ row.status \in InFlight
  BY <1>3 DEF RowIsRight, Terminal, InFlight
<1>7. "build" \in JobPoints \ (DocPoints \union ParsePoints \union EarlyPoints)
  BY DEF JobPoints, LockedPoints, DocPoints, WorkPoints, ParsePoints, EarlyPoints
<1> QED  BY <1>1, <1>2, <1>3, <1>5, <1>6, <1>7, AtWork, QuietKeeps, Points

LEMMA BuildKeeps ==
  ASSUME IInv, NEW r \in Runners, Build(r)
  PROVE  IInv'
<1>1. runner[r].pc = "build" /\ runner[r].pc \in LockedPoints /\ runner[r].pc \in ConvertedPoints
  BY DEF Build, At, LockedPoints, WorkPoints, ConvertedPoints
<1>2. /\ Quiet /\ UNCHANGED <<slots, crashes>> /\ LocksBy(r) /\ jobLock' = jobLock
      /\ jobLock[runner[r].job] = r
  BY <1>1, AtWork, LocksStay, Points DEF Build, Quiet, Ledger, World, Locks, Others, HoldsLocks
<1> DEFINE row == [runner[r].row EXCEPT !.status = "building"]
<1>3. /\ row \in JobRow /\ row.status = "building"
      /\ row.billing = "confirmed" => PaidFor(runner[r].job)
  <2>1. runner[r].row \in JobRow /\ RunnerPays(r)  BY <1>1, AtWork, Points
  <2> QED  BY <1>1, <2>1 DEF JobRow, InFlight, RunnerPays
<1>4. Write(r, row, "ready")  BY DEF Build
<1> HIDE DEF row
<1>5. GoesOn(r, "ready", row) /\ RowBy(r) /\ job'[runner[r].job] = row
  <2>1. "ready" \in RunnerPoints  BY DEF RunnerPoints
  <2> QED  BY <1>1, <1>3, <1>4, <2>1, AtWork, WriteDoes, Points DEF RowBy
<1>6. RowIsRight(row, runner[r].job) /\ row.status \in InFlight
  BY <1>3 DEF RowIsRight, Terminal, InFlight
<1>7. "ready" \in JobPoints \ (DocPoints \union ParsePoints \union EarlyPoints)
  BY DEF JobPoints, LockedPoints, DocPoints, WorkPoints, ParsePoints, EarlyPoints
<1> QED  BY <1>1, <1>2, <1>3, <1>5, <1>6, <1>7, AtWork, QuietKeeps, Points
-----------------------------------------------------------------------------
(* The steps that end a runner's work on its job, or begin no job yet.      *)

LEMMA FreeKeeps ==
  ASSUME IInv, NEW r \in Runners, runner' \in [Runners -> RunnerType],
         \A q \in Runners : q # r => runner'[q] = runner[q],
         runner'[r].pc \in {"down", "idle", "recover"},
         Quiet, LocksBy(r), RowBy(r), slots' \subseteq Jobs, crashes' \in Nat,
         runner[r].job \in Jobs => RowIsRight(job'[runner[r].job], runner[r].job)
  PROVE  IInv'
<1> DEFINE j == runner[r].job
<1>a. /\ TypeOK /\ LocksInv /\ StatusInv /\ SentInv /\ KnownInv /\ CacheInv /\ ReadyInv
      /\ BillingInv /\ AdminInv
  BY DEF IInv
<1>b. /\ runner'[r].pc \notin JobPoints \union LockedPoints \union DocPoints \union WorkPoints
      /\ runner'[r].pc \notin ParsePoints \union EarlyPoints \union ConvertedPoints
      /\ runner'[r].pc \notin {"create", "record", "sidecar", "poll", "cache", "build", "ready", "attach"}
  BY DEF JobPoints, LockedPoints, WorkPoints, DocPoints, ParsePoints, EarlyPoints, ConvertedPoints
<1>e. \A q \in Runners : q # r /\ runner[q].pc \in LockedPoints => job'[runner[q].job] = job[runner[q].job]
  BY <1>a, Alone, Points DEF RowBy, LocksInv, HoldsLocks
<1>f. \A k \in Jobs : (Served(k) => Served(k)') /\ (PaidFor(k) => PaidFor(k)')
  BY DEF Quiet, Served, PaidFor, Counted, Own
<1>1. TypeOK'
  BY <1>a DEF TypeOK, RunnerType, Quiet, LocksBy, RowBy
<1>2. LocksInv'
  <2>1. ASSUME NEW q \in Runners  PROVE HoldsLocks(q)'
    <3>1. CASE q = r  BY <3>1, <1>b DEF HoldsLocks
    <3>2. CASE q # r  BY <3>2, <1>a, OthersHold
    <3> QED  BY <3>1, <3>2
  <2>2. admin'.pc # "idle" => admin'.job \in Jobs /\ jobLock'[admin'.job] = "admin"
    BY <1>a, Distinct DEF LocksInv, Quiet, LocksBy
  <2> QED  BY <2>1, <2>2 DEF LocksInv
<1>3. StatusInv'
  BY <1>a, <1>b, <1>e, Points DEF StatusInv
<1>4. SentInv'
  BY <1>a, <1>b DEF SentInv, SentAt, RunnerSends, Me, MyJob, Quiet
<1>5. KnownInv'
  <2>1. ASSUME NEW q \in Runners  PROVE RunnerKnows(q)'
    <3>1. RunnerKnows(q)  BY <1>a DEF KnownInv
    <3> QED  BY <3>1, <1>b DEF RunnerKnows, Quiet, Submitted, Counted, Own
  <2>2. \A d \in Documents : FileKnown(files[d])'
    BY <1>a DEF KnownInv, FileKnown, Quiet, Submitted
  <2> QED  BY <2>1, <2>2, <1>a DEF KnownInv, Quiet, Submitted
<1>6. CacheInv'
  BY <1>a, <1>b DEF CacheInv, CacheAt, RunnerCaches, Quiet, MyDoc, MyJob
<1>7. ReadyInv'
  BY <1>a, <1>b, <1>f, Points, ZenonT(60) DEF ReadyInv, LocksInv, HoldsLocks, RowBy, RowIsRight
<1>8. BillingInv'
  <2>1. ASSUME NEW q \in Runners  PROVE RunnerPays(q)'
    BY <1>a, <1>b, <1>f, Points DEF BillingInv, RunnerPays, LocksInv, HoldsLocks
  <2>2. ASSUME NEW k \in Jobs  PROVE JobIsPaid(k)'
    BY <1>a, <1>f DEF BillingInv, JobIsPaid, RowBy, RowIsRight
  <2> QED  BY <2>1, <2>2 DEF BillingInv
<1>9. AdminInv'
  <2>1. runner[r].pc \in LockedPoints /\ admin.pc # "idle" => admin.job # j
    BY <1>a, Distinct DEF LocksInv, HoldsLocks
  <2> HIDE DEF j
  <2> QED  BY <2>1, <1>a DEF AdminInv, Quiet, RowBy, j, LocksInv
<1> QED  BY <1>1, <1>2, <1>3, <1>4, <1>5, <1>6, <1>7, <1>8, <1>9 DEF IInv

(* The job's last write. *)
LEMMA WriteLastKeeps ==
  ASSUME IInv, NEW r \in Runners, runner[r].pc \in LockedPoints, NEW row \in JobRow,
         WriteLast(r, row), Quiet, UNCHANGED <<slots, docLock, crashes>>, RowIsRight(row, runner[r].job)
  PROVE  IInv'
<1>1. /\ runner \in [Runners -> RunnerType] /\ runner[r].job \in Jobs
      /\ runner' = [runner EXCEPT ![r] = IdleRunner]
      /\ job' = [job EXCEPT ![runner[r].job] = row]
      /\ jobLock' = [jobLock EXCEPT ![runner[r].job] = Nobody]
      /\ jobLock[runner[r].job] = r
  BY AtWork, Points DEF WriteLast, MyJob, TypeOK, RunnerType, HoldsLocks
<1>2. runner' \in [Runners -> RunnerType] /\ runner'[r].pc = "idle"
      /\ \A q \in Runners : q # r => runner'[q] = runner[q]
  BY <1>1, IdleFields
<1>3. RowBy(r) /\ LocksBy(r) /\ job'[runner[r].job] = row
  BY <1>1, AtWork, Points DEF RowBy, LocksBy
<1> QED  BY <1>1, <1>2, <1>3, AtWork, FreeKeeps, Points

LEMMA ReadyKeeps ==
  ASSUME IInv, NEW r \in Runners, Ready(r)
  PROVE  IInv'
<1>1. runner[r].pc = "ready" /\ runner[r].pc \in LockedPoints /\ runner[r].pc \in ConvertedPoints
  BY DEF Ready, At, LockedPoints, WorkPoints, ConvertedPoints
<1>2. /\ Quiet /\ UNCHANGED <<slots, docLock, crashes>>
      /\ jobLock[runner[r].job] = r
  BY <1>1, AtWork, Points DEF Ready, Quiet, Ledger, World, Others, HoldsLocks
<1> DEFINE row == [runner[r].row EXCEPT !.status = "ready"]
<1>3. /\ row \in JobRow /\ row.status = "ready"
      /\ row.billing = "confirmed" => PaidFor(runner[r].job)
  <2>1. runner[r].row \in JobRow /\ RunnerPays(r)  BY <1>1, AtWork, Points
  <2> QED  BY <1>1, <2>1 DEF JobRow, Terminal, RunnerPays
<1>4. RowIsRight(row, runner[r].job)
  BY <1>1, <1>3, AtWork, Points DEF RowIsRight
<1>5. CASE Write(r, row, "attach") /\ UNCHANGED jobLock
  <2> HIDE DEF row
  <2>1. GoesOn(r, "attach", row) /\ RowBy(r) /\ job'[runner[r].job] = row
    <3>1. "attach" \in RunnerPoints  BY DEF RunnerPoints
    <3> QED  BY <1>1, <1>3, <1>5, <3>1, AtWork, WriteDoes, Points DEF RowBy
  <2>2. LocksBy(r)  BY <1>1, <1>2, <1>5, AtWork, LocksStay, Points DEF Locks
  <2>3. "attach" \in JobPoints \ (WorkPoints \union EarlyPoints)
    BY DEF JobPoints, LockedPoints, DocPoints, WorkPoints, ParsePoints, EarlyPoints
  <2>4. Served(runner[r].job)  BY <1>1, AtWork, Points
  <2> QED  BY <1>1, <1>2, <1>3, <1>4, <1>5, <2>1, <2>2, <2>3, <2>4, AtWork, QuietKeeps, Points
<1>6. CASE WriteLast(r, row)
  <2> HIDE DEF row
  <2> QED  BY <1>1, <1>2, <1>3, <1>4, <1>6, WriteLastKeeps
<1>7. CASE Goto(r, "fail") /\ UNCHANGED <<job, jobLock>>
  <2>1. LocksBy(r)  BY <1>1, <1>2, <1>7, AtWork, LocksStay, Points DEF Locks
  <2>2. "fail" \notin WorkPoints \union EarlyPoints
    BY DEF DocPoints, WorkPoints, ParsePoints, EarlyPoints
  <2> QED  BY <1>1, <1>2, <1>7, <2>1, <2>2, AtWork, GotoKeeps, Points
<1> QED  BY <1>5, <1>6, <1>7 DEF Ready

LEMMA AttachKeeps ==
  ASSUME IInv, NEW r \in Runners, Attach(r)
  PROVE  IInv'
<1>1. runner[r].pc = "attach" /\ runner[r].pc \in LockedPoints
  BY DEF Attach, At, LockedPoints
<1>2. PICK outcome \in Attachments \ {""} :
        WriteLast(r, [runner[r].row EXCEPT !.attachment = outcome])
  BY DEF Attach
<1> DEFINE row == [runner[r].row EXCEPT !.attachment = outcome]
<1>3. Quiet /\ UNCHANGED <<slots, docLock, crashes>>
  BY DEF Attach, Quiet, Ledger, World, Others
<1>4. runner[r].row \in JobRow /\ RowIsRight(runner[r].row, runner[r].job)
  <2>1. runner[r].row = job[runner[r].job]  BY <1>1 DEF IInv, StatusInv
  <2> QED  BY <1>1, <2>1, AtWork, Points
<1>5. row \in JobRow /\ row.status = runner[r].row.status /\ row.billing = runner[r].row.billing
  BY <1>4 DEF JobRow
<1> HIDE DEF row
<1>6. RowIsRight(row, runner[r].job)  BY <1>4, <1>5 DEF RowIsRight
<1> QED  BY <1>1, <1>2, <1>3, <1>5, <1>6, WriteLastKeeps DEF row

LEMMA FailKeeps ==
  ASSUME IInv, NEW r \in Runners, Fail(r)
  PROVE  IInv'
<1>1. runner[r].pc = "fail" /\ runner[r].pc \in LockedPoints
  BY DEF Fail, At, LockedPoints
<1> DEFINE b == Billing(runner[r].job, runner[r].row.billing, FALSE)
           row == [runner[r].row EXCEPT !.status = "failed", !.billing = b]
<1>2. runner[r].row \in JobRow  BY <1>1, AtWork, Points
<1>3. WriteLast(r, row)  BY <1>2 DEF Fail, MyJob, JobRow
<1>4. Quiet /\ UNCHANGED <<slots, docLock, crashes>>
  BY DEF Fail, Quiet, Ledger, World, Others
<1>5. b \in Billings /\ (b = "confirmed" => PaidFor(runner[r].job))
  BY <1>2, BillingIsRight DEF JobRow
<1> HIDE DEF b
<1>6. row \in JobRow /\ row.status = "failed" /\ row.billing = b
  BY <1>2, <1>5 DEF JobRow, Terminal
<1> HIDE DEF row
<1>7. RowIsRight(row, runner[r].job)  BY <1>5, <1>6 DEF RowIsRight
<1> QED  BY <1>1, <1>3, <1>4, <1>6, <1>7, WriteLastKeeps
(* A process stops: its locks go. *)
LEMMA UnlockJobDoes ==
  ASSUME TypeOK, NEW r \in Runners, UnlockJob(r)
  PROVE  /\ jobLock' \in [Jobs -> Runners \union {Nobody, "admin"}]
         /\ \A k \in Jobs : jobLock[k] # r => jobLock'[k] = jobLock[k]
BY DEF TypeOK, UnlockJob

LEMMA StopKeeps ==
  ASSUME IInv, NEW r \in Runners, runner' = [runner EXCEPT ![r] = Stopped(r)],
         UnlockJob(r), UnlockDocument(r), Quiet, UNCHANGED job, slots' \subseteq slots, crashes' \in Nat
  PROVE  IInv'
<1>1. TypeOK /\ runner \in [Runners -> RunnerType]  BY DEF IInv, TypeOK, RunnerType
<1>2. runner' \in [Runners -> RunnerType] /\ runner'[r].pc \in {"down", "idle", "recover"}
      /\ \A q \in Runners : q # r => runner'[q] = runner[q]
  BY <1>1, IdleFields
<1>3. LocksBy(r)  BY <1>1, UnlockJobDoes, UnlockDocumentDoes DEF LocksBy
<1>4. RowBy(r) /\ slots' \subseteq Jobs
  BY <1>1 DEF RowBy, TypeOK
<1>5. runner[r].job \in Jobs => RowIsRight(job'[runner[r].job], runner[r].job)
  BY <1>1 DEF IInv, ReadyInv, BillingInv, JobIsPaid, RowIsRight
<1> QED  BY <1>2, <1>3, <1>4, <1>5, FreeKeeps

LEMMA CrashKeeps ==
  ASSUME IInv, NEW r \in Runners, Crash(r)
  PROVE  IInv'
<1>1. crashes \in Nat /\ crashes' = crashes + 1  BY DEF Crash, IInv, TypeOK
<1>2. crashes' \in Nat  BY <1>1
<1> QED  BY <1>2, StopKeeps DEF Crash, Quiet, Ledger, World

LEMMA AbortKeeps ==
  ASSUME IInv, NEW r \in Runners, Abort(r)
  PROVE  IInv'
<1>1. runner[r].pc = "abort" /\ runner[r].pc \in DocPoints
  BY DEF Abort, At, DocPoints
<1>2. Quiet /\ UNCHANGED job /\ slots' \subseteq slots /\ UnlockDocument(r)
  BY DEF Abort, Quiet, Ledger, World
<1>3. CASE Goto(r, "fail") /\ UNCHANGED <<jobLock, crashes>>
  <2>1. LocksBy(r) /\ jobLock'[runner[r].job] = r
    BY <1>1, <1>2, <1>3, AtWork, Points, UnlockDocumentDoes DEF LocksBy, HoldsLocks
  <2>2. "fail" \notin WorkPoints \union DocPoints \union EarlyPoints
    BY DEF DocPoints, WorkPoints, ParsePoints, EarlyPoints
  <2>3. slots' \subseteq Jobs /\ crashes' \in Nat
    BY <1>1, <1>2, <1>3, AtWork, Points
  <2> QED  BY <1>1, <1>2, <1>3, <2>1, <2>2, <2>3, GotoKeeps, Points
<1>4. CASE /\ crashes' = crashes + 1
           /\ runner' = [runner EXCEPT ![r] = Stopped(r)]
           /\ UnlockJob(r)
  <2>1. crashes \in Nat /\ crashes' = crashes + 1  BY <1>4 DEF IInv, TypeOK
  <2>2. crashes' \in Nat  BY <2>1
  <2> QED  BY <1>2, <1>4, <2>2, StopKeeps
<1> QED  BY <1>3, <1>4 DEF Abort

LEMMA WorkerStartKeeps ==
  ASSUME IInv, WorkerStart
  PROVE  IInv'
<1> DEFINE u == [IdleRunner EXCEPT !.pc = "recover", !.todo = {j \in Jobs : job[j].status \in InFlight}]
<1>1. TypeOK /\ runner \in [Runners -> RunnerType] /\ Worker \in Runners
  BY Distinct DEF IInv, TypeOK, RunnerType
<1>2. u \in RunnerType /\ u.pc = "recover"
  <2>1. IdleRunner \in RunnerType  BY <1>1, IdleFields
  <2> QED  BY <2>1 DEF RunnerType, RunnerPoints
<1>3. runner' = [runner EXCEPT ![Worker] = u]  BY DEF WorkerStart
<1> HIDE DEF u
<1>4. runner' \in [Runners -> RunnerType] /\ runner'[Worker].pc \in {"down", "idle", "recover"}
      /\ \A q \in Runners : q # Worker => runner'[q] = runner[q]
  BY <1>1, <1>2, <1>3
<1>5. Quiet /\ Locks /\ UNCHANGED <<job, slots, crashes>>
  BY DEF WorkerStart, Quiet, Ledger, World, Others
<1>6. LocksBy(Worker) /\ RowBy(Worker) /\ slots' \subseteq Jobs /\ crashes' \in Nat
  BY <1>1, <1>5, LocksStay DEF RowBy, TypeOK
<1>7. runner[Worker].job \in Jobs => RowIsRight(job'[runner[Worker].job], runner[Worker].job)
  BY <1>5 DEF IInv, ReadyInv, BillingInv, JobIsPaid, RowIsRight
<1> QED  BY <1>1, <1>4, <1>5, <1>6, <1>7, FreeKeeps

LEMMA RecoveredKeeps ==
  ASSUME IInv, Recovered
  PROVE  IInv'
<1>1. TypeOK /\ Worker \in Runners
  BY Distinct DEF IInv
<1>2. GoesOn(Worker, "idle", runner[Worker].row)
  BY <1>1, GotoDoes DEF Recovered, RunnerPoints
<1>3. Quiet /\ Locks /\ UNCHANGED <<job, slots, crashes>>
  BY DEF Recovered, Quiet, Ledger, World, Others
<1>4. LocksBy(Worker) /\ RowBy(Worker) /\ slots' \subseteq Jobs /\ crashes' \in Nat
  BY <1>1, <1>3, LocksStay DEF RowBy, TypeOK
<1>5. runner[Worker].job \in Jobs => RowIsRight(job'[runner[Worker].job], runner[Worker].job)
  BY <1>3 DEF IInv, ReadyInv, BillingInv, JobIsPaid, RowIsRight
<1> QED  BY <1>1, <1>2, <1>3, <1>4, <1>5, FreeKeeps DEF GoesOn, Becomes

LEMMA ClaimKeeps ==
  ASSUME IInv, NEW r \in Runners, NEW j \in Jobs, Claim(r, j)
  PROVE  IInv'
<1> DEFINE row == [job[j] EXCEPT !.status = "parsing"]
           u == [IdleRunner EXCEPT !.pc = "claimed", !.job = j, !.row = row]
<1>a. /\ TypeOK /\ LocksInv /\ StatusInv /\ SentInv /\ KnownInv /\ CacheInv /\ ReadyInv
      /\ BillingInv /\ AdminInv
      /\ runner \in [Runners -> RunnerType] /\ job \in [Jobs -> JobRow]
      /\ runner[r].pc = "idle" /\ job[j].status = "queued"
      /\ job' = [job EXCEPT ![j] = row] /\ runner' = [runner EXCEPT ![r] = u]
      /\ Quiet /\ UNCHANGED <<slots, jobLock, docLock, crashes>>
  BY DEF IInv, TypeOK, RunnerType, Claim, At, Quiet, Ledger, World, Locks, Others
<1>b. row \in JobRow /\ row.status = "parsing"  BY <1>a DEF JobRow, InFlight
<1> HIDE DEF row
<1>c. u \in RunnerType /\ u.pc = "claimed" /\ u.job = j /\ u.log = {}
  <2>1. IdleRunner \in RunnerType /\ IdleRunner.log = {}  BY IdleFields DEF IdleRunner
  <2> QED  BY <2>1, <1>b DEF RunnerType, RunnerPoints
<1> HIDE DEF u
<1>d. /\ runner' \in [Runners -> RunnerType]
      /\ runner'[r].pc = "claimed" /\ runner'[r].job = j /\ runner'[r].log = {}
      /\ \A q \in Runners : q # r => runner'[q] = runner[q]
      /\ job' \in [Jobs -> JobRow] /\ job'[j] = row
      /\ \A k \in Jobs : k # j => job'[k] = job[k]
  BY <1>a, <1>b, <1>c
<1>e. "claimed" \notin LockedPoints \union WorkPoints \union DocPoints \union ParsePoints \union ConvertedPoints
  BY DEF LockedPoints, WorkPoints, DocPoints, ParsePoints, ConvertedPoints
<1>f. \A k \in Jobs : (Served(k) => Served(k)') /\ (PaidFor(k) => PaidFor(k)')
  BY <1>a DEF Quiet, Served, PaidFor, Counted, Own
<1>1. TypeOK'
  BY <1>a, <1>d DEF TypeOK, RunnerType, Quiet
<1>2. LocksInv'
  <2>1. ASSUME NEW q \in Runners  PROVE HoldsLocks(q)'
    <3>1. HoldsLocks(q)  BY <1>a DEF LocksInv
    <3> QED  BY <3>1, <1>a, <1>d, <1>e DEF HoldsLocks, MyDoc, MyJob
  <2> QED  BY <2>1, <1>a DEF LocksInv, Quiet
<1>3. StatusInv'
  <2>1. ASSUME NEW q \in Runners, q # r
        PROVE  /\ runner[q].pc \in WorkPoints => job'[runner[q].job].status \in InFlight
               /\ runner[q].pc = "attach" => job'[runner[q].job] = runner[q].row /\ runner[q].row.status = "ready"
    <3>1. HoldsLocks(q) /\ (runner[q].pc \in WorkPoints => job[runner[q].job].status \in InFlight)
          /\ (runner[q].pc = "attach" => job[runner[q].job] = runner[q].row /\ runner[q].row.status = "ready")
      BY <1>a DEF LocksInv, StatusInv
    <3>2. runner[q].pc \in WorkPoints \union {"attach"} => runner[q].job \in Jobs \ {j}
      BY <3>1, <1>a, Points DEF HoldsLocks, InFlight
    <3> QED  BY <3>1, <3>2, <1>d
  <2> QED  BY <2>1, <1>d, <1>e DEF StatusInv
<1>4. SentInv'
  BY <1>a, <1>d DEF SentInv, SentAt, RunnerSends, Me, MyJob, Quiet
<1>5. KnownInv'
  <2>1. ASSUME NEW q \in Runners  PROVE RunnerKnows(q)'
    <3>1. RunnerKnows(q)  BY <1>a DEF KnownInv
    <3> QED  BY <3>1, <1>a, <1>d, <1>e DEF RunnerKnows, Quiet, Submitted, Counted, Own
  <2>2. \A d \in Documents : FileKnown(files[d])'
    BY <1>a DEF KnownInv, FileKnown, Quiet, Submitted
  <2> QED  BY <2>1, <2>2, <1>a DEF KnownInv, Quiet, Submitted
<1>6. CacheInv'
  BY <1>a, <1>d, <1>e DEF CacheInv, CacheAt, RunnerCaches, Quiet, MyDoc, MyJob
<1>7. ReadyInv'
  BY <1>a, <1>b, <1>d, <1>e, <1>f, Points, ZenonT(60) DEF ReadyInv, LocksInv, HoldsLocks
<1>8. BillingInv'
  <2>1. ASSUME NEW q \in Runners  PROVE RunnerPays(q)'
    BY <1>a, <1>d, <1>f, Points DEF BillingInv, RunnerPays, LocksInv, HoldsLocks
  <2>2. ASSUME NEW k \in Jobs  PROVE JobIsPaid(k)'
    BY <1>a, <1>b, <1>d, <1>f DEF BillingInv, JobIsPaid, Terminal
  <2> QED  BY <2>1, <2>2 DEF BillingInv
<1>9. AdminInv'
  <2>1. admin' = admin /\ (admin.pc # "idle" => admin.job \in Jobs)  BY <1>a DEF Quiet, LocksInv
  <2>2. CASE admin.pc # "idle" /\ admin.job = j
    <3>1. job[j] = admin.row  BY <2>2, <1>a DEF AdminInv, JobRow
    <3> QED  BY <3>1, <2>1, <2>2, <1>a, <1>d DEF AdminInv, row
  <2>3. CASE ~(admin.pc # "idle" /\ admin.job = j)
    BY <2>1, <2>3, <1>a, <1>d DEF AdminInv
  <2> QED  BY <2>2, <2>3
<1> QED  BY <1>1, <1>2, <1>3, <1>4, <1>5, <1>6, <1>7, <1>8, <1>9 DEF IInv
-----------------------------------------------------------------------------
(* The steps under the document's lock that change the ledger, the files or *)
(* the provider: on the runner's own part, job and document alone.          *)

FileType == [text : BOOLEAN, sidecar : [Parts -> Remotes \union {NoRemote}],
             cached : BOOLEAN, made : SUBSET Remotes, payers : SUBSET Remotes]
RemoteType == [state : {"none", "running"} \union Ends, usage : BOOLEAN, sent : Nat]
StoreTypeOK ==
  /\ attempt \in [Remotes -> AttemptStates] /\ adopted \in [Jobs -> SUBSET Remotes]
  /\ noted \in [Remotes -> [status : {"", "running", "terminal"}, paid : BOOLEAN]]
  /\ files \in [Documents -> FileType]
  /\ remote \in [Remotes -> RemoteType]
(* Nothing is taken back, and nothing of others is touched. *)
OnlyOwn(r) ==
  /\ \A m \in Remotes : m # Me(r) => attempt'[m] = attempt[m] /\ remote'[m] = remote[m]
  /\ \A m \in Remotes : Submitted(m) => Submitted(m)'
  /\ \A k \in Jobs : adopted[k] \subseteq adopted'[k] /\ (k # runner[r].job => adopted'[k] = adopted[k])
  /\ \A m \in Remotes : noted[m].paid => noted'[m].paid
  /\ \A d \in Documents :
       /\ d # MyDoc(r) => files'[d] = files[d]
       /\ files[d].cached => files'[d].cached /\ files'[d].made = files[d].made
(* What it leaves is right. *)
StoreIsRight(r) ==
  /\ \A m \in Remotes : SentAt(m)'
  /\ \A k \in Jobs : \A m \in adopted'[k] : Submitted(m)'
  /\ \A d \in Documents : FileKnown(files[d])' /\ CacheAt(d)'
  /\ RunnerSends(r)' /\ RunnerKnows(r)' /\ RunnerCaches(r)'

LEMMA OnlyOwnKeeps ==
  ASSUME IInv, NEW r \in Runners, OnlyOwn(r), runner[r].job \in Jobs
  PROVE  /\ \A k \in Jobs : Served(k) => Served(k)'
         /\ \A k \in Jobs : k # runner[r].job /\ PaidFor(k) => PaidFor(k)'
         /\ \A k \in Jobs, m \in Remotes : Submitted(m) /\ m \in Counted(k) => Submitted(m)' /\ m \in Counted(k)'
<1>1. TypeOK /\ KnownInv  BY DEF IInv
<1>2. ASSUME NEW k \in Jobs, NEW m \in Remotes, Submitted(m), m \in Counted(k)
      PROVE  Submitted(m)' /\ m \in Counted(k)'
  BY <1>2 DEF OnlyOwn, Submitted, Counted, Own
<1>3. ASSUME NEW k \in Jobs, Served(k)  PROVE Served(k)'
  <2> DEFINE d == DocumentOf[k]
  <2>1. d \in Documents  BY Distinct
  <2>2. /\ files[d].cached /\ (d \in Public => files[d].made \subseteq Counted(k))
        /\ files[d].made \subseteq Remotes /\ \A m \in files[d].made : Submitted(m)
    BY <1>1, <1>3, <2>1 DEF Served, KnownInv, FileKnown, TypeOK
  <2>3. files'[d].cached /\ files'[d].made = files[d].made  BY <2>1, <2>2 DEF OnlyOwn
  <2>4. d \in Public => \A m \in files'[d].made : m \in Counted(k)'
    BY <2>2, <2>3, <1>2
  <2> QED  BY <2>3, <2>4 DEF Served
<1>4. ASSUME NEW k \in Jobs, k # runner[r].job, PaidFor(k)  PROVE PaidFor(k)'
  <2>1. \A m \in Remotes : m[1] = k => attempt'[m] = attempt[m]
    <3>1. Me(r)[1] = runner[r].job  BY DEF Me, MyJob
    <3> QED  BY <3>1, <1>4 DEF OnlyOwn
  <2>2. adopted'[k] = adopted[k] /\ adopted[k] \subseteq Remotes  BY <1>1, <1>4 DEF OnlyOwn, TypeOK
  <2>3. Own(k)' = Own(k) /\ Counted(k)' = Counted(k)  BY <2>1, <2>2 DEF Own, Counted
  <2>4. Counted(k) \subseteq Remotes  BY <2>2 DEF Counted, Own
  <2> QED  BY <1>4, <2>1, <2>3, <2>4 DEF PaidFor, OnlyOwn, Own
<1> QED  BY <1>2, <1>3, <1>4

LEMMA ParseKeeps ==
  ASSUME IInv, NEW r \in Runners, runner[r].pc \in DocPoints, NEW pc \in DocPoints,
         NEW part, NEW m, NEW log,
         Becomes(r, pc, runner[r].job, runner[r].row, part, m, log),
         UNCHANGED <<job, slots, jobLock, docLock, admin, crashes>>,
         StoreTypeOK', OnlyOwn(r), StoreIsRight(r),
         pc = "release" => Served(runner[r].job)'
  PROVE  IInv'
<1> DEFINE j == runner[r].job
<1>a. /\ TypeOK /\ LocksInv /\ StatusInv /\ SentInv /\ KnownInv /\ CacheInv /\ ReadyInv
      /\ BillingInv /\ AdminInv /\ HoldsLocks(r) /\ j \in Jobs /\ job[j].status \in InFlight
      /\ runner[r].part \in Parts
  BY AtWork, Points DEF IInv, RunnerType
<1>b. /\ pc \notin {"build", "ready", "attach"} /\ (pc \in ConvertedPoints => pc = "release")
      /\ pc \in WorkPoints /\ pc \in LockedPoints /\ pc \in JobPoints
      /\ runner[r].pc \in LockedPoints
  BY Points DEF DocPoints, ParsePoints, ConvertedPoints
<1>c. /\ runner' \in [Runners -> RunnerType]
      /\ runner'[r].pc = pc /\ runner'[r].job = j
      /\ \A q \in Runners : q # r => runner'[q] = runner[q]
  BY DEF Becomes
<1>d. \A q \in Runners : q # r =>
        /\ runner[q].pc \in JobPoints => runner[q].job \in Jobs
        /\ runner[q].pc \in LockedPoints => runner[q].job # j
        /\ runner[q].pc \in DocPoints => MyDoc(q) # MyDoc(r) /\ MyDoc(q) \in Documents
  BY <1>a, <1>b, Alone, Points, Distinct DEF LocksInv, HoldsLocks, MyDoc, MyJob
<1> HIDE DEF j
<1>1. TypeOK'
  BY <1>a, <1>c DEF TypeOK, RunnerType, StoreTypeOK, FileType, RemoteType
<1>2. LocksInv'
  <2>1. ASSUME NEW q \in Runners  PROVE HoldsLocks(q)'
    BY <1>a, <1>b, <1>c DEF LocksInv, HoldsLocks, MyDoc, MyJob, j
  <2> QED  BY <2>1, <1>a DEF LocksInv
<1>3. StatusInv'
  BY <1>a, <1>b, <1>c DEF StatusInv
<1>4. SentInv'
  <2>1. ASSUME NEW q \in Runners, q # r  PROVE RunnerSends(q)'
    <3>1. RunnerSends(q) /\ runner'[q] = runner[q] /\ Me(q)' = Me(q)
      BY <1>a, <1>c, <2>1 DEF SentInv, Me, MyJob
    <3>2. CASE runner[q].pc \in {"create", "record", "sidecar"}
      <4>1. Me(q) # Me(r)  BY <3>2, <2>1, <1>d, Points DEF Me, MyJob, j
      <4>2. Me(q) \in Remotes
        <5>1. runner[q].part \in Parts  BY <1>a DEF TypeOK
        <5>2. runner[q].job \in Jobs  BY <3>2, <2>1, <1>d, Points
        <5> QED  BY <5>1, <5>2 DEF Me, MyJob, Remotes
      <4>3. attempt'[Me(q)] = attempt[Me(q)] /\ remote'[Me(q)] = remote[Me(q)]
        BY <4>1, <4>2 DEF OnlyOwn
      <4> QED  BY <3>1, <4>3 DEF RunnerSends
    <3>3. CASE runner[q].pc \notin {"create", "record", "sidecar"}
      BY <3>1, <3>3 DEF RunnerSends
    <3> QED  BY <3>2, <3>3
  <2> QED  BY <2>1 DEF SentInv, StoreIsRight
<1>5. KnownInv'
  <2>1. ASSUME NEW q \in Runners, q # r  PROVE RunnerKnows(q)'
    <3>1. RunnerKnows(q) /\ runner'[q] = runner[q]  BY <1>a, <1>c, <2>1 DEF KnownInv
    <3>2. runner[q].log \subseteq Remotes /\ runner[q].remote \in Remotes \union {NoRemote}
      BY <1>a DEF TypeOK
    <3>3. runner[q].pc \in ParsePoints => runner[q].job \in Jobs  BY <1>d, <2>1, Points
    <3>4. \A k \in Jobs : Counted(k) \subseteq Remotes  BY <1>a DEF Counted, Own, TypeOK
    <3>5. runner[q].pc = "poll" => runner[q].remote \in Remotes
      BY <3>1, <3>3, <3>4, Points DEF RunnerKnows
    <3>6. ASSUME NEW k \in Jobs, NEW n \in Remotes, Submitted(n), n \in Counted(k)
          PROVE  Submitted(n)' /\ n \in Counted(k)'
      BY <3>6, <1>a, OnlyOwnKeeps DEF j
    <3>7. CASE runner[q].pc \in ParsePoints
      <4>1. PICK k \in Jobs : k = runner[q].job  BY <3>3, <3>7
      <4>2. \A n \in runner[q].log : Submitted(n)' /\ n \in Counted(k)'
        BY <3>1, <3>2, <3>6, <3>7, <4>1 DEF RunnerKnows
      <4>3. runner[q].pc = "poll" => Submitted(runner[q].remote)' /\ runner[q].remote \in Counted(k)'
        BY <3>1, <3>5, <3>6, <4>1 DEF RunnerKnows, Submitted
      <4>4. runner[q].pc \notin EarlyPoints  BY <3>7 DEF ParsePoints, EarlyPoints
      <4> QED  BY <3>1, <4>1, <4>2, <4>3, <4>4 DEF RunnerKnows, Submitted, Counted, Own
    <3>8. CASE runner[q].pc \notin ParsePoints
      BY <3>1, <3>8, Points DEF RunnerKnows
    <3> QED  BY <3>7, <3>8
  <2> QED  BY <2>1 DEF KnownInv, StoreIsRight
<1>6. CacheInv'
  <2>1. ASSUME NEW q \in Runners, q # r  PROVE RunnerCaches(q)'
    <3>1. RunnerCaches(q) /\ runner'[q] = runner[q] /\ MyDoc(q)' = MyDoc(q)
      BY <1>a, <1>c, <2>1 DEF CacheInv, MyDoc, MyJob
    <3>2. runner[q].pc \in DocPoints => files'[MyDoc(q)] = files[MyDoc(q)]
      BY <1>d, <2>1 DEF OnlyOwn
    <3> QED  BY <3>1, <3>2, Points DEF RunnerCaches
  <2> QED  BY <2>1 DEF CacheInv, StoreIsRight
<1>7. ReadyInv'
  <2>1. \A k \in Jobs : Served(k) => Served(k)'  BY <1>a, OnlyOwnKeeps DEF j
  <2>2. ASSUME NEW q \in Runners, runner'[q].pc \in ConvertedPoints  PROVE Served(runner[q].job)'
    <3>1. CASE q = r  BY <3>1, <2>2, <1>a, <1>b, <1>c DEF j
    <3>2. CASE q # r  BY <3>2, <2>1, <2>2, <1>a, <1>c, <1>d, Points DEF ReadyInv, Served
    <3> QED  BY <3>1, <3>2
  <2> QED  BY <2>1, <2>2, <1>a, <1>c DEF ReadyInv, Served, j
<1>8. BillingInv'
  <2>1. \A k \in Jobs : k # j /\ PaidFor(k) => PaidFor(k)'  BY <1>a, OnlyOwnKeeps DEF j
  <2>2. ASSUME NEW q \in Runners  PROVE RunnerPays(q)'
    <3>1. CASE q = r  BY <3>1, <1>b, <1>c DEF RunnerPays
    <3>2. CASE q # r  BY <3>2, <2>1, <1>a, <1>c, <1>d, Points DEF BillingInv, RunnerPays
    <3> QED  BY <3>1, <3>2
  <2>3. ASSUME NEW k \in Jobs  PROVE JobIsPaid(k)'
    BY <2>1, <1>a DEF BillingInv, JobIsPaid, InFlight, Terminal
  <2> QED  BY <2>2, <2>3 DEF BillingInv
<1>9. AdminInv'
  BY <1>a DEF AdminInv
<1> QED  BY <1>1, <1>2, <1>3, <1>4, <1>5, <1>6, <1>7, <1>8, <1>9 DEF IInv
(* One field of a document's files is written. *)
LEMMA FileUpdates ==
  ASSUME NEW f \in FileType
  PROVE  /\ \A c \in BOOLEAN :
              LET g == [f EXCEPT !.cached = c] IN
              /\ g \in FileType /\ g.cached = c /\ g.made = f.made /\ g.payers = f.payers
              /\ g.sidecar = f.sidecar
         /\ \A ms \in SUBSET Remotes :
              LET g == [f EXCEPT !.made = ms] IN
              /\ g \in FileType /\ g.cached = f.cached /\ g.made = ms /\ g.payers = f.payers
              /\ g.sidecar = f.sidecar
         /\ \A ms \in SUBSET Remotes :
              LET g == [f EXCEPT !.payers = ms] IN
              /\ g \in FileType /\ g.cached = f.cached /\ g.made = f.made /\ g.payers = ms
              /\ g.sidecar = f.sidecar
         /\ \A p \in Parts, m \in Remotes :
              LET g == [f EXCEPT !.sidecar[p] = m] IN
              /\ g \in FileType /\ g.cached = f.cached /\ g.made = f.made /\ g.payers = f.payers
              /\ g.sidecar = [f.sidecar EXCEPT ![p] = m]
<1>1. ASSUME NEW c \in BOOLEAN
      PROVE  LET g == [f EXCEPT !.cached = c] IN
             /\ g \in FileType /\ g.cached = c /\ g.made = f.made /\ g.payers = f.payers
             /\ g.sidecar = f.sidecar
  BY DEF FileType
<1>2. ASSUME NEW ms \in SUBSET Remotes
      PROVE  LET g == [f EXCEPT !.made = ms] IN
             /\ g \in FileType /\ g.cached = f.cached /\ g.made = ms /\ g.payers = f.payers
             /\ g.sidecar = f.sidecar
  BY DEF FileType
<1>3. ASSUME NEW ms \in SUBSET Remotes
      PROVE  LET g == [f EXCEPT !.payers = ms] IN
             /\ g \in FileType /\ g.cached = f.cached /\ g.made = f.made /\ g.payers = ms
             /\ g.sidecar = f.sidecar
  BY DEF FileType
<1>4. ASSUME NEW p \in Parts, NEW m \in Remotes
      PROVE  LET g == [f EXCEPT !.sidecar[p] = m] IN
             /\ g \in FileType /\ g.cached = f.cached /\ g.made = f.made /\ g.payers = f.payers
             /\ g.sidecar = [f.sidecar EXCEPT ![p] = m]
  BY DEF FileType
<1> QED  BY <1>1, <1>2, <1>3, <1>4

(* What the invariant says of the stores, and of a runner that parses. *)
LEMMA AtStore ==
  ASSUME IInv, NEW r \in Runners, runner[r].pc \in DocPoints
  PROVE  /\ TypeOK /\ StoreTypeOK /\ runner[r] \in RunnerType
         /\ runner[r].job \in Jobs /\ Me(r) \in Remotes /\ MyDoc(r) \in Documents
         /\ runner[r].part \in Parts /\ Me(r) = <<runner[r].job, runner[r].part>>
         /\ \A m \in Remotes : SentAt(m)
         /\ \A k \in Jobs : adopted[k] \subseteq Remotes /\ \A m \in adopted[k] : Submitted(m)
         /\ \A d \in Documents : FileKnown(files[d]) /\ CacheAt(d)
         /\ RunnerSends(r) /\ RunnerKnows(r) /\ RunnerCaches(r)
<1>1. TypeOK /\ runner[r] \in RunnerType /\ runner[r].job \in Jobs /\ MyDoc(r) \in Documents /\ RunnerKnows(r)
  BY AtWork, Points
<1>2. runner[r].part \in Parts  BY <1>1 DEF RunnerType
<1>3. Me(r) \in Remotes /\ Me(r) = <<runner[r].job, runner[r].part>>
  BY <1>1, <1>2 DEF Me, MyJob, Remotes
<1>4. SentInv /\ KnownInv /\ CacheInv  BY DEF IInv
<1>5. StoreTypeOK  BY <1>1 DEF TypeOK, StoreTypeOK, FileType, RemoteType
<1> QED  BY <1>1, <1>2, <1>3, <1>4, <1>5 DEF SentInv, KnownInv, CacheInv, StoreTypeOK

(* A runner that only turns a part of the document over to another point. *)
LEMMA TurnDoes ==
  ASSUME TypeOK, NEW r \in Runners, NEW pc \in RunnerPoints, NEW part \in Parts,
         NEW m \in Remotes \union {NoRemote}, NEW log \in SUBSET Remotes,
         runner' = [runner EXCEPT ![r] =
           [runner[r] EXCEPT !.pc = pc, !.part = part, !.remote = m, !.log = log]]
  PROVE  Becomes(r, pc, runner[r].job, runner[r].row, part, m, log)
<1>1. runner \in [Runners -> RunnerType]  BY DEF TypeOK, RunnerType
<1> DEFINE u == [runner[r] EXCEPT !.pc = pc, !.part = part, !.remote = m, !.log = log]
<1>2. u \in RunnerType  BY <1>1 DEF RunnerType
<1>3. /\ u.pc = pc /\ u.job = runner[r].job /\ u.row = runner[r].row
      /\ u.part = part /\ u.remote = m /\ u.log = log
  BY <1>1 DEF RunnerType
<1> HIDE DEF u
<1>4. runner' = [runner EXCEPT ![r] = u]  BY DEF u
<1> QED  BY <1>1, <1>2, <1>3, <1>4 DEF Becomes

LEMMA ConvertKeeps ==
  ASSUME IInv, NEW r \in Runners, Convert(r)
  PROVE  IInv'
<1> DEFINE j == runner[r].job
           d == MyDoc(r)
<1>1. runner[r].pc = "convert" /\ runner[r].pc \in DocPoints /\ runner[r].pc \in EarlyPoints
  BY DEF Convert, At, DocPoints, EarlyPoints
<1>2. UNCHANGED <<job, attempt, noted, slots, remote, jobLock, docLock, admin, crashes>>
  BY DEF Convert, Locks, Others
<1>3. /\ TypeOK /\ StoreTypeOK /\ j \in Jobs /\ d \in Documents /\ d = DocumentOf[j]
      /\ HoldsLocks(r) /\ runner[r].log = {}
  BY <1>1, AtStore, AtWork, Points DEF RunnerKnows, MyDoc, MyJob
<1>4. CASE /\ files[d].cached
           /\ Adopt(j, IF d \in Public THEN files[d].payers ELSE {})
           /\ Goto(r, "release") /\ UNCHANGED files
  <2> DEFINE ms == IF d \in Public THEN files[d].payers ELSE {}
  <2>1. ms \subseteq Remotes /\ \A m \in ms : Submitted(m)
    BY <1>1, <1>3, AtStore DEF FileKnown, StoreTypeOK, FileType, RemoteType
  <2>2. files[d].made \subseteq Remotes /\ (d \in Public => files[d].made \subseteq ms)
    BY <1>1, <1>3, <1>4, AtStore DEF CacheAt, StoreTypeOK, FileType, RemoteType
  <2>3. \A m \in files[d].made : Submitted(m)  BY <1>1, <1>3, AtStore DEF FileKnown
  <2>4. adopted' = [adopted EXCEPT ![j] = @ \union {m \in ms : m[1] # j}]
    BY <1>4 DEF Adopt
  <2> HIDE DEF ms
  <2>5. /\ adopted' \in [Jobs -> SUBSET Remotes]
        /\ \A k \in Jobs : adopted[k] \subseteq adopted'[k] /\ (k # j => adopted'[k] = adopted[k])
        /\ adopted'[j] = adopted[j] \union {m \in ms : m[1] # j}
    BY <1>3, <2>1, <2>4 DEF StoreTypeOK
  <2>6. GoesOn(r, "release", runner[r].row)  BY <1>3, <1>4, GotoDoes DEF RunnerPoints
  <2>7. StoreTypeOK' /\ OnlyOwn(r)
    BY <1>2, <1>3, <1>4, <2>5 DEF StoreTypeOK, OnlyOwn, Submitted
  <2>8. StoreIsRight(r)
    <3>1. \A k \in Jobs : \A m \in adopted'[k] : Submitted(m)'
      BY <1>1, <1>2, <2>1, <2>5, AtStore DEF Submitted
    <3>2. RunnerSends(r)' /\ RunnerKnows(r)' /\ RunnerCaches(r)'
      BY <2>6 DEF GoesOn, Becomes, RunnerSends, RunnerKnows, RunnerCaches, ParsePoints, EarlyPoints
    <3> QED
      BY <1>1, <1>2, <1>4, <3>1, <3>2, AtStore DEF StoreIsRight, SentAt, FileKnown, CacheAt, Submitted
  <2>9. Served(j)'
    <3>1. d \in Public => \A m \in files[d].made : m \in Counted(j)'
      <4> SUFFICES ASSUME d \in Public, NEW m \in files[d].made  PROVE m \in Counted(j)'
        OBVIOUS
      <4>1. m \in ms /\ m \in Remotes /\ attempt[m] = "submitted"
        BY <2>2, <2>3 DEF Submitted
      <4>2. runner'[r].job = j  BY <2>6 DEF GoesOn, Becomes
      <4>3. CASE m[1] # j  BY <4>1, <4>2, <4>3, <2>5 DEF Counted
      <4>4. CASE m[1] = j  BY <4>1, <4>2, <4>4, <1>2 DEF Counted, Own
      <4> QED  BY <4>3, <4>4
    <3>2. runner'[r].job = j  BY <2>6 DEF GoesOn, Becomes
    <3> QED  BY <3>1, <3>2, <1>3, <1>4 DEF Served
  <2>10. "release" \in DocPoints  BY DEF DocPoints
  <2> QED
    BY <1>1, <1>2, <2>6, <2>7, <2>8, <2>9, <2>10, ParseKeeps DEF GoesOn
<1>5. CASE /\ ~files[d].cached /\ UNCHANGED adopted /\ files' = [files EXCEPT ![d].cached = TRUE]
           /\ Goto(r, "release")
  <2>1. GoesOn(r, "release", runner[r].row)  BY <1>3, <1>5, GotoDoes DEF RunnerPoints
  <2>2. /\ files[d].made = {} /\ files \in [Documents -> FileType]
    BY <1>1, <1>3, <1>5, AtStore DEF CacheAt, StoreTypeOK
  <2>3. /\ \A e \in Documents : e # d => files'[e] = files[e]
        /\ files'[d].cached /\ files'[d].made = {} /\ files'[d].payers = files[d].payers
        /\ files'[d].sidecar = files[d].sidecar
    BY <1>3, <1>5, <2>2 DEF FileType
  <2>4. StoreTypeOK'
    <3> DEFINE f == [files[d] EXCEPT !.cached = TRUE]
    <3>1. f \in FileType  BY <1>3, <2>2, FileUpdates
    <3>2. files' = [files EXCEPT ![d] = f]  BY <1>5
    <3> HIDE DEF f
    <3>3. files' \in [Documents -> FileType]  BY <3>1, <3>2, <2>2
    <3> QED  BY <3>3, <1>2, <1>3, <1>5 DEF StoreTypeOK
  <2>5. OnlyOwn(r)
    BY <1>2, <1>5, <2>2, <2>3 DEF OnlyOwn, Submitted
  <2>6. StoreIsRight(r)
    <3>1. RunnerSends(r)' /\ RunnerKnows(r)' /\ RunnerCaches(r)'
      BY <2>1 DEF GoesOn, Becomes, RunnerSends, RunnerKnows, RunnerCaches, ParsePoints, EarlyPoints
    <3>2. \A e \in Documents : FileKnown(files[e])' /\ CacheAt(e)'
      BY <1>1, <1>2, <2>2, <2>3, AtStore DEF FileKnown, CacheAt, Submitted
    <3> QED
      BY <1>1, <1>2, <1>5, <3>1, <3>2, AtStore DEF StoreIsRight, SentAt, Submitted
  <2>7. Served(j)'  BY <1>3, <2>1, <2>3 DEF Served, GoesOn, Becomes
  <2>8. "release" \in DocPoints  BY DEF DocPoints
  <2> QED
    BY <1>1, <1>2, <2>1, <2>4, <2>5, <2>6, <2>7, <2>8, ParseKeeps DEF GoesOn
<1>6. CASE ~files[d].cached /\ UNCHANGED <<adopted, files>> /\ Goto(r, "lookup")
  <2>1. GoesOn(r, "lookup", runner[r].row)  BY <1>3, <1>6, GotoDoes DEF RunnerPoints
  <2>2. Quiet /\ LocksBy(r) /\ RowBy(r) /\ RowIsRight(job'[j], j) /\ slots' \subseteq Jobs /\ crashes' \in Nat
    BY <1>1, <1>2, <1>3, <1>6, AtWork, LocksStay, Points DEF Quiet, Locks, RowBy
  <2>3. "lookup" \in ParsePoints /\ "lookup" \notin ConvertedPoints \union EarlyPoints
    BY DEF ParsePoints, ConvertedPoints, EarlyPoints
  <2> QED
    BY <1>1, <1>2, <1>3, <1>6, <2>1, <2>2, <2>3, AtWork, QuietKeeps, Points DEF HoldsLocks
<1>7. CASE UNCHANGED <<adopted, files>> /\ Goto(r, "abort")
  <2>1. Quiet /\ LocksBy(r) /\ slots' \subseteq Jobs /\ crashes' \in Nat
    BY <1>1, <1>2, <1>3, <1>7, AtWork, LocksStay, Points DEF Quiet, Locks
  <2>2. "abort" \notin EarlyPoints  BY DEF EarlyPoints
  <2> QED
    BY <1>1, <1>2, <1>3, <1>7, <2>1, <2>2, GotoKeeps, Points DEF HoldsLocks
<1> QED  BY <1>4, <1>5, <1>6, <1>7 DEF Convert, MyJob
(* The runner waits for a remote parse its job counts. *)
LEMMA PollForDoes ==
  ASSUME TypeOK, NEW r \in Runners, NEW m \in Remotes, PollFor(r, m)
  PROVE  Becomes(r, "poll", runner[r].job, runner[r].row, runner[r].part, m, runner[r].log)
<1>1. runner \in [Runners -> RunnerType] /\ "poll" \in RunnerPoints
  BY DEF TypeOK, RunnerType, RunnerPoints
<1> DEFINE u == [runner[r] EXCEPT !.pc = "poll", !.remote = m]
<1>2. u \in RunnerType  BY <1>1, ZenonT(60) DEF RunnerType
<1>3. /\ u.pc = "poll" /\ u.job = runner[r].job /\ u.row = runner[r].row
      /\ u.part = runner[r].part /\ u.remote = m /\ u.log = runner[r].log
  BY <1>1 DEF RunnerType
<1>4. runner' = [runner EXCEPT ![r] = u]  BY <1>1 DEF PollFor
<1> HIDE DEF u
<1> QED  BY <1>1, <1>2, <1>3, <1>4 DEF Becomes

(* A parse goes on for the same part: its results so far stay its job's. *)
LEMMA LogStays ==
  ASSUME IInv, NEW r \in Runners, runner[r].pc \in ParsePoints, OnlyOwn(r),
         NEW pc \in ParsePoints \ {"poll"}, NEW part, NEW m,
         Becomes(r, pc, runner[r].job, runner[r].row, part, m, runner[r].log)
  PROVE  RunnerKnows(r)'
<1>1. /\ runner[r].job \in Jobs /\ runner[r].log \subseteq Remotes
      /\ \A n \in runner[r].log : Submitted(n) /\ n \in Counted(runner[r].job)
  BY AtStore, Points DEF RunnerType, RunnerKnows
<1>2. PICK k \in Jobs : k = runner[r].job  BY <1>1
<1>3. \A n \in runner[r].log : Submitted(n)' /\ n \in Counted(k)'
  BY <1>1, <1>2, OnlyOwnKeeps
<1>4. pc \notin EarlyPoints  BY DEF ParsePoints, EarlyPoints
<1> QED  BY <1>2, <1>3, <1>4 DEF Becomes, RunnerKnows, Submitted, Counted, Own

LEMMA LogStaysInPoll ==
  ASSUME IInv, NEW r \in Runners, runner[r].pc \in ParsePoints, OnlyOwn(r),
         NEW m \in Remotes, Submitted(m)', m \in adopted'[runner[r].job] \/ m[1] = runner[r].job,
         m[2] = runner[r].part,
         Becomes(r, "poll", runner[r].job, runner[r].row, runner[r].part, m, runner[r].log)
  PROVE  RunnerKnows(r)'
<1>1. /\ runner[r].job \in Jobs /\ runner[r].log \subseteq Remotes
      /\ \A n \in runner[r].log : Submitted(n) /\ n \in Counted(runner[r].job)
  BY AtStore, Points DEF RunnerType, RunnerKnows
<1>2. PICK k \in Jobs : k = runner[r].job  BY <1>1
<1>3. \A n \in runner[r].log : Submitted(n)' /\ n \in Counted(k)'
  BY <1>1, <1>2, OnlyOwnKeeps
<1>4. "poll" \notin EarlyPoints  BY DEF EarlyPoints
<1>5. m \in Counted(k)'  BY <1>2 DEF Submitted, Counted, Own
<1> QED  BY <1>2, <1>3, <1>4, <1>5 DEF Becomes, RunnerKnows, Submitted, Counted, Own

LEMMA LookupKeeps ==
  ASSUME IInv, NEW r \in Runners, Lookup(r)
  PROVE  IInv'
<1> DEFINE j == runner[r].job
           p == runner[r].part
           side == files[MyDoc(r)].sidecar[p]
           known == FindRemote(j, p)
<1>1. runner[r].pc = "lookup" /\ runner[r].pc \in DocPoints /\ runner[r].pc \in ParsePoints
  BY DEF Lookup, At, DocPoints, ParsePoints
<1>2. UNCHANGED <<job, noted, slots, files, remote, jobLock, docLock, admin, crashes>>
  BY DEF Lookup, World, Locks, Others
<1>3. /\ TypeOK /\ StoreTypeOK /\ j \in Jobs /\ p \in Parts /\ Me(r) = <<j, p>> /\ Me(r) \in Remotes
      /\ HoldsLocks(r) /\ ~files[MyDoc(r)].cached /\ MyDoc(r) \in Documents
  BY <1>1, AtStore, AtWork, Points
<1>4. ASSUME NEW m \in known, PollFor(r, m), UNCHANGED <<attempt, adopted>>
      PROVE  IInv'
  <2>1. m \in Remotes /\ Submitted(m) /\ (m \in adopted[j] \/ m[1] = j) /\ m[2] = p
    <3>1. CASE attempt[<<j, p>>] = "submitted"
      BY <3>1, <1>3, <1>4 DEF FindRemote, Submitted
    <3>2. CASE attempt[<<j, p>>] # "submitted"
      <4>1. m \in adopted[j] /\ m[2] = p  BY <3>2, <1>4 DEF FindRemote
      <4> QED  BY <4>1, <1>1, <1>3, AtStore
    <3> QED  BY <3>1, <3>2
  <2>2. Becomes(r, "poll", j, runner[r].row, p, m, runner[r].log)
    BY <1>3, <1>4, <2>1, PollForDoes
  <2>3. StoreTypeOK' /\ OnlyOwn(r)
    BY <1>2, <1>3, <1>4 DEF StoreTypeOK, OnlyOwn, Submitted
  <2>4. RunnerKnows(r)'
    BY <1>1, <1>4, <2>1, <2>2, <2>3, LogStaysInPoll DEF Submitted
  <2>5. RunnerSends(r)' /\ RunnerCaches(r)'
    BY <1>2, <1>3, <2>2 DEF Becomes, RunnerSends, RunnerCaches, MyDoc, MyJob
  <2>6. StoreIsRight(r)
    BY <1>1, <1>2, <1>4, <2>4, <2>5, AtStore DEF StoreIsRight, SentAt, FileKnown, CacheAt, Submitted
  <2> QED  BY <1>1, <1>2, <2>2, <2>3, <2>6, ParseKeeps, Points
<1>5. CASE Goto(r, "abort") /\ UNCHANGED <<attempt, adopted>>
  <2>1. Quiet /\ LocksBy(r) /\ slots' \subseteq Jobs /\ crashes' \in Nat
    BY <1>1, <1>2, <1>3, <1>5, AtWork, LocksStay, Points DEF Quiet, Locks
  <2>2. "abort" \notin EarlyPoints  BY DEF EarlyPoints
  <2> QED
    BY <1>1, <1>2, <1>3, <1>5, <2>1, <2>2, GotoKeeps, Points DEF HoldsLocks
<1>6. CASE side # NoRemote /\ Adopt(j, {side}) /\ PollFor(r, side) /\ UNCHANGED attempt
  <2>1. side \in Remotes /\ Submitted(side) /\ side[2] = p
    <3>1. files[MyDoc(r)].sidecar \in [Parts -> Remotes \union {NoRemote}]
      BY <1>3 DEF StoreTypeOK, FileType, RemoteType
    <3>2. FileKnown(files[MyDoc(r)])  BY <1>1, <1>3, AtStore
    <3> QED  BY <1>3, <1>6, <3>1, <3>2 DEF FileKnown
  <2> HIDE DEF side
  <2>2. /\ adopted' \in [Jobs -> SUBSET Remotes]
        /\ \A k \in Jobs : adopted[k] \subseteq adopted'[k] /\ (k # j => adopted'[k] = adopted[k])
        /\ adopted'[j] = adopted[j] \union {m \in {side} : m[1] # j}
    BY <1>3, <1>6, <2>1 DEF StoreTypeOK, Adopt
  <2>3. Becomes(r, "poll", j, runner[r].row, p, side, runner[r].log)
    BY <1>3, <1>6, <2>1, PollForDoes
  <2>4. StoreTypeOK' /\ OnlyOwn(r)
    BY <1>2, <1>3, <1>6, <2>2 DEF StoreTypeOK, OnlyOwn, Submitted
  <2>5. RunnerKnows(r)'
    <3>1. side \in adopted'[j] \/ side[1] = j  BY <2>2
    <3> QED  BY <1>1, <1>6, <2>1, <2>3, <2>4, <3>1, LogStaysInPoll DEF Submitted
  <2>6. RunnerSends(r)' /\ RunnerCaches(r)'
    BY <1>2, <1>3, <2>3 DEF Becomes, RunnerSends, RunnerCaches, MyDoc, MyJob
  <2>7. \A k \in Jobs : \A m \in adopted'[k] : Submitted(m)'
    BY <1>1, <1>6, <2>1, <2>2, AtStore DEF Submitted
  <2>8. StoreIsRight(r)
    BY <1>1, <1>2, <1>6, <2>5, <2>6, <2>7, AtStore DEF StoreIsRight, SentAt, FileKnown, CacheAt, Submitted
  <2> QED  BY <1>1, <1>2, <2>3, <2>4, <2>8, ParseKeeps, Points
<1>7. CASE /\ known = {} /\ attempt[Me(r)] \notin Unresolved /\ side = NoRemote
           /\ attempt' = [attempt EXCEPT ![Me(r)] = "submitting"]
           /\ Goto(r, "create") /\ UNCHANGED adopted
  <2>1. attempt[Me(r)] \in {"none", "rejected"}
    <3>1. attempt[Me(r)] # "submitted"  BY <1>3, <1>7 DEF FindRemote
    <3> QED  BY <3>1, <1>3, <1>7 DEF StoreTypeOK, AttemptStates
  <2>2. remote[Me(r)].sent = 0 /\ remote[Me(r)].state = "none"
    BY <1>1, <1>3, <2>1, AtStore DEF SentAt
  <2>3. GoesOn(r, "create", runner[r].row)  BY <1>3, <1>7, GotoDoes DEF RunnerPoints
  <2>4. /\ attempt' \in [Remotes -> AttemptStates] /\ attempt'[Me(r)] = "submitting"
        /\ \A m \in Remotes : m # Me(r) => attempt'[m] = attempt[m]
    BY <1>3, <1>7 DEF StoreTypeOK, AttemptStates, Unresolved
  <2>5. StoreTypeOK'  BY <1>2, <1>3, <1>7, <2>4 DEF StoreTypeOK
  <2>6. OnlyOwn(r)  BY <1>2, <1>7, <2>1, <2>4 DEF OnlyOwn, Submitted
  <2>7. RunnerKnows(r)'
    <3>1. "create" \in ParsePoints \ {"poll"}  BY DEF ParsePoints
    <3> QED  BY <1>1, <2>3, <2>6, <3>1, LogStays DEF GoesOn
  <2>8. RunnerSends(r)' /\ RunnerCaches(r)'
    <3>1. Me(r)' = Me(r) /\ MyDoc(r)' = MyDoc(r) /\ runner'[r].pc = "create" /\ runner'[r].part = p
      BY <2>3 DEF GoesOn, Becomes, Me, MyDoc, MyJob
    <3>2. RunnerSends(r)'  BY <1>2, <2>2, <2>4, <3>1 DEF RunnerSends
    <3>3. RunnerCaches(r)'  BY <1>2, <1>3, <1>7, <3>1 DEF RunnerCaches
    <3> QED  BY <3>2, <3>3
  <2>9. StoreIsRight(r)
    <3>1. \A m \in Remotes : SentAt(m)'
      BY <1>1, <1>2, <2>2, <2>4, AtStore DEF SentAt
    <3>2. /\ \A k \in Jobs : \A m \in adopted'[k] : Submitted(m)'
          /\ \A d \in Documents : FileKnown(files[d])' /\ CacheAt(d)'
      <4>1. \A m : Submitted(m) => m # Me(r)  BY <2>1 DEF Submitted
      <4>2. \A m \in Remotes : Submitted(m) => Submitted(m)'  BY <4>1, <2>4 DEF Submitted
      <4>3. \A k \in Jobs : \A m \in adopted'[k] : Submitted(m)'
        BY <1>1, <1>7, <4>2, AtStore
      <4>4. ASSUME NEW d \in Documents  PROVE FileKnown(files[d])' /\ CacheAt(d)'
        <5>1. files' = files /\ FileKnown(files[d]) /\ CacheAt(d) /\ files[d] \in FileType
          BY <1>1, <1>2, <1>3, AtStore DEF StoreTypeOK
        <5>2. /\ files[d].sidecar \in [Parts -> Remotes \union {NoRemote}]
              /\ files[d].made \subseteq Remotes /\ files[d].payers \subseteq Remotes
          BY <5>1 DEF FileType
        <5> QED  BY <5>1, <5>2, <4>2 DEF FileKnown, CacheAt
      <4> QED  BY <4>3, <4>4
    <3> QED  BY <2>7, <2>8, <3>1, <3>2 DEF StoreIsRight
  <2>10. "create" \in DocPoints  BY DEF DocPoints, ParsePoints
  <2> QED
    BY <1>1, <1>2, <2>3, <2>5, <2>6, <2>9, <2>10, ParseKeeps DEF GoesOn
<1> QED  BY <1>4, <1>5, <1>6, <1>7 DEF Lookup, MyJob
(* The attempt on the runner's own part changes, and its remote parse may   *)
(* have been begun.                                                         *)
LEMMA AttemptKeeps ==
  ASSUME IInv, NEW r \in Runners, runner[r].pc \in ParsePoints,
         NEW pc \in {"abort", "record", "sidecar"}, NEW state \in AttemptStates,
         GoesOn(r, pc, runner[r].row),
         attempt' \in [Remotes -> AttemptStates], attempt'[Me(r)] = state,
         \A m \in Remotes : m # Me(r) => attempt'[m] = attempt[m],
         ~Submitted(Me(r)),
         StoreTypeOK', UNCHANGED <<job, adopted, noted, slots, files, jobLock, docLock, admin, crashes>>,
         \A m \in Remotes : m # Me(r) => remote'[m] = remote[m],
         remote'[Me(r)].sent <= 1,
         state \in {"none", "rejected"} => remote'[Me(r)].sent = 0 /\ remote'[Me(r)].state = "none",
         remote'[Me(r)].state = "flawed" => Me(r)[2] + 1 \in Parts,
         pc = "record" => state = "submitting",
         pc = "sidecar" => state = "submitted"
  PROVE  IInv'
<1>1. /\ TypeOK /\ StoreTypeOK /\ runner[r].pc \in DocPoints /\ Me(r) \in Remotes
      /\ ~files[MyDoc(r)].cached
  BY AtStore, AtWork, Points
<1>2. /\ runner'[r].pc = pc /\ runner'[r].part = runner[r].part /\ runner'[r].job = runner[r].job
      /\ Me(r)' = Me(r) /\ MyDoc(r)' = MyDoc(r)
  BY DEF GoesOn, Becomes, Me, MyDoc, MyJob
<1>3. OnlyOwn(r)  BY DEF OnlyOwn, Submitted
<1>4. \A m \in Remotes : Submitted(m) => Submitted(m)'  BY DEF Submitted
<1>5. \A m \in Remotes : SentAt(m)'
  BY <1>1, AtStore DEF SentAt
<1>6. \A k \in Jobs : \A m \in adopted'[k] : Submitted(m)'
  BY <1>1, <1>4, AtStore
<1>7. ASSUME NEW d \in Documents  PROVE FileKnown(files[d])' /\ CacheAt(d)'
  <2>1. files' = files /\ FileKnown(files[d]) /\ CacheAt(d) /\ files[d] \in FileType
    BY <1>1, AtStore DEF StoreTypeOK
  <2>2. /\ files[d].sidecar \in [Parts -> Remotes \union {NoRemote}]
        /\ files[d].made \subseteq Remotes /\ files[d].payers \subseteq Remotes
    BY <2>1 DEF FileType
  <2> QED  BY <2>1, <2>2, <1>4 DEF FileKnown, CacheAt
<1>8. RunnerSends(r)' /\ RunnerCaches(r)'
  <2>1. RunnerSends(r)'  BY <1>2 DEF RunnerSends
  <2>2. RunnerCaches(r)'  BY <1>1, <1>2 DEF RunnerCaches
  <2> QED  BY <2>1, <2>2
<1>9. RunnerKnows(r)'
  <2>1. CASE pc = "abort"
    BY <2>1, <1>2 DEF RunnerKnows, ParsePoints, EarlyPoints
  <2>2. CASE pc # "abort"
    <3>1. pc \in ParsePoints \ {"poll"}  BY <2>2 DEF ParsePoints
    <3> QED  BY <3>1, <1>3, LogStays DEF GoesOn
  <2> QED  BY <2>1, <2>2
<1>10. StoreIsRight(r)  BY <1>5, <1>6, <1>7, <1>8, <1>9 DEF StoreIsRight
<1>11. pc \in DocPoints /\ pc # "release"  BY DEF DocPoints, ParsePoints
<1> QED  BY <1>1, <1>3, <1>10, <1>11, ParseKeeps DEF GoesOn

LEMMA Submits ==
  ASSUME NEW s \in RemoteType
  PROVE  LET n == [s EXCEPT !.state = "running", !.sent = 1] IN
         n \in RemoteType /\ n.sent = 1 /\ n.state = "running"
BY DEF RemoteType, Ends

LEMMA CreateKeeps ==
  ASSUME IInv, NEW r \in Runners, Create(r)
  PROVE  IInv'
<1> DEFINE n == [remote[Me(r)] EXCEPT !.state = "running", !.sent = @ + 1]
<1>1. runner[r].pc = "create" /\ runner[r].pc \in DocPoints /\ runner[r].pc \in ParsePoints
  BY DEF Create, At, DocPoints, ParsePoints
<1>2. UNCHANGED <<job, adopted, noted, slots, files, jobLock, docLock, admin, crashes>>
  BY DEF Create, Locks, Others
<1>3. /\ TypeOK /\ StoreTypeOK /\ Me(r) \in Remotes /\ attempt[Me(r)] = "submitting"
      /\ remote[Me(r)].sent = 0 /\ remote[Me(r)].state = "none"
  BY <1>1, AtStore DEF RunnerSends
<1>4. n.sent = 1 /\ n \in RemoteType /\ n.state = "running"
  <2>1. remote[Me(r)] \in RemoteType  BY <1>3 DEF StoreTypeOK
  <2>2. n = [remote[Me(r)] EXCEPT !.state = "running", !.sent = 1]  BY <1>3
  <2> HIDE DEF n
  <2> QED  BY <2>1, <2>2, Submits
<1>5. PICK pc \in {"abort", "record"}, state \in {"submitting", "rejected", "lost"} :
        /\ Goto(r, pc)
        /\ attempt' = [attempt EXCEPT ![Me(r)] = state]
        /\ remote' = remote \/ (remote' = [remote EXCEPT ![Me(r)] = n] /\ state # "rejected")
        /\ pc = "record" => state = "submitting"
  <2>1. attempt = [attempt EXCEPT ![Me(r)] = "submitting"]  BY <1>3 DEF StoreTypeOK
  <2> DEFINE accepted == remote' = [remote EXCEPT ![Me(r)].state = "running", ![Me(r)].sent = @ + 1]
  <2>2. accepted => remote' = [remote EXCEPT ![Me(r)] = n]  BY <1>3 DEF StoreTypeOK
  <2>3. CASE accepted /\ Goto(r, "record") /\ UNCHANGED attempt
    BY <2>1, <2>2, <2>3
  <2>4. CASE attempt' = [attempt EXCEPT ![Me(r)] = "rejected"] /\ Goto(r, "abort") /\ UNCHANGED remote
    BY <2>4
  <2>5. CASE /\ attempt' = [attempt EXCEPT ![Me(r)] = "lost"] /\ Goto(r, "abort")
             /\ accepted \/ UNCHANGED remote
    BY <2>2, <2>5
  <2> QED  BY <2>3, <2>4, <2>5 DEF Create
<1> HIDE DEF n
<1>6. /\ attempt' \in [Remotes -> AttemptStates] /\ attempt'[Me(r)] = state /\ state \in AttemptStates
      /\ \A m \in Remotes : m # Me(r) => attempt'[m] = attempt[m]
  BY <1>3, <1>5 DEF StoreTypeOK, AttemptStates, Unresolved
<1>7. /\ remote' \in [Remotes -> RemoteType]
      /\ \A m \in Remotes : m # Me(r) => remote'[m] = remote[m]
      /\ remote'[Me(r)].sent \in {0, 1} /\ remote'[Me(r)].state # "flawed"
      /\ state = "rejected" => remote'[Me(r)].sent = 0 /\ remote'[Me(r)].state = "none"
  <2>1. CASE remote' = remote  BY <2>1, <1>3 DEF StoreTypeOK
  <2>2. CASE remote' = [remote EXCEPT ![Me(r)] = n] /\ state # "rejected"
    BY <2>2, <1>3, <1>4 DEF StoreTypeOK
  <2> QED  BY <2>1, <2>2, <1>5
<1>8. remote'[Me(r)].sent <= 1  BY <1>7
<1>9. StoreTypeOK'  BY <1>2, <1>3, <1>6, <1>7 DEF StoreTypeOK
<1>10. GoesOn(r, pc, runner[r].row)  BY <1>3, <1>5, GotoDoes DEF RunnerPoints
<1>11. ~Submitted(Me(r))  BY <1>3 DEF Submitted
<1> QED
  BY <1>1, <1>2, <1>5, <1>6, <1>7, <1>8, <1>9, <1>10, <1>11, AttemptKeeps

LEMMA RecordKeeps ==
  ASSUME IInv, NEW r \in Runners, Record(r)
  PROVE  IInv'
<1>1. runner[r].pc = "record" /\ runner[r].pc \in DocPoints /\ runner[r].pc \in ParsePoints
  BY DEF Record, At, DocPoints, ParsePoints
<1>2. UNCHANGED <<job, adopted, noted, slots, files, remote, jobLock, docLock, admin, crashes>>
  BY DEF Record, World, Locks, Others
<1>3. /\ TypeOK /\ StoreTypeOK /\ Me(r) \in Remotes /\ attempt[Me(r)] = "submitting"
      /\ SentAt(Me(r))
  BY <1>1, AtStore DEF RunnerSends
<1>4. /\ attempt' \in [Remotes -> AttemptStates] /\ attempt'[Me(r)] = "submitted"
      /\ "submitted" \in AttemptStates
      /\ \A m \in Remotes : m # Me(r) => attempt'[m] = attempt[m]
  BY <1>3 DEF Record, StoreTypeOK, AttemptStates, Unresolved
<1>5. StoreTypeOK'  BY <1>2, <1>3, <1>4 DEF StoreTypeOK
<1>6. GoesOn(r, "sidecar", runner[r].row)  BY <1>3, GotoDoes DEF Record, RunnerPoints
<1>7. /\ ~Submitted(Me(r)) /\ remote'[Me(r)].sent <= 1
      /\ remote'[Me(r)].state = "flawed" => Me(r)[2] + 1 \in Parts
  BY <1>2, <1>3 DEF Submitted, SentAt
<1> QED
  BY <1>1, <1>2, <1>3, <1>4, <1>5, <1>6, <1>7, AttemptKeeps
(* The files of the runner's document change; nothing else does. *)
LEMMA FileKeeps ==
  ASSUME IInv, NEW r \in Runners, runner[r].pc \in ParsePoints,
         NEW pc \in DocPoints, NEW part, NEW m, NEW f \in FileType,
         Becomes(r, pc, runner[r].job, runner[r].row, part, m, runner[r].log),
         files' = [files EXCEPT ![MyDoc(r)] = f],
         UNCHANGED <<job, attempt, adopted, noted, slots, remote, jobLock, docLock, admin, crashes>>,
         FileKnown(f), ~f.cached => f.made = {},
         f.cached /\ MyDoc(r) \in Public => f.made \subseteq f.payers,
         RunnerSends(r)', RunnerKnows(r)', RunnerCaches(r)',
         pc = "release" => Served(runner[r].job)'
  PROVE  IInv'
<1>1. /\ TypeOK /\ StoreTypeOK /\ runner[r].pc \in DocPoints /\ MyDoc(r) \in Documents
      /\ ~files[MyDoc(r)].cached
  BY AtStore, AtWork, Points
<1>2. /\ files' \in [Documents -> FileType] /\ files'[MyDoc(r)] = f
      /\ \A d \in Documents : d # MyDoc(r) => files'[d] = files[d]
  BY <1>1 DEF StoreTypeOK
<1>3. StoreTypeOK'  BY <1>1, <1>2 DEF StoreTypeOK
<1>4. OnlyOwn(r)  BY <1>1, <1>2 DEF OnlyOwn, Submitted
<1>5. ASSUME NEW d \in Documents  PROVE FileKnown(files[d])' /\ CacheAt(d)'
  <2>1. CASE d = MyDoc(r)
    BY <2>1, <1>2 DEF FileKnown, CacheAt, Submitted
  <2>2. CASE d # MyDoc(r)
    <3>1. files'[d] = files[d] /\ FileKnown(files[d]) /\ CacheAt(d)
      BY <2>2, <1>1, <1>2, AtStore
    <3> QED  BY <3>1 DEF FileKnown, CacheAt, Submitted
  <2> QED  BY <2>1, <2>2
<1>6. StoreIsRight(r)
  BY <1>1, <1>5, AtStore DEF StoreIsRight, SentAt, Submitted
<1> QED  BY <1>1, <1>3, <1>4, <1>6, ParseKeeps

LEMMA WriteSidecarKeeps ==
  ASSUME IInv, NEW r \in Runners, WriteSidecar(r)
  PROVE  IInv'
<1> DEFINE d == MyDoc(r)
           p == runner[r].part
           g == [files[d] EXCEPT !.sidecar[p] = Me(r)]
<1>1. runner[r].pc = "sidecar" /\ runner[r].pc \in DocPoints /\ runner[r].pc \in ParsePoints
  BY DEF WriteSidecar, At, DocPoints, ParsePoints
<1>2. UNCHANGED <<job, attempt, adopted, noted, slots, remote, jobLock, docLock, admin, crashes>>
  BY DEF WriteSidecar, Ledger, Locks, Others
<1>3. /\ TypeOK /\ StoreTypeOK /\ d \in Documents /\ Me(r) \in Remotes /\ p \in Parts
      /\ attempt[Me(r)] = "submitted" /\ Me(r)[1] = runner[r].job /\ Me(r)[2] = p
      /\ files[d] \in FileType /\ FileKnown(files[d]) /\ CacheAt(d) /\ ~files[d].cached
      /\ RunnerKnows(r)
  <2>1. /\ TypeOK /\ StoreTypeOK /\ d \in Documents /\ Me(r) \in Remotes /\ p \in Parts
        /\ Me(r) = <<runner[r].job, p>> /\ RunnerSends(r) /\ RunnerKnows(r)
        /\ FileKnown(files[d]) /\ CacheAt(d)
    BY <1>1, AtStore
  <2>2. ~files[d].cached  BY <1>1, AtWork, Points
  <2>3. files[d] \in FileType  BY <2>1 DEF StoreTypeOK
  <2> QED  BY <1>1, <2>1, <2>2, <2>3 DEF RunnerSends
<1>4. Becomes(r, "poll", runner[r].job, runner[r].row, p, Me(r), runner[r].log)
  BY <1>3, PollForDoes DEF WriteSidecar
<1>5. PICK f \in FileType :
        /\ files' = [files EXCEPT ![d] = f] /\ ~f.cached /\ f.made = {} /\ FileKnown(f)
  <2>1. CASE files' = [files EXCEPT ![d].sidecar[p] = Me(r)]
    <3>1. /\ g \in FileType /\ g.cached = files[d].cached /\ g.made = files[d].made
          /\ g.payers = files[d].payers /\ g.sidecar = [files[d].sidecar EXCEPT ![p] = Me(r)]
      BY <1>3, FileUpdates
    <3>2. files' = [files EXCEPT ![d] = g]  BY <2>1
    <3>3. files[d].sidecar \in [Parts -> Remotes \union {NoRemote}]  BY <1>3 DEF FileType
    <3> HIDE DEF g
    <3>4. FileKnown(g)  BY <1>3, <3>1, <3>3 DEF FileKnown, Submitted
    <3> QED  BY <1>3, <3>1, <3>2, <3>4 DEF CacheAt
  <2>2. CASE UNCHANGED files
    BY <2>2, <1>3 DEF CacheAt, StoreTypeOK
  <2> QED  BY <2>1, <2>2 DEF WriteSidecar
<1>6. RunnerSends(r)'  BY <1>4 DEF Becomes, RunnerSends
<1>7. RunnerCaches(r)'
  <2>1. files'[d] = f /\ MyDoc(r)' = d /\ runner'[r].pc = "poll"
    BY <1>3, <1>4, <1>5 DEF StoreTypeOK, Becomes, MyDoc, MyJob
  <2> QED  BY <2>1, <1>5 DEF RunnerCaches
<1>8. RunnerKnows(r)'
  BY <1>1, <1>2, <1>3, <1>4
  DEF Becomes, RunnerKnows, Submitted, Counted, Own, EarlyPoints
<1>9. "poll" \in DocPoints  BY DEF DocPoints, ParsePoints
<1> QED
  BY <1>1, <1>2, <1>4, <1>5, <1>6, <1>7, <1>8, <1>9, FileKeeps

LEMMA StorePayersKeeps ==
  ASSUME IInv, NEW r \in Runners, StorePayers(r)
  PROVE  IInv'
<1> DEFINE d == MyDoc(r)
           log == runner[r].log
           g == [files[d] EXCEPT !.payers = Payers(d, log)]
<1>1. runner[r].pc = "payers" /\ runner[r].pc \in DocPoints /\ runner[r].pc \in ParsePoints
  BY DEF StorePayers, At, DocPoints, ParsePoints
<1>2. UNCHANGED <<job, attempt, adopted, noted, slots, remote, jobLock, docLock, admin, crashes>>
  BY DEF StorePayers, Ledger, Locks, Others
<1>3. /\ TypeOK /\ StoreTypeOK /\ d \in Documents
      /\ log \in SUBSET Remotes /\ \A m \in log : Submitted(m) /\ m \in Counted(runner[r].job)
      /\ files[d] \in FileType /\ FileKnown(files[d]) /\ CacheAt(d) /\ ~files[d].cached
  BY <1>1, AtStore, AtWork, Points DEF RunnerKnows, StoreTypeOK, RunnerType
<1>4. Becomes(r, "cache", runner[r].job, runner[r].row, runner[r].part, runner[r].remote, log)
  BY <1>3, GotoDoes DEF StorePayers, RunnerPoints, GoesOn
<1>5. /\ Payers(d, log) \in SUBSET Remotes /\ \A m \in Payers(d, log) : Submitted(m)
      /\ d \in Public => Payers(d, log) = log
  BY <1>3 DEF Payers
<1>6. /\ g \in FileType /\ g.cached = files[d].cached /\ g.made = files[d].made
      /\ g.payers = Payers(d, log) /\ g.sidecar = files[d].sidecar
  BY <1>3, <1>5, FileUpdates
<1>7. files' = [files EXCEPT ![d] = g]  BY DEF StorePayers
<1> HIDE DEF g
<1>8. FileKnown(g) /\ ~g.cached /\ g.made = {}  BY <1>3, <1>5, <1>6 DEF FileKnown, CacheAt
<1>9. RunnerSends(r)'  BY <1>4 DEF Becomes, RunnerSends
<1>10. RunnerCaches(r)'
  <2>1. files'[d] = g /\ MyDoc(r)' = d /\ runner'[r].pc = "cache" /\ runner'[r].log = log
    BY <1>3, <1>4, <1>7 DEF StoreTypeOK, Becomes, MyDoc, MyJob
  <2> QED  BY <2>1, <1>5, <1>6, <1>8 DEF RunnerCaches
<1>11. RunnerKnows(r)'
  BY <1>2, <1>3, <1>4 DEF Becomes, RunnerKnows, Submitted, Counted, Own, EarlyPoints
<1>12. "cache" \in DocPoints  BY DEF DocPoints, ParsePoints
<1> QED
  BY <1>1, <1>2, <1>4, <1>6, <1>7, <1>8, <1>9, <1>10, <1>11, <1>12, FileKeeps

LEMMA StoreCacheKeeps ==
  ASSUME IInv, NEW r \in Runners, StoreCache(r)
  PROVE  IInv'
<1> DEFINE d == MyDoc(r)
           j == runner[r].job
           log == runner[r].log
           c == [files[d] EXCEPT !.cached = TRUE]
           g == [c EXCEPT !.made = log]
<1>1. runner[r].pc = "cache" /\ runner[r].pc \in DocPoints /\ runner[r].pc \in ParsePoints
  BY DEF StoreCache, At, DocPoints, ParsePoints
<1>2. UNCHANGED <<job, attempt, adopted, noted, slots, remote, jobLock, docLock, admin, crashes>>
  BY DEF StoreCache, Ledger, Locks, Others
<1>3. /\ TypeOK /\ StoreTypeOK /\ d \in Documents /\ j \in Jobs /\ d = DocumentOf[j]
      /\ log \in SUBSET Remotes /\ \A m \in log : Submitted(m) /\ m \in Counted(j)
      /\ files[d] \in FileType /\ FileKnown(files[d]) /\ (d \in Public => files[d].payers = log)
  BY <1>1, AtStore, AtWork, Points DEF RunnerKnows, RunnerCaches, StoreTypeOK, RunnerType, MyDoc, MyJob
<1>4. Becomes(r, "release", j, runner[r].row, runner[r].part, runner[r].remote, log)
  BY <1>3, GotoDoes DEF StoreCache, RunnerPoints, GoesOn
<1>5. /\ c \in FileType /\ c.cached /\ c.payers = files[d].payers /\ c.sidecar = files[d].sidecar
  BY <1>3, FileUpdates
<1>6. /\ g \in FileType /\ g.cached /\ g.made = log /\ g.payers = files[d].payers
      /\ g.sidecar = files[d].sidecar
  <2> HIDE DEF c
  <2>1. c \in FileType /\ log \in SUBSET Remotes  BY <1>3, <1>5
  <2>2. /\ g \in FileType /\ g.cached = c.cached /\ g.made = log /\ g.payers = c.payers
        /\ g.sidecar = c.sidecar
    BY ONLY <2>1, FileUpdates, SMTT(60)
  <2> HIDE DEF g
  <2> QED  BY <2>2, <1>5
<1>7. files' = [files EXCEPT ![d] = g]  BY <1>3, ZenonT(60) DEF StoreCache, StoreTypeOK
<1> HIDE DEF g, c
<1>8. FileKnown(g)  BY <1>3, <1>6 DEF FileKnown
<1>9. files'[d] = g /\ MyDoc(r)' = d /\ runner'[r].pc = "release" /\ runner'[r].job = j
  BY <1>3, <1>4, <1>7 DEF StoreTypeOK, Becomes, MyDoc, MyJob
<1>10. RunnerSends(r)' /\ RunnerCaches(r)' /\ RunnerKnows(r)'
  BY <1>9 DEF RunnerSends, RunnerCaches, RunnerKnows, ParsePoints, EarlyPoints
<1>11. Served(j)'
  <2>1. \A m \in log : m \in Counted(j)'
    BY <1>2, <1>3, <1>9 DEF Counted, Own
  <2> QED  BY <2>1, <1>3, <1>6, <1>9 DEF Served
<1>12. "release" \in DocPoints  BY DEF DocPoints
<1> QED
  BY <1>1, <1>2, <1>3, <1>4, <1>6, <1>7, <1>8, <1>10, <1>11, <1>12, FileKeeps
(* The runner that waits knows the remote parse it waits for.  *)
LEMMA PollKeeps ==
  ASSUME IInv, NEW r \in Runners, Poll(r)
  PROVE  IInv'
<1> DEFINE m == runner[r].remote
           j == runner[r].job
           log == runner[r].log
<1>1. runner[r].pc = "poll" /\ runner[r].pc \in DocPoints /\ runner[r].pc \in ParsePoints
  BY DEF Poll, At, DocPoints, ParsePoints
<1>2. UNCHANGED <<job, attempt, adopted, slots, files, remote, jobLock, docLock, admin, crashes>>
  BY DEF Poll, World, Locks, Others
<1>3. /\ TypeOK /\ StoreTypeOK /\ j \in Jobs /\ runner[r].part \in Parts /\ HoldsLocks(r)
      /\ log \in SUBSET Remotes /\ \A n \in log : Submitted(n) /\ n \in Counted(j)
      /\ Submitted(m) /\ m \in Counted(j) /\ m[2] = runner[r].part
      /\ ~files[MyDoc(r)].cached
  BY <1>1, AtStore, AtWork, Points DEF RunnerKnows, RunnerType
<1>4. m \in Remotes /\ SentAt(m)
  <2>1. Counted(j) \subseteq Remotes  BY <1>3 DEF Counted, Own, StoreTypeOK
  <2> QED  BY <1>1, <1>3, <2>1, AtStore
<1>5. ASSUME NEW pc \in {"abort", "payers", "lookup"}, NEW part \in Parts, NEW new \in SUBSET Remotes,
             Becomes(r, pc, j, runner[r].row, part, m, new),
             new = log \/ new = log \union {m},
             noted' = [noted EXCEPT ![m] = Complete(@, "terminal", remote[m].usage)]
      PROVE  IInv'
  <2>1. /\ noted' \in [Remotes -> [status : {"", "running", "terminal"}, paid : BOOLEAN]]
        /\ \A n \in Remotes : noted[n].paid => noted'[n].paid
    <3>1. remote[m].usage \in BOOLEAN /\ noted[m].paid \in BOOLEAN
      BY <1>3, <1>4 DEF StoreTypeOK, RemoteType
    <3> DEFINE paid == noted[m].paid \/ remote[m].usage
               note == [status |-> "terminal", paid |-> paid]
    <3>2. noted' = [noted EXCEPT ![m] = note]  BY <1>5 DEF Complete
    <3>3. paid \in BOOLEAN /\ (noted[m].paid => paid)  BY <3>1
    <3> HIDE DEF paid
    <3>4. note \in [status : {"", "running", "terminal"}, paid : BOOLEAN] /\ note.paid = paid  BY <3>3
    <3> HIDE DEF note
    <3> QED  BY <1>3, <1>4, <3>2, <3>3, <3>4 DEF StoreTypeOK
  <2>2. StoreTypeOK'  BY <1>2, <1>3, <2>1 DEF StoreTypeOK
  <2>3. OnlyOwn(r)  BY <1>2, <2>1 DEF OnlyOwn, Submitted
  <2>4. /\ runner'[r].pc = pc /\ runner'[r].log = new /\ runner'[r].job = j
        /\ MyDoc(r)' = MyDoc(r)
    BY <1>5 DEF Becomes, MyDoc, MyJob
  <2>5. pc \notin EarlyPoints /\ pc \notin {"create", "record", "sidecar", "poll", "cache", "release"}
        /\ pc \in DocPoints
    BY DEF EarlyPoints, DocPoints, ParsePoints
  <2>6. RunnerSends(r)' /\ RunnerCaches(r)'
    BY <1>2, <1>3, <2>4, <2>5 DEF RunnerSends, RunnerCaches
  <2>7. RunnerKnows(r)'
    <3>1. \A n \in new : Submitted(n) /\ n \in Counted(j)  BY <1>3, <1>5
    <3> QED  BY <1>2, <2>4, <2>5, <3>1 DEF RunnerKnows, Submitted, Counted, Own
  <2>8. StoreIsRight(r)
    <3>1. /\ \A n \in Remotes : SentAt(n)'
          /\ \A k \in Jobs : \A n \in adopted'[k] : Submitted(n)'
      BY <1>1, <1>2, AtStore DEF SentAt, Submitted
    <3>2. \A d \in Documents : FileKnown(files[d])' /\ CacheAt(d)'
      BY <1>1, <1>2, AtStore DEF FileKnown, CacheAt, Submitted
    <3> QED  BY <2>6, <2>7, <3>1, <3>2 DEF StoreIsRight
  <2> QED  BY <1>1, <1>2, <1>5, <2>2, <2>3, <2>5, <2>8, ParseKeeps
<1>6. CASE Goto(r, "abort") /\ UNCHANGED noted
  <2>1. Quiet /\ LocksBy(r) /\ slots' \subseteq Jobs /\ crashes' \in Nat
    BY <1>1, <1>2, <1>3, <1>6, AtWork, LocksStay, Points DEF Quiet, Locks
  <2>2. "abort" \notin EarlyPoints  BY DEF EarlyPoints
  <2> QED
    BY <1>1, <1>2, <1>3, <1>6, <2>1, <2>2, GotoKeeps, Points DEF HoldsLocks
<1>7. CASE /\ noted' = [noted EXCEPT ![m] = Complete(@, "terminal", remote[m].usage)]
           /\ \/ /\ remote[m].state = "completed"
                 /\ runner' = [runner EXCEPT ![r].pc = "payers", ![r].log = @ \union {m}]
              \/ /\ remote[m].state = "flawed"
                 /\ runner' = [runner EXCEPT ![r].pc = "lookup", ![r].log = @ \union {m},
                                             ![r].part = @ + 1]
              \/ Goto(r, "abort")
  <2>1. runner \in [Runners -> RunnerType] /\ log \union {m} \in SUBSET Remotes
    BY <1>3, <1>4 DEF TypeOK, RunnerType
  <2>2. {"abort", "payers", "lookup"} \subseteq RunnerPoints  BY DEF RunnerPoints
  <2>3. CASE Goto(r, "abort")
    <3>1. Becomes(r, "abort", j, runner[r].row, runner[r].part, m, log)
      BY <1>3, <2>2, <2>3, GotoDoes DEF GoesOn
    <3> QED  BY <1>3, <1>5, <1>7, <3>1
  <2>4. CASE runner' = [runner EXCEPT ![r].pc = "payers", ![r].log = @ \union {m}]
    <3>1. Becomes(r, "payers", j, runner[r].row, runner[r].part, m, log \union {m})
      <4>1. runner' = [runner EXCEPT ![r] = [runner[r] EXCEPT !.pc = "payers", !.part = runner[r].part,
                         !.remote = m, !.log = log \union {m}]]
        BY <2>1, <2>4 DEF RunnerType
      <4> QED  BY <1>3, <1>4, <2>1, <2>2, <4>1, TurnDoes
    <3> QED  BY <1>3, <1>5, <1>7, <2>1, <3>1
  <2>5. CASE /\ remote[m].state = "flawed"
             /\ runner' = [runner EXCEPT ![r].pc = "lookup", ![r].log = @ \union {m},
                                         ![r].part = @ + 1]
    <3>1. runner[r].part + 1 \in Parts  BY <1>3, <1>4, <2>5 DEF SentAt
    <3> DEFINE part == runner[r].part + 1
    <3>2. runner' = [runner EXCEPT ![r] = [runner[r] EXCEPT !.pc = "lookup", !.part = part,
                         !.remote = m, !.log = log \union {m}]]
      BY <2>1, <2>5 DEF RunnerType
    <3> HIDE DEF part
    <3>3. Becomes(r, "lookup", j, runner[r].row, part, m, log \union {m})
      BY <1>3, <1>4, <2>1, <2>2, <3>1, <3>2, TurnDoes DEF part
    <3> QED  BY <1>3, <1>5, <1>7, <2>1, <3>1, <3>3 DEF part
  <2> QED  BY <1>7, <2>3, <2>4, <2>5
<1> QED  BY <1>6, <1>7 DEF Poll
-----------------------------------------------------------------------------
(* The worker recovers a job nobody holds.                                  *)

LEMMA RecoverJobKeeps ==
  ASSUME IInv, NEW j \in Jobs, RecoverJob(j)
  PROVE  IInv'
<1>a. /\ TypeOK /\ LocksInv /\ StatusInv /\ SentInv /\ KnownInv /\ CacheInv /\ ReadyInv
      /\ BillingInv /\ AdminInv /\ StoreTypeOK
      /\ runner \in [Runners -> RunnerType] /\ job \in [Jobs -> JobRow]
      /\ runner[Worker].pc = "recover" /\ jobLock[j] = Nobody
      /\ UNCHANGED <<adopted, noted, slots, files, remote, jobLock, docLock, admin, crashes>>
  BY DEF IInv, TypeOK, StoreTypeOK, FileType, RemoteType, RunnerType, RecoverJob, At, JobIsFree, World, Locks, Others
<1>b. /\ runner' \in [Runners -> RunnerType]
      /\ \A q \in Runners : /\ runner'[q].pc = runner[q].pc /\ runner'[q].job = runner[q].job
                            /\ runner'[q].row = runner[q].row /\ runner'[q].part = runner[q].part
                            /\ runner'[q].remote = runner[q].remote /\ runner'[q].log = runner[q].log
  <2> DEFINE u == [runner[Worker] EXCEPT !.todo = @ \ {j}]
  <2>1. runner' = [runner EXCEPT ![Worker] = u] /\ Worker \in Runners
    BY <1>a, Distinct DEF RecoverJob
  <2>2. u \in RunnerType /\ u.pc = runner[Worker].pc /\ u.job = runner[Worker].job /\ u.row = runner[Worker].row
        /\ u.part = runner[Worker].part /\ u.remote = runner[Worker].remote /\ u.log = runner[Worker].log
    BY <1>a, <2>1 DEF RunnerType
  <2> HIDE DEF u
  <2> QED  BY <1>a, <2>1, <2>2
<1>c. \A q \in Runners : runner[q].pc \in LockedPoints => runner[q].job \in Jobs \ {j}
  BY <1>a, Distinct, Points DEF LocksInv, HoldsLocks
<1>d. /\ attempt' \in [Remotes -> AttemptStates]
      /\ \A m \in Remotes :
           /\ m[1] # j => attempt'[m] = attempt[m]
           /\ (attempt'[m] \in {"none", "rejected"}) <=> (attempt[m] \in {"none", "rejected"})
           /\ (attempt'[m] = "none") <=> (attempt[m] = "none")
           /\ (attempt'[m] = "submitted") <=> (attempt[m] = "submitted")
  <2>1. attempt \in [Remotes -> AttemptStates]  BY <1>a DEF StoreTypeOK
  <2>2. CASE attempt' = attempt  BY <2>1, <2>2
  <2>3. CASE attempt' = [m \in Remotes |-> IF m[1] = j THEN Marked(attempt[m]) ELSE attempt[m]]
    <3>1. \A state \in AttemptStates :
            /\ Marked(state) \in AttemptStates
            /\ (Marked(state) \in {"none", "rejected"}) <=> (state \in {"none", "rejected"})
            /\ (Marked(state) = "none") <=> (state = "none")
            /\ (Marked(state) = "submitted") <=> (state = "submitted")
      BY DEF Marked, AttemptStates, Unresolved
    <3> QED  BY <2>1, <2>3, <3>1
  <2> QED  BY <2>2, <2>3 DEF RecoverJob
<1>e. /\ job' \in [Jobs -> JobRow] /\ \A k \in Jobs : k # j => job'[k] = job[k]
      /\ job'[j] = job[j] \/ (job'[j].status = "failed" /\ job'[j].billing = "pending_own")
           \/ job'[j].status = "queued"
      /\ job'[j] = job[j] => attempt' = attempt \/ job[j].status \in InFlight
  <2>1. CASE UNCHANGED <<job, attempt>>  BY <2>1, <1>a
  <2>2. CASE /\ job[j].status \in InFlight
             /\ job' = [job EXCEPT ![j] = [@ EXCEPT !.status = "failed", !.billing = "pending_own"]]
    <3> DEFINE row == [job[j] EXCEPT !.status = "failed", !.billing = "pending_own"]
    <3>1. row \in JobRow /\ row.status = "failed" /\ row.billing = "pending_own"
      BY <1>a DEF JobRow, Terminal, Billings
    <3>2. job' = [job EXCEPT ![j] = row]  BY <2>2
    <3> HIDE DEF row
    <3> QED  BY <2>2, <3>1, <3>2, <1>a
  <2>3. CASE job[j].status \in InFlight /\ job' = [job EXCEPT ![j] = Resumed(@)]
    <3> DEFINE row == [job[j] EXCEPT !.status = "queued"]
    <3>1. row \in JobRow /\ row.status = "queued"  BY <1>a DEF JobRow
    <3>2. job' = [job EXCEPT ![j] = row]  BY <2>3 DEF Resumed
    <3> HIDE DEF row
    <3> QED  BY <2>3, <3>1, <3>2, <1>a
  <2> QED  BY <2>1, <2>2, <2>3 DEF RecoverJob
<1>f. \A k \in Jobs : Counted(k)' = Counted(k) /\ (Served(k) => Served(k)')
  <2>1. \A k \in Jobs : Counted(k)' = Counted(k)  BY <1>a, <1>d DEF Counted, Own
  <2> QED  BY <2>1, <1>a DEF Served
<1>g. \A k \in Jobs : k # j /\ PaidFor(k) => PaidFor(k)'
  <2>1. ASSUME NEW k \in Jobs, k # j, PaidFor(k)  PROVE PaidFor(k)'
    <3>1. Counted(k)' = Counted(k)  BY <1>f
    <3>2. \A m \in Own(k)' : m \in Own(k) /\ attempt'[m] = attempt[m]
      BY <2>1, <1>d DEF Own
    <3> QED  BY <2>1, <3>1, <3>2, <1>a DEF PaidFor
  <2> QED  BY <2>1
<1>1. TypeOK'
  BY <1>a, <1>b, <1>d, <1>e DEF TypeOK, RunnerType
<1>2. LocksInv'
  <2>1. ASSUME NEW q \in Runners  PROVE HoldsLocks(q)'
    <3>1. HoldsLocks(q)  BY <1>a DEF LocksInv
    <3> QED  BY <3>1, <1>a, <1>b DEF HoldsLocks, MyDoc, MyJob
  <2> QED  BY <2>1, <1>a DEF LocksInv
<1>3. StatusInv'
  <2>1. \A q \in Runners : runner[q].pc \in LockedPoints => job'[runner[q].job] = job[runner[q].job]
    BY <1>c, <1>e
  <2> QED  BY <2>1, <1>a, <1>b, Points DEF StatusInv
<1>4. SentInv'
  <2>1. ASSUME NEW q \in Runners  PROVE RunnerSends(q)'
    <3>1. RunnerSends(q) /\ Me(q)' = Me(q) /\ Me(q)[1] = runner[q].job /\ runner[q].part \in Parts
          /\ Me(q) = <<runner[q].job, runner[q].part>>
      BY <1>a, <1>b DEF SentInv, Me, MyJob, RunnerType
    <3>2. CASE runner[q].pc \in {"create", "record", "sidecar"}
      <4>1. Me(q) \in Remotes /\ Me(q)[1] # j
        BY <3>1, <3>2, <1>c, Points DEF Remotes
      <4> QED  BY <3>1, <4>1, <1>a, <1>b, <1>d DEF RunnerSends
    <3>3. CASE runner[q].pc \notin {"create", "record", "sidecar"}
      BY <3>1, <3>3, <1>b DEF RunnerSends
    <3> QED  BY <3>2, <3>3
  <2>2. \A m \in Remotes : SentAt(m)'  BY <1>a, <1>d DEF SentInv, SentAt
  <2> QED  BY <2>1, <2>2 DEF SentInv
<1>5. KnownInv'
  <2>1. \A m \in Remotes : Submitted(m)' <=> Submitted(m)  BY <1>d DEF Submitted
  <2>2. ASSUME NEW q \in Runners  PROVE RunnerKnows(q)'
    <3>1. RunnerKnows(q) /\ runner[q].log \subseteq Remotes  BY <1>a DEF KnownInv, RunnerType
    <3>2. CASE runner[q].pc \in ParsePoints
      <4>1. PICK k \in Jobs : k = runner[q].job /\ k = runner'[q].job
        BY <3>2, <1>b, <1>c, Points
      <4>2. Counted(k)' = Counted(k) /\ Counted(k) \subseteq Remotes
        BY <1>a, <1>f DEF Counted, Own, StoreTypeOK
      <4>3. \A n \in runner[q].log : Submitted(n)' /\ n \in Counted(k)'
        BY <2>1, <3>1, <3>2, <4>1, <4>2 DEF RunnerKnows
      <4>4. runner[q].pc = "poll" => /\ Submitted(runner[q].remote)' /\ runner[q].remote \in Counted(k)'
                                     /\ runner[q].remote[2] = runner[q].part
        BY <1>b, <2>1, <3>1, <4>1, <4>2 DEF RunnerKnows, Submitted
      <4>5. runner[q].pc \notin EarlyPoints  BY <3>2 DEF ParsePoints, EarlyPoints
      <4> QED  BY <1>b, <4>1, <4>3, <4>4, <4>5 DEF RunnerKnows, Submitted, Counted, Own
    <3>3. CASE runner[q].pc \notin ParsePoints
      BY <3>1, <3>3, <1>b, Points DEF RunnerKnows
    <3> QED  BY <3>2, <3>3
  <2>3. ASSUME NEW d \in Documents  PROVE FileKnown(files[d])'
    <3>1. FileKnown(files[d]) /\ files[d] \in FileType  BY <1>a DEF KnownInv, StoreTypeOK
    <3>2. /\ files[d].sidecar \in [Parts -> Remotes \union {NoRemote}]
          /\ files[d].made \subseteq Remotes /\ files[d].payers \subseteq Remotes
      BY <3>1 DEF FileType
    <3> QED  BY <2>1, <3>1, <3>2, <1>a DEF FileKnown
  <2>4. \A k \in Jobs : \A m \in adopted'[k] : Submitted(m)'
    <3>1. \A k \in Jobs : adopted[k] \subseteq Remotes  BY <1>a DEF StoreTypeOK
    <3> QED  BY <2>1, <3>1, <1>a DEF KnownInv
  <2> QED  BY <2>2, <2>3, <2>4 DEF KnownInv
<1>6. CacheInv'
  BY <1>a, <1>b DEF CacheInv, CacheAt, RunnerCaches, MyDoc, MyJob
<1>7. ReadyInv'
  BY <1>a, <1>b, <1>c, <1>e, <1>f, Points DEF ReadyInv
<1>8. BillingInv'
  <2>1. ASSUME NEW q \in Runners  PROVE RunnerPays(q)'
    BY <1>a, <1>b, <1>c, <1>g, Points DEF BillingInv, RunnerPays
  <2>2. ASSUME NEW k \in Jobs  PROVE JobIsPaid(k)'
    <3>1. CASE k # j  BY <3>1, <1>a, <1>e, <1>g DEF BillingInv, JobIsPaid
    <3>2. CASE k = j
      <4>1. CASE job'[j] = job[j] /\ attempt' = attempt
        BY <3>2, <4>1, <1>a DEF BillingInv, JobIsPaid, PaidFor, Counted, Own
      <4>2. CASE job'[j] = job[j] /\ job[j].status \in InFlight
        BY <3>2, <4>2 DEF JobIsPaid, Terminal, InFlight
      <4>3. CASE job'[j] # job[j]
        BY <3>2, <4>3, <1>e DEF JobIsPaid, Terminal
      <4> QED  BY <4>1, <4>2, <4>3, <1>e
    <3> QED  BY <3>1, <3>2
  <2> QED  BY <2>1, <2>2 DEF BillingInv
<1>9. AdminInv'
  BY <1>a, <1>e, Distinct DEF AdminInv, LocksInv
<1> QED  BY <1>1, <1>2, <1>3, <1>4, <1>5, <1>6, <1>7, <1>8, <1>9 DEF IInv
-----------------------------------------------------------------------------
(* The admin and the provider.                                              *)

AdminType ==
  [pc : {"idle", "fetch", "note", "settle"}, job : Jobs \union {0}, row : JobRow,
   todo : SUBSET Remotes, remote : Remotes \union {NoRemote},
   status : {"", "running", "terminal"}, paid : BOOLEAN]

LEMMA IdleAdminIsOne == IdleAdmin \in AdminType /\ IdleAdmin.pc = "idle"
<1>1. NewRow \in JobRow  BY DEF NewRow, JobRow, Billings, Attachments
<1> QED  BY <1>1 DEF IdleAdmin, AdminType

(* The admin's step takes or gives up the lock of its job, and changes       *)
(* nothing else but its own state.                                          *)
LEMMA AdminMoves ==
  ASSUME IInv, admin' \in AdminType, jobLock' \in [Jobs -> Runners \union {Nobody, "admin"}],
         UNCHANGED <<job, attempt, adopted, noted, slots, files, remote, docLock, runner, crashes>>,
         \A k \in Jobs : jobLock[k] \notin {"admin", Nobody} => jobLock'[k] = jobLock[k],
         admin'.pc # "idle" =>
           /\ admin'.job \in Jobs /\ jobLock'[admin'.job] = "admin"
           /\ (admin'.row = admin.row /\ admin'.job = admin.job /\ admin.pc # "idle") \/ admin'.row = job[admin'.job],
         admin'.pc = "note" => admin'.remote \in Remotes
  PROVE  IInv'
<1>a. /\ TypeOK /\ LocksInv /\ StatusInv /\ SentInv /\ KnownInv /\ CacheInv /\ ReadyInv
      /\ BillingInv /\ AdminInv
  BY DEF IInv
<1>1. TypeOK'  BY <1>a DEF TypeOK, AdminType
<1>2. LocksInv'
  <2>1. ASSUME NEW q \in Runners  PROVE HoldsLocks(q)'
    <3>1. HoldsLocks(q) /\ q \notin {Nobody, "admin"}  BY <1>a, Distinct DEF LocksInv
    <3>2. runner[q].pc \in LockedPoints => jobLock'[runner[q].job] = q
      BY <3>1, Points DEF HoldsLocks
    <3> QED  BY <3>1, <3>2 DEF HoldsLocks, MyDoc, MyJob
  <2> QED  BY <2>1 DEF LocksInv
<1>3. StatusInv' /\ SentInv'
  BY <1>a DEF StatusInv, SentInv, SentAt, RunnerSends, Me, MyJob
<1>4. KnownInv'  BY <1>a DEF KnownInv, FileKnown, RunnerKnows, Submitted, Counted, Own
<1>5. CacheInv'  BY <1>a DEF CacheInv, CacheAt, RunnerCaches, MyDoc, MyJob
<1>6. ReadyInv'  BY <1>a DEF ReadyInv, Served, Counted, Own
<1>7. BillingInv'  BY <1>a DEF BillingInv, JobIsPaid, RunnerPays, PaidFor, Counted, Own
<1>8. AdminInv'  BY <1>a DEF AdminInv
<1> QED  BY <1>1, <1>2, <1>3, <1>4, <1>5, <1>6, <1>7, <1>8 DEF IInv

LEMMA ReconcileStartKeeps ==
  ASSUME IInv, NEW j \in Jobs, ReconcileStart(j)
  PROVE  IInv'
<1> DEFINE u == [IdleAdmin EXCEPT !.pc = "fetch", !.job = j, !.row = job[j], !.todo = Unsettled(j)]
<1>1. TypeOK /\ jobLock[j] = Nobody /\ jobLock' = [jobLock EXCEPT ![j] = "admin"] /\ admin' = u
  BY DEF IInv, ReconcileStart, JobIsFree
<1>2. job[j] \in JobRow /\ Unsettled(j) \subseteq Remotes
  BY <1>1 DEF TypeOK, Unsettled, Counted, Own
<1>3. u \in AdminType /\ u.pc = "fetch" /\ u.job = j /\ u.row = job[j]
  BY <1>2, IdleAdminIsOne DEF AdminType
<1> HIDE DEF u
<1>4. /\ jobLock' \in [Jobs -> Runners \union {Nobody, "admin"}] /\ jobLock'[j] = "admin"
      /\ \A k \in Jobs : jobLock[k] \notin {"admin", Nobody} => jobLock'[k] = jobLock[k]
  BY <1>1 DEF TypeOK
<1>5. UNCHANGED <<job, attempt, adopted, noted, slots, files, remote, docLock, runner, crashes>>
  BY DEF ReconcileStart, Ledger, RunnersOnly
<1> QED  BY <1>1, <1>3, <1>4, <1>5, AdminMoves

LEMMA ReconcileFetchKeeps ==
  ASSUME IInv, NEW m \in Remotes, ReconcileFetch(m)
  PROVE  IInv'
<1>1. TypeOK /\ LocksInv /\ admin \in AdminType /\ admin.pc = "fetch"
  BY DEF IInv, TypeOK, AdminType, ReconcileFetch
<1> DEFINE status == IF Ended(m) THEN "terminal" ELSE "running"
           u == [admin EXCEPT !.pc = "note", !.remote = m, !.todo = @ \ {m}, !.status = status,
                              !.paid = remote[m].usage]
<1>2. remote[m].usage \in BOOLEAN /\ status \in {"", "running", "terminal"}  BY <1>1 DEF TypeOK
<1>3. admin' = u  BY DEF ReconcileFetch
<1> HIDE DEF status
<1>4. u \in AdminType /\ u.pc = "note" /\ u.remote = m /\ u.job = admin.job /\ u.row = admin.row
  BY <1>1, <1>2 DEF AdminType
<1> HIDE DEF u
<1>5. /\ jobLock' = jobLock /\ jobLock \in [Jobs -> Runners \union {Nobody, "admin"}]
      /\ admin.job \in Jobs /\ jobLock[admin.job] = "admin"
      /\ UNCHANGED <<job, attempt, adopted, noted, slots, files, remote, docLock, runner, crashes>>
  BY <1>1 DEF ReconcileFetch, LocksInv, TypeOK, Ledger, RunnersOnly
<1> QED  BY <1>1, <1>3, <1>4, <1>5, AdminMoves

LEMMA ReconcileFetchedKeeps ==
  ASSUME IInv, ReconcileFetched
  PROVE  IInv'
<1>1. TypeOK /\ LocksInv /\ admin \in AdminType /\ admin.pc = "fetch"
  BY DEF IInv, TypeOK, AdminType, ReconcileFetched
<1> DEFINE u == [admin EXCEPT !.pc = "settle"]
<1>2. u \in AdminType /\ u.pc = "settle" /\ u.job = admin.job /\ u.row = admin.row
  BY <1>1 DEF AdminType
<1>3. admin' = u  BY DEF ReconcileFetched
<1> HIDE DEF u
<1>4. /\ jobLock' = jobLock /\ jobLock \in [Jobs -> Runners \union {Nobody, "admin"}]
      /\ admin.job \in Jobs /\ jobLock[admin.job] = "admin"
      /\ UNCHANGED <<job, attempt, adopted, noted, slots, files, remote, docLock, runner, crashes>>
  BY <1>1 DEF ReconcileFetched, LocksInv, TypeOK, Ledger, RunnersOnly
<1> QED  BY <1>1, <1>2, <1>3, <1>4, AdminMoves

LEMMA ReconcileFailsKeeps ==
  ASSUME IInv, ReconcileFails
  PROVE  IInv'
<1>1. TypeOK /\ LocksInv /\ admin.pc = "fetch" /\ admin' = IdleAdmin
      /\ jobLock' = [jobLock EXCEPT ![admin.job] = Nobody]
      /\ UNCHANGED <<job, attempt, adopted, noted, slots, files, remote, docLock, runner, crashes>>
  BY DEF IInv, ReconcileFails, Ledger, RunnersOnly
<1>2. admin.job \in Jobs /\ jobLock[admin.job] = "admin"  BY <1>1 DEF LocksInv
<1>3. /\ jobLock' \in [Jobs -> Runners \union {Nobody, "admin"}]
      /\ \A k \in Jobs : jobLock[k] \notin {"admin", Nobody} => jobLock'[k] = jobLock[k]
  BY <1>1, <1>2 DEF TypeOK
<1> QED  BY <1>1, <1>3, IdleAdminIsOne, AdminMoves

(* What is noted of a remote parse is filled in: paid stays paid. *)
LEMMA ReconcileNoteKeeps ==
  ASSUME IInv, ReconcileNote
  PROVE  IInv'
<1>a. /\ TypeOK /\ LocksInv /\ StatusInv /\ SentInv /\ KnownInv /\ CacheInv /\ ReadyInv
      /\ BillingInv /\ AdminInv /\ admin \in AdminType /\ admin.pc = "note" /\ admin.remote \in Remotes
      /\ UNCHANGED <<job, attempt, adopted, slots, jobLock, files, remote, docLock, runner, crashes>>
  BY DEF IInv, TypeOK, AdminType, AdminInv, ReconcileNote, RunnersOnly
<1> DEFINE m == admin.remote
           note == [status |-> admin.status, paid |-> noted[m].paid \/ admin.paid]
           u == [admin EXCEPT !.pc = "fetch", !.remote = NoRemote, !.status = "", !.paid = FALSE]
<1>b. noted' = [noted EXCEPT ![m] = note] /\ admin' = u  BY DEF ReconcileNote, Complete
<1>c. u \in AdminType /\ u.pc = "fetch" /\ u.job = admin.job /\ u.row = admin.row
  <2>1. NoRemote \in Remotes \union {NoRemote}  OBVIOUS
  <2> QED  BY <2>1, <1>a DEF AdminType
<1>d. note \in [status : {"", "running", "terminal"}, paid : BOOLEAN] /\ (noted[m].paid => note.paid)
  <2> DEFINE paid == noted[m].paid \/ admin.paid
  <2>1. paid \in BOOLEAN /\ (noted[m].paid => paid)  OBVIOUS
  <2>2. note = [status |-> admin.status, paid |-> paid]  OBVIOUS
  <2> HIDE DEF paid
  <2> QED  BY <1>a, <2>1, <2>2 DEF AdminType
<1> HIDE DEF note, u
<1>e. /\ noted' \in [Remotes -> [status : {"", "running", "terminal"}, paid : BOOLEAN]]
      /\ \A n \in Remotes : noted[n].paid => noted'[n].paid
  BY <1>a, <1>b, <1>d DEF TypeOK
<1>f. \A k \in Jobs : PaidFor(k) => PaidFor(k)'
  <2>1. ASSUME NEW k \in Jobs, PaidFor(k)  PROVE PaidFor(k)'
    <3>1. Own(k)' = Own(k) /\ Counted(k)' = Counted(k) /\ Counted(k) \subseteq Remotes
      BY <1>a DEF Own, Counted, TypeOK
    <3> QED  BY <2>1, <3>1, <1>a, <1>e DEF PaidFor
  <2> QED  BY <2>1
<1>1. TypeOK'  BY <1>a, <1>b, <1>c, <1>e DEF TypeOK, AdminType
<1>2. LocksInv'
  <2>1. ASSUME NEW q \in Runners  PROVE HoldsLocks(q)'
    BY <1>a DEF LocksInv, HoldsLocks, MyDoc, MyJob
  <2> QED  BY <2>1, <1>a, <1>b, <1>c DEF LocksInv
<1>3. StatusInv' /\ SentInv'
  BY <1>a DEF StatusInv, SentInv, SentAt, RunnerSends, Me, MyJob
<1>4. KnownInv'  BY <1>a DEF KnownInv, FileKnown, RunnerKnows, Submitted, Counted, Own
<1>5. CacheInv'  BY <1>a DEF CacheInv, CacheAt, RunnerCaches, MyDoc, MyJob
<1>6. ReadyInv'  BY <1>a DEF ReadyInv, Served, Counted, Own
<1>7. BillingInv'
  <2>1. ASSUME NEW q \in Runners  PROVE RunnerPays(q)'
    BY <1>a, <1>f, Points DEF BillingInv, RunnerPays, LocksInv, HoldsLocks
  <2>2. ASSUME NEW k \in Jobs  PROVE JobIsPaid(k)'
    BY <1>a, <1>f DEF BillingInv, JobIsPaid
  <2> QED  BY <2>1, <2>2 DEF BillingInv
<1>8. AdminInv'  BY <1>a, <1>b, <1>c DEF AdminInv
<1> QED  BY <1>1, <1>2, <1>3, <1>4, <1>5, <1>6, <1>7, <1>8 DEF IInv

(* The billing written at the end is of the job as it stands, but that the   *)
(* claim of a queued job may be undone.                                      *)
LEMMA ReconcileSettleKeeps ==
  ASSUME IInv, ReconcileSettle
  PROVE  IInv'
<1> DEFINE j == admin.job
           b == Billing(j, admin.row.billing, FALSE)
           row == [admin.row EXCEPT !.billing = b]
<1>a. /\ TypeOK /\ LocksInv /\ StatusInv /\ SentInv /\ KnownInv /\ CacheInv /\ ReadyInv
      /\ BillingInv /\ AdminInv /\ admin \in AdminType /\ admin.pc = "settle"
      /\ j \in Jobs /\ jobLock[j] = "admin" /\ job \in [Jobs -> JobRow] /\ admin.row \in JobRow
      /\ UNCHANGED <<attempt, adopted, noted, files, remote, docLock, runner, crashes>>
      /\ admin' = IdleAdmin /\ jobLock' = [jobLock EXCEPT ![j] = Nobody]
      /\ slots' \subseteq slots
  BY DEF IInv, TypeOK, AdminType, LocksInv, ReconcileSettle, Ledger, RunnersOnly
<1>b. b \in Billings /\ (b = "confirmed" => PaidFor(j))
  BY <1>a, BillingIsRight DEF JobRow
<1>c. job' = job \/ job' = [job EXCEPT ![j] = row]
  BY <1>a DEF ReconcileSettle, JobRow
<1> HIDE DEF b
<1>d. row \in JobRow /\ row.status = admin.row.status /\ row.billing = b
  BY <1>a, <1>b DEF JobRow
<1> HIDE DEF row
<1>e. /\ job' \in [Jobs -> JobRow] /\ \A k \in Jobs : k # j => job'[k] = job[k]
      /\ job'[j] = job[j] \/ job'[j] = row
  BY <1>a, <1>c, <1>d
<1>f. \A q \in Runners : runner[q].pc \in LockedPoints => runner[q].job \in Jobs \ {j}
  BY <1>a, Distinct, Points DEF LocksInv, HoldsLocks
<1>g. admin.row.status = "ready" => job[j].status = "ready"
  BY <1>a DEF AdminInv
<1>1. TypeOK'
  BY <1>a, <1>e, IdleAdminIsOne DEF TypeOK, AdminType
<1>2. LocksInv'
  <2>1. ASSUME NEW q \in Runners  PROVE HoldsLocks(q)'
    <3>1. HoldsLocks(q)  BY <1>a DEF LocksInv
    <3>2. runner[q].pc \in LockedPoints => jobLock'[runner[q].job] = q
      BY <3>1, <1>a, <1>f DEF HoldsLocks, TypeOK
    <3> QED  BY <3>1, <3>2, <1>a DEF HoldsLocks, MyDoc, MyJob
  <2> QED  BY <2>1, <1>a, IdleAdminIsOne DEF LocksInv
<1>3. StatusInv'
  BY <1>a, <1>e, <1>f, Points DEF StatusInv
<1>4. SentInv'  BY <1>a DEF SentInv, SentAt, RunnerSends, Me, MyJob
<1>5. KnownInv'  BY <1>a DEF KnownInv, FileKnown, RunnerKnows, Submitted, Counted, Own
<1>6. CacheInv'  BY <1>a DEF CacheInv, CacheAt, RunnerCaches, MyDoc, MyJob
<1>7. ReadyInv'
  <2>1. \A k \in Jobs : Served(k) => Served(k)'  BY <1>a DEF Served, Counted, Own
  <2>2. \A k \in Jobs : job'[k].status = "ready" => job[k].status = "ready"
    BY <1>d, <1>e, <1>g
  <2>3. \A q \in Runners : runner[q].pc \in ConvertedPoints => runner[q].job \in Jobs
    BY <1>f, Points
  <2> QED  BY <2>1, <2>2, <2>3, <1>a DEF ReadyInv
<1>8. BillingInv'
  <2>0. \A k \in Jobs : PaidFor(k) => PaidFor(k)'  BY <1>a DEF PaidFor, Counted, Own
  <2>1. ASSUME NEW q \in Runners  PROVE RunnerPays(q)'
    BY <2>0, <1>a, <1>f, Points DEF BillingInv, RunnerPays
  <2>2. ASSUME NEW k \in Jobs  PROVE JobIsPaid(k)'
    BY <2>0, <1>a, <1>b, <1>d, <1>e DEF BillingInv, JobIsPaid
  <2> QED  BY <2>1, <2>2 DEF BillingInv
<1>9. AdminInv'  BY <1>a, IdleAdminIsOne DEF AdminInv
<1> QED  BY <1>1, <1>2, <1>3, <1>4, <1>5, <1>6, <1>7, <1>8, <1>9 DEF IInv-----------------------------------------------------------------------------
(* The provider: what was never sent stays so, and nothing is sent.         *)

LEMMA ProviderMoves ==
  ASSUME IInv, NEW m \in Remotes, ProviderOnly, remote' \in [Remotes -> RemoteType],
         \A n \in Remotes : n # m => remote'[n] = remote[n],
         remote'[m].sent = remote[m].sent, remote[m].state # "none",
         remote'[m].state = "flawed" => m[2] + 1 \in Parts
  PROVE  IInv'
<1>a. /\ TypeOK /\ LocksInv /\ StatusInv /\ SentInv /\ KnownInv /\ CacheInv /\ ReadyInv
      /\ BillingInv /\ AdminInv /\ runner \in [Runners -> RunnerType]
      /\ UNCHANGED <<job, attempt, adopted, noted, slots, files, jobLock, docLock, runner, admin, crashes>>
  BY DEF IInv, TypeOK, RunnerType, ProviderOnly
<1>1. TypeOK'  BY <1>a DEF TypeOK, RemoteType
<1>2. LocksInv'  BY <1>a DEF LocksInv, HoldsLocks, MyDoc, MyJob
<1>3. StatusInv'  BY <1>a DEF StatusInv
<1>4. SentInv'
  <2>1. ASSUME NEW n \in Remotes  PROVE SentAt(n)'
    BY <1>a DEF SentInv, SentAt
  <2>2. ASSUME NEW q \in Runners  PROVE RunnerSends(q)'
    <3>1. RunnerSends(q) /\ Me(q)' = Me(q)  BY <1>a DEF SentInv, Me, MyJob
    <3>2. runner[q].pc = "create" => Me(q) \in Remotes /\ Me(q) # m
      <4>1. runner[q].pc = "create" => runner[q].job \in Jobs /\ runner[q].part \in Parts
        BY <1>a, Points DEF LocksInv, HoldsLocks, RunnerType
      <4> QED  BY <3>1, <4>1 DEF RunnerSends, Me, MyJob, Remotes
    <3> QED  BY <3>1, <3>2, <1>a DEF RunnerSends
  <2> QED  BY <2>1, <2>2 DEF SentInv
<1>5. KnownInv'  BY <1>a DEF KnownInv, FileKnown, RunnerKnows, Submitted, Counted, Own
<1>6. CacheInv'  BY <1>a DEF CacheInv, CacheAt, RunnerCaches, MyDoc, MyJob
<1>7. ReadyInv'  BY <1>a DEF ReadyInv, Served, Counted, Own
<1>8. BillingInv'  BY <1>a DEF BillingInv, JobIsPaid, RunnerPays, PaidFor, Counted, Own
<1>9. AdminInv'  BY <1>a DEF AdminInv
<1> QED  BY <1>1, <1>2, <1>3, <1>4, <1>5, <1>6, <1>7, <1>8, <1>9 DEF IInv

LEMMA RemoteEndsKeeps ==
  ASSUME IInv, NEW m \in Remotes, RemoteEnds(m)
  PROVE  IInv'
<1>1. PICK state \in Ends : /\ state = "flawed" => m[2] + 1 \in Parts
                            /\ remote' = [remote EXCEPT ![m].state = state]
  BY DEF RemoteEnds
<1>2. remote \in [Remotes -> RemoteType] /\ remote[m].state = "running" /\ ProviderOnly
  BY DEF IInv, TypeOK, RemoteType, RemoteEnds
<1> DEFINE u == [remote[m] EXCEPT !.state = state]
<1>3. u \in RemoteType /\ u.state = state /\ u.sent = remote[m].sent
  BY <1>1, <1>2 DEF RemoteType
<1>4. remote' = [remote EXCEPT ![m] = u]  BY <1>1, <1>2 DEF RemoteType
<1> HIDE DEF u
<1> QED  BY <1>1, <1>2, <1>3, <1>4, ProviderMoves

LEMMA UsageReportedKeeps ==
  ASSUME IInv, NEW m \in Remotes, UsageReported(m)
  PROVE  IInv'
<1>1. /\ remote \in [Remotes -> RemoteType] /\ remote[m].state # "none" /\ ProviderOnly /\ SentAt(m)
      /\ remote' = [remote EXCEPT ![m].usage = TRUE]
  BY DEF IInv, TypeOK, SentInv, RemoteType, UsageReported, Ended, Ends
<1> DEFINE u == [remote[m] EXCEPT !.usage = TRUE]
<1>2. u \in RemoteType /\ u.state = remote[m].state /\ u.sent = remote[m].sent
  BY <1>1 DEF RemoteType
<1>3. remote' = [remote EXCEPT ![m] = u]  BY <1>1 DEF RemoteType
<1> HIDE DEF u
<1> QED  BY <1>1, <1>2, <1>3, ProviderMoves DEF SentAt

-----------------------------------------------------------------------------
(* The first state, the steps, and the theorems.                            *)

LEMMA InitHolds ==
  ASSUME Init
  PROVE  IInv
<1> USE Distinct
<1>a. PICK text \in [Documents -> BOOLEAN] : files = [d \in Documents |-> Document(text[d])]
  BY DEF Init
<1>b. \A r \in Runners : runner[r] \in RunnerType /\ runner[r].pc \in {"down", "idle"}
  BY IdleFields DEF Init
<1>c. \A r \in Runners : /\ runner[r].pc \notin JobPoints \union LockedPoints \union WorkPoints
                         /\ runner[r].pc \notin DocPoints \union ParsePoints
                         /\ runner[r].pc \notin EarlyPoints \union ConvertedPoints
                         /\ runner[r].pc \notin {"create", "record", "sidecar", "poll", "cache", "attach", "build", "ready"}
  BY <1>b, Points
<1>d. \A d \in Documents : /\ files[d] \in FileType /\ ~files[d].cached /\ files[d].made = {} /\ files[d].payers = {}
                           /\ \A p \in Parts : files[d].sidecar[p] = NoRemote
  BY <1>a DEF Document, FileType
<1>e. \A j \in Jobs : job[j] \in JobRow /\ job[j].status = "queued"
  BY DEF Init, NewRow, JobRow, Billings, Attachments
<1>1. TypeOK
  <2>1. runner \in [Runners -> RunnerType] /\ job \in [Jobs -> JobRow] /\ files \in [Documents -> FileType]
    BY <1>a, <1>b, <1>d, <1>e DEF Init
  <2>2. admin \in AdminType  BY IdleAdminIsOne DEF Init
  <2>3. remote \in [Remotes -> RemoteType]  BY DEF Init, NoSubmission, RemoteType
  <2> QED  BY <2>1, <2>2, <2>3 DEF Init, TypeOK, RunnerType, FileType, AdminType, RemoteType, AttemptStates
<1>2. LocksInv  BY <1>c, IdleAdminIsOne DEF LocksInv, HoldsLocks, Init
<1>3. StatusInv  BY <1>c DEF StatusInv
<1>4. SentInv
  <2>1. ASSUME NEW m \in Remotes  PROVE SentAt(m)
    <3>1. remote[m] = NoSubmission  BY DEF Init
    <3>2. NoSubmission.sent = 0 /\ NoSubmission.state = "none"  BY DEF NoSubmission
    <3> QED  BY <3>1, <3>2 DEF SentAt
  <2>2. \A r \in Runners : RunnerSends(r)  BY <1>c DEF RunnerSends
  <2> QED  BY <2>1, <2>2 DEF SentInv
<1>5. KnownInv  BY <1>c, <1>d DEF KnownInv, FileKnown, RunnerKnows, Init
<1>6. CacheInv  BY <1>c, <1>d DEF CacheInv, CacheAt, RunnerCaches
<1>7. ReadyInv  BY <1>c, <1>e DEF ReadyInv
<1>8. BillingInv  BY <1>c, <1>e DEF BillingInv, JobIsPaid, RunnerPays, Terminal
<1>9. AdminInv  BY IdleAdminIsOne DEF AdminInv, Init
<1> QED  BY <1>1, <1>2, <1>3, <1>4, <1>5, <1>6, <1>7, <1>8, <1>9 DEF IInv

LEMMA StutterKeeps ==
  ASSUME IInv, UNCHANGED vars
  PROVE  IInv'
<1>a. UNCHANGED <<job, attempt, adopted, noted, slots, files, remote, jobLock, docLock, runner, admin, crashes>>
  BY DEF vars
<1>1. (TypeOK /\ LocksInv /\ StatusInv /\ SentInv)'
  BY <1>a DEF IInv, TypeOK, LocksInv, HoldsLocks, StatusInv, SentInv, SentAt, RunnerSends, Me, MyDoc, MyJob
<1>2. KnownInv'  BY <1>a DEF IInv, KnownInv, FileKnown, RunnerKnows, Submitted, Counted, Own
<1>3. CacheInv'  BY <1>a DEF IInv, CacheInv, CacheAt, RunnerCaches, MyDoc, MyJob
<1>4. ReadyInv'  BY <1>a DEF IInv, ReadyInv, Served, Counted, Own
<1>5. BillingInv'  BY <1>a DEF IInv, BillingInv, JobIsPaid, RunnerPays, PaidFor, Counted, Own
<1>6. AdminInv'  BY <1>a DEF IInv, AdminInv
<1> QED  BY <1>1, <1>2, <1>3, <1>4, <1>5, <1>6 DEF IInv

LEMMA NextKeeps ==
  ASSUME IInv, [Next]_vars
  PROVE  IInv'
<1>1. ASSUME NEW r \in Runners, RunnerStep(r)  PROVE IInv'
  BY <1>1, ClaimKeeps, LockJobKeeps, StartKeeps, EnterSlotKeeps, LockDocumentKeeps, ConvertKeeps,
     LookupKeeps, CreateKeeps, RecordKeeps, WriteSidecarKeeps, PollKeeps, StorePayersKeeps,
     StoreCacheKeeps, AbortKeeps, ReleaseKeeps, ValidateKeeps, BuildKeeps, ReadyKeeps, AttachKeeps,
     FailKeeps
  DEF RunnerStep
<1>2. ASSUME NEW r \in Runners, Crash(r)  PROVE IInv'  BY <1>2, CrashKeeps
<1>3. CASE WorkerStep  BY <1>3, WorkerStartKeeps, RecoverJobKeeps, RecoveredKeeps DEF WorkerStep
<1>4. CASE AdminStep
  BY <1>4, ReconcileStartKeeps, ReconcileFetchKeeps, ReconcileFetchedKeeps, ReconcileFailsKeeps,
     ReconcileNoteKeeps, ReconcileSettleKeeps
  DEF AdminStep
<1>5. CASE ProviderStep  BY <1>5, RemoteEndsKeeps, UsageReportedKeeps DEF ProviderStep
<1>6. CASE NothingQueued \/ UNCHANGED vars  BY <1>6, StutterKeeps DEF NothingQueued
<1> QED  BY <1>1, <1>2, <1>3, <1>4, <1>5, <1>6 DEF Next
LEMMA Inductive == Spec => []IInv
<1>1. Init => IInv  BY InitHolds
<1>2. IInv /\ [Next]_vars => IInv'  BY NextKeeps
<1> QED  BY <1>1, <1>2, PTL DEF Spec

(* The types of rows, ledger, files and locks, of what the runners and the   *)
(* admin hold, and of what the provider runs.                                *)
THEOREM TypeCorrect == Spec => []TypeOK
<1>1. IInv => TypeOK  BY DEF IInv
<1> QED  BY <1>1, Inductive, PTL

(* SubmittedOnce: no job submits a part twice, however many processes run    *)
(* it, die and take it up again.  The attempt is on the ledger before the    *)
(* submission, and what happened to it decides what the next run may do.     *)
THEOREM PartsSubmittedOnce == Spec => []SubmittedOnce
<1>1. IInv => SubmittedOnce  BY DEF IInv, SentInv, SentAt, SubmittedOnce
<1> QED  BY <1>1, Inductive, PTL

(* NeverPaidAgain: nobody submits a part of a document whose remote parse or *)
(* result is on record.  Between the lookup and the submission the cache's   *)
(* lock keeps everybody else from the document.                              *)
THEOREM PaidOnce == Spec => NeverPaidAgain
<1> DEFINE Fresh(m) == LET f == files[DocumentOf[m[1]]] IN ~f.cached /\ f.sidecar[m[2]] = NoRemote
<1>1. ASSUME IInv, Next, NEW m \in Remotes, remote'[m].sent # remote[m].sent  PROVE Fresh(m)
  <2>1. remote' # remote /\ remote \in [Remotes -> RemoteType]
    BY <1>1 DEF IInv, TypeOK, RemoteType
  <2>2. CASE \E r \in Runners : Create(r)
    <3>1. PICK r \in Runners : Create(r)  BY <2>2
    <3>2. /\ runner[r].pc = "create" /\ runner[r].pc \in ParsePoints
          /\ m = Me(r) \/ remote'[m].sent = remote[m].sent
      BY <2>1, <3>1, Points DEF Create, At, RemoteType, Me
    <3>3. m = <<runner[r].job, runner[r].part>>  BY <1>1, <3>2 DEF Me, MyJob
    <3>4. RunnerCaches(r) /\ MyDoc(r) = DocumentOf[m[1]] /\ m[2] = runner[r].part
      BY <1>1, <3>3 DEF IInv, CacheInv, MyDoc, MyJob
    <3> QED  BY <3>2, <3>4 DEF RunnerCaches
  <2>3. CASE ProviderStep
    BY <1>1, <2>1, <2>3 DEF ProviderStep, RemoteEnds, UsageReported, RemoteType
  <2>4. CASE ~(\E r \in Runners : Create(r)) /\ ~ProviderStep
    <3>1. CASE \E r \in Runners : RunnerStep(r) \/ Crash(r)
      BY <2>1, <2>4, <3>1, ZenonT(60)
      DEF RunnerStep, Claim, LockJob, Start, EnterSlot, LockDocument, Convert, Lookup, Record,
          WriteSidecar, Poll, StorePayers, StoreCache, Abort, Release, Validate, Build, Ready,
          Attach, Fail, Crash, World
    <3>2. CASE WorkerStep
      BY <2>1, <3>2 DEF WorkerStep, WorkerStart, RecoverJob, Recovered, World
    <3>3. CASE AdminStep
      BY <2>1, <3>3 DEF AdminStep, ReconcileStart, ReconcileFetch, ReconcileFetched,
                        ReconcileFails, ReconcileNote, ReconcileSettle, RunnersOnly
    <3>4. CASE NothingQueued  BY <2>1, <3>4 DEF NothingQueued, vars
    <3> QED  BY <1>1, <2>4, <3>1, <3>2, <3>3, <3>4, SMTT(60) DEF Next
  <2> QED  BY <2>2, <2>3, <2>4
<1>2. IInv /\ [Next]_vars => [\A m \in Remotes : remote'[m].sent # remote[m].sent => Fresh(m)]_vars
  BY <1>1 DEF vars
<1> QED  BY <1>2, Inductive, PTL DEF NeverPaidAgain, Spec

(* ConfirmedIsPaid: billing that is confirmed is of parses whose usage is    *)
(* known: those the provider ran for the job, since none of them is off its  *)
(* ledger, and those that made the public cache entry it read, since the     *)
(* entry's payers were adopted.                                              *)
THEOREM PaidIfConfirmed == Spec => []ConfirmedIsPaid
<1>1. ASSUME IInv  PROVE ConfirmedIsPaid
  <2>1. ASSUME NEW j \in Jobs, job[j].status \in Terminal, job[j].billing = "confirmed"
        PROVE  /\ \A p \in Parts : remote[<<j, p>>].state # "none" => noted[<<j, p>>].paid
               /\ DocumentOf[j] \in Public /\ job[j].status = "ready" =>
                    \A m \in files[DocumentOf[j]].made : noted[m].paid
    <3>1. PaidFor(j)  BY <1>1, <2>1 DEF IInv, BillingInv, JobIsPaid
    <3>2. ASSUME NEW p \in Parts, remote[<<j, p>>].state # "none"  PROVE noted[<<j, p>>].paid
      <4>1. <<j, p>> \in Remotes /\ SentAt(<<j, p>>)  BY <1>1 DEF Remotes, IInv, SentInv
      <4>2. <<j, p>> \in Own(j)  BY <3>2, <4>1 DEF SentAt, Own
      <4> QED  BY <3>1, <4>2 DEF PaidFor, Counted
    <3>3. DocumentOf[j] \in Public /\ job[j].status = "ready" =>
            files[DocumentOf[j]].made \subseteq Counted(j)
      BY <1>1 DEF IInv, ReadyInv, Served
    <3> QED  BY <3>1, <3>2, <3>3 DEF PaidFor
  <2> QED  BY <2>1 DEF ConfirmedIsPaid
<1> QED  BY <1>1, Inductive, PTL

-----------------------------------------------------------------------------
(* The import worker without CLI processes beside it (Clis = {}): a job that *)
(* is over stays so, a lost remote parse is never forgotten, and no more     *)
(* remote parses run than there are slots.                                   *)
(*                                                                         *)
(* The worker runs one job at a time, and the oldest one.  So whatever a     *)
(* crash left behind of a job that is not over, nobody else comes between    *)
(* that run and the next.  With a CLI process beside the worker neither of   *)
(* the first two holds.                                                     *)

HIDE RunsAssumption

-----------------------------------------------------------------------------
(* One job at a time.                                                       *)

WorkerPc == runner[Worker].pc
WorkerJob == runner[Worker].job
IsOver(j) == job[j].status \in Terminal

(* What is in flight is the worker's job, or what it found when it started.  *)
OneInv ==
  /\ WorkerPc \notin {"down", "recover"} =>
       \A j \in Jobs : job[j].status \in InFlight => WorkerPc # "idle" /\ j = WorkerJob
  /\ WorkerPc = "recover" => \A j \in Jobs : job[j].status \in InFlight => j \in runner[Worker].todo
  /\ WorkerPc \in JobPoints \ {"attach"} => ~IsOver(WorkerJob)

(* A submission of unknown outcome, and what is kept of it. *)
Unsure(j) == \E m \in Own(j) : attempt[m] \in Unresolved
UnsureIsKept(j) ==
  Unsure(j) =>
    /\ j \in slots /\ job[j].status # "queued" /\ (IsOver(j) => job[j].billing = "pending_own")
    /\ WorkerPc \in JobPoints /\ j = WorkerJob => WorkerPc \in {"create", "record", "abort", "fail"}
ClaimMayBeUndone == admin.pc # "idle" /\ admin.row.status = "queued" => ~Unsure(admin.job)
UnsureInv ==
  /\ \A j \in Jobs : UnsureIsKept(j)
  /\ WorkerPc \in {"create", "record"} =>
       \A m \in Own(WorkerJob) : attempt[m] \in Unresolved => m = Me(Worker)
  /\ WorkerPc \in DocPoints \union {"doc"} => WorkerJob \in slots
  /\ ClaimMayBeUndone

-----------------------------------------------------------------------------
(* The slots.                                                               *)

Runs(m) == remote[m].state = "running"
Silent(j) == \A m \in Remotes : m[1] = j => ~Runs(m)
(* The first part of the job's document was parsed, and has to be repaired. *)
Flawed(j) ==
  FindRemote(j, 1) # {} /\ \A m \in FindRemote(j, 1) : remote[m].state = "flawed"
Untried(m) == attempt[m] \in {"none", "rejected"}

SlotsInv ==
  /\ IsFiniteSet(slots) /\ Cardinality(slots) <= SlotLimit
  /\ \A m \in Remotes : Runs(m) => m[1] \in slots

(* What is noted as ended has ended. *)
NotedInv ==
  /\ \A m \in Remotes : noted[m].status = "terminal" => Ended(m)
  /\ admin.pc = "note" /\ admin.status = "terminal" => Ended(admin.remote)

(* The oldest job first: what is begun of a job that is not over. *)
Oldest(j) == \A k \in Jobs : ~IsOver(k) => j <= k
OldestInv ==
  /\ WorkerPc \in JobPoints \ {"attach"} => Oldest(WorkerJob)
  /\ \A j \in Jobs : ~IsOver(j) /\ Own(j) # {} => Oldest(j)

(* Documents with a good text layer are never sent. *)
TextInv ==
  /\ \A j \in Jobs : files[DocumentOf[j]].text => Own(j) = {}
  /\ WorkerPc \in ParsePoints => ~files[MyDoc(Worker)].text

(* A job that is not over: once its document is cached its parses have      *)
(* ended; before, it has adopted at most one of each part, and repairs what *)
(* is flawed.                                                               *)
OpenJob(j) ==
  ~IsOver(j) =>
    IF files[DocumentOf[j]].cached THEN Silent(j)
    ELSE /\ \A m, n \in adopted[j] : m[2] = n[2] => m = n
         /\ 2 \in Parts /\ ~Untried(<<j, 2>>) => Flawed(j)
OpenInv == \A j \in Jobs : OpenJob(j)

(* The parts of a document are parsed one after the other. *)
PollsItsOwn == runner[Worker].remote \in FindRemote(WorkerJob, runner[Worker].part)
PartsInv ==
  /\ \A j \in Jobs : 2 \in Parts /\ ~Untried(<<j, 2>>) => ~Runs(<<j, 1>>)
  /\ WorkerPc \in EarlyPoints => runner[Worker].part = 1
  /\ WorkerPc \in ParsePoints /\ runner[Worker].part = 2 => Flawed(WorkerJob)
  /\ WorkerPc = "poll" => PollsItsOwn
  /\ WorkerPc \in {"create", "record"} /\ runner[Worker].part = 1 /\ 2 \in Parts => Untried(<<WorkerJob, 2>>)
  /\ WorkerPc \in {"payers", "cache", "release"} => Silent(WorkerJob)

WInv ==
  /\ IInv /\ OneInv /\ UnsureInv
  /\ SlotsInv /\ NotedInv /\ OldestInv /\ TextInv /\ OpenInv /\ PartsInv

-----------------------------------------------------------------------------
(* Steps that leave the attempts and the provider alone.                    *)

(* A document is cached when the parses of its open jobs have ended. *)
FilesGrow ==
  \A d \in Documents :
    /\ files'[d].text = files[d].text /\ (files[d].cached => files'[d].cached)
    /\ files'[d].cached =>
         files[d].cached \/ \A j \in Jobs : DocumentOf[j] = d /\ ~IsOver(j) => Silent(j)
NotesGrow == \A n \in Remotes : noted'[n].status = "terminal" => noted[n].status = "terminal" \/ Ended(n)

(* The worker goes on with its job. *)
LEMMA OnKeeps ==
  ASSUME WInv, IInv', WorkerPc \in JobPoints \ {"attach"}, NEW pc \in JobPoints \ {"create", "record"},
         NEW row, NEW part, NEW m, NEW log, Becomes(Worker, pc, WorkerJob, row, part, m, log),
         UNCHANGED <<attempt, remote, admin>>, RowBy(Worker), FilesGrow, NotesGrow, SlotsInv',
         \A j \in Jobs : j # WorkerJob => adopted'[j] = adopted[j] /\ (j \in slots => j \in slots'),
         adopted'[WorkerJob] = adopted[WorkerJob] \/ OpenJob(WorkerJob)',
         pc # "attach" => job'[WorkerJob].status \notin Terminal,
         pc \in DocPoints \union {"doc"} => WorkerJob \in slots',
         Unsure(WorkerJob) =>
           WorkerJob \in slots' /\ pc \in {"abort", "fail"} /\ job'[WorkerJob] = job[WorkerJob],
         pc \in EarlyPoints => part = 1,
         pc \in ParsePoints => ~files[MyDoc(Worker)].text,
         pc \in ParsePoints /\ part = 2 => Flawed(WorkerJob)',
         pc = "poll" => PollsItsOwn',
         pc \in {"payers", "cache", "release"} => Silent(WorkerJob)
  PROVE  WInv'
<1>0. PICK J \in Jobs : J = WorkerJob  BY AtWork, Distinct DEF WInv, WorkerPc, WorkerJob
<1>a. /\ IInv /\ OneInv /\ UnsureInv
      /\ SlotsInv /\ NotedInv /\ OldestInv /\ TextInv /\ OpenInv /\ PartsInv
      /\ MyDoc(Worker) \in Documents /\ MyDoc(Worker) = DocumentOf[J]
      /\ attempt' = attempt /\ remote' = remote /\ admin' = admin
  BY <1>0, AtWork, Distinct DEF WInv, WorkerPc, WorkerJob, MyDoc, MyJob
<1>b. WorkerPc' = pc /\ WorkerJob' = J /\ runner'[Worker].part = part /\ runner'[Worker].remote = m
      /\ Me(Worker)' = <<J, part>> /\ MyDoc(Worker)' = MyDoc(Worker)
  BY <1>0 DEF Becomes, WorkerPc, WorkerJob, Me, MyDoc, MyJob
<1>c. /\ \A j \in Jobs : j # J => job'[j] = job[j]
      /\ \A j \in Jobs : IsOver(j) => IsOver(j)'
  BY <1>0, <1>a DEF RowBy, IsOver, OneInv, WorkerJob
<1>d. \A j \in Jobs : Own(j)' = Own(j) /\ (Unsure(j)' <=> Unsure(j)) /\ (Silent(j)' <=> Silent(j))
  BY DEF Own, Unsure, Silent, Runs
<1>e. pc \notin {"down", "idle", "recover"} /\ WorkerPc \notin {"down", "idle", "recover"}
  BY Points
<1>1. OneInv'
  BY <1>0, <1>a, <1>b, <1>c, <1>e DEF OneInv, IsOver
<1>2. UnsureInv'
  <2>1. ASSUME NEW j \in Jobs  PROVE UnsureIsKept(j)'
    <3>1. UnsureIsKept(j)  BY <1>a DEF UnsureInv
    <3>2. CASE j = J  BY <3>1, <3>2, <1>0, <1>b, <1>d DEF UnsureIsKept, IsOver
    <3>3. CASE j # J  BY <3>1, <3>3, <1>0, <1>b, <1>c, <1>d DEF UnsureIsKept, IsOver
    <3> QED  BY <3>2, <3>3
  <2>2. ClaimMayBeUndone'
    BY <1>a DEF UnsureInv, ClaimMayBeUndone, Unsure, Own
  <2> QED  BY <2>1, <2>2, <1>0, <1>b DEF UnsureInv
<1>3. NotedInv'
  BY <1>a DEF NotedInv, NotesGrow, Ended
<1>4. OldestInv'
  BY <1>0, <1>a, <1>b, <1>c, <1>d DEF OldestInv, Oldest
<1>5. TextInv'
  BY <1>a, <1>b, <1>d, Distinct DEF TextInv, FilesGrow
<1>6. OpenInv'
  <2>1. ASSUME NEW j \in Jobs, adopted'[j] = adopted[j]  PROVE OpenJob(j)'
    <3>1. OpenJob(j) /\ DocumentOf[j] \in Documents  BY <1>a, Distinct DEF OpenInv
    <3>2. Flawed(j)' <=> Flawed(j)  BY <2>1 DEF Flawed, FindRemote
    <3>3. 2 \in Parts => (Untried(<<j, 2>>)' <=> Untried(<<j, 2>>))  BY DEF Untried
    <3> QED  BY <2>1, <3>1, <3>2, <3>3, <1>c, <1>d DEF OpenJob, FilesGrow
  <2>2. adopted'[J] = adopted[J] \/ OpenJob(J)'  BY <1>0, <1>b DEF OpenJob, Silent, Flawed, FindRemote
  <2> QED  BY <2>1, <2>2, <1>0 DEF OpenInv
<1>7. PartsInv'
  <2>1. \A j \in Jobs : 2 \in Parts /\ ~Untried(<<j, 2>>)' => ~Runs(<<j, 1>>)'
    BY <1>a DEF PartsInv, Untried, Runs
  <2>2. Silent(J)' <=> Silent(J)  BY <1>d
  <2>3. pc \in {"payers", "cache", "release"} => Silent(WorkerJob)'  BY <1>0, <1>b, <2>2 DEF Silent
  <2> QED  BY <2>1, <2>3, <1>b DEF PartsInv
<1> QED  BY <1>1, <1>2, <1>3, <1>4, <1>5, <1>6, <1>7 DEF WInv

(* It is done with its job, or dies. *)
LEMMA RestKeeps ==
  ASSUME WInv, IInv', runner'[Worker].pc \in {"idle", "down"},
         UNCHANGED <<attempt, adopted, noted, files, remote, admin>>,
         \A j \in Jobs : j # WorkerJob => job'[j] = job[j], SlotsInv',
         \A j \in Jobs : IsOver(j) => IsOver(j)',
         runner'[Worker].pc = "idle" => WorkerPc \in JobPoints /\ job'[WorkerJob].status \notin InFlight,
         \A j \in Jobs : Unsure(j) => j \in slots',
         WorkerJob \in Jobs /\ Unsure(WorkerJob) =>
           /\ job'[WorkerJob].status # "queued"
           /\ job'[WorkerJob].status \in Terminal => job'[WorkerJob].billing = "pending_own"
  PROVE  WInv'
<1>a. /\ IInv /\ OneInv /\ UnsureInv
      /\ SlotsInv /\ NotedInv /\ OldestInv /\ TextInv /\ OpenInv /\ PartsInv
      /\ attempt' = attempt /\ adopted' = adopted /\ noted' = noted /\ files' = files
      /\ remote' = remote /\ admin' = admin
  BY DEF WInv
<1>b. WorkerPc' \in {"idle", "down"} /\ WorkerPc' \notin {"recover", "create", "record", "doc"} /\ WorkerPc' \notin JobPoints
      /\ WorkerPc' \notin DocPoints
  BY Points DEF WorkerPc
<1>c. WorkerPc' \notin ParsePoints /\ WorkerPc' \notin EarlyPoints /\ WorkerPc' \notin {"poll", "payers", "cache", "release"}
  BY <1>b, Points
<1>d. \A j \in Jobs : Own(j)' = Own(j) /\ (Unsure(j)' <=> Unsure(j)) /\ (Silent(j)' <=> Silent(j))
  BY DEF Own, Unsure, Silent, Runs
<1>1. OneInv'
  <2>1. WorkerPc' = "idle" => \A j \in Jobs : job'[j].status \notin InFlight
    <3>1. WorkerPc' = "idle" => WorkerPc \notin {"down", "recover", "idle"}  BY Points DEF WorkerPc
    <3> QED  BY <3>1, <1>a DEF OneInv, WorkerPc, WorkerJob
  <2> QED  BY <2>1, <1>b DEF OneInv
<1>2. UnsureInv'
  <2>1. ASSUME NEW j \in Jobs  PROVE UnsureIsKept(j)'
    <3>1. UnsureIsKept(j)  BY <1>a DEF UnsureInv
    <3>2. CASE j = WorkerJob  BY <3>1, <3>2, <1>b, <1>d DEF UnsureIsKept, IsOver
    <3>3. CASE j # WorkerJob  BY <3>1, <3>3, <1>b, <1>d DEF UnsureIsKept, IsOver
    <3> QED  BY <3>2, <3>3
  <2>2. ClaimMayBeUndone'
    BY <1>a DEF UnsureInv, ClaimMayBeUndone, Unsure, Own
  <2> QED  BY <2>1, <2>2, <1>b DEF UnsureInv
<1>3. NotedInv'  BY <1>a DEF NotedInv, Ended
<1>4. OldestInv'
  <2>1. \A j \in Jobs : Oldest(j) => Oldest(j)'  BY DEF Oldest
  <2> QED  BY <2>1, <1>a, <1>b, <1>d DEF OldestInv
<1>5. TextInv'  BY <1>a, <1>c, <1>d DEF TextInv
<1>6. OpenInv'
  <2>1. \A j \in Jobs : (OpenJob(j) /\ IsOver(j) => IsOver(j)')  OBVIOUS
  <2>2. \A j \in Jobs : Flawed(j)' <=> Flawed(j)  BY DEF Flawed, FindRemote
  <2> QED  BY <2>1, <2>2, <1>a, <1>d DEF OpenInv, OpenJob, Untried
<1>7. PartsInv'  BY <1>a, <1>b, <1>c DEF PartsInv, Untried, Runs
<1> QED  BY <1>1, <1>2, <1>3, <1>4, <1>5, <1>6, <1>7 DEF WInv
(* What the invariant says of the worker at work. *)
LEMMA WorkerAt ==
  ASSUME WInv, WorkerPc \in JobPoints
  PROVE  /\ IInv /\ TypeOK /\ Worker \in Runners /\ WorkerJob \in Jobs /\ runner[Worker] \in RunnerType
         /\ WorkerJob = MyJob(Worker) /\ WorkerPc = runner[Worker].pc /\ WorkerJob = runner[Worker].job
         /\ Unsure(WorkerJob) => WorkerJob \in slots /\ WorkerPc \in {"create", "record", "abort", "fail"}
         /\ WorkerPc \in DocPoints \union {"doc"} => WorkerJob \in slots
         /\ WorkerPc \in EarlyPoints => runner[Worker].part = 1
         /\ WorkerPc # "attach" => job[WorkerJob].status \notin Terminal
         /\ MyDoc(Worker) \in Documents /\ MyDoc(Worker) = DocumentOf[WorkerJob]
BY AtWork, Distinct DEF WInv, UnsureInv, UnsureIsKept, OneInv, PartsInv, IsOver, WorkerPc, WorkerJob, MyJob, MyDoc

LEMMA SlotsStay ==
  ASSUME SlotsInv, UNCHANGED <<slots, remote>>
  PROVE  SlotsInv'
BY DEF SlotsInv, Runs

LEMMA NothingGrows ==
  /\ UNCHANGED files => FilesGrow
  /\ UNCHANGED noted => NotesGrow
BY DEF FilesGrow, NotesGrow

(* The program point alone, outside of parsing. *)
LEMMA GotoOn ==
  ASSUME WInv, IInv', WorkerPc \in JobPoints \ {"attach"},
         NEW pc \in {"start", "doc", "convert", "abort", "release", "validate", "fail"}, Goto(Worker, pc),
         UNCHANGED <<job, attempt, adopted, files, remote, admin>>, NotesGrow, SlotsInv',
         \A j \in Jobs : j # WorkerJob => (j \in slots => j \in slots'),
         pc \in {"doc", "convert", "abort", "release"} => WorkerJob \in slots',
         Unsure(WorkerJob) => WorkerJob \in slots' /\ pc \in {"abort", "fail"},
         pc \in {"start", "doc", "convert"} => WorkerPc \in EarlyPoints,
         pc = "release" => Silent(WorkerJob)
  PROVE  WInv'
<1>1. /\ pc \in JobPoints \ {"create", "record", "attach", "poll", "payers", "cache"}
      /\ pc \notin ParsePoints /\ pc \in RunnerPoints
      /\ pc \in DocPoints \union {"doc"} => pc \in {"doc", "convert", "abort", "release"}
      /\ pc \in EarlyPoints => pc \in {"start", "doc", "convert"}
  BY DEF JobPoints, LockedPoints, WorkPoints, DocPoints, ParsePoints, EarlyPoints, RunnerPoints
<1>2. Becomes(Worker, pc, WorkerJob, runner[Worker].row, runner[Worker].part, runner[Worker].remote,
              runner[Worker].log)
  BY <1>1, WorkerAt, GotoDoes DEF GoesOn
<1>3. /\ RowBy(Worker) /\ FilesGrow
      /\ job'[WorkerJob].status \notin Terminal /\ job'[WorkerJob] = job[WorkerJob]
      /\ pc \in EarlyPoints => runner[Worker].part = 1
      /\ \A j \in Jobs : adopted'[j] = adopted[j]
      /\ adopted'[WorkerJob] = adopted[WorkerJob]
  BY <1>1, WorkerAt, NothingGrows DEF RowBy, TypeOK
<1> QED  BY <1>1, <1>2, <1>3, OnKeeps

(* The row is written too. *)
LEMMA WriteOn ==
  ASSUME WInv, IInv', WorkerPc \in LockedPoints \ {"attach"}, NEW pc \in {"slot", "build", "ready", "attach"},
         NEW row \in JobRow, Write(Worker, row, pc), Quiet, UNCHANGED slots, ~Unsure(WorkerJob),
         pc # "attach" => row.status \notin Terminal,
         pc = "slot" => WorkerPc \in EarlyPoints
  PROVE  WInv'
<1>1. /\ pc \in JobPoints \ {"create", "record", "doc", "poll", "payers", "cache", "release"}
      /\ pc \notin ParsePoints /\ pc \in RunnerPoints /\ pc \notin DocPoints
      /\ pc \in EarlyPoints => pc = "slot"
  BY DEF JobPoints, LockedPoints, WorkPoints, DocPoints, ParsePoints, EarlyPoints, RunnerPoints
<1>2. /\ Becomes(Worker, pc, WorkerJob, row, runner[Worker].part, runner[Worker].remote, runner[Worker].log)
      /\ RowBy(Worker) /\ job'[WorkerJob] = row
  BY <1>1, WorkerAt, WriteDoes, Points DEF GoesOn, RowBy
<1>3. /\ FilesGrow /\ NotesGrow /\ SlotsInv'
      /\ \A j \in Jobs : adopted'[j] = adopted[j] /\ (j \in slots => j \in slots')
      /\ adopted'[WorkerJob] = adopted[WorkerJob]
      /\ UNCHANGED <<attempt, remote, admin>>
      /\ pc \in EarlyPoints => runner[Worker].part = 1
  BY <1>1, WorkerAt, NothingGrows, SlotsStay, Points DEF Quiet, WInv
<1>4. WorkerPc \in JobPoints \ {"attach"}  BY Points
<1> QED  BY <1>1, <1>2, <1>3, <1>4, OnKeeps
(* The slot of a job none of whose parses run may go. *)
LEMMA SlotGoes ==
  ASSUME SlotsInv, NEW j \in Jobs, Silent(j), UNCHANGED remote, slots' = slots \ {j}
  PROVE  SlotsInv'
<1>0. IsFiniteSet(slots) /\ slots' \in SUBSET slots  BY DEF SlotsInv
<1>1. IsFiniteSet(slots') /\ Cardinality(slots') <= Cardinality(slots)
      /\ Cardinality(slots) \in Nat /\ Cardinality(slots') \in Nat
  BY <1>0, FS_Subset, FS_CardinalityType
<1>2. SlotLimit \in Nat  BY RunsAssumption DEF RunsAssumption
<1>3. Cardinality(slots') <= SlotLimit  BY <1>1, <1>2 DEF SlotsInv
<1> QED  BY <1>1, <1>3 DEF SlotsInv, Silent, Runs

(* That is what the rule for keeping it says. *)
LEMMA LeavingIsSafe ==
  ASSUME WInv, NEW j \in Jobs, Counted(j) = {} \/ RemoteTerminal(j)
  PROVE  Silent(j) /\ ~Unsure(j)
<1>1. ASSUME NEW m \in Remotes, m[1] = j, Runs(m)  PROVE FALSE
  <2>1. SentAt(m) /\ (noted[m].status = "terminal" => Ended(m))  BY DEF WInv, IInv, SentInv, NotedInv
  <2>2. m \in Own(j) /\ m \in Counted(j)
    <3>1. ~(attempt[m] \in {"none", "rejected"})  BY <1>1, <2>1 DEF SentAt, Runs
    <3> QED  BY <1>1, <3>1 DEF Own, Counted
  <2> QED  BY <1>1, <2>1, <2>2 DEF RemoteTerminal, Ended, Ends, Runs
<1>2. ~Unsure(j)  BY DEF Unsure, Counted, RemoteTerminal
<1> QED  BY <1>1, <1>2 DEF Silent

LEMMA LockJobOn ==
  ASSUME WInv, IInv', LockJob(Worker)
  PROVE  WInv'
<1>1. WorkerPc = "claimed" /\ WorkerPc \in JobPoints /\ WorkerPc \in EarlyPoints
  BY DEF LockJob, At, WorkerPc, JobPoints, EarlyPoints
<1>2. /\ Goto(Worker, "start") /\ UNCHANGED <<job, attempt, adopted, files, remote, admin>>
      /\ NotesGrow /\ SlotsInv' /\ slots' = slots
  BY NothingGrows, SlotsStay DEF LockJob, Ledger, World, Others, WInv
<1> QED  BY <1>1, <1>2, WorkerAt, GotoOn

LEMMA StartOn ==
  ASSUME WInv, IInv', Start(Worker)
  PROVE  WInv'
<1>1. WorkerPc = "start" /\ WorkerPc \in JobPoints /\ WorkerPc \in EarlyPoints /\ WorkerPc \in LockedPoints
  BY DEF Start, At, WorkerPc, JobPoints, LockedPoints, EarlyPoints
<1>2. /\ Quiet /\ UNCHANGED slots /\ NotesGrow /\ SlotsInv'
  BY NothingGrows, SlotsStay DEF Start, Quiet, Ledger, World, Others, WInv
<1>3. CASE Write(Worker, [runner[Worker].row EXCEPT !.status = "parsing"], "slot")
  <2> DEFINE row == [runner[Worker].row EXCEPT !.status = "parsing"]
  <2>1. row \in JobRow /\ row.status = "parsing"
    BY <1>1, AtWork, WorkerAt DEF JobRow, InFlight
  <2>2. Write(Worker, row, "slot")  BY <1>3
  <2> HIDE DEF row
  <2> QED  BY <1>1, <1>2, <2>1, <2>2, WorkerAt, WriteOn DEF Terminal
<1>4. CASE Goto(Worker, "fail") /\ UNCHANGED job
  BY <1>1, <1>2, <1>4, WorkerAt, GotoOn DEF Quiet
<1> QED  BY <1>3, <1>4 DEF Start

LEMMA EnterSlotOn ==
  ASSUME WInv, IInv', EnterSlot(Worker)
  PROVE  WInv'
<1>1. WorkerPc = "slot" /\ WorkerPc \in JobPoints /\ WorkerPc \in EarlyPoints
  BY DEF EnterSlot, At, WorkerPc, JobPoints, LockedPoints, WorkPoints, EarlyPoints
<1>2. UNCHANGED <<job, attempt, adopted, files, remote, admin>> /\ NotesGrow /\ SlotsInv /\ WorkerJob = MyJob(Worker)
  BY <1>1, WorkerAt, NothingGrows DEF EnterSlot, Ledger, World, Others, WInv
<1>3. CASE slots' = slots /\ (Goto(Worker, "fail") \/ (WorkerJob \in slots /\ Goto(Worker, "doc")))
  BY <1>1, <1>2, <1>3, SlotsStay, WorkerAt, GotoOn
<1>4. CASE /\ WorkerJob \notin slots /\ Cardinality(slots) < SlotLimit
           /\ slots' = slots \union {WorkerJob} /\ Goto(Worker, "doc")
  <2>1. IsFiniteSet(slots') /\ Cardinality(slots') = Cardinality(slots) + 1 /\ Cardinality(slots) \in Nat
    BY <1>2, <1>4, FS_AddElement, FS_CardinalityType DEF SlotsInv
  <2>2. SlotLimit \in Nat  BY RunsAssumption DEF RunsAssumption
  <2>3. Cardinality(slots') <= SlotLimit  BY <1>4, <2>1, <2>2
  <2>4. SlotsInv'  BY <1>2, <1>4, <2>1, <2>3 DEF SlotsInv, Runs
  <2> QED  BY <1>1, <1>2, <1>4, <2>4, WorkerAt, GotoOn
<1>5. WorkerJob \in slots => slots \union {WorkerJob} = slots  OBVIOUS
<1> QED  BY <1>2, <1>3, <1>4, <1>5 DEF EnterSlot

LEMMA LockDocumentOn ==
  ASSUME WInv, IInv', LockDocument(Worker)
  PROVE  WInv'
<1>1. WorkerPc = "doc" /\ WorkerPc \in JobPoints /\ WorkerPc \in EarlyPoints
  BY DEF LockDocument, At, WorkerPc, JobPoints, LockedPoints, WorkPoints, EarlyPoints
<1>2. /\ Goto(Worker, "convert") /\ UNCHANGED <<job, attempt, adopted, files, remote, admin>>
      /\ NotesGrow /\ SlotsInv' /\ slots' = slots
  BY NothingGrows, SlotsStay DEF LockDocument, Ledger, World, Others, WInv
<1> QED  BY <1>1, <1>2, WorkerAt, GotoOn

LEMMA ReleaseOn ==
  ASSUME WInv, IInv', Release(Worker)
  PROVE  WInv'
<1>1. WorkerPc = "release" /\ WorkerPc \in JobPoints /\ Silent(WorkerJob) /\ SlotsInv
  BY DEF Release, At, WorkerPc, JobPoints, LockedPoints, WorkPoints, DocPoints, WInv, PartsInv
<1>2. /\ Goto(Worker, "validate") /\ UNCHANGED <<job, attempt, adopted, files, remote, admin>>
      /\ NotesGrow /\ slots' = slots \ {WorkerJob}
  BY <1>1, NothingGrows, WorkerAt DEF Release, Ledger, World, Others
<1>3. SlotsInv'  BY <1>1, <1>2, SlotGoes, WorkerAt
<1> QED  BY <1>1, <1>2, <1>3, WorkerAt, GotoOn

LEMMA ValidateOn ==
  ASSUME WInv, IInv', Validate(Worker)
  PROVE  WInv'
<1>1. WorkerPc = "validate" /\ WorkerPc \in LockedPoints /\ WorkerPc \in JobPoints
  BY Points DEF Validate, At, WorkerPc, LockedPoints, WorkPoints
<1> DEFINE b == Billing(MyJob(Worker), runner[Worker].row.billing, TRUE)
           row == [runner[Worker].row EXCEPT !.status = "validating", !.billing = b]
<1>2. b \in Billings /\ runner[Worker].row \in JobRow
  <2>1. runner[Worker].row \in JobRow /\ runner[Worker].row.billing \in Billings
    BY <1>1, AtWork, WorkerAt DEF JobRow
  <2> QED  BY <2>1, BillingIsRight
<1>3. Write(Worker, row, "build") /\ Quiet /\ UNCHANGED slots
  BY <1>2 DEF Validate, Quiet, Ledger, World, Others, JobRow
<1> HIDE DEF b
<1>4. row \in JobRow /\ row.status = "validating"  BY <1>2 DEF JobRow, InFlight
<1> HIDE DEF row
<1> QED  BY <1>1, <1>3, <1>4, WorkerAt, WriteOn DEF Terminal

LEMMA BuildOn ==
  ASSUME WInv, IInv', Build(Worker)
  PROVE  WInv'
<1>1. WorkerPc = "build" /\ WorkerPc \in LockedPoints /\ WorkerPc \in JobPoints
  BY Points DEF Build, At, WorkerPc, LockedPoints, WorkPoints
<1> DEFINE row == [runner[Worker].row EXCEPT !.status = "building"]
<1>2. row \in JobRow /\ row.status = "building"
  BY <1>1, AtWork, WorkerAt DEF JobRow, InFlight
<1>3. Write(Worker, row, "ready") /\ Quiet /\ UNCHANGED slots
  BY DEF Build, Quiet, Ledger, World, Others
<1> HIDE DEF row
<1> QED  BY <1>1, <1>2, <1>3, WorkerAt, WriteOn DEF Terminal

LEMMA ReadyOn ==
  ASSUME WInv, IInv', Clis = {}, Ready(Worker)
  PROVE  WInv'
<1>1. WorkerPc = "ready" /\ WorkerPc \in LockedPoints /\ WorkerPc \in JobPoints
  BY Points DEF Ready, At, WorkerPc, LockedPoints, WorkPoints
<1> DEFINE row == [runner[Worker].row EXCEPT !.status = "ready"]
<1>2. row \in JobRow
  BY <1>1, AtWork, WorkerAt DEF JobRow, Terminal
<1>3. Quiet /\ UNCHANGED slots /\ NotesGrow /\ SlotsInv'
  BY NothingGrows, SlotsStay DEF Ready, Quiet, Ledger, World, Others, WInv
<1>4. Write(Worker, row, "attach") \/ (Goto(Worker, "fail") /\ UNCHANGED job)
  BY DEF Ready
<1> HIDE DEF row
<1>5. CASE Write(Worker, row, "attach")  BY <1>1, <1>2, <1>3, <1>5, WorkerAt, WriteOn
<1>6. CASE Goto(Worker, "fail") /\ UNCHANGED job  BY <1>1, <1>3, <1>6, WorkerAt, GotoOn DEF Quiet
<1> QED  BY <1>4, <1>5, <1>6
-----------------------------------------------------------------------------
(* The job ends, or the worker dies.                                        *)

LEMMA AttachOn ==
  ASSUME WInv, IInv', Attach(Worker)
  PROVE  WInv'
<1>1. WorkerPc = "attach" /\ WorkerPc \in JobPoints /\ WorkerPc \in LockedPoints
  BY Points DEF Attach, At, WorkerPc, LockedPoints
<1>2. PICK outcome \in Attachments \ {""} :
        WriteLast(Worker, [runner[Worker].row EXCEPT !.attachment = outcome])
  BY DEF Attach
<1> DEFINE row == [runner[Worker].row EXCEPT !.attachment = outcome]
<1>3. /\ job[WorkerJob] = runner[Worker].row /\ runner[Worker].row.status = "ready"
      /\ runner[Worker].row \in JobRow
  BY <1>1, AtWork, WorkerAt DEF IInv, StatusInv
<1>4. row.status = "ready"  BY <1>3 DEF JobRow
<1>5. /\ job' = [job EXCEPT ![WorkerJob] = row] /\ job \in [Jobs -> JobRow]
      /\ runner'[Worker].pc = "idle" /\ SlotsInv' /\ slots' = slots
      /\ UNCHANGED <<attempt, adopted, noted, files, remote, admin>>
  BY <1>1, <1>2, WorkerAt, IdleFields, SlotsStay DEF Attach, WriteLast, Ledger, World, Others, WInv, TypeOK
<1> HIDE DEF row
<1>6. /\ \A j \in Jobs : j # WorkerJob => job'[j] = job[j]
      /\ job'[WorkerJob] = row /\ row.status \in Terminal /\ row.status \notin InFlight
      /\ \A j \in Jobs : IsOver(j) => IsOver(j)'
      /\ \A j \in Jobs : Unsure(j) => j \in slots'
      /\ ~Unsure(WorkerJob)
  BY <1>1, <1>4, <1>5, WorkerAt DEF Terminal, InFlight, IsOver, WInv, UnsureInv, UnsureIsKept
<1> QED  BY <1>1, <1>5, <1>6, RestKeeps

LEMMA FailOn ==
  ASSUME WInv, IInv', Fail(Worker)
  PROVE  WInv'
<1>1. WorkerPc = "fail" /\ WorkerPc \in JobPoints /\ WorkerPc \in LockedPoints
  BY Points DEF Fail, At, WorkerPc, LockedPoints
<1> DEFINE b == Billing(WorkerJob, runner[Worker].row.billing, FALSE)
           row == [runner[Worker].row EXCEPT !.status = "failed", !.billing = b]
<1>2. runner[Worker].row \in JobRow  BY <1>1, AtWork, WorkerAt
<1>3. WriteLast(Worker, row)  BY <1>1, <1>2, WorkerAt DEF Fail, JobRow
<1>4. b \in Billings /\ (Unsure(WorkerJob) => b = "pending_own")
  BY <1>2, BillingIsRight DEF JobRow, Billing, OwnPending, Unsure
<1> HIDE DEF b
<1>5. row.status = "failed" /\ row.billing = b  BY <1>2, <1>4 DEF JobRow, Terminal
<1> HIDE DEF row
<1>6. /\ job' = [job EXCEPT ![WorkerJob] = row] /\ job \in [Jobs -> JobRow]
      /\ runner'[Worker].pc = "idle" /\ SlotsInv' /\ slots' = slots
      /\ UNCHANGED <<attempt, adopted, noted, files, remote, admin>>
  BY <1>1, <1>3, WorkerAt, IdleFields, SlotsStay DEF Fail, WriteLast, Ledger, World, Others, WInv, TypeOK
<1>7. /\ \A j \in Jobs : j # WorkerJob => job'[j] = job[j]
      /\ job'[WorkerJob] = row /\ row.status \in Terminal /\ row.status \notin InFlight /\ row.status # "queued"
      /\ \A j \in Jobs : IsOver(j) => IsOver(j)'
      /\ \A j \in Jobs : Unsure(j) => j \in slots'
  BY <1>1, <1>5, <1>6, WorkerAt DEF Terminal, InFlight, IsOver, WInv, UnsureInv, UnsureIsKept
<1> QED  BY <1>1, <1>4, <1>5, <1>6, <1>7, RestKeeps

(* A dead worker leaves the job as it is, and its slot where a parse may run. *)
LEMMA StopOn ==
  ASSUME WInv, IInv', runner' = [runner EXCEPT ![Worker] = Stopped(Worker)],
         UNCHANGED <<job, attempt, adopted, noted, files, remote, admin>>, SlotsInv',
         \A j \in Jobs : Unsure(j) => j \in slots'
  PROVE  WInv'
<1>1. runner'[Worker].pc = "down"
  <2>1. TypeOK /\ Worker \in Runners  BY Distinct DEF WInv, IInv
  <2>2. Stopped(Worker).pc = "down"  BY DEF Stopped, IdleRunner
  <2> QED  BY <2>1, <2>2 DEF TypeOK
<1>2. \A j \in Jobs : IsOver(j) => IsOver(j)'  BY DEF IsOver
<1>3. WorkerJob \in Jobs /\ Unsure(WorkerJob) =>
        /\ job[WorkerJob].status # "queued"
        /\ job[WorkerJob].status \in Terminal => job[WorkerJob].billing = "pending_own"
  BY DEF WInv, UnsureInv, UnsureIsKept, IsOver
<1> QED  BY <1>1, <1>2, <1>3, RestKeeps

LEMMA CrashOn ==
  ASSUME WInv, IInv', Crash(Worker)
  PROVE  WInv'
<1>1. SlotsInv' /\ \A j \in Jobs : Unsure(j) => j \in slots'
  BY SlotsStay DEF Crash, World, WInv, UnsureInv, UnsureIsKept
<1> QED  BY <1>1, StopOn DEF Crash, Ledger, World

LEMMA AbortOn ==
  ASSUME WInv, IInv', Abort(Worker)
  PROVE  WInv'
<1>1. WorkerPc = "abort" /\ WorkerPc \in JobPoints /\ WorkerPc \in DocPoints
  BY Points DEF Abort, At, WorkerPc, DocPoints
<1>2. /\ UNCHANGED <<job, attempt, adopted, noted, files, remote, admin>> /\ NotesGrow
      /\ WorkerJob = MyJob(Worker) /\ WorkerJob \in Jobs
  BY <1>1, NothingGrows, WorkerAt DEF Abort, Ledger, World
<1>3. /\ SlotsInv' /\ (Unsure(WorkerJob) => WorkerJob \in slots')
      /\ \A j \in Jobs : j # WorkerJob => (j \in slots => j \in slots')
  <2>1. CASE KeepSlot(WorkerJob)
    <3>1. slots' = slots  BY <1>2, <2>1 DEF Abort
    <3> QED  BY <1>1, <1>2, <3>1, SlotsStay, WorkerAt DEF WInv
  <2>2. CASE ~KeepSlot(WorkerJob)
    <3>1. slots' = slots \ {WorkerJob}  BY <1>2, <2>2 DEF Abort
    <3>2. Silent(WorkerJob) /\ ~Unsure(WorkerJob)  BY <1>2, <2>2, LeavingIsSafe DEF KeepSlot
    <3> QED  BY <1>2, <3>1, <3>2, SlotGoes DEF WInv
  <2> QED  BY <2>1, <2>2
<1>4. CASE Goto(Worker, "fail")
  BY <1>1, <1>2, <1>3, <1>4, WorkerAt, GotoOn
<1>5. CASE runner' = [runner EXCEPT ![Worker] = Stopped(Worker)]
  <2>1. \A j \in Jobs : Unsure(j) => j \in slots'
    BY <1>3 DEF WInv, UnsureInv, UnsureIsKept
  <2> QED  BY <1>2, <1>3, <1>5, <2>1, StopOn
<1> QED  BY <1>4, <1>5 DEF Abort

-----------------------------------------------------------------------------
(* Parsing.                                                                 *)

LEMMA TextStays ==
  ASSUME NEW f \in FileType
  PROVE  /\ [f EXCEPT !.cached = TRUE].text = f.text /\ [f EXCEPT !.cached = TRUE] \in FileType
         /\ \A ms \in SUBSET Remotes :
              /\ [f EXCEPT !.payers = ms].text = f.text /\ [f EXCEPT !.payers = ms].cached = f.cached
              /\ [f EXCEPT !.made = ms].text = f.text /\ [f EXCEPT !.made = ms].cached = f.cached
         /\ \A p \in Parts, m \in Remotes :
              /\ [f EXCEPT !.sidecar[p] = m].text = f.text
              /\ [f EXCEPT !.sidecar[p] = m].cached = f.cached
<1>1. [f EXCEPT !.cached = TRUE].text = f.text  BY DEF FileType
<1>2. \A ms \in SUBSET Remotes :
        /\ [f EXCEPT !.payers = ms].text = f.text /\ [f EXCEPT !.payers = ms].cached = f.cached
        /\ [f EXCEPT !.made = ms].text = f.text /\ [f EXCEPT !.made = ms].cached = f.cached
  BY DEF FileType
<1>3. \A p \in Parts, m \in Remotes :
        /\ [f EXCEPT !.sidecar[p] = m].text = f.text
        /\ [f EXCEPT !.sidecar[p] = m].cached = f.cached
  BY DEF FileType
<1>4. [f EXCEPT !.cached = TRUE] \in FileType  BY DEF FileType
<1> QED  BY <1>1, <1>2, <1>3, <1>4

LEMMA UnownedIsSilent ==
  ASSUME WInv, NEW j \in Jobs, Own(j) = {}
  PROVE  Silent(j)
<1>1. ASSUME NEW m \in Remotes, m[1] = j, Runs(m)  PROVE FALSE
  <2>1. attempt[m] \in {"none", "rejected"}  BY <1>1 DEF Own
  <2> QED  BY <1>1, <2>1 DEF WInv, IInv, SentInv, SentAt, Runs
<1> QED  BY <1>1 DEF Silent
(* Nothing but the files changes, and the program point. *)
LEMMA FilesOn ==
  ASSUME WInv, IInv', WorkerPc \in {"convert", "payers", "cache"}, NEW pc \in {"lookup", "cache", "release"},
         Goto(Worker, pc), UNCHANGED <<job, attempt, adopted, noted, slots, remote, admin>>, FilesGrow,
         pc = "lookup" => WorkerPc = "convert" /\ ~files[MyDoc(Worker)].text,
         pc = "cache" => WorkerPc = "payers",
         pc = "release" => Silent(WorkerJob)
  PROVE  WInv'
<1>1. /\ WorkerPc \in JobPoints \ {"attach"} /\ WorkerPc \in DocPoints
      /\ WorkerPc = "convert" => WorkerPc \in EarlyPoints
      /\ WorkerPc \in {"payers", "cache"} => WorkerPc \in ParsePoints
      /\ pc \in JobPoints \ {"create", "record", "attach", "poll", "payers"} /\ pc \in DocPoints
      /\ pc \notin EarlyPoints /\ (pc \in ParsePoints => pc \in {"lookup", "cache"}) /\ pc \in RunnerPoints
  BY DEF JobPoints, LockedPoints, WorkPoints, DocPoints, ParsePoints, EarlyPoints, RunnerPoints
<1>2. Becomes(Worker, pc, WorkerJob, runner[Worker].row, runner[Worker].part, runner[Worker].remote,
              runner[Worker].log)
  BY <1>1, WorkerAt, GotoDoes DEF GoesOn
<1>3. /\ RowBy(Worker) /\ NotesGrow /\ SlotsInv'
      /\ job'[WorkerJob].status \notin Terminal /\ ~Unsure(WorkerJob) /\ WorkerJob \in slots'
      /\ \A j \in Jobs : adopted'[j] = adopted[j] /\ (j \in slots => j \in slots')
      /\ adopted'[WorkerJob] = adopted[WorkerJob]
  BY <1>1, WorkerAt, NothingGrows, SlotsStay DEF RowBy, TypeOK, WInv
<1>4. pc \in ParsePoints => ~files[MyDoc(Worker)].text
  BY <1>1 DEF WInv, TextInv
<1>5. pc \in ParsePoints /\ runner[Worker].part = 2 => Flawed(WorkerJob)'
  <2>1. PICK J \in Jobs : J = WorkerJob /\ J = WorkerJob'
    BY <1>1, <1>2, WorkerAt DEF Becomes, WorkerJob
  <2>2. WorkerPc = "convert" => runner[Worker].part = 1  BY <1>1, WorkerAt
  <2>3. runner[Worker].part = 2 => Flawed(J)  BY <1>1, <2>1, <2>2 DEF WInv, PartsInv
  <2> QED  BY <2>1, <2>3 DEF Flawed, FindRemote
<1>6. pc \in {"payers", "cache", "release"} => Silent(WorkerJob)
  BY DEF WInv, PartsInv
<1> QED  BY <1>1, <1>2, <1>3, <1>4, <1>5, <1>6, OnKeeps

LEMMA StorePayersOn ==
  ASSUME WInv, IInv', StorePayers(Worker)
  PROVE  WInv'
<1> DEFINE d == MyDoc(Worker)
           ms == Payers(d, runner[Worker].log)
           g == [files[d] EXCEPT !.payers = ms]
<1>1. WorkerPc = "payers" /\ WorkerPc \in JobPoints
  BY DEF StorePayers, At, WorkerPc, JobPoints, LockedPoints, WorkPoints, DocPoints, ParsePoints
<1>2. files \in [Documents -> FileType] /\ d \in Documents /\ ms \in SUBSET Remotes
  BY <1>1, WorkerAt DEF TypeOK, FileType, RunnerType, Payers
<1>3. g.text = files[d].text /\ g.cached = files[d].cached  BY <1>2, TextStays
<1>4. files' = [files EXCEPT ![d] = g]  BY DEF StorePayers
<1> HIDE DEF g, ms, d
<1>5. FilesGrow  BY <1>2, <1>3, <1>4 DEF FilesGrow
<1> QED  BY <1>1, <1>5, FilesOn DEF StorePayers, Ledger, Others

LEMMA StoreCacheOn ==
  ASSUME WInv, IInv', StoreCache(Worker)
  PROVE  WInv'
<1> DEFINE d == MyDoc(Worker)
           log == runner[Worker].log
           c == [files[d] EXCEPT !.cached = TRUE]
           g == [c EXCEPT !.made = log]
<1>1. WorkerPc = "cache" /\ WorkerPc \in JobPoints
  BY DEF StoreCache, At, WorkerPc, JobPoints, LockedPoints, WorkPoints, DocPoints, ParsePoints
<1>2. files \in [Documents -> FileType] /\ d \in Documents /\ log \in SUBSET Remotes
      /\ d = DocumentOf[WorkerJob] /\ WorkerJob \in Jobs
  BY <1>1, WorkerAt DEF TypeOK, FileType, RunnerType
<1>3. files[d] \in FileType  BY <1>2
<1>4. c.text = files[d].text /\ c \in FileType  BY <1>3, TextStays
<1>5. g.text = files[d].text
  <2> HIDE DEF c
  <2>1. g.text = c.text  BY <1>2, <1>4, TextStays
  <2> QED  BY <2>1, <1>4
<1>6. files' = [files EXCEPT ![d] = g]  BY <1>2 DEF StoreCache
<1>7. \A j \in Jobs : DocumentOf[j] = d /\ ~IsOver(j) => Silent(j)
  <2> SUFFICES ASSUME NEW j \in Jobs, ~IsOver(j)  PROVE Silent(j)
    OBVIOUS
  <2>1. CASE Own(j) = {}  BY <2>1, UnownedIsSilent
  <2>2. CASE Own(j) # {}
    <3>1. Oldest(j) /\ Oldest(WorkerJob) /\ ~IsOver(WorkerJob)
      BY <1>1, <2>2 DEF WInv, OldestInv, OneInv
    <3>2. j = WorkerJob
      <4>1. j <= WorkerJob /\ WorkerJob <= j  BY <1>2, <3>1 DEF Oldest
      <4>2. j \in Nat /\ WorkerJob \in Nat  BY <1>2, RunsAssumption DEF RunsAssumption
      <4> QED  BY <4>1, <4>2
    <3> QED  BY <1>1, <3>2 DEF WInv, PartsInv
  <2> QED  BY <2>1, <2>2
<1> HIDE DEF g, c, d
<1>8. FilesGrow
  <2>1. \A e \in Documents : e # d => files'[e] = files[e]  BY <1>2, <1>6
  <2>2. files'[d].text = files[d].text /\ files'[d].cached
    <3>1. files'[d] = g  BY <1>2, <1>6
    <3>2. g.cached
      <4>1. c.cached  BY <1>3 DEF FileType, c
      <4>2. g.cached = c.cached  BY <1>2, <1>4, TextStays DEF g
      <4> QED  BY <4>1, <4>2
    <3> QED  BY <3>1, <3>2, <1>5
  <2> QED  BY <2>1, <2>2, <1>7 DEF FilesGrow
<1>9. Silent(WorkerJob)  BY <1>1 DEF WInv, PartsInv
<1> QED  BY <1>1, <1>8, <1>9, FilesOn DEF StoreCache, Ledger, Others

LEMMA ConvertOn ==
  ASSUME WInv, IInv', Convert(Worker)
  PROVE  WInv'
<1>1. WorkerPc = "convert" /\ WorkerPc \in JobPoints /\ WorkerPc \in DocPoints
  BY DEF Convert, At, WorkerPc, JobPoints, LockedPoints, WorkPoints, DocPoints
<1> DEFINE d == MyDoc(Worker)
<1>2. UNCHANGED <<job, attempt, noted, slots, remote, admin>>
  BY DEF Convert, Others
<1>3. /\ d \in Documents /\ d = DocumentOf[WorkerJob] /\ WorkerJob \in Jobs /\ TypeOK
      /\ WorkerJob = MyJob(Worker) /\ runner[Worker].part = 1 /\ ~IsOver(WorkerJob)
  BY <1>1, WorkerAt DEF IsOver, EarlyPoints
<1>4. CASE /\ files[d].cached /\ Goto(Worker, "release") /\ UNCHANGED files
           /\ Adopt(WorkerJob, IF d \in Public THEN files[d].payers ELSE {})
  <2>1. Silent(WorkerJob)  BY <1>3, <1>4 DEF WInv, OpenInv, OpenJob
  <2>2. Becomes(Worker, "release", WorkerJob, runner[Worker].row, runner[Worker].part, runner[Worker].remote,
              runner[Worker].log)
    BY <1>3, <1>4, GotoDoes, Distinct DEF GoesOn, RunnerPoints, WorkerJob
  <2>3. OpenJob(WorkerJob)'
    <3>1. PICK J \in Jobs : J = WorkerJob /\ J = WorkerJob'  BY <1>3, <2>2 DEF Becomes, WorkerJob
    <3>2. Silent(J)' /\ files'[DocumentOf[J]].cached
      BY <1>2, <1>3, <1>4, <2>1, <3>1 DEF Silent, Runs
    <3> QED  BY <3>1, <3>2 DEF OpenJob
  <2>4. /\ RowBy(Worker) /\ FilesGrow /\ NotesGrow /\ SlotsInv'
        /\ job'[WorkerJob].status \notin Terminal /\ ~Unsure(WorkerJob) /\ WorkerJob \in slots'
        /\ \A j \in Jobs : j # WorkerJob => adopted'[j] = adopted[j] /\ (j \in slots => j \in slots')
    BY <1>1, <1>2, <1>3, <1>4, WorkerAt, NothingGrows, SlotsStay DEF RowBy, TypeOK, WInv, Adopt
  <2>5. /\ "release" \in JobPoints \ {"create", "record"} /\ "release" \notin EarlyPoints
        /\ "release" \notin ParsePoints
    BY DEF JobPoints, LockedPoints, WorkPoints, DocPoints, ParsePoints, EarlyPoints
  <2> QED  BY <1>1, <1>2, <2>1, <2>2, <2>3, <2>4, <2>5, OnKeeps
<1>5. CASE /\ files[d].text /\ files' = [files EXCEPT ![d].cached = TRUE] /\ Goto(Worker, "release")
           /\ UNCHANGED adopted
  <2> DEFINE g == [files[d] EXCEPT !.cached = TRUE]
  <2>1. files \in [Documents -> FileType] /\ files[d] \in FileType  BY <1>3 DEF TypeOK, FileType
  <2>2. g.text = files[d].text /\ g.cached  BY <2>1, TextStays DEF FileType
  <2>3. files' = [files EXCEPT ![d] = g]  BY <1>5
  <2> HIDE DEF g
  <2>4. \A j \in Jobs : DocumentOf[j] = d => Silent(j)
    BY <1>5, UnownedIsSilent DEF WInv, TextInv
  <2>5. FilesGrow
    <3>1. \A e \in Documents : e # d => files'[e] = files[e]  BY <2>1, <2>3
    <3>2. files'[d] = g  BY <1>3, <2>1, <2>3
    <3> QED  BY <3>1, <3>2, <2>2, <2>4 DEF FilesGrow
  <2>6. Silent(WorkerJob)  BY <1>3, <2>4
  <2> QED  BY <1>1, <1>2, <1>5, <2>5, <2>6, FilesOn
<1>6. CASE ~files[d].text /\ Goto(Worker, "lookup") /\ UNCHANGED <<files, adopted>>
  BY <1>1, <1>2, <1>6, NothingGrows, FilesOn
<1>7. CASE Goto(Worker, "abort") /\ UNCHANGED <<files, adopted>>
  BY <1>1, <1>2, <1>7, NothingGrows, SlotsStay, WorkerAt, GotoOn DEF WInv
<1> QED  BY <1>3, <1>4, <1>5, <1>6, <1>7 DEF Convert
(* What the invariant says of the worker while it parses. *)
LEMMA WorkerParses ==
  ASSUME WInv, WorkerPc \in ParsePoints
  PROVE  /\ WorkerPc \in JobPoints \ {"attach"} /\ WorkerPc \in DocPoints /\ TypeOK /\ StoreTypeOK
         /\ Worker \in Runners /\ WorkerJob \in Jobs /\ WorkerJob \in slots
         /\ runner[Worker] \in RunnerType /\ runner[Worker].part \in Parts
         /\ Me(Worker) = <<WorkerJob, runner[Worker].part>> /\ Me(Worker) \in Remotes
         /\ ~files[MyDoc(Worker)].cached /\ ~files[MyDoc(Worker)].text
         /\ ~IsOver(WorkerJob) /\ job[WorkerJob].status \notin Terminal /\ job[WorkerJob].status \in InFlight
         /\ RunnerSends(Worker) /\ RunnerKnows(Worker)
         /\ \A m, n \in adopted[WorkerJob] : m[2] = n[2] => m = n
         /\ 2 \in Parts /\ ~Untried(<<WorkerJob, 2>>) => Flawed(WorkerJob)
         /\ runner[Worker].part = 2 => Flawed(WorkerJob)
<1>1. WorkerPc \in JobPoints \ {"attach"} /\ WorkerPc \in DocPoints
  BY Points DEF ParsePoints
<1>2. /\ Worker \in Runners /\ WorkerJob \in Jobs /\ WorkerJob \in slots /\ MyDoc(Worker) = DocumentOf[WorkerJob]
      /\ runner[Worker] \in RunnerType /\ job[WorkerJob].status \notin Terminal /\ IInv
      /\ WorkerJob = runner[Worker].job
  BY <1>1, WorkerAt
<1>3. /\ TypeOK /\ StoreTypeOK /\ runner[Worker].part \in Parts /\ Me(Worker) \in Remotes
      /\ Me(Worker) = <<WorkerJob, runner[Worker].part>> /\ RunnerSends(Worker) /\ RunnerKnows(Worker)
  BY <1>1, <1>2, AtStore DEF WorkerPc
<1>4. ~files[MyDoc(Worker)].cached /\ job[WorkerJob].status \in InFlight
  BY <1>1, <1>2, AtWork, Points DEF WorkerPc
<1>5. OpenJob(WorkerJob) /\ ~IsOver(WorkerJob)  BY <1>2 DEF WInv, OpenInv, IsOver
<1>6. ~files[MyDoc(Worker)].text /\ (runner[Worker].part = 2 => Flawed(WorkerJob))
  BY DEF WInv, TextInv, PartsInv
<1> QED  BY <1>1, <1>2, <1>3, <1>4, <1>5, <1>6 DEF OpenJob

LEMMA WriteSidecarOn ==
  ASSUME WInv, IInv', WriteSidecar(Worker)
  PROVE  WInv'
<1>1. WorkerPc = "sidecar" /\ WorkerPc \in ParsePoints /\ "poll" \in JobPoints /\ "poll" \notin EarlyPoints
  BY DEF WriteSidecar, At, WorkerPc, JobPoints, LockedPoints, WorkPoints, DocPoints, ParsePoints, EarlyPoints
<1> DEFINE d == MyDoc(Worker)
           p == runner[Worker].part
           g == [files[d] EXCEPT !.sidecar[p] = Me(Worker)]
<1>2. UNCHANGED <<job, attempt, adopted, noted, slots, remote, admin>>
  BY DEF WriteSidecar, Ledger, Others
<1>3. /\ TypeOK /\ files \in [Documents -> FileType] /\ d \in Documents /\ p \in Parts
      /\ Me(Worker) \in Remotes /\ Me(Worker) = <<WorkerJob, p>> /\ attempt[Me(Worker)] = "submitted"
      /\ WorkerPc \in JobPoints /\ WorkerJob \in Jobs
  BY <1>1, WorkerParses, WorkerAt DEF StoreTypeOK, RunnerSends, WorkerPc
<1>4. Becomes(Worker, "poll", WorkerJob, runner[Worker].row, p, Me(Worker), runner[Worker].log)
  BY <1>3, PollForDoes, Distinct DEF WriteSidecar, WorkerJob
<1>5. FilesGrow
  <2>1. CASE files' = [files EXCEPT ![d].sidecar[p] = Me(Worker)]
    <3>1. g.text = files[d].text /\ g.cached = files[d].cached  BY <1>3, TextStays
    <3>2. files' = [files EXCEPT ![d] = g]  BY <2>1
    <3> HIDE DEF g, d
    <3> QED  BY <1>3, <3>1, <3>2 DEF FilesGrow
  <2>2. CASE UNCHANGED files  BY <2>2, NothingGrows
  <2> QED  BY <2>1, <2>2 DEF WriteSidecar
<1>6. PICK J \in Jobs, q \in Parts : J = WorkerJob /\ J = WorkerJob' /\ q = p /\ q = runner'[Worker].part
  BY <1>3, <1>4 DEF Becomes, WorkerJob
<1>7. PollsItsOwn'
  <2>1. runner'[Worker].remote = <<J, q>> /\ attempt'[<<J, q>>] = "submitted"
    BY <1>2, <1>3, <1>4, <1>6 DEF Becomes
  <2>2. <<J, q>> \in FindRemote(J, q)'  BY <2>1 DEF FindRemote
  <2> QED  BY <1>6, <2>1, <2>2 DEF PollsItsOwn, FindRemote
<1>8. p = 2 => Flawed(WorkerJob)'
  <2>1. p = 2 => Flawed(J)  BY <1>1, <1>6, WorkerParses
  <2> QED  BY <1>2, <1>6, <2>1 DEF Flawed, FindRemote
<1>9. /\ RowBy(Worker) /\ NotesGrow /\ SlotsInv'
      /\ job'[WorkerJob].status \notin Terminal /\ ~Unsure(WorkerJob) /\ WorkerJob \in slots'
      /\ \A j \in Jobs : adopted'[j] = adopted[j] /\ (j \in slots => j \in slots')
      /\ adopted'[WorkerJob] = adopted[WorkerJob]
  BY <1>1, <1>2, <1>3, WorkerAt, WorkerParses, NothingGrows, SlotsStay DEF RowBy, TypeOK, WInv
<1>10. ~files[MyDoc(Worker)].text  BY <1>1, WorkerParses
<1> HIDE DEF p, d
<1> QED  BY <1>1, <1>2, <1>3, <1>4, <1>5, <1>7, <1>8, <1>9, <1>10, OnKeeps

(* A good part is the last: whatever else the job sent has ended. *)
LEMMA GoodIsLast ==
  ASSUME WInv, WorkerPc = "poll", remote[runner[Worker].remote].state = "completed"
  PROVE  Silent(WorkerJob)
<1> DEFINE m == runner[Worker].remote
           p == runner[Worker].part
<1>0. WorkerPc \in ParsePoints /\ WorkerPc \in JobPoints  BY Points DEF ParsePoints
<1>1. /\ m \in FindRemote(WorkerJob, p) /\ p \in Parts /\ WorkerJob \in Jobs
      /\ p = 2 => Flawed(WorkerJob)
      /\ 2 \in Parts /\ ~Untried(<<WorkerJob, 2>>) => Flawed(WorkerJob)
  BY <1>0, WorkerParses DEF WInv, PartsInv, PollsItsOwn
<1>2. ~Unsure(WorkerJob)  BY <1>0, WorkerAt
<1>3. ASSUME NEW n \in Remotes, n[1] = WorkerJob, Runs(n)  PROVE FALSE
  <2>1. PICK q \in Parts : n = <<WorkerJob, q>>  BY <1>3 DEF Remotes
  <2>2. attempt[n] = "submitted"
    <3>1. ~Untried(n)  BY <1>3 DEF WInv, IInv, SentInv, SentAt, Runs, Untried
    <3>2. n \in Own(WorkerJob)  BY <1>3, <3>1 DEF Own, Untried
    <3>3. attempt[n] \notin Unresolved  BY <1>2, <3>2 DEF Unsure
    <3>4. attempt[n] \in AttemptStates  BY <1>3 DEF WInv, IInv, TypeOK
    <3> QED  BY <3>1, <3>3, <3>4 DEF AttemptStates, Untried
  <2>3. FindRemote(WorkerJob, q) = {n}  BY <2>1, <2>2 DEF FindRemote
  <2>4. CASE q = p  BY <1>1, <1>3, <2>3, <2>4 DEF Runs
  <2>5. CASE p = 1 /\ q = 2
    <3>1. Flawed(WorkerJob)  BY <1>1, <2>1, <2>2, <2>5 DEF Untried
    <3> QED  BY <1>1, <2>5, <3>1 DEF Flawed
  <2>6. CASE p = 2 /\ q = 1
    BY <1>1, <1>3, <2>3, <2>6 DEF Flawed, Runs
  <2>7. p \in {1, 2} /\ q \in {1, 2}  BY <1>1, Distinct
  <2> QED  BY <2>4, <2>5, <2>6, <2>7
<1> QED  BY <1>3 DEF Silent

LEMMA PollOn ==
  ASSUME WInv, IInv', Poll(Worker)
  PROVE  WInv'
<1> DEFINE m == runner[Worker].remote
           p == runner[Worker].part
           log == runner[Worker].log
<1>1. WorkerPc = "poll" /\ WorkerPc \in ParsePoints
  BY Points DEF Poll, At, WorkerPc, ParsePoints
<1>2. UNCHANGED <<job, attempt, adopted, slots, files, remote, admin>>
  BY DEF Poll, World, Others
<1>3. /\ TypeOK /\ StoreTypeOK /\ WorkerJob \in Jobs /\ p \in Parts /\ m \in FindRemote(WorkerJob, p)
      /\ WorkerPc \in JobPoints \ {"attach"} /\ WorkerPc \in DocPoints
      /\ runner \in [Runners -> RunnerType] /\ Worker \in Runners /\ log \in SUBSET Remotes
      /\ WorkerJob = runner[Worker].job
      /\ ~Unsure(WorkerJob) /\ WorkerJob \in slots
  BY <1>1, WorkerParses, WorkerAt DEF WInv, PartsInv, PollsItsOwn, TypeOK, RunnerType
<1>4. m \in Remotes /\ m[2] = p
  BY <1>1, <1>3, WorkerParses, AtStore DEF RunnerKnows, Counted, Own, StoreTypeOK, WInv, WorkerPc, FindRemote
<1>5. ~(UNCHANGED noted) => Ended(m) /\ noted' = [noted EXCEPT ![m] = Complete(@, "terminal", remote[m].usage)]
  BY DEF Poll
<1>6. NotesGrow
  <2>1. CASE UNCHANGED noted  BY <2>1, NothingGrows
  <2>2. CASE ~(UNCHANGED noted)
    <3>1. \A n \in Remotes : n # m => noted'[n] = noted[n]  BY <1>5, <2>2, <1>3 DEF StoreTypeOK
    <3> QED  BY <3>1, <1>5, <2>2 DEF NotesGrow
  <2> QED  BY <2>1, <2>2
<1>7. SlotsInv'  BY <1>2, SlotsStay DEF WInv
<1>8. CASE Goto(Worker, "abort")
  BY <1>1, <1>2, <1>3, <1>6, <1>7, <1>8, GotoOn
<1>9. ASSUME NEW pc \in {"payers", "lookup"}, NEW part \in Parts,
             Becomes(Worker, pc, WorkerJob, runner[Worker].row, part, m, log \union {m}),
             part = 2 => Flawed(WorkerJob),
             pc = "payers" => Silent(WorkerJob)
      PROVE  WInv'
  <2>1. PICK J \in Jobs : J = WorkerJob /\ J = WorkerJob'  BY <1>3, <1>9 DEF Becomes, WorkerJob
  <2>2. part = 2 => Flawed(WorkerJob)'
    <3>1. part = 2 => Flawed(J)  BY <1>9, <2>1
    <3>2. Flawed(J) => Flawed(J)'  BY <1>2 DEF Flawed, FindRemote
    <3> QED  BY <2>1, <3>1, <3>2 DEF Flawed, FindRemote
  <2>3. /\ pc \in JobPoints \ {"create", "record", "attach", "poll", "release", "cache"} /\ pc \notin EarlyPoints
    BY DEF JobPoints, LockedPoints, WorkPoints, DocPoints, ParsePoints, EarlyPoints
  <2>4. /\ RowBy(Worker) /\ FilesGrow /\ job'[WorkerJob].status \notin Terminal /\ WorkerJob \in slots'
        /\ \A j \in Jobs : adopted'[j] = adopted[j] /\ (j \in slots => j \in slots')
        /\ adopted'[WorkerJob] = adopted[WorkerJob]
        /\ ~files[MyDoc(Worker)].text
    BY <1>1, <1>2, <1>3, WorkerParses, NothingGrows DEF RowBy, TypeOK
  <2> QED  BY <1>1, <1>2, <1>3, <1>6, <1>7, <1>9, <2>2, <2>3, <2>4, OnKeeps
<1>10. CASE /\ remote[m].state = "completed"
            /\ runner' = [runner EXCEPT ![Worker].pc = "payers", ![Worker].log = @ \union {m}]
  <2>1. runner' = [runner EXCEPT ![Worker] = [runner[Worker] EXCEPT !.pc = "payers", !.part = p, !.remote = m,
                                                                    !.log = log \union {m}]]
    BY <1>3, <1>10 DEF RunnerType
  <2>2. /\ "payers" \in RunnerPoints /\ log \union {m} \in SUBSET Remotes /\ m \in Remotes \union {NoRemote}
    BY <1>3, <1>4 DEF RunnerPoints
  <2> HIDE DEF p, m, log
  <2>3. Becomes(Worker, "payers", WorkerJob, runner[Worker].row, p, m, log \union {m})
    BY <1>3, <2>1, <2>2, TurnDoes
  <2>4. Silent(WorkerJob)  BY <1>1, <1>10, GoodIsLast DEF m
  <2>5. p = 2 => Flawed(WorkerJob)  BY <1>1, WorkerParses DEF p
  <2> QED  BY <1>3, <1>9, <2>3, <2>4, <2>5
<1>11. CASE /\ remote[m].state = "flawed"
            /\ runner' = [runner EXCEPT ![Worker].pc = "lookup", ![Worker].log = @ \union {m},
                                        ![Worker].part = @ + 1]
  <2> DEFINE part == p + 1
  <2>1. part \in Parts /\ part = 2 /\ p = 1
    <3>1. m[2] + 1 \in Parts  BY <1>4, <1>11 DEF WInv, IInv, SentInv, SentAt
    <3>2. p \in {1, 2} /\ p + 1 \in {1, 2} /\ part \in Parts  BY <1>3, <1>4, <3>1, Distinct
    <3> HIDE DEF p
    <3>3. p = 1 /\ p + 1 = 2  BY <3>2
    <3> QED  BY <3>2, <3>3
  <2>2. runner' = [runner EXCEPT ![Worker] = [runner[Worker] EXCEPT !.pc = "lookup", !.part = part, !.remote = m,
                                                                    !.log = log \union {m}]]
    BY <1>3, <1>11 DEF RunnerType
  <2>3. /\ "lookup" \in RunnerPoints /\ log \union {m} \in SUBSET Remotes /\ m \in Remotes \union {NoRemote}
    BY <1>3, <1>4 DEF RunnerPoints
  <2>4. Flawed(WorkerJob)
    <3>1. \A n \in FindRemote(WorkerJob, 1) : n = m
      BY <1>1, <1>3, <1>4, <2>1, WorkerParses DEF FindRemote
    <3> QED  BY <1>3, <1>11, <2>1, <3>1 DEF Flawed
  <2> HIDE DEF p, m, log, part
  <2>5. Becomes(Worker, "lookup", WorkerJob, runner[Worker].row, part, m, log \union {m})
    BY <1>3, <2>1, <2>2, <2>3, TurnDoes
  <2> QED  BY <1>9, <2>1, <2>4, <2>5
<1> QED  BY <1>8, <1>10, <1>11 DEF Poll
-----------------------------------------------------------------------------
(* The steps that write the job's attempt on a part, or send it.            *)

LEMMA LedgerOn ==
  ASSUME WInv, IInv', WorkerPc \in {"lookup", "create", "record"},
         NEW pc \in {"create", "record", "sidecar", "abort"}, NEW state \in AttemptStates,
         Goto(Worker, pc), attempt' = [attempt EXCEPT ![Me(Worker)] = state],
         UNCHANGED <<job, adopted, noted, slots, files, admin>>,
         UNCHANGED remote \/ /\ remote' \in [Remotes -> RemoteType] /\ remote[Me(Worker)].state = "none"
                             /\ \A n \in Remotes : n # Me(Worker) => remote'[n] = remote[n],
         WorkerPc = "lookup" => FindRemote(WorkerJob, runner[Worker].part) = {},
         pc \in {"create", "record"} => state = "submitting",
         pc = "sidecar" => state = "submitted"
  PROVE  WInv'
<1>0. WorkerPc \in ParsePoints /\ WorkerPc \notin {"abort", "fail"}  BY DEF ParsePoints
<1>1. PICK J \in Jobs, p \in Parts : J = WorkerJob /\ p = runner[Worker].part
  BY <1>0, WorkerParses
<1> DEFINE me == <<J, p>>
<1>2. /\ TypeOK /\ J \in slots /\ ~IsOver(J) /\ job[J].status \in InFlight /\ Me(Worker) = me /\ me \in Remotes
      /\ attempt \in [Remotes -> AttemptStates] /\ ~files[DocumentOf[J]].cached
      /\ ~files[DocumentOf[J]].text
      /\ \A m, n \in adopted[J] : m[2] = n[2] => m = n
      /\ 2 \in Parts /\ ~Untried(<<J, 2>>) => Flawed(J)
      /\ p = 2 => Flawed(J)
  BY <1>0, <1>1, WorkerParses DEF StoreTypeOK, WorkerJob, MyDoc, MyJob
<1>3. WorkerPc' = pc /\ WorkerJob' = J /\ runner'[Worker].part = p /\ Me(Worker)' = me
      /\ MyDoc(Worker)' = MyDoc(Worker) /\ MyDoc(Worker) = DocumentOf[J]
  <2>1. Becomes(Worker, pc, WorkerJob, runner[Worker].row, p, runner[Worker].remote, runner[Worker].log)
    BY <1>1, <1>2, GotoDoes, Distinct DEF GoesOn, RunnerPoints, WorkerJob
  <2> QED  BY <1>1, <2>1 DEF Becomes, WorkerPc, WorkerJob, Me, MyDoc, MyJob
<1>4. /\ IInv /\ OneInv /\ UnsureInv
      /\ SlotsInv /\ NotedInv /\ OldestInv /\ TextInv /\ OpenInv /\ PartsInv
      /\ job' = job /\ adopted' = adopted /\ noted' = noted /\ slots' = slots /\ files' = files /\ admin' = admin
      /\ attempt'[me] = state /\ \A n \in Remotes : n # me => attempt'[n] = attempt[n]
      /\ \A n \in Remotes : n # me => remote'[n] = remote[n]
      /\ remote'[me] = remote[me] \/ remote[me].state = "none"
  BY <1>2 DEF WInv
<1> HIDE DEF me
<1>a. me[1] = J /\ me[2] = p  BY DEF me
(* The job's other part, and the other jobs. *)
<1>5. \A n \in Own(J) : n # me => attempt[n] \notin Unresolved
  <2>1. CASE WorkerPc = "lookup"
    <3>1. WorkerPc \in JobPoints  BY <1>0, WorkerParses
    <3>2. ~Unsure(J)  BY <1>1, <2>1, <3>1, WorkerAt
    <3> QED  BY <3>2 DEF Unsure
  <2>2. CASE WorkerPc \in {"create", "record"}
    BY <1>1, <1>2, <1>4, <2>2 DEF UnsureInv
  <2> QED  BY <2>1, <2>2
<1>6. p = 1 /\ 2 \in Parts => Untried(<<J, 2>>)
  BY <1>1, <1>2, <1>4 DEF PartsInv, Flawed
<1>7. p = 2 => ~Runs(<<J, 1>>)
  <2> SUFFICES ASSUME p = 2, Runs(<<J, 1>>)  PROVE FALSE
    OBVIOUS
  <2>1. <<J, 1>> \in Remotes /\ <<J, 1>> # me  BY Distinct DEF Remotes, me
  <2>2. attempt[<<J, 1>>] = "submitted"
    <3>1. ~Untried(<<J, 1>>)  BY <2>1, <1>4 DEF IInv, SentInv, SentAt, Runs, Untried
    <3>2. attempt[<<J, 1>>] \notin Unresolved  BY <2>1, <3>1, <1>5 DEF Own, Untried
    <3> QED  BY <1>2, <2>1, <3>1, <3>2 DEF AttemptStates, Untried
  <2> QED  BY <1>2, <2>2 DEF Flawed, FindRemote, Runs
<1>8. \A k \in Jobs : k # J =>
        /\ Own(k)' = Own(k) /\ (Unsure(k)' <=> Unsure(k)) /\ (Silent(k)' <=> Silent(k))
  <2> SUFFICES ASSUME NEW k \in Jobs, k # J
               PROVE  /\ Own(k)' = Own(k) /\ (Unsure(k)' <=> Unsure(k)) /\ (Silent(k)' <=> Silent(k))
    OBVIOUS
  <2>1. Own(k)' = Own(k)  BY <1>4, <1>a DEF Own
  <2>2. \A m \in Own(k) : attempt'[m] = attempt[m]  BY <1>4, <1>a DEF Own
  <2>3. Silent(k)' <=> Silent(k)  BY <1>4, <1>a DEF Silent, Runs
  <2> QED  BY <2>1, <2>2, <2>3 DEF Unsure
<1>9. \A k \in Jobs : k # J \/ p = 2 => (Flawed(k) => Flawed(k)')
  <2> SUFFICES ASSUME NEW k \in Jobs, k # J \/ p = 2, Flawed(k)  PROVE Flawed(k)'
    OBVIOUS
  <2>1. <<k, 1>> # me /\ <<k, 1>> \in Remotes  BY Distinct DEF me, Remotes
  <2>2. FindRemote(k, 1)' = FindRemote(k, 1)  BY <1>4, <2>1 DEF FindRemote
  <2>3. FindRemote(k, 1) \subseteq Remotes
    <3>1. adopted[k] \subseteq Remotes  BY <1>2 DEF TypeOK
    <3> QED  BY <2>1, <3>1 DEF FindRemote
  <2>4. \A m \in FindRemote(k, 1) : remote'[m].state = "flawed"
    BY <1>4, <2>3 DEF Flawed
  <2> QED  BY <2>2, <2>4 DEF Flawed
<1>10. pc \in JobPoints \ {"attach"} /\ pc \in DocPoints /\ pc \notin EarlyPoints
       /\ pc \notin {"down", "idle", "recover", "poll", "payers", "cache", "release"}
       /\ WorkerPc \in JobPoints \ {"attach"} /\ WorkerPc \notin {"down", "idle", "recover"}
  BY <1>0, Points DEF JobPoints, LockedPoints, WorkPoints, DocPoints, ParsePoints, EarlyPoints
<1>11. OneInv'
  BY <1>1, <1>2, <1>3, <1>4, <1>10 DEF OneInv, IsOver
<1>12. UnsureInv'
  <2>1. ASSUME NEW k \in Jobs  PROVE UnsureIsKept(k)'
    <3>1. CASE k # J  BY <1>1, <1>3, <1>4, <1>8, <3>1 DEF UnsureInv, UnsureIsKept, IsOver
    <3>2. CASE k = J
      <4>1. CASE pc = "sidecar"
        <5>1. ~Unsure(J)'
          <6>1. \A m \in Own(J)' : attempt'[m] \notin Unresolved
            BY <1>4, <1>5, <4>1 DEF Own, Unresolved
          <6> QED  BY <6>1 DEF Unsure
        <5> QED  BY <3>2, <5>1 DEF UnsureIsKept
      <4>2. CASE pc # "sidecar"
        <5>1. J \in slots' /\ job'[J].status # "queued" /\ ~(job'[J].status \in Terminal)
          BY <1>2, <1>4 DEF IsOver, InFlight
        <5> QED  BY <3>2, <4>2, <5>1, <1>3 DEF UnsureIsKept, IsOver
      <4> QED  BY <4>1, <4>2
    <3> QED  BY <3>1, <3>2
  <2>2. pc \in {"create", "record"} => \A m \in Own(J)' : attempt'[m] \in Unresolved => m = me
    BY <1>4, <1>5 DEF Own
  <2>3. ClaimMayBeUndone'
    <3>1. admin.pc # "idle" => admin.job \in Jobs \ {J}
      <4>1. jobLock[J] = Worker  BY <1>0, <1>1, <1>4, Points, Distinct DEF IInv, LocksInv, HoldsLocks, WorkerPc, WorkerJob
      <4> QED  BY <4>1, <1>4, Distinct DEF IInv, LocksInv
    <3>2. PICK a : a = admin.job  OBVIOUS
    <3>3. admin.pc # "idle" /\ admin.row.status = "queued" => ~Unsure(a)  BY <1>4, <3>2 DEF UnsureInv, ClaimMayBeUndone
    <3>4. admin.pc # "idle" /\ admin.row.status = "queued" => ~Unsure(a)'  BY <1>8, <3>1, <3>2, <3>3
    <3> QED  BY <1>4, <3>2, <3>4 DEF ClaimMayBeUndone, Unsure, Own
  <2>4. pc \in {"create", "record"} => \A m \in Own(WorkerJob)' : attempt'[m] \in Unresolved => m = Me(Worker)'
    BY <1>3, <2>2 DEF Own
  <2> QED  BY <1>2, <1>3, <1>4, <2>1, <2>3, <2>4 DEF UnsureInv
<1>13. SlotsInv'
  BY <1>2, <1>4, <1>a DEF SlotsInv, Runs
<1>14. NotedInv'
  <2>1. \A n \in Remotes : Ended(n) => Ended(n)'  BY <1>4 DEF Ended, Ends
  <2>2. admin.pc = "note" => admin.remote \in Remotes  BY <1>4 DEF IInv, AdminInv
  <2> QED  BY <2>1, <2>2, <1>4 DEF NotedInv, Ended
<1>15. OldestInv'
  BY <1>1, <1>3, <1>4, <1>8, <1>10 DEF OldestInv, Oldest, IsOver
<1>16. TextInv'
  BY <1>2, <1>3, <1>4, <1>8 DEF TextInv
<1>17. OpenInv'
  <2>1. ASSUME NEW k \in Jobs, k # J  PROVE OpenJob(k)'
    <3>1. OpenJob(k)  BY <1>4 DEF OpenInv
    <3>2. 2 \in Parts => (Untried(<<k, 2>>)' <=> Untried(<<k, 2>>))
      <4>1. 2 \in Parts => <<k, 2>> \in Remotes /\ <<k, 2>> # me  BY <2>1 DEF me, Remotes
      <4> QED  BY <4>1, <1>4 DEF Untried
    <3> QED  BY <2>1, <3>1, <3>2, <1>4, <1>8, <1>9 DEF OpenJob, IsOver
  <2>2. OpenJob(J)'
    <3>1. 2 \in Parts /\ ~Untried(<<J, 2>>)' => p = 2
      <4>1. p = 1 /\ 2 \in Parts => <<J, 2>> \in Remotes /\ <<J, 2>> # me  BY DEF me, Remotes
      <4>2. p \in {1, 2}  BY Distinct
      <4> QED  BY <4>1, <4>2, <1>4, <1>6 DEF Untried
    <3> QED  BY <3>1, <1>2, <1>4, <1>9 DEF OpenJob
  <2> QED  BY <2>1, <2>2 DEF OpenInv
<1>18. PartsInv'
  <2>1. ASSUME NEW k \in Jobs, 2 \in Parts, ~Untried(<<k, 2>>)'  PROVE ~Runs(<<k, 1>>)'
    <3>1. <<k, 1>> \in Remotes /\ <<k, 2>> \in Remotes  BY <2>1, Distinct DEF Remotes
    <3>2. CASE k # J
      <4>1. <<k, 1>> # me /\ <<k, 2>> # me  BY <3>2 DEF me
      <4> QED  BY <2>1, <3>1, <4>1, <1>4 DEF PartsInv, Untried, Runs
    <3>3. CASE k = J /\ p = 1
      <4>1. <<k, 2>> # me  BY <3>3 DEF me
      <4> QED  BY <2>1, <3>1, <3>3, <4>1, <1>4, <1>6 DEF Untried
    <3>4. CASE k = J /\ p = 2
      <4>1. <<k, 1>> # me  BY <3>4 DEF me
      <4> QED  BY <3>1, <3>4, <4>1, <1>4, <1>7 DEF Runs
    <3> QED  BY <3>2, <3>3, <3>4, Distinct
  <2>2. p = 2 => Flawed(WorkerJob)'
    <3>1. p = 2 => Flawed(J)'  BY <1>2, <1>9
    <3> QED  BY <3>1, <1>3 DEF Flawed, FindRemote
  <2>3. p = 1 /\ 2 \in Parts => Untried(<<WorkerJob, 2>>)'
    <3>1. 2 \in Parts /\ p = 1 => <<J, 2>> \in Remotes /\ <<J, 2>> # me  BY DEF me, Remotes
    <3> QED  BY <3>1, <1>3, <1>4, <1>6 DEF Untried
  <2> QED  BY <2>1, <2>2, <2>3, <1>3, <1>10 DEF PartsInv
<1> QED
  BY <1>11, <1>12, <1>13, <1>14, <1>15, <1>16, <1>17, <1>18 DEF WInv
LEMMA RecordOn ==
  ASSUME WInv, IInv', Record(Worker)
  PROVE  WInv'
BY LedgerOn DEF Record, At, WorkerPc, World, Others, AttemptStates

LEMMA CreateOn ==
  ASSUME WInv, IInv', Create(Worker)
  PROVE  WInv'
<1>1. WorkerPc = "create" /\ WorkerPc \in ParsePoints
  BY DEF Create, At, WorkerPc, ParsePoints
<1>2. UNCHANGED <<job, adopted, noted, slots, files, admin>>
  BY DEF Create, Others
<1>3. /\ attempt \in [Remotes -> AttemptStates] /\ remote \in [Remotes -> RemoteType] /\ Me(Worker) \in Remotes
      /\ attempt[Me(Worker)] = "submitting" /\ remote[Me(Worker)].state = "none"
      /\ remote[Me(Worker)] \in RemoteType
  BY <1>1, WorkerParses DEF StoreTypeOK, RunnerSends, WorkerPc
<1> DEFINE u == [remote[Me(Worker)] EXCEPT !.state = "running", !.sent = @ + 1]
           sent == /\ remote' \in [Remotes -> RemoteType]
                   /\ \A n \in Remotes : n # Me(Worker) => remote'[n] = remote[n]
<1>4. remote' = [remote EXCEPT ![Me(Worker)].state = "running", ![Me(Worker)].sent = @ + 1] => sent
  <2> SUFFICES ASSUME remote' = [remote EXCEPT ![Me(Worker)].state = "running", ![Me(Worker)].sent = @ + 1]
               PROVE sent
    OBVIOUS
  <2>1. remote' = [remote EXCEPT ![Me(Worker)] = u]  BY <1>3 DEF RemoteType
  <2>2. u \in RemoteType  BY <1>3 DEF RemoteType
  <2> HIDE DEF u
  <2> QED  BY <1>3, <2>1, <2>2
<1>5. CASE Goto(Worker, "record") /\ sent /\ UNCHANGED attempt
  <2>1. attempt' = [attempt EXCEPT ![Me(Worker)] = "submitting"]  BY <1>3, <1>5
  <2> QED  BY <1>1, <1>2, <1>3, <1>5, <2>1, LedgerOn DEF AttemptStates, Unresolved
<1>6. ASSUME NEW state \in {"rejected", "lost"}, attempt' = [attempt EXCEPT ![Me(Worker)] = state],
             Goto(Worker, "abort"), sent \/ UNCHANGED remote
      PROVE  WInv'
  <2>1. state \in AttemptStates  BY DEF AttemptStates, Unresolved
  <2> QED  BY <1>1, <1>2, <1>3, <1>6, <2>1, LedgerOn
<1> QED  BY <1>4, <1>5, <1>6 DEF Create

(* Polling a remote parse that the job knows, or knows from now on. *)
LEMMA LookupPolls ==
  ASSUME WInv, IInv', WorkerPc = "lookup", NEW m \in Remotes, PollFor(Worker, m),
         UNCHANGED <<job, attempt, noted, slots, files, remote, admin>>,
         \A j \in Jobs : j # WorkerJob => adopted'[j] = adopted[j],
         \/ UNCHANGED adopted /\ m \in FindRemote(WorkerJob, runner[Worker].part)
         \/ /\ FindRemote(WorkerJob, runner[Worker].part) = {}
            /\ adopted'[WorkerJob] = adopted[WorkerJob] \union {m} /\ m[2] = runner[Worker].part
  PROVE  WInv'
<1>1. WorkerPc \in ParsePoints /\ "poll" \in JobPoints /\ "poll" \notin EarlyPoints
  BY DEF JobPoints, LockedPoints, WorkPoints, DocPoints, ParsePoints, EarlyPoints
<1>2. PICK J \in Jobs, p \in Parts : J = WorkerJob /\ p = runner[Worker].part
  BY <1>1, WorkerParses
<1>3. /\ TypeOK /\ Worker \in Runners /\ WorkerPc \in JobPoints \ {"attach"} /\ ~Unsure(J) /\ J \in slots
      /\ runner[Worker].job = J
      /\ ~IsOver(J) /\ ~files[DocumentOf[J]].cached /\ ~files[MyDoc(Worker)].text
      /\ \A n, o \in adopted[J] : n[2] = o[2] => n = o
      /\ 2 \in Parts /\ ~Untried(<<J, 2>>) => Flawed(J)
      /\ p = 2 => Flawed(J)
      /\ adopted \in [Jobs -> SUBSET Remotes]
  BY <1>1, <1>2, WorkerParses, WorkerAt DEF TypeOK
<1>4. Becomes(Worker, "poll", WorkerJob, runner[Worker].row, p, m, runner[Worker].log)
  BY <1>2, <1>3, PollForDoes
<1>5. WorkerJob' = J /\ runner'[Worker].part = p /\ runner'[Worker].remote = m
  BY <1>2, <1>4 DEF Becomes, WorkerJob
<1>6. PollsItsOwn'
  <2>1. m \in FindRemote(J, p)'
    <3>1. CASE UNCHANGED adopted /\ m \in FindRemote(J, p)  BY <3>1 DEF FindRemote
    <3>2. CASE FindRemote(J, p) = {} /\ adopted'[J] = adopted[J] \union {m} /\ m[2] = p
      BY <3>2 DEF FindRemote
    <3> QED  BY <1>2, <3>1, <3>2
  <2> QED  BY <1>5, <2>1 DEF PollsItsOwn, FindRemote
<1>7. Flawed(J) => Flawed(J)'
  <2>1. CASE UNCHANGED adopted  BY <2>1 DEF Flawed, FindRemote
  <2>2. CASE /\ FindRemote(J, p) = {} /\ adopted'[J] = adopted[J] \union {m} /\ m[2] = p
    <3>1. CASE p = 1  BY <2>2, <3>1 DEF Flawed
    <3>2. CASE p = 2  BY <2>2, <3>2 DEF Flawed, FindRemote
    <3> QED  BY <3>1, <3>2, Distinct
  <2> QED  BY <1>2, <2>1, <2>2
<1>8. OpenJob(J)'
  <2>1. \A n, o \in adopted'[J] : n[2] = o[2] => n = o
    <3>1. CASE UNCHANGED adopted  BY <3>1, <1>3
    <3>2. CASE FindRemote(J, p) = {} /\ adopted'[J] = adopted[J] \union {m} /\ m[2] = p
      <4>1. \A n \in adopted[J] : n[2] # p  BY <3>2 DEF FindRemote
      <4> QED  BY <3>2, <4>1, <1>3
    <3> QED  BY <1>2, <3>1, <3>2
  <2> QED  BY <2>1, <1>3, <1>7 DEF OpenJob, Untried
<1>9. OpenJob(WorkerJob)' /\ (p = 2 => Flawed(WorkerJob)')
  BY <1>3, <1>5, <1>7, <1>8 DEF OpenJob, Flawed, FindRemote, Silent, IsOver
<1>10. /\ RowBy(Worker) /\ FilesGrow /\ NotesGrow /\ SlotsInv' /\ job'[WorkerJob].status \notin Terminal
       /\ ~Unsure(WorkerJob) /\ WorkerJob \in slots'
       /\ \A j \in Jobs : j # WorkerJob => adopted'[j] = adopted[j] /\ (j \in slots => j \in slots')
  BY <1>2, <1>3, NothingGrows, SlotsStay DEF RowBy, TypeOK, WInv, IsOver
<1> QED  BY <1>1, <1>3, <1>4, <1>6, <1>9, <1>10, OnKeeps

LEMMA LookupOn ==
  ASSUME WInv, IInv', Lookup(Worker)
  PROVE  WInv'
<1> DEFINE p == runner[Worker].part
           side == files[MyDoc(Worker)].sidecar[p]
           known == FindRemote(WorkerJob, p)
<1>1. WorkerPc = "lookup" /\ WorkerPc \in ParsePoints /\ WorkerPc \in JobPoints /\ WorkerPc \in DocPoints
  BY Points DEF Lookup, At, WorkerPc, ParsePoints
<1>2. UNCHANGED <<job, noted, slots, files, remote, admin>>
  BY DEF Lookup, World, Others
<1>3. /\ TypeOK /\ StoreTypeOK /\ WorkerJob \in Jobs /\ p \in Parts /\ WorkerJob = MyJob(Worker)
      /\ MyDoc(Worker) \in Documents /\ ~Unsure(WorkerJob) /\ WorkerJob \in slots /\ Worker \in Runners
      /\ FileKnown(files[MyDoc(Worker)])
      /\ WorkerPc \in JobPoints \ {"attach"}
  BY <1>1, WorkerParses, WorkerAt, AtStore DEF WInv, WorkerPc
<1>4. CASE \E m \in known : PollFor(Worker, m) /\ UNCHANGED <<attempt, adopted>>
  <2>1. known \subseteq Remotes
    BY <1>3 DEF FindRemote, StoreTypeOK, Remotes
  <2> QED  BY <1>1, <1>2, <1>3, <1>4, <2>1, LookupPolls
<1>5. CASE Goto(Worker, "abort") /\ UNCHANGED <<attempt, adopted>>
  BY <1>1, <1>2, <1>3, <1>5, NothingGrows, SlotsStay, GotoOn DEF WInv
<1>6. CASE known = {} /\ side # NoRemote /\ Adopt(WorkerJob, {side}) /\ PollFor(Worker, side) /\ UNCHANGED attempt
  <2>1. side \in Remotes
    <3>1. files[MyDoc(Worker)] \in FileType  BY <1>3 DEF StoreTypeOK
    <3> QED  BY <3>1, <1>3, <1>6 DEF FileType
  <2>2. attempt[side] = "submitted" /\ side[2] = p  BY <1>3, <1>6 DEF FileKnown, Submitted
  <2>3. side[1] # WorkerJob
    <3>1. attempt[<<WorkerJob, p>>] # "submitted"  BY <1>6 DEF FindRemote
    <3>2. side = <<side[1], side[2]>>  BY <2>1 DEF Remotes
    <3> QED  BY <2>2, <3>1, <3>2
  <2> DEFINE new == {m \in {side} : m[1] # WorkerJob}
  <2>4. new = {side}  BY <2>3
  <2>5. adopted' = [adopted EXCEPT ![WorkerJob] = @ \union new]  BY <1>6 DEF Adopt
  <2> HIDE DEF new, side, known
  <2>6. /\ adopted'[WorkerJob] = adopted[WorkerJob] \union {side}
        /\ \A j \in Jobs : j # WorkerJob => adopted'[j] = adopted[j]
    BY <1>3, <2>4, <2>5 DEF StoreTypeOK
  <2> QED  BY <1>1, <1>2, <1>3, <1>6, <2>1, <2>2, <2>6, LookupPolls DEF known
<1>7. CASE known = {} /\ attempt' = [attempt EXCEPT ![Me(Worker)] = "submitting"] /\ Goto(Worker, "create")
           /\ UNCHANGED adopted
  BY <1>1, <1>2, <1>7, LedgerOn DEF AttemptStates, Unresolved
<1> QED  BY <1>3, <1>4, <1>5, <1>6, <1>7 DEF Lookup
-----------------------------------------------------------------------------
(* The worker starts, recovers what it finds, and takes the next job.       *)

(* What is on the ledger stays, up to what is lost of it. *)
LEMMA BetweenJobs ==
  ASSUME WInv, runner'[Worker].pc \in {"recover", "idle", "claimed"},
         runner'[Worker].pc = "claimed" => runner'[Worker].part = 1 /\ Oldest(runner'[Worker].job),
         UNCHANGED <<adopted, noted, slots, files, remote, admin>>,
         \A m \in Remotes : /\ Untried(m)' <=> Untried(m)
                            /\ (attempt'[m] = "submitted") <=> (attempt[m] = "submitted"),
         \A j \in Jobs : IsOver(j) => IsOver(j)'
  PROVE  (SlotsInv /\ NotedInv /\ OldestInv /\ TextInv /\ OpenInv /\ PartsInv)'
<1>1. /\ SlotsInv /\ NotedInv /\ OldestInv /\ TextInv /\ OpenInv /\ PartsInv
      /\ adopted' = adopted /\ noted' = noted /\ slots' = slots /\ files' = files /\ remote' = remote
      /\ admin' = admin
  BY DEF WInv
<1>2. /\ WorkerPc' \in {"recover", "idle", "claimed"} /\ WorkerPc' \notin ParsePoints
      /\ WorkerPc' \notin {"poll", "create", "record", "payers", "cache", "release"}
      /\ WorkerPc' \in JobPoints => WorkerPc' = "claimed"
      /\ WorkerPc' \in EarlyPoints => WorkerPc' = "claimed"
  BY DEF WorkerPc, JobPoints, LockedPoints, WorkPoints, DocPoints, ParsePoints, EarlyPoints
<1>3. ASSUME NEW j \in Jobs
      PROVE  /\ Own(j)' = Own(j) /\ FindRemote(j, 1)' = FindRemote(j, 1) /\ (Silent(j)' <=> Silent(j))
             /\ (Oldest(j) => Oldest(j)')
  <2>1. <<j, 1>> \in Remotes  BY Distinct DEF Remotes
  <2>2. Own(j)' = Own(j)  BY DEF Own, Untried
  <2>3. FindRemote(j, 1)' = FindRemote(j, 1)  BY <1>1, <2>1 DEF FindRemote
  <2> QED  BY <1>1, <2>2, <2>3 DEF Silent, Runs, Oldest
<1>4. SlotsInv' /\ NotedInv'  BY <1>1 DEF SlotsInv, NotedInv, Runs, Ended
<1>5. OldestInv'
  <2>1. WorkerPc' \in JobPoints \ {"attach"} => Oldest(WorkerJob)'
    BY <1>2 DEF Oldest, WorkerPc, WorkerJob
  <2> QED  BY <2>1, <1>1, <1>3 DEF OldestInv
<1>6. TextInv'  BY <1>1, <1>2, <1>3 DEF TextInv
<1>7. OpenInv'
  <2>1. ASSUME NEW j \in Jobs  PROVE OpenJob(j)'
    <3>1. OpenJob(j) /\ (Flawed(j)' <=> Flawed(j))  BY <1>1, <1>3 DEF OpenInv, Flawed
    <3>2. 2 \in Parts => (Untried(<<j, 2>>)' <=> Untried(<<j, 2>>))  BY DEF Remotes
    <3> QED  BY <1>1, <1>3, <3>1, <3>2 DEF OpenJob
  <2> QED  BY <2>1 DEF OpenInv
<1>8. PartsInv'
  <2>1. ASSUME NEW j \in Jobs, 2 \in Parts, ~Untried(<<j, 2>>)'  PROVE ~Runs(<<j, 1>>)'
    <3>1. ~Untried(<<j, 2>>)  BY <2>1 DEF Remotes
    <3> QED  BY <1>1, <2>1, <3>1 DEF PartsInv, Runs
  <2>2. WorkerPc' = "claimed" => runner'[Worker].part = 1  BY DEF WorkerPc
  <2> QED  BY <1>2, <2>1, <2>2 DEF PartsInv
<1> QED  BY <1>4, <1>5, <1>6, <1>7, <1>8

LEMMA ClaimOn ==
  ASSUME WInv, IInv', NEW j \in Jobs, Claim(Worker, j)
  PROVE  WInv'
<1> DEFINE row == [job[j] EXCEPT !.status = "parsing"]
           u == [IdleRunner EXCEPT !.pc = "claimed", !.job = j, !.row = row]
<1>1. /\ job \in [Jobs -> JobRow] /\ Worker \in Runners /\ runner \in [Runners -> RunnerType]
      /\ WorkerPc = "idle" /\ job[j].status = "queued"
      /\ job' = [job EXCEPT ![j] = row] /\ runner' = [runner EXCEPT ![Worker] = u]
      /\ UNCHANGED <<attempt, adopted, noted, slots, files, remote, admin>>
      /\ \A k \in Jobs : job[k].status = "queued" => j <= k
  BY Distinct DEF WInv, IInv, TypeOK, RunnerType, Claim, At, WorkerPc, Ledger, World, Others
<1>2. row.status = "parsing"  BY <1>1 DEF JobRow
<1>3. u.pc = "claimed" /\ u.job = j /\ u.part = 1  BY DEF IdleRunner
<1> HIDE DEF u, row
<1>4. WorkerPc' = "claimed" /\ WorkerJob' = j /\ runner'[Worker].part = 1 /\ runner'[Worker].job = j
      /\ runner'[Worker].pc = "claimed"
  BY <1>1, <1>3 DEF WorkerPc, WorkerJob
<1>5. job'[j].status = "parsing" /\ \A k \in Jobs : k # j => job'[k] = job[k]
  BY <1>1, <1>2
<1>6. \A k \in Jobs : job[k].status \notin InFlight  BY <1>1 DEF WInv, OneInv
<1>7. Oldest(j)
  <2>1. \A k \in Jobs : ~IsOver(k) => job[k].status = "queued"
    BY <1>1, <1>6 DEF JobRow, IsOver
  <2> QED  BY <1>1, <2>1 DEF Oldest
<1>8. \A k \in Jobs : IsOver(k)' <=> IsOver(k)  BY <1>1, <1>5 DEF IsOver, Terminal
<1>9. "claimed" \in JobPoints /\ "claimed" \notin DocPoints
  BY DEF JobPoints, LockedPoints, WorkPoints, DocPoints, ParsePoints
<1>10. OneInv'
  BY <1>4, <1>5, <1>6, <1>9 DEF OneInv, IsOver, Terminal
<1>11. UnsureInv'
  <2>1. ASSUME NEW k \in Jobs  PROVE UnsureIsKept(k)'
    <3>1. UnsureIsKept(k) /\ (Unsure(k)' <=> Unsure(k))  BY <1>1 DEF WInv, UnsureInv, Unsure, Own
    <3>2. k = j => ~Unsure(k)  BY <1>1, <3>1 DEF UnsureIsKept
    <3> QED  BY <1>1, <1>4, <1>5, <3>1, <3>2 DEF UnsureIsKept, IsOver
  <2>2. ClaimMayBeUndone'  BY <1>1 DEF WInv, UnsureInv, ClaimMayBeUndone, Unsure, Own
  <2> QED  BY <2>1, <2>2, <1>4, <1>9 DEF UnsureInv
<1>12. \A m \in Remotes : /\ Untried(m)' <=> Untried(m)
                          /\ (attempt'[m] = "submitted") <=> (attempt[m] = "submitted")
  BY <1>1 DEF Untried
<1> QED  BY <1>1, <1>4, <1>7, <1>8, <1>10, <1>11, <1>12, BetweenJobs DEF WInv

(* The worker starts, or has recovered everything. *)
LEMMA IdlingOn ==
  ASSUME WInv, IInv', WorkerPc \in {"down", "recover"}, runner'[Worker].pc \in {"recover", "idle"},
         UNCHANGED <<job, attempt, adopted, noted, slots, files, remote, admin>>,
         OneInv'
  PROVE  WInv'
<1>1. WorkerPc' \notin JobPoints /\ WorkerPc' \notin DocPoints \union {"doc", "create", "record"}
  BY DEF WorkerPc, JobPoints, LockedPoints, WorkPoints, DocPoints, ParsePoints
<1>2. UnsureInv'
  <2>1. ASSUME NEW k \in Jobs  PROVE UnsureIsKept(k)'
    <3>1. UnsureIsKept(k) /\ (Unsure(k)' <=> Unsure(k))  BY DEF WInv, UnsureInv, Unsure, Own
    <3> QED  BY <1>1, <3>1 DEF UnsureIsKept, IsOver
  <2>2. ClaimMayBeUndone'  BY DEF WInv, UnsureInv, ClaimMayBeUndone, Unsure, Own
  <2> QED  BY <2>1, <2>2, <1>1 DEF UnsureInv
<1>3. /\ \A m \in Remotes : /\ Untried(m)' <=> Untried(m)
                            /\ (attempt'[m] = "submitted") <=> (attempt[m] = "submitted")
      /\ \A j \in Jobs : IsOver(j) => IsOver(j)'
  BY DEF Untried, IsOver
<1> QED  BY <1>2, <1>3, BetweenJobs DEF WInv

LEMMA WorkerStartOn ==
  ASSUME WInv, IInv', WorkerStart
  PROVE  WInv'
<1> DEFINE found == {j \in Jobs : job[j].status \in InFlight}
           u == [IdleRunner EXCEPT !.pc = "recover", !.todo = found]
<1>1. /\ Worker \in Runners /\ runner \in [Runners -> RunnerType] /\ WorkerPc = "down"
      /\ runner' = [runner EXCEPT ![Worker] = u]
      /\ UNCHANGED <<job, attempt, adopted, noted, slots, files, remote, admin>>
  BY Distinct DEF WInv, IInv, TypeOK, RunnerType, WorkerStart, At, WorkerPc, Ledger, World, Others
<1>2. u.pc = "recover" /\ u.todo = found  BY DEF IdleRunner
<1> HIDE DEF u
<1>3. runner'[Worker].pc = "recover" /\ runner'[Worker].todo = found  BY <1>1, <1>2
<1>4. OneInv'  BY <1>1, <1>3, Points DEF OneInv, WorkerPc
<1> QED  BY <1>1, <1>3, <1>4, IdlingOn

LEMMA RecoveredOn ==
  ASSUME WInv, IInv', Recovered
  PROVE  WInv'
<1>1. /\ Worker \in Runners /\ TypeOK /\ WorkerPc = "recover" /\ runner[Worker].todo = {}
      /\ Goto(Worker, "idle") /\ "idle" \in RunnerPoints
      /\ UNCHANGED <<job, attempt, adopted, noted, slots, files, remote, admin>>
  BY Distinct DEF WInv, IInv, Recovered, At, WorkerPc, Ledger, World, Others, RunnerPoints
<1>2. runner'[Worker].pc = "idle"  BY <1>1, GotoDoes DEF GoesOn, Becomes
<1>3. \A j \in Jobs : job[j].status \notin InFlight  BY <1>1 DEF WInv, OneInv
<1>4. OneInv'  BY <1>1, <1>2, <1>3, Points DEF OneInv, WorkerPc
<1> QED  BY <1>1, <1>2, <1>4, IdlingOn

LEMMA RecoverJobOn ==
  ASSUME WInv, IInv', NEW j \in Jobs, RecoverJob(j)
  PROVE  WInv'
<1> DEFINE u == [runner[Worker] EXCEPT !.todo = @ \ {j}]
<1>1. /\ Worker \in Runners /\ runner \in [Runners -> RunnerType] /\ job \in [Jobs -> JobRow]
      /\ attempt \in [Remotes -> AttemptStates]
      /\ WorkerPc = "recover" /\ jobLock[j] = Nobody /\ LocksInv
      /\ runner' = [runner EXCEPT ![Worker] = u]
      /\ UNCHANGED <<adopted, noted, slots, files, remote, admin>>
  BY Distinct DEF WInv, IInv, TypeOK, RunnerType, RecoverJob, At, WorkerPc, JobIsFree, World, Others
<1>2. u.pc = "recover" /\ u.todo = runner[Worker].todo \ {j}  BY <1>1 DEF RunnerType, WorkerPc
<1> HIDE DEF u
<1>3. /\ runner'[Worker].pc = "recover" /\ WorkerPc' = "recover"
      /\ runner'[Worker].todo = runner[Worker].todo \ {j}
      /\ WorkerPc' \notin JobPoints /\ WorkerPc' \notin DocPoints \union {"doc", "create", "record"}
  BY <1>1, <1>2 DEF WorkerPc, JobPoints, LockedPoints, WorkPoints, DocPoints, ParsePoints
<1>4. ASSUME NEW m \in Remotes
      PROVE  /\ m[1] # j => attempt'[m] = attempt[m]
             /\ (attempt'[m] \in {"none", "rejected"}) <=> (attempt[m] \in {"none", "rejected"})
             /\ (attempt'[m] = "submitted") <=> (attempt[m] = "submitted")
             /\ attempt'[m] \in Unresolved => attempt[m] \in Unresolved
             /\ attempt'[m] # attempt[m] => job[j].status \in InFlight
             /\ m[1] = j /\ job[j].status \in InFlight => attempt'[m] # "submitting"
  <2>1. CASE UNCHANGED attempt /\ job[j].status \notin InFlight  BY <2>1
  <2>2. CASE job[j].status \in InFlight
             /\ attempt' = [n \in Remotes |-> IF n[1] = j THEN Marked(attempt[n]) ELSE attempt[n]]
    BY <1>1, <2>2 DEF Marked, AttemptStates, Unresolved
  <2> QED  BY <2>1, <2>2 DEF RecoverJob
<1>5. /\ \A k \in Jobs : k # j => job'[k] = job[k]
      /\ job'[j].status \notin InFlight
      /\ \/ job'[j] = job[j]
         \/ /\ job[j].status \in InFlight
            /\ job'[j].status = "failed" /\ job'[j].billing = "pending_own"
         \/ /\ job[j].status \in InFlight
            /\ job'[j].status = "queued" /\ \A p \in Parts : attempt'[<<j, p>>] # "lost"
  <2>1. CASE UNCHANGED job /\ job[j].status \notin InFlight  BY <2>1
  <2>2. CASE /\ job[j].status \in InFlight
             /\ job' = [job EXCEPT ![j] = [@ EXCEPT !.status = "failed", !.billing = "pending_own"]]
    <3> DEFINE row == [job[j] EXCEPT !.status = "failed", !.billing = "pending_own"]
    <3>1. row.status = "failed" /\ row.billing = "pending_own"  BY <1>1 DEF JobRow
    <3>2. job' = [job EXCEPT ![j] = row]  BY <2>2
    <3> HIDE DEF row
    <3> QED  BY <1>1, <2>2, <3>1, <3>2 DEF InFlight
  <2>3. CASE /\ job[j].status \in InFlight /\ ~(\E p \in Parts : attempt'[<<j, p>>] = "lost")
             /\ job' = [job EXCEPT ![j] = Resumed(@)]
    <3> DEFINE row == [job[j] EXCEPT !.status = "queued"]
    <3>1. row.status = "queued"  BY <1>1 DEF JobRow
    <3>2. job' = [job EXCEPT ![j] = row]  BY <2>3 DEF Resumed
    <3> HIDE DEF row
    <3> QED  BY <1>1, <2>3, <3>1, <3>2 DEF InFlight
  <2> QED  BY <2>1, <2>2, <2>3 DEF RecoverJob
<1>6. OneInv'
  <2>1. \A k \in Jobs : job[k].status \in InFlight => k \in runner[Worker].todo
    BY <1>1 DEF WInv, OneInv
  <2> QED  BY <1>3, <1>5, <2>1, Points DEF OneInv
<1>7. UnsureInv'
  <2>1. ASSUME NEW k \in Jobs, k # j  PROVE UnsureIsKept(k)' /\ (Unsure(k)' => Unsure(k))
    <3>1. UnsureIsKept(k) /\ (Unsure(k)' => Unsure(k))  BY <1>4 DEF WInv, UnsureInv, Unsure, Own
    <3> QED  BY <1>1, <1>3, <1>5, <2>1, <3>1 DEF UnsureIsKept, IsOver
  <2>2. UnsureIsKept(j)'
    <3>1. UnsureIsKept(j) /\ (Unsure(j)' => Unsure(j))  BY <1>4 DEF WInv, UnsureInv, Unsure, Own
    <3>2. CASE job'[j] = job[j]  BY <1>1, <1>3, <3>1, <3>2 DEF UnsureIsKept, IsOver
    <3>3. CASE job'[j].status = "failed" /\ job'[j].billing = "pending_own"
      BY <1>1, <1>3, <3>1, <3>3 DEF UnsureIsKept, IsOver
    <3>4. CASE job[j].status \in InFlight /\ job'[j].status = "queued" /\ \A p \in Parts : attempt'[<<j, p>>] # "lost"
      <4>1. ASSUME NEW m \in Remotes, m[1] = j  PROVE attempt'[m] \notin Unresolved
        <5>1. PICK p \in Parts : m = <<j, p>>  BY <4>1 DEF Remotes
        <5> QED  BY <1>4, <3>4, <4>1, <5>1 DEF Unresolved
      <4>2. ~Unsure(j)'  BY <4>1 DEF Unsure, Own
      <4> QED  BY <4>2 DEF UnsureIsKept
    <3> QED  BY <1>5, <3>2, <3>3, <3>4
  <2>3. ClaimMayBeUndone'
    <3>1. admin.pc # "idle" => admin.job \in Jobs \ {j}  BY <1>1, Distinct DEF LocksInv
    <3>2. PICK a : a = admin.job  OBVIOUS
    <3>3. admin.pc # "idle" /\ admin.row.status = "queued" => ~Unsure(a)'
      BY <2>1, <3>1, <3>2 DEF WInv, UnsureInv, ClaimMayBeUndone
    <3> QED  BY <1>1, <3>2, <3>3 DEF ClaimMayBeUndone, Unsure, Own
  <2> QED  BY <2>1, <2>2, <2>3, <1>3 DEF UnsureInv
<1>8. /\ \A m \in Remotes : /\ Untried(m)' <=> Untried(m)
                            /\ (attempt'[m] = "submitted") <=> (attempt[m] = "submitted")
      /\ \A k \in Jobs : IsOver(k) => IsOver(k)'
  BY <1>4, <1>5 DEF Untried, IsOver, InFlight, Terminal
<1> QED  BY <1>1, <1>3, <1>6, <1>7, <1>8, BetweenJobs DEF WInv
-----------------------------------------------------------------------------
(* The admin, and the provider.                                             *)

(* The worker's state, the ledger's attempts and the files stay. *)
LEMMA AdminKeeps ==
  ASSUME WInv, IInv', UNCHANGED <<attempt, adopted, files, remote, runner>>,
         SlotsInv', NotedInv', ClaimMayBeUndone',
         WorkerPc \in DocPoints \union {"doc"} => WorkerJob \in slots',
         \A j \in Jobs : /\ IsOver(j)' <=> IsOver(j)
                         /\ job'[j].status \in InFlight => job[j].status \in InFlight,
         \A j \in Jobs : Unsure(j) =>
           /\ j \in slots' /\ job'[j].status # "queued"
           /\ job'[j].status \in Terminal => job'[j].billing = "pending_own"
  PROVE  WInv'
<1>1. /\ OneInv /\ UnsureInv /\ OldestInv /\ TextInv /\ OpenInv /\ PartsInv
      /\ attempt' = attempt /\ adopted' = adopted /\ files' = files /\ remote' = remote /\ runner' = runner
  BY DEF WInv
<1>2. WorkerPc' = WorkerPc /\ WorkerJob' = WorkerJob /\ Me(Worker)' = Me(Worker) /\ MyDoc(Worker)' = MyDoc(Worker)
  BY DEF WorkerPc, WorkerJob, Me, MyDoc, MyJob
<1>3. /\ \A j \in Jobs : Own(j)' = Own(j) /\ (Unsure(j)' <=> Unsure(j)) /\ (Silent(j)' <=> Silent(j))
      /\ \A j \in Jobs : (Oldest(j)' <=> Oldest(j)) /\ (Flawed(j)' <=> Flawed(j))
  BY DEF Own, Unsure, Silent, Runs, Oldest, Flawed, FindRemote
<1>4. WorkerPc \in JobPoints => WorkerJob \in Jobs  BY WorkerAt
<1>5. OneInv'  BY <1>1, <1>2, <1>4 DEF OneInv
<1>6. UnsureInv'
  <2>1. ASSUME NEW j \in Jobs  PROVE UnsureIsKept(j)'
    BY <1>1, <1>2, <1>3 DEF UnsureInv, UnsureIsKept, IsOver
  <2>2. WorkerPc \in {"create", "record"} =>
          \A m \in Own(WorkerJob)' : attempt'[m] \in Unresolved => m = Me(Worker)
    BY <1>1, <1>2 DEF UnsureInv, Own
  <2> QED  BY <1>1, <1>2, <2>1, <2>2 DEF UnsureInv
<1>7. OldestInv'  BY <1>1, <1>2, <1>3, <1>4 DEF OldestInv, Oldest
<1>8. TextInv'  BY <1>1, <1>2, <1>3 DEF TextInv
<1>9. OpenInv'  BY <1>1, <1>3 DEF OpenInv, OpenJob, Untried
<1>10. PartsInv'
  <2>1. Silent(WorkerJob)' <=> Silent(WorkerJob)  BY <1>1, <1>2 DEF Silent, Runs
  <2>2. Flawed(WorkerJob)' <=> Flawed(WorkerJob)  BY <1>1, <1>2 DEF Flawed, FindRemote
  <2>3. PollsItsOwn' <=> PollsItsOwn  BY <1>1, <1>2 DEF PollsItsOwn, FindRemote
  <2> QED  BY <1>1, <1>2, <2>1, <2>2, <2>3 DEF PartsInv, Untried, Runs
<1> QED  BY <1>5, <1>6, <1>7, <1>8, <1>9, <1>10 DEF WInv

(* So does everything until the billing is written. *)
LEMMA AdminLooks ==
  ASSUME WInv, IInv', UNCHANGED <<job, attempt, adopted, slots, files, remote, runner>>,
         NotedInv', ClaimMayBeUndone'
  PROVE  WInv'
<1>1. SlotsInv'  BY SlotsStay DEF WInv
<1>2. \A j \in Jobs : Unsure(j) =>
        /\ j \in slots' /\ job'[j].status # "queued"
        /\ job'[j].status \in Terminal => job'[j].billing = "pending_own"
  BY DEF WInv, UnsureInv, UnsureIsKept, IsOver
<1>3. \A j \in Jobs : /\ IsOver(j)' <=> IsOver(j)
                      /\ job'[j].status \in InFlight => job[j].status \in InFlight
  BY DEF IsOver
<1>4. WorkerPc \in DocPoints \union {"doc"} => WorkerJob \in slots'  BY DEF WInv, UnsureInv
<1> QED  BY <1>1, <1>2, <1>3, <1>4, AdminKeeps
LEMMA ReconcileStartOn ==
  ASSUME WInv, IInv', NEW j \in Jobs, ReconcileStart(j)
  PROVE  WInv'
<1>1. /\ UNCHANGED <<job, attempt, adopted, noted, slots, files, remote, runner>>
      /\ admin' = [IdleAdmin EXCEPT !.pc = "fetch", !.job = j, !.row = job[j], !.todo = Unsettled(j)]
  BY DEF ReconcileStart, Ledger, RunnersOnly
<1>2. admin'.pc = "fetch" /\ admin'.job = j /\ admin'.row = job[j]  BY <1>1 DEF IdleAdmin
<1>3. NotedInv'  BY <1>1, <1>2 DEF WInv, NotedInv, Ended
<1>4. ClaimMayBeUndone'
  <2>1. UnsureIsKept(j)  BY DEF WInv, UnsureInv
  <2> QED  BY <1>1, <1>2, <2>1 DEF ClaimMayBeUndone, UnsureIsKept, Unsure, Own
<1> QED  BY <1>1, <1>3, <1>4, AdminLooks

LEMMA ReconcileFetchOn ==
  ASSUME WInv, IInv', NEW m \in Remotes, ReconcileFetch(m)
  PROVE  WInv'
<1> DEFINE status == IF Ended(m) THEN "terminal" ELSE "running"
           u == [admin EXCEPT !.pc = "note", !.remote = m, !.todo = @ \ {m}, !.status = status,
                              !.paid = remote[m].usage]
<1>1. /\ UNCHANGED <<job, attempt, adopted, noted, slots, files, remote, runner>>
      /\ admin \in AdminType /\ admin.pc = "fetch" /\ admin' = u
  BY DEF ReconcileFetch, Ledger, RunnersOnly, WInv, IInv, TypeOK, AdminType
<1>2. u.pc = "note" /\ u.job = admin.job /\ u.row = admin.row /\ u.remote = m /\ u.status = status
  <2> HIDE DEF status
  <2> QED  BY <1>1 DEF AdminType
<1> HIDE DEF u
<1>3. NotedInv'  BY <1>1, <1>2 DEF WInv, NotedInv, Ended
<1>4. ClaimMayBeUndone'
  BY <1>1, <1>2 DEF WInv, UnsureInv, ClaimMayBeUndone, Unsure, Own
<1> QED  BY <1>1, <1>3, <1>4, AdminLooks

LEMMA ReconcileFetchedOn ==
  ASSUME WInv, IInv', ReconcileFetched
  PROVE  WInv'
<1>1. /\ UNCHANGED <<job, attempt, adopted, noted, slots, files, remote, runner>>
      /\ admin \in AdminType /\ admin.pc = "fetch" /\ admin' = [admin EXCEPT !.pc = "settle"]
  BY DEF ReconcileFetched, Ledger, RunnersOnly, WInv, IInv, TypeOK, AdminType
<1>2. admin'.pc = "settle" /\ admin'.job = admin.job /\ admin'.row = admin.row
  BY <1>1 DEF AdminType
<1>3. NotedInv'  BY <1>1, <1>2 DEF WInv, NotedInv, Ended
<1>4. ClaimMayBeUndone'
  BY <1>1, <1>2 DEF WInv, UnsureInv, ClaimMayBeUndone, Unsure, Own
<1> QED  BY <1>1, <1>3, <1>4, AdminLooks

LEMMA ReconcileFailsOn ==
  ASSUME WInv, IInv', ReconcileFails
  PROVE  WInv'
<1>1. /\ UNCHANGED <<job, attempt, adopted, noted, slots, files, remote, runner>>
      /\ admin'.pc = "idle"
  BY IdleAdminIsOne DEF ReconcileFails, Ledger, RunnersOnly
<1>2. NotedInv' /\ ClaimMayBeUndone'  BY <1>1 DEF WInv, NotedInv, Ended, ClaimMayBeUndone
<1> QED  BY <1>1, <1>2, AdminLooks

(* What the provider said a moment ago is still so: an end is for good. *)
LEMMA ReconcileNoteOn ==
  ASSUME WInv, IInv', ReconcileNote
  PROVE  WInv'
<1> DEFINE m == admin.remote
           note == [status |-> admin.status, paid |-> noted[m].paid \/ admin.paid]
           u == [admin EXCEPT !.pc = "fetch", !.remote = NoRemote, !.status = "", !.paid = FALSE]
<1>1. /\ UNCHANGED <<job, attempt, adopted, slots, files, remote, runner>>
      /\ admin \in AdminType /\ admin.pc = "note" /\ m \in Remotes /\ TypeOK
      /\ noted' = [noted EXCEPT ![m] = note] /\ admin' = u
  BY DEF ReconcileNote, RunnersOnly, Complete, WInv, IInv, TypeOK, AdminType, AdminInv
<1>2. u.pc = "fetch" /\ u.job = admin.job /\ u.row = admin.row  BY <1>1 DEF AdminType
<1>3. note.status = admin.status  OBVIOUS
<1> HIDE DEF u, note
<1>4. \A n \in Remotes : n # m => noted'[n] = noted[n]  BY <1>1 DEF TypeOK
<1>5. noted'[m].status = admin.status  BY <1>1, <1>3 DEF TypeOK
<1>6. NotedInv'
  <2>1. NotedInv  BY DEF WInv
  <2>2. \A n \in Remotes : noted'[n].status = "terminal" => Ended(n)
    BY <1>1, <1>4, <1>5, <2>1 DEF NotedInv
  <2> QED  BY <1>1, <1>2, <2>2 DEF NotedInv, Ended
<1>7. ClaimMayBeUndone'
  BY <1>1, <1>2 DEF WInv, UnsureInv, ClaimMayBeUndone, Unsure, Own
<1> QED  BY <1>1, <1>6, <1>7, AdminLooks

(* The slot goes when what the job submitted and adopted has ended; billing  *)
(* stays pending while a submission's outcome is unknown.                   *)
LEMMA ReconcileSettleOn ==
  ASSUME WInv, IInv', ReconcileSettle
  PROVE  WInv'
<1> DEFINE j == admin.job
           b == Billing(j, admin.row.billing, FALSE)
           row == [admin.row EXCEPT !.billing = b]
<1>1. /\ UNCHANGED <<attempt, adopted, noted, files, remote, runner>> /\ admin' = IdleAdmin
      /\ admin.pc = "settle" /\ admin.row \in JobRow /\ job \in [Jobs -> JobRow]
      /\ j \in Jobs /\ jobLock[j] = "admin" /\ AdminInv /\ LocksInv /\ SlotsInv /\ UnsureInv
  BY DEF ReconcileSettle, Ledger, RunnersOnly, WInv, IInv, TypeOK, LocksInv
<1>2. b \in Billings /\ (Unsure(j) => b = "pending_own")
  BY <1>1, BillingIsRight DEF JobRow, Billing, OwnPending, Unsure
<1>3. job' = job \/ job' = [job EXCEPT ![j] = row]
  BY DEF ReconcileSettle
<1>4. slots' = slots \/ ((Counted(j) = {} \/ RemoteTerminal(j)) /\ slots' = slots \ {j})
  BY DEF ReconcileSettle
<1> HIDE DEF b
<1>5. row.status = admin.row.status /\ row.billing = b  BY <1>1, <1>2 DEF JobRow
<1> HIDE DEF row
<1>6. /\ \A k \in Jobs : k # j => job'[k] = job[k]
      /\ job'[j] = job[j] \/ (job'[j].billing = b /\ job'[j].status = admin.row.status)
  BY <1>1, <1>3, <1>5
<1>7. \/ admin.row.status = job[j].status
      \/ admin.row.status = "queued" /\ job[j].status = "parsing" /\ ~Unsure(j)
  BY <1>1 DEF AdminInv, UnsureInv, ClaimMayBeUndone, JobRow
<1>8. SlotsInv' /\ (Unsure(j) => slots' = slots) /\ slots \ {j} \subseteq slots'
  BY <1>1, <1>4, SlotsStay, SlotGoes, LeavingIsSafe
<1>9. \A k \in Jobs : /\ IsOver(k)' <=> IsOver(k)
                      /\ job'[k].status \in InFlight => job[k].status \in InFlight
  BY <1>6, <1>7 DEF IsOver, Terminal, InFlight
<1>10. ASSUME NEW k \in Jobs, Unsure(k)
       PROVE  /\ k \in slots' /\ job'[k].status # "queued"
              /\ job'[k].status \in Terminal => job'[k].billing = "pending_own"
  <2>1. k \in slots /\ job[k].status # "queued" /\ (job[k].status \in Terminal => job[k].billing = "pending_own")
    BY <1>1, <1>10 DEF UnsureInv, UnsureIsKept, IsOver
  <2> QED  BY <1>2, <1>6, <1>7, <1>8, <1>10, <2>1
<1>11. WorkerPc \in DocPoints \union {"doc"} => WorkerJob \in slots'
  <2>1. WorkerPc \in DocPoints \union {"doc"} => WorkerPc \in LockedPoints
    BY Points DEF LockedPoints, WorkPoints
  <2>2. WorkerPc \in LockedPoints => WorkerJob # j
    BY <1>1, Distinct DEF LocksInv, HoldsLocks, WorkerPc, WorkerJob
  <2> QED  BY <1>1, <1>8, <2>1, <2>2 DEF UnsureInv
<1>12. NotedInv' /\ ClaimMayBeUndone'
  BY <1>1, IdleAdminIsOne DEF WInv, NotedInv, Ended, ClaimMayBeUndone
<1> QED  BY <1>1, <1>8, <1>9, <1>10, <1>11, <1>12, AdminKeeps

(* A remote parse that ends, or whose usage is reported: what had ended      *)
(* stays as it is.                                                          *)
LEMMA ProviderOn ==
  ASSUME WInv, IInv', NEW n \in Remotes, RemoteEnds(n) \/ UsageReported(n)
  PROVE  WInv'
<1>1. /\ UNCHANGED <<job, attempt, adopted, noted, slots, files, jobLock, docLock, runner, admin, crashes>>
      /\ remote \in [Remotes -> RemoteType]
      /\ OneInv /\ UnsureInv /\ SlotsInv /\ NotedInv /\ OldestInv /\ TextInv /\ OpenInv /\ PartsInv
  BY DEF WInv, IInv, TypeOK, RemoteType, RemoteEnds, UsageReported, ProviderOnly
<1>2. \A m \in Remotes : remote'[m].state = remote[m].state \/ (Runs(m) /\ ~Runs(m)')
  <2>1. CASE RemoteEnds(n)
    <3>1. PICK state \in Ends : remote' = [remote EXCEPT ![n].state = state]  BY <2>1 DEF RemoteEnds
    <3> QED  BY <1>1, <2>1, <3>1 DEF RemoteEnds, RemoteType, Runs, Ends
  <2>2. CASE UsageReported(n)
    BY <1>1, <2>2 DEF UsageReported, RemoteType
  <2> QED  BY <2>1, <2>2
<1>3. /\ \A m \in Remotes : (Runs(m)' => Runs(m)) /\ (Ended(m) => Ended(m)')
      /\ \A m \in Remotes : remote[m].state = "flawed" => remote'[m].state = "flawed"
  BY <1>2 DEF Runs, Ended, Ends
<1>4. /\ WorkerPc' = WorkerPc /\ WorkerJob' = WorkerJob /\ Me(Worker)' = Me(Worker)
      /\ MyDoc(Worker)' = MyDoc(Worker)
      /\ \A j : FindRemote(j, 1)' = FindRemote(j, 1)
  BY <1>1 DEF WorkerPc, WorkerJob, Me, MyDoc, MyJob, FindRemote
<1>5. /\ \A j \in Jobs : Own(j)' = Own(j) /\ (Unsure(j)' <=> Unsure(j)) /\ (Silent(j) => Silent(j)')
      /\ \A j \in Jobs : Flawed(j) => Flawed(j)'
  <2>1. ASSUME NEW j \in Jobs, Flawed(j)  PROVE Flawed(j)'
    <3>1. FindRemote(j, 1) \subseteq Remotes
      <4>1. adopted[j] \subseteq Remotes /\ <<j, 1>> \in Remotes
        BY Distinct DEF WInv, IInv, TypeOK, Remotes
      <4> QED  BY <4>1 DEF FindRemote
    <3> QED  BY <1>3, <1>4, <2>1, <3>1 DEF Flawed
  <2> QED  BY <1>1, <1>3, <2>1 DEF Own, Unsure, Silent
<1>6. OneInv'  BY <1>1, <1>4 DEF OneInv, IsOver
<1>7. UnsureInv'
  <2>1. ASSUME NEW j \in Jobs  PROVE UnsureIsKept(j)'
    BY <1>1, <1>4, <1>5 DEF UnsureInv, UnsureIsKept, IsOver
  <2>2. ClaimMayBeUndone'  BY <1>1 DEF UnsureInv, ClaimMayBeUndone, Unsure, Own
  <2>3. WorkerPc \in {"create", "record"} =>
          \A m \in Own(WorkerJob)' : attempt'[m] \in Unresolved => m = Me(Worker)
    BY <1>1, <1>4 DEF UnsureInv, Own
  <2> QED  BY <1>1, <1>4, <2>1, <2>2, <2>3 DEF UnsureInv
<1>8. SlotsInv' /\ NotedInv'
  <2>1. AdminInv  BY DEF WInv, IInv
  <2> QED  BY <1>1, <1>3, <2>1 DEF SlotsInv, NotedInv, AdminInv
<1>9. OldestInv' /\ TextInv'
  BY <1>1, <1>4, <1>5 DEF OldestInv, Oldest, IsOver, TextInv
<1>10. OpenInv'
  BY <1>1, <1>5 DEF OpenInv, OpenJob, IsOver, Untried
<1>11. PartsInv'
  <2>1. WorkerPc \in JobPoints => WorkerJob \in Jobs  BY WorkerAt
  <2>2. WorkerPc \in ParsePoints \/ WorkerPc \in {"payers", "cache", "release"} => WorkerJob \in Jobs
    <3>1. {"payers", "cache", "release"} \subseteq DocPoints  BY DEF DocPoints, ParsePoints
    <3> QED  BY <2>1, <3>1, Points
  <2>3. PollsItsOwn' <=> PollsItsOwn  BY <1>1, <1>4 DEF PollsItsOwn, FindRemote
  <2>4. \A j \in Jobs : 2 \in Parts /\ ~Untried(<<j, 2>>)' => ~Runs(<<j, 1>>)'
    BY <1>1, <1>3, Distinct DEF PartsInv, Untried, Remotes
  <2>5. PICK k : k = WorkerJob  OBVIOUS
  <2>6. WorkerPc \in ParsePoints /\ runner[Worker].part = 2 => Flawed(WorkerJob)'
    <3>1. WorkerPc \in ParsePoints /\ runner[Worker].part = 2 => Flawed(k)'
      BY <1>1, <1>5, <2>2, <2>5 DEF PartsInv
    <3> QED  BY <1>4, <2>5, <3>1 DEF Flawed, FindRemote
  <2>7. WorkerPc \in {"payers", "cache", "release"} => Silent(WorkerJob)'
    <3>1. WorkerPc \in {"payers", "cache", "release"} => Silent(k)'
      BY <1>1, <1>5, <2>2, <2>5 DEF PartsInv
    <3> QED  BY <1>4, <2>5, <3>1 DEF Silent, Runs
  <2> QED  BY <1>1, <1>4, <2>3, <2>4, <2>6, <2>7 DEF PartsInv, Untried
<1> QED  BY <1>6, <1>7, <1>8, <1>9, <1>10, <1>11 DEF WInv
-----------------------------------------------------------------------------
(* The first state, the steps, and the theorems.                            *)

LEMMA WInitHolds ==
  ASSUME Init
  PROVE  WInv
<1> USE Distinct
<1>1. IInv  BY InitHolds
<1>2. PICK text \in [Documents -> BOOLEAN] : files = [d \in Documents |-> Document(text[d])]
  BY DEF Init
<1>3. WorkerPc = "down" /\ runner[Worker] = Stopped(Worker)
  BY DEF Init, Stopped, IdleRunner, WorkerPc
<1>4. WorkerPc \notin JobPoints /\ WorkerPc \notin DocPoints \union {"doc"} /\ WorkerPc \notin ParsePoints
      /\ WorkerPc \notin EarlyPoints /\ WorkerPc \notin {"create", "record", "poll", "payers", "cache", "release"}
  BY <1>3 DEF JobPoints, LockedPoints, WorkPoints, DocPoints, ParsePoints, EarlyPoints
<1>5. /\ \A j \in Jobs : job[j].status = "queued" /\ ~IsOver(j)
      /\ \A j \in Jobs : Own(j) = {} /\ adopted[j] = {} /\ ~Unsure(j)
      /\ \A m \in Remotes : Untried(m) /\ ~Runs(m) /\ noted[m].status = ""
      /\ \A d \in Documents : ~files[d].cached
      /\ admin.pc = "idle"
  BY <1>2, IdleAdminIsOne DEF Init, NewRow, Own, Unsure, Untried, Runs, NoSubmission, Document, Terminal, IsOver
<1>6. OneInv  BY <1>3, <1>4, <1>5 DEF OneInv, InFlight
<1>7. UnsureInv  BY <1>3, <1>4, <1>5 DEF UnsureInv, UnsureIsKept, ClaimMayBeUndone
<1>8. SlotsInv
  <2>1. slots = {} /\ SlotLimit \in Nat  BY RunsAssumption DEF Init, RunsAssumption
  <2>2. IsFiniteSet({}) /\ Cardinality({}) = 0  BY FS_EmptySet
  <2>3. IsFiniteSet(slots) /\ Cardinality(slots) <= SlotLimit  BY <2>1, <2>2
  <2> QED  BY <1>5, <2>3 DEF SlotsInv
<1>9. NotedInv  BY <1>5 DEF NotedInv
<1>10. OldestInv  BY <1>4, <1>5 DEF OldestInv
<1>11. TextInv  BY <1>4, <1>5 DEF TextInv
<1>12. OpenInv
  <2>1. \A j \in Jobs : 2 \in Parts => Untried(<<j, 2>>)  BY <1>5 DEF Remotes
  <2> QED  BY <1>5, <2>1 DEF OpenInv, OpenJob
<1>13. PartsInv
  <2>1. \A j \in Jobs : 2 \in Parts => Untried(<<j, 2>>)  BY <1>5 DEF Remotes
  <2> QED  BY <1>4, <2>1 DEF PartsInv
<1> QED  BY <1>1, <1>6, <1>7, <1>8, <1>9, <1>10, <1>11, <1>12, <1>13 DEF WInv

LEMMA WStutterKeeps ==
  ASSUME WInv, IInv', UNCHANGED vars
  PROVE  WInv'
<1>1. UNCHANGED <<job, attempt, adopted, noted, slots, files, remote, runner, admin>>  BY DEF vars
<1>2. NotedInv' /\ ClaimMayBeUndone'
  BY <1>1 DEF WInv, UnsureInv, NotedInv, Ended, ClaimMayBeUndone, Unsure, Own
<1> QED  BY <1>1, <1>2, AdminLooks

LEMMA WNextKeeps ==
  ASSUME Clis = {}, WInv, [Next]_vars
  PROVE  WInv'
<1>1. IInv'  BY NextKeeps DEF WInv
<1>2. \A r \in Runners : r = Worker  BY DEF Runners
<1>3. CASE RunnerStep(Worker)
  BY <1>1, <1>3, ClaimOn, LockJobOn, StartOn, EnterSlotOn, LockDocumentOn, ConvertOn, LookupOn, CreateOn,
     RecordOn, WriteSidecarOn, PollOn, StorePayersOn, StoreCacheOn, AbortOn, ReleaseOn, ValidateOn,
     BuildOn, ReadyOn, AttachOn, FailOn
  DEF RunnerStep
<1>4. CASE Crash(Worker)  BY <1>1, <1>4, CrashOn
<1>5. CASE WorkerStep  BY <1>1, <1>5, WorkerStartOn, RecoverJobOn, RecoveredOn DEF WorkerStep
<1>6. CASE AdminStep
  BY <1>1, <1>6, ReconcileStartOn, ReconcileFetchOn, ReconcileFetchedOn, ReconcileFailsOn,
     ReconcileNoteOn, ReconcileSettleOn
  DEF AdminStep
<1>7. CASE ProviderStep  BY <1>1, <1>7, ProviderOn DEF ProviderStep
<1>8. CASE NothingQueued \/ UNCHANGED vars  BY <1>1, <1>8, WStutterKeeps DEF NothingQueued
<1> QED  BY <1>2, <1>3, <1>4, <1>5, <1>6, <1>7, <1>8 DEF Next

LEMMA WorkerInductive ==
  ASSUME Clis = {}
  PROVE  Spec => []WInv
<1>1. Init => WInv  BY WInitHolds
<1>2. WInv /\ [Next]_vars => WInv'  BY WNextKeeps
<1> QED  BY <1>1, <1>2, PTL DEF Spec

(* Every remote parse that runs has its job in a slot, and the parts of one  *)
(* job run one after the other; so there are no more of them than slots.     *)
LEMMA SlotsLimit ==
  ASSUME WInv
  PROVE  RunningWithinLimit
<1> DEFINE Running == {m \in Remotes : remote[m].state = "running"}
           f == [m \in Running |-> m[1]]
<1>1. ASSUME NEW m \in Running, NEW n \in Running, m[1] = n[1]  PROVE m = n
  <2>1. PICK j \in Jobs, p \in Parts : m = <<j, p>>  BY DEF Remotes
  <2>2. PICK q \in Parts : n = <<j, q>>  BY <1>1, <2>1 DEF Remotes
  <2>3. SentAt(m) /\ SentAt(n)  BY DEF WInv, IInv, SentInv
  <2>4. ~Untried(m) /\ ~Untried(n)  BY <2>3 DEF SentAt, Untried
  <2>5. 2 \in Parts /\ ~Untried(<<j, 2>>) => remote[<<j, 1>>].state # "running"
    BY DEF WInv, PartsInv, Runs
  <2>6. p = q  BY <2>1, <2>2, <2>4, <2>5, Distinct
  <2> QED  BY <2>1, <2>2, <2>6
<1>2. \A m \in Running : m[1] \in slots  BY DEF WInv, SlotsInv, Runs
<1>3. f \in Injection(Running, slots)
  <2>1. f \in [Running -> slots] /\ \A m \in Running : f[m] = m[1]  BY <1>2
  <2> HIDE DEF f, Running
  <2> QED  BY <1>1, <2>1 DEF Injection, IsInjective
<1>4. IsFiniteSet(slots) /\ Cardinality(slots) <= SlotLimit /\ SlotLimit \in Nat
  BY RunsAssumption DEF WInv, SlotsInv, RunsAssumption
<1> HIDE DEF f
<1>5. IsFiniteSet(Running) /\ Cardinality(Running) <= Cardinality(slots)
  BY <1>3, <1>4, FS_Injection
<1>6. Cardinality(Running) \in Nat /\ Cardinality(slots) \in Nat
  BY <1>4, <1>5, FS_CardinalityType
<1>7. Cardinality(Running) <= SlotLimit
  <2> HIDE DEF Running
  <2> QED  BY <1>4, <1>5, <1>6
<1> QED  BY <1>7 DEF RunningWithinLimit

(* SubmissionsAreAccounted: however often the worker dies, no part is        *)
(* submitted twice, a job whose remote ID was lost keeps its slot and its     *)
(* pending billing, and no more parses run than there are slots.  Nobody but  *)
(* an admin's reconciliation touches the row of a job that is over, and it    *)
(* writes what the ledger says.                                               *)
THEOREM Accounted ==
  ASSUME Clis = {}
  PROVE  Spec => []SubmissionsAreAccounted
<1>1. ASSUME WInv  PROVE SubmissionsAreAccounted
  <2>1. SubmittedOnce  BY <1>1 DEF WInv, IInv, SentInv, SentAt, SubmittedOnce
  <2>2. \A j \in Jobs : Lost(j) => Unsure(j)  BY DEF Lost, Unsure, Unresolved
  <2>3. LostIsKept  BY <1>1, <2>2 DEF LostIsKept, WInv, UnsureInv, UnsureIsKept, IsOver
  <2> QED  BY <1>1, <2>1, <2>3, SlotsLimit DEF SubmissionsAreAccounted
<1> QED  BY <1>1, WorkerInductive, PTL

(* RunningWithinLimit by itself: the global limit of remote parses holds,    *)
(* whoever died meanwhile.                                                   *)
THEOREM LimitKept ==
  ASSUME Clis = {}
  PROVE  Spec => []RunningWithinLimit
<1>1. WInv => RunningWithinLimit  BY SlotsLimit
<1> QED  BY <1>1, WorkerInductive, PTL

(* TerminalStays: a job that is over is never taken up again, by no claim,   *)
(* no recovery and no reconciliation.  What the worker writes is of the job  *)
(* it holds, which is not over before it says so; and the row the admin read *)
(* at the start of a reconciliation has the status the job still has.        *)
THEOREM OverForGood ==
  ASSUME Clis = {}
  PROVE  Spec => TerminalStays
<1> DEFINE Stays == \A j \in Jobs : job[j].status \in Terminal => job'[j].status = job[j].status
<1>1. ASSUME WInv, Next  PROVE Stays
  <2>1. /\ TypeOK /\ LocksInv /\ AdminInv /\ StatusInv /\ OneInv /\ job \in [Jobs -> JobRow]
        /\ Worker \in Runners /\ \A r \in Runners : r = Worker
        /\ WorkerPc \in JobPoints => WorkerJob = MyJob(Worker) /\ WorkerJob \in Jobs
    BY <1>1, Distinct, WorkerAt DEF WInv, IInv, TypeOK, Runners
  <2>2. CASE UNCHANGED job  BY <2>2
  <2>3. CASE \E j \in Jobs : Claim(Worker, j)
    BY <2>1, <2>3 DEF Claim, Terminal
  <2>4. ASSUME NEW row, job' = [job EXCEPT ![MyJob(Worker)] = row], WorkerPc \in JobPoints \ {"attach"}
        PROVE  Stays
    BY <2>1, <2>4 DEF OneInv, IsOver
  <2>5. CASE Start(Worker) \/ Validate(Worker) \/ Build(Worker) \/ Ready(Worker) \/ Fail(Worker)
    <3>1. WorkerPc \in JobPoints \ {"attach"}
      BY <2>5 DEF Start, Validate, Build, Ready, Fail, At, WorkerPc, JobPoints, LockedPoints, WorkPoints
    <3>2. UNCHANGED job \/ \E row : job' = [job EXCEPT ![MyJob(Worker)] = row]
      BY <2>5 DEF Start, Validate, Build, Ready, Fail, Write, WriteLast
    <3> QED  BY <2>2, <2>4, <3>1, <3>2
  <2>6. CASE Attach(Worker)
    <3>1. PICK outcome \in Attachments \ {""} :
            WriteLast(Worker, [runner[Worker].row EXCEPT !.attachment = outcome])
      BY <2>6 DEF Attach
    <3> DEFINE row == [runner[Worker].row EXCEPT !.attachment = outcome]
    <3>2. WorkerPc = "attach" /\ WorkerPc \in JobPoints  BY <2>6, Points DEF Attach, At, WorkerPc
    <3>3. job[WorkerJob] = runner[Worker].row /\ runner[Worker].row \in JobRow
      BY <1>1, <2>1, <3>2, AtWork DEF StatusInv, WInv, WorkerPc, WorkerJob
    <3>4. row.status = job[WorkerJob].status  BY <3>3 DEF JobRow
    <3>5. job' = [job EXCEPT ![WorkerJob] = row]  BY <2>1, <3>1, <3>2 DEF WriteLast
    <3> HIDE DEF row
    <3> QED  BY <2>1, <3>4, <3>5
  <2>7. CASE \E j \in Jobs : RecoverJob(j)
    BY <2>1, <2>7 DEF RecoverJob, Terminal, InFlight
  <2>8. CASE ReconcileSettle
    <3> DEFINE b == Billing(admin.job, admin.row.billing, FALSE)
               row == [admin.row EXCEPT !.billing = b]
    <3>1. job' = job \/ job' = [job EXCEPT ![admin.job] = row]  BY <2>8 DEF ReconcileSettle
    <3> HIDE DEF b
    <3>2. admin.row \in JobRow /\ admin.job \in Jobs  BY <2>1, <2>8 DEF TypeOK, LocksInv, ReconcileSettle
    <3>3. row.status = admin.row.status  BY <3>2 DEF JobRow
    <3> HIDE DEF row
    <3>4. admin.row.status = job[admin.job].status \/ job[admin.job].status = "parsing"
      BY <2>1, <2>8, <3>2, SMTT(60) DEF AdminInv, ReconcileSettle, JobRow
    <3> QED  BY <2>1, <3>1, <3>2, <3>3, <3>4 DEF Terminal
  <2>9. CASE RunnerStep(Worker) \/ Crash(Worker)
    BY <2>2, <2>3, <2>5, <2>6, <2>9
    DEF RunnerStep, LockJob, EnterSlot, LockDocument, Convert, Lookup, Create, Record, WriteSidecar, Poll,
        StorePayers, StoreCache, Abort, Release, Crash
  <2>10. CASE WorkerStep  BY <2>2, <2>7, <2>10 DEF WorkerStep, WorkerStart, Recovered
  <2>11. CASE AdminStep
    BY <2>2, <2>8, <2>11
    DEF AdminStep, ReconcileStart, ReconcileFetch, ReconcileFetched, ReconcileFails, ReconcileNote
  <2>12. CASE ProviderStep
    BY <2>2, <2>12 DEF ProviderStep, RemoteEnds, UsageReported, ProviderOnly
  <2>13. CASE NothingQueued  BY <2>2, <2>13 DEF NothingQueued, vars
  <2> QED  BY <1>1, <2>1, <2>9, <2>10, <2>11, <2>12, <2>13 DEF Next
<1>2. WInv /\ [Next]_vars => [Stays]_vars  BY <1>1 DEF vars
<1> QED  BY <1>2, WorkerInductive, PTL DEF TerminalStays, Spec
=============================================================================
