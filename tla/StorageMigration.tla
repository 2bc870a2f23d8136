--------------------------- MODULE StorageMigration ---------------------------
(***************************************************************************)
(* agentfinx storage migrate --apply (datasets/storage_migration.py): the   *)
(* old store is copied into storage/ while processes of the old layout may   *)
(* still write to it, under lock files or in database transactions; the     *)
(* record that lets the app start is written last (core/config/paths.py).   *)
(* A run may fail or be killed at any point, and is then repeated.          *)
(***************************************************************************)
EXTENDS Integers, FiniteSets

CONSTANTS
  Databases,    \* SQLite files of the old store
  Files,        \* its other files
  Locks,        \* lock files an old process may take
  LockOf,       \* the one it writes a file under
  MaxVersion    \* bound: contents an item goes through

ASSUME MigrationAssumption ==
  LockOf \in [Files -> Locks] /\ MaxVersion \in Nat /\ Databases \intersect Files = {}

Items == Databases \union Files
Absent == 0

VARIABLES
  old,     \* dataset_store: the content of each item, a number that grows, or Absent
  lock,    \* dataset_store/locks: no file, free, held by an old process, or by the migration
  copy,    \* storage: what it has of each item
  noted,   \* digests and hashes: what each source was
  run,     \* the migration under way: its phase, its plan, the databases it holds, what is checked
  record   \* storage/migration.json exists

migrationVars == <<old, lock, copy, noted, run, record>>

Contents == Absent..MaxVersion

MigrationTypeOK ==
  /\ old \in [Items -> Contents] /\ copy \in [Items -> Contents] /\ noted \in [Items -> Contents]
  /\ lock \in [Locks -> {"none", "free", "old", "migration"}]
  /\ run.phase \in {"idle", "plan", "copy", "verify", "check", "new", "record"}
  /\ run.plan \subseteq Items /\ run.frozen \subseteq Databases /\ run.checked \subseteq Items
  /\ record \in BOOLEAN

NoRun == [phase |-> "idle", plan |-> {}, frozen |-> {}, checked |-> {}]
NothingCopied == [i \in Items |-> Absent]

MigrationInit ==
  /\ old \in [Items -> {Absent, 1}] /\ lock \in [Locks -> {"none", "free"}]
  /\ copy = NothingCopied /\ noted = NothingCopied
  /\ run = NoRun /\ record = FALSE

Exists == {i \in Items : old[i] # Absent}

-----------------------------------------------------------------------------
(* Processes of the old layout. *)

TakeLock(l) ==
  /\ lock[l] \in {"none", "free"} /\ lock' = [lock EXCEPT ![l] = "old"]
  /\ UNCHANGED <<old, copy, noted, run, record>>

LeaveLock(l) ==
  /\ lock[l] = "old" /\ lock' = [lock EXCEPT ![l] = "free"]
  /\ UNCHANGED <<old, copy, noted, run, record>>

Changed(i) == \E v \in {v \in Contents : v = Absent \/ v > old[i]} \ {old[i]} :
                old' = [old EXCEPT ![i] = v]

WriteFile(f) ==
  /\ lock[LockOf[f]] = "old" /\ Changed(f)
  /\ UNCHANGED <<lock, copy, noted, run, record>>

(* A transaction: it waits while the migration holds the write lock.         *)
Commit(d) ==
  /\ d \notin run.frozen /\ Changed(d) /\ old'[d] # Absent
  /\ UNCHANGED <<lock, copy, noted, run, record>>

-----------------------------------------------------------------------------
(* The migration. *)

Phase(from, to) == run.phase = from /\ run' = [run EXCEPT !.phase = to]
HeldLocks == {l \in Locks : lock[l] = "old"}

(* It refuses over the leftovers of another run, and while a lock is held;   *)
(* a plan names what is there.                                               *)
BuildPlan ==
  /\ run.phase = "idle" /\ ~record
  /\ copy = NothingCopied /\ HeldLocks = {}
  /\ run' = [NoRun EXCEPT !.phase = "plan", !.plan = Exists]
  /\ UNCHANGED <<old, lock, copy, noted, record>>

(* Every lock file there is, and a write lock on every database planned.     *)
FreezeOldStore ==
  /\ run.phase = "plan" /\ HeldLocks = {}
  /\ lock' = [l \in Locks |-> IF lock[l] = "free" THEN "migration" ELSE lock[l]]
  /\ run' = [run EXCEPT !.phase = "copy", !.frozen = run.plan \intersect Databases]
  /\ noted' = NothingCopied
  /\ UNCHANGED <<old, copy, record>>

(* A copy is compared with its source.  What the source was is a database's   *)
(* digest of the comparison, but a file is read once more for its hash.       *)
CopyItem(i) ==
  /\ run.phase = "copy" /\ i \in run.plan \intersect Exists /\ copy[i] = Absent
  /\ copy' = [copy EXCEPT ![i] = old[i]]
  /\ noted' = IF i \in Databases THEN [noted EXCEPT ![i] = old[i]] ELSE noted
  /\ UNCHANGED <<old, lock, run, record>>

NoteFile(f) ==
  /\ run.phase = "copy" /\ f \in Exists /\ copy[f] # Absent /\ noted[f] = Absent
  /\ noted' = [noted EXCEPT ![f] = old[f]]
  /\ UNCHANGED <<old, lock, copy, run, record>>

CopyEnds ==
  /\ \A i \in run.plan : noted[i] # Absent
  /\ Phase("copy", "verify")
  /\ UNCHANGED <<old, lock, copy, noted, record>>

(* The app's own code opens the copies: it finds them sound, or the run ends. *)
VerifyWithAppCode ==
  /\ Phase("verify", "check")
  /\ UNCHANGED <<old, lock, copy, noted, record>>

CheckUnchanged(i) ==
  /\ run.phase = "check" /\ i \in run.plan \ run.checked
  /\ old[i] = noted[i]
  /\ run' = [run EXCEPT !.checked = @ \union {i}]
  /\ UNCHANGED <<old, lock, copy, noted, record>>

(* (mutated form: nothing looks for new files.)                              *)
CheckNewFiles_Skipped ==
  /\ run.checked = run.plan /\ Phase("check", "record")
  /\ UNCHANGED <<old, lock, copy, noted, record>>

CheckNewFiles ==
  /\ run.checked = run.plan /\ Exists \subseteq run.plan
  /\ Phase("check", "record")
  /\ UNCHANGED <<old, lock, copy, noted, record>>

Released == [l \in Locks |-> IF lock[l] = "migration" THEN "free" ELSE lock[l]]

WriteRecord ==
  /\ run.phase = "record" /\ record' = TRUE
  /\ run' = NoRun /\ lock' = Released
  /\ UNCHANGED <<old, copy, noted>>

(* A check that fails, an error or a kill: what is copied stays.             *)
MigrationEnds ==
  /\ run.phase # "idle"
  /\ run' = NoRun /\ lock' = Released
  /\ UNCHANGED <<old, copy, noted, record>>

(* The operator moves the leftovers away by hand.                            *)
MoveLeftovers ==
  /\ run.phase = "idle" /\ ~record /\ copy # NothingCopied
  /\ copy' = NothingCopied
  /\ UNCHANGED <<old, lock, noted, run, record>>

MigrationNext ==
  \/ \E l \in Locks : TakeLock(l) \/ LeaveLock(l)
  \/ \E f \in Files : WriteFile(f) \/ NoteFile(f)
  \/ \E d \in Databases : Commit(d)
  \/ \E i \in Items : CopyItem(i) \/ CheckUnchanged(i)
  \/ BuildPlan \/ FreezeOldStore \/ CopyEnds \/ VerifyWithAppCode \/ CheckNewFiles
  \/ WriteRecord \/ MigrationEnds \/ MoveLeftovers

MigrationSpec == MigrationInit /\ [][MigrationNext]_migrationVars

-----------------------------------------------------------------------------
(* Properties. *)

(* When the record is written, the new store holds the old one as it is at   *)
(* that moment, item for item, as far as a database's write lock or a lock   *)
(* file that existed holds it still: nothing written, made or removed since  *)
(* the plan was drawn up is left behind, and no earlier run's copy remains.  *)
HeldStill(i) == IF i \in Databases THEN i \in run.frozen ELSE lock[LockOf[i]] = "migration"

RecordIsFaithful ==
  [][record' # record => \A i \in Items : HeldStill(i) => copy[i] = old[i]]_migrationVars
=============================================================================
