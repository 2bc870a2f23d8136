---------------------------- MODULE DatasetBuild -----------------------------
(***************************************************************************)
(* Building, querying, deleting and cleaning up reports: the registry      *)
(* (datasets/registry.py), the SQLite knowledge base (ingestion/pipeline), *)
(* the versioned Qdrant collections and their active alias (vectorstore/), *)
(* and the two locks of datasets/locks.py that serialize all of it, while  *)
(* processes fail or die at any step.                                      *)
(*                                                                         *)
(* What a source file parses to is a version, a natural number: an edit of *)
(* the file, or a new parser, gives a new one.  The knowledge base and a   *)
(* collection are as good as the version they were computed from, and a    *)
(* generation (activation.dataset_generation) is a pair of the two.        *)
(***************************************************************************)
EXTENDS Naturals, FiniteSets

CONSTANTS
  Datasets,
  Paths,       \* source files; 1..n, path p holds version p at first
  Managed,     \* converted imports in sources/, removed with their report
  Processes,   \* the import worker and the CLI: builds, deletions, gc
  Sessions, ReportOf,  \* conversations and the report each is about
  Nobody,
  MaxBuilds, MaxEdits, MaxJobs, MaxCrashes  \* bounds

ASSUME BuildAssumption ==
  /\ Paths \subseteq Nat \ {0} /\ IsFiniteSet(Paths) /\ Managed \subseteq Paths
  /\ 0 \notin Datasets
  /\ ReportOf \in [Sessions -> Datasets]
  /\ Nobody \notin Processes \union {"chat"} /\ "chat" \notin Processes
  /\ MaxBuilds \in Nat /\ MaxEdits \in Nat /\ MaxJobs \in Nat /\ MaxCrashes \in Nat

VARIABLES
  registry,  \* registry.json: path (0: no record) and status of each report
  content,   \* the version in each source file, 0: no such file
  kb,        \* the version in the SQLite file of a report, 0: none
  builds,    \* versioned collections, numbered in order of created_at
  created,   \* how many there ever were
  alias,     \* the collection the active alias of a report points to, 0: none
  datasetLock, registryLock,
  proc,      \* builds, deletions and collections under way
  session,   \* chat_sessions: the pinned generation
  chat,      \* the chat worker's question
  lexical,   \* lexical_index._INDEXES of the chat worker: versions, 0: not built
  edits, jobs, crashes

vars == <<registry, content, kb, builds, created, alias, datasetLock, registryLock, proc,
          session, chat, lexical, edits, jobs, crashes>>

Builds == 1..MaxBuilds
NoRecord == [path |-> 0, status |-> "absent"]
Records == [path : Paths \union {0}, status : {"absent", "registered", "ready"}]
NoBuild == [of |-> 0, version |-> 0, full |-> FALSE, old |-> FALSE]
(* A process's locals: its report, the record it works from, the registry as *)
(* it read it, its staged collection, the collections it has still to delete *)
(* and the point it goes to after save_dataset.                              *)
IdleProcess == [pc |-> "idle", kind |-> "none", of |-> 0, rec |-> NoRecord,
                read |-> [d \in Datasets |-> NoRecord], version |-> 0, fresh |-> FALSE,
                staged |-> 0, todo |-> {}, next |-> "idle"]
ProcessPoints == {"idle", "lock", "save", "write", "source", "kb", "index", "fill", "activate",
                  "files", "unalias", "remove", "plan", "done"}
NoPin == [pc |-> "none", kb |-> 0, index |-> 0]
IdleChat == [pc |-> "idle", session |-> 0, status |-> "absent", facts |-> 0, dense |-> 0,
             sparse |-> 0]

TypeOK ==
  /\ registry \in [Datasets -> Records]
  /\ content \in [Paths -> Nat] /\ kb \in [Datasets -> Nat]
  /\ builds \in [Builds -> [of : Datasets \union {0}, version : Nat, full : BOOLEAN, old : BOOLEAN]]
  /\ created \in 0..MaxBuilds
  /\ alias \in [Datasets -> 0..MaxBuilds]
  /\ datasetLock \in [Datasets -> Processes \union {Nobody, "chat"}]
  /\ registryLock \in Processes \union {Nobody}
  /\ proc \in [Processes -> [pc : ProcessPoints, kind : {"none", "import", "register", "ask", "delete", "gc"},
                             of : Datasets \union {0}, rec : Records, read : [Datasets -> Records],
                             version : Nat, fresh : BOOLEAN, staged : 0..MaxBuilds,
                             todo : SUBSET Builds, next : ProcessPoints]]
  /\ session \in [Sessions -> [pc : {"none", "half", "pinned", "closed"}, kb : Nat, index : Nat]]
  /\ chat \in [pc : {"idle", "lock", "activate", "facts", "search", "done"},
               session : Sessions \union {0}, status : {"absent", "registered", "ready"},
               facts : Nat, dense : Nat, sparse : Nat]
  /\ lexical \in [Datasets -> Nat]
  /\ edits \in Nat /\ jobs \in Nat /\ crashes \in Nat

Init ==
  /\ registry = [d \in Datasets |-> NoRecord]
  /\ content = [p \in Paths |-> p]
  /\ kb = [d \in Datasets |-> 0]
  /\ builds = [b \in Builds |-> NoBuild] /\ created = 0
  /\ alias = [d \in Datasets |-> 0]
  /\ datasetLock = [d \in Datasets |-> Nobody] /\ registryLock = Nobody
  /\ proc = [p \in Processes |-> IdleProcess]
  /\ session = [s \in Sessions |-> NoPin]
  /\ chat = IdleChat
  /\ lexical = [d \in Datasets |-> 0]
  /\ edits = 0 /\ jobs = 0 /\ crashes = 0

Index(d) == IF alias[d] = 0 THEN 0 ELSE builds[alias[d]].version
Queryable(d) == alias[d] # 0 /\ builds[alias[d]].full

-----------------------------------------------------------------------------
(* Processes.                                                              *)

At(p, pc) == proc[p].pc = pc
Mine(p) == proc[p].of
Goto(p, pc) == proc' = [proc EXCEPT ![p].pc = pc]
Files == UNCHANGED <<content, kb>>
Collections == UNCHANGED <<builds, created, alias>>
Locks == UNCHANGED <<datasetLock, registryLock>>
Web == UNCHANGED <<session, chat, lexical>>
Bounds == UNCHANGED <<edits, jobs, crashes>>

Begin(p, kind, d, rec, pc, next) ==
  /\ At(p, "idle") /\ jobs < MaxJobs
  /\ jobs' = jobs + 1
  /\ proc' = [proc EXCEPT ![p] = [IdleProcess EXCEPT !.pc = pc, !.kind = kind, !.of = d,
                                                   !.rec = rec, !.next = next]]
  /\ UNCHANGED <<registry, edits, crashes>> /\ Files /\ Collections /\ Locks /\ Web

(* build_imported_dataset: the lock, then save_dataset, then ensure_built. *)
BeginImport(p, d, path) ==
  path \in Managed /\ content[path] # 0 /\
  Begin(p, "import", d, [path |-> path, status |-> "registered"], "lock", "save")
(* `ask --file-path` saves the record before it takes the lock; `ask` and    *)
(* the other commands read it before they do.                                *)
BeginRegister(p, d, path) ==
  path \notin Managed /\ content[path] # 0 /\
  Begin(p, "register", d, [path |-> path, status |-> "registered"], "save", "lock")
BeginAsk(p, d) ==
  registry[d] # NoRecord /\ Begin(p, "ask", d, registry[d], "lock", "source")
BeginDelete(p, d) ==
  registry[d] # NoRecord /\ Begin(p, "delete", d, registry[d], "lock", "save")
BeginGc(p, d) ==
  registry[d] # NoRecord /\ Begin(p, "gc", d, registry[d], "lock", "plan")

(* Is the dataset lock free?  Mutated form: it is not looked at.             *)
DatasetIsFree_Always(d) == TRUE
DatasetIsFree(d) == datasetLock[d] = Nobody
Lock(p) ==
  /\ At(p, "lock")
  /\ DatasetIsFree(Mine(p))
  /\ datasetLock' = [datasetLock EXCEPT ![Mine(p)] = p]
  /\ proc' = [proc EXCEPT ![p].pc = IF proc[p].next = "lock" THEN "source" ELSE proc[p].next,
                          ![p].next = "source"]
  /\ UNCHANGED <<registry, registryLock>> /\ Files /\ Collections /\ Web /\ Bounds

(* save_dataset and delete_dataset: load_registry under the registry lock... *)
(* Mutated form: the registry lock is not looked at.                         *)
RegistryIsFree_Always == TRUE
RegistryIsFree == registryLock = Nobody
LoadRegistry(p) ==
  /\ At(p, "save")
  /\ RegistryIsFree
  /\ registryLock' = p
  /\ proc' = [proc EXCEPT ![p].pc = "write", ![p].read = registry]
  /\ UNCHANGED <<registry, datasetLock>> /\ Files /\ Collections /\ Web /\ Bounds

(* _merge_preserved_build_fields: the same inputs keep their status. *)
Merged(rec, current) ==
  IF rec.status = "registered" /\ current.path = rec.path THEN current ELSE rec

(* ... and save_registry of the whole document, as it was read. *)
SaveRegistry(p) ==
  LET me == proc[p]  d == Mine(p)
      rec == IF me.kind = "delete" THEN NoRecord ELSE Merged(me.rec, me.read[d])
  IN
  /\ At(p, "write")
  /\ registry' = [me.read EXCEPT ![d] = rec]
  /\ registryLock' = Nobody
  /\ proc' = [proc EXCEPT ![p].rec = IF me.kind = "delete" THEN me.read[d] ELSE rec,
       ![p].read = IdleProcess.read,
       ![p].pc = CASE me.kind = "delete" -> IF me.read[d] = NoRecord THEN "done" ELSE "files"
                   [] OTHER -> me.next]
  /\ UNCHANGED datasetLock /\ Files /\ Collections /\ Web /\ Bounds

(* ensure_built, build_knowledge_base: the source is read; its knowledge     *)
(* base is there already, or it is parsed and staged, or something fails.    *)
ReadSource(p) ==
  LET version == content[proc[p].rec.path] IN
  /\ At(p, "source")
  /\ \/ version # 0 /\ kb[Mine(p)] = version /\ Goto(p, "index")
     \/ /\ version # 0 /\ kb[Mine(p)] # version
        /\ proc' = [proc EXCEPT ![p].pc = "kb", ![p].version = version]
     \/ Goto(p, "done")
  /\ UNCHANGED registry /\ Files /\ Collections /\ Locks /\ Web /\ Bounds

(* os.replace of the SQLite file. *)
ReplaceKb(p) ==
  /\ At(p, "kb")
  /\ kb' = [kb EXCEPT ![Mine(p)] = proc[p].version]
  /\ proc' = [proc EXCEPT ![p].pc = "index", ![p].version = 0, ![p].fresh = TRUE]
  /\ UNCHANGED <<registry, content>> /\ Collections /\ Locks /\ Web /\ Bounds

Finished(p) ==
  proc' = [proc EXCEPT ![p].pc = "save", ![p].next = "done", ![p].rec.status = "ready",
                       ![p].staged = 0]

(* build_vector_store: the active collection matches, or a new one is staged. *)
IndexMatches(d) == Queryable(d) /\ Index(d) = kb[d]
StageIndex(p) ==
  LET d == Mine(p)  skip == ~proc[p].fresh /\ IndexMatches(d) IN
  /\ At(p, "index")
  /\ \/ skip /\ Finished(p) /\ UNCHANGED <<builds, created>>
     \/ /\ ~skip /\ created < MaxBuilds
        /\ created' = created + 1
        /\ builds' = [builds EXCEPT ![created'] = [NoBuild EXCEPT !.of = d, !.version = kb[d]]]
        /\ proc' = [proc EXCEPT ![p].pc = "fill", ![p].staged = created', ![p].fresh = FALSE]
     \/ Goto(p, "done") /\ UNCHANGED <<builds, created>>
  /\ UNCHANGED <<registry, alias>> /\ Files /\ Locks /\ Web /\ Bounds

(* add_in_batches and validate_versioned_collection, or one of them fails.   *)
(* Mutated form: the collection is not validated.                            *)
Fill_Unvalidated(p) ==
  /\ At(p, "fill")
  /\ \E all \in BOOLEAN : builds' = [builds EXCEPT ![proc[p].staged].full = all]
  /\ Goto(p, "activate")
  /\ UNCHANGED <<registry, created, alias>> /\ Files /\ Locks /\ Web /\ Bounds
Fill(p) ==
  /\ At(p, "fill")
  /\ \/ /\ builds' = [builds EXCEPT ![proc[p].staged].full = TRUE]
        /\ Goto(p, "activate")
     \/ Goto(p, "done") /\ UNCHANGED builds
  /\ UNCHANGED <<registry, created, alias>> /\ Files /\ Locks /\ Web /\ Bounds

(* activate_versioned_collection swaps the alias in one call. *)
Activate(p) ==
  LET d == Mine(p) IN
  /\ At(p, "activate")
  /\ alias' = [alias EXCEPT ![d] = proc[p].staged]
  /\ Finished(p)
  /\ UNCHANGED <<registry, builds, created>> /\ Files /\ Locks /\ Web /\ Bounds

(* delete_dataset, after the record is gone: the artifacts, a managed        *)
(* source, the alias, and then every collection of the report.               *)
DeleteFiles(p) ==
  LET path == proc[p].rec.path IN
  /\ At(p, "files")
  /\ kb' = [kb EXCEPT ![Mine(p)] = 0]
  /\ content' = IF path \in Managed THEN [content EXCEPT ![path] = 0] ELSE content
  /\ Goto(p, "unalias")
  /\ UNCHANGED registry /\ Collections /\ Locks /\ Web /\ Bounds

DeleteAlias(p) ==
  LET d == Mine(p) IN
  /\ At(p, "unalias")
  /\ alias' = [alias EXCEPT ![d] = 0]
  /\ proc' = [proc EXCEPT ![p].pc = "remove", ![p].todo = {b \in Builds : builds[b].of = d}]
  /\ UNCHANGED <<registry, builds, created>> /\ Files /\ Locks /\ Web /\ Bounds

(* plan_collection_gc: the active collection stays, the newest one older     *)
(* than it, and those younger than 48 hours; nothing goes without an alias.  *)
(* Mutated form: the active one is looked at like the others.                *)
Previous(d) ==
  {b \in Builds : /\ builds[b].of = d /\ b < alias[d]
                  /\ \A c \in b + 1 .. alias[d] - 1 : builds[c].of # d}
Superseded_Active(d) == {b \in Builds : builds[b].of = d /\ builds[b].old} \ Previous(d)
Superseded(d) ==
  IF alias[d] = 0 THEN {}
  ELSE {b \in Builds : builds[b].of = d /\ builds[b].old} \ ({alias[d]} \union Previous(d))
PlanGc(p) ==
  /\ At(p, "plan")
  /\ proc' = [proc EXCEPT ![p].pc = "remove", ![p].todo = Superseded(Mine(p))]
  /\ UNCHANGED registry /\ Files /\ Collections /\ Locks /\ Web /\ Bounds

(* The collections to delete are deleted one after the other; Qdrant may     *)
(* fail at any of them.                                                      *)
RemoveCollection(p) ==
  /\ At(p, "remove")
  /\ \/ \E b \in proc[p].todo :
          /\ builds' = [builds EXCEPT ![b] = NoBuild]
          /\ proc' = [proc EXCEPT ![p].todo = @ \ {b}]
     \/ Goto(p, "done") /\ UNCHANGED builds
  /\ UNCHANGED <<registry, created, alias>> /\ Files /\ Locks /\ Web /\ Bounds

(* The dataset lock is released, whether the work was done or failed.        *)
(* Mutated form: it stays locked.                                            *)
Unlocked_Kept(d) == datasetLock
Unlocked(d) == [datasetLock EXCEPT ![d] = Nobody]
Done(p) ==
  /\ At(p, "done")
  /\ datasetLock' = Unlocked(Mine(p))
  /\ proc' = [proc EXCEPT ![p] = IdleProcess]
  /\ UNCHANGED <<registry, registryLock>> /\ Files /\ Collections /\ Web /\ Bounds

ProcessStep(p) ==
  \/ Lock(p) \/ LoadRegistry(p) \/ SaveRegistry(p)
  \/ ReadSource(p) \/ ReplaceKb(p) \/ StageIndex(p) \/ Fill(p) \/ Activate(p)
  \/ DeleteFiles(p) \/ DeleteAlias(p) \/ PlanGc(p) \/ RemoveCollection(p) \/ Done(p)

(* A process dies: the kernel frees its locks, what it did stays. *)
Crash(p) ==
  /\ ~At(p, "idle") /\ crashes < MaxCrashes
  /\ crashes' = crashes + 1
  /\ proc' = [proc EXCEPT ![p] = IdleProcess]
  /\ datasetLock' = [d \in Datasets |-> IF datasetLock[d] = p THEN Nobody ELSE datasetLock[d]]
  /\ registryLock' = IF registryLock = p THEN Nobody ELSE registryLock
  /\ UNCHANGED <<registry, edits, jobs>> /\ Files /\ Collections /\ Web

(* A source file changes, or what the parser makes of it does. *)
Edit(path) ==
  /\ content[path] # 0 /\ edits < MaxEdits
  /\ edits' = edits + 1
  /\ content' = [content EXCEPT ![path] = Cardinality(Paths) + edits']
  /\ UNCHANGED <<registry, kb, proc, jobs, crashes>> /\ Collections /\ Locks /\ Web

(* 48 hours have passed since a collection was created. *)
Age(b) ==
  /\ builds[b].of # 0 /\ ~builds[b].old
  /\ \A c \in 1..b - 1 : builds[c].of # 0 => builds[c].old
  /\ builds' = [builds EXCEPT ![b].old = TRUE]
  /\ UNCHANGED <<registry, created, alias, proc>> /\ Files /\ Locks /\ Web /\ Bounds

-----------------------------------------------------------------------------
(* Conversations.                                                           *)

Store == UNCHANGED <<registry, content, kb, builds, created, alias, registryLock, proc,
                     edits, crashes>>

(* create_session pins the generation of a ready report: the knowledge base  *)
(* first, the active collection next, and without the report's lock.         *)
InspectKb(s) ==
  LET d == ReportOf[s] IN
  /\ session[s].pc = "none"
  /\ registry[d].status = "ready" /\ kb[d] # 0
  /\ session' = [session EXCEPT ![s] = [pc |-> "half", kb |-> kb[d], index |-> 0]]
  /\ UNCHANGED <<datasetLock, chat, lexical, jobs>> /\ Store
InspectIndex(s) ==
  LET d == ReportOf[s] IN
  /\ session[s].pc = "half"
  /\ session' = [session EXCEPT ![s] = IF Queryable(d)
                                      THEN [@ EXCEPT !.pc = "pinned", !.index = Index(d)] ELSE NoPin]
  /\ UNCHANGED <<datasetLock, chat, lexical, jobs>> /\ Store

(* The chat worker takes a question: the record is resolved, then the lock   *)
(* is awaited.                                                               *)
Ask(s) ==
  /\ chat.pc = "idle" /\ session[s].pc = "pinned" /\ jobs < MaxJobs
  /\ jobs' = jobs + 1
  /\ IF registry[ReportOf[s]] = NoRecord
     THEN session' = [session EXCEPT ![s].pc = "closed"] /\ UNCHANGED chat
     ELSE /\ chat' = [IdleChat EXCEPT !.pc = "lock", !.session = s,
                                     !.status = registry[ReportOf[s]].status]
          /\ UNCHANGED session
  /\ UNCHANGED <<datasetLock, lexical>> /\ Store

Asked == ReportOf[chat.session]
LockForQuestion ==
  /\ chat.pc = "lock" /\ DatasetIsFree(Asked)
  /\ datasetLock' = [datasetLock EXCEPT ![Asked] = "chat"]
  /\ chat' = [chat EXCEPT !.pc = "activate"]
  /\ UNCHANGED <<session, lexical, jobs>> /\ Store

(* activate_dataset_for_query and the comparison with the pinned generation. *)
(* Mutated form: the knowledge base is left out of the generation.           *)
SameGeneration_Index(pin, d) == pin.index = Index(d)
SameGeneration(pin, d) == pin.index = Index(d) /\ pin.kb = kb[d]
ActivateForQuestion ==
  LET pin == session[chat.session]
      ready == chat.status = "ready"
      open == kb[Asked] # 0 /\ Queryable(Asked) /\ SameGeneration(pin, Asked)
  IN
  /\ chat.pc = "activate"
  /\ chat' = [chat EXCEPT !.pc = IF ready /\ open THEN "facts" ELSE "done"]
  /\ session' = IF ready /\ ~open THEN [session EXCEPT ![chat.session].pc = "closed"] ELSE session
  /\ UNCHANGED <<datasetLock, lexical, jobs>> /\ Store

(* The answer reads facts from SQLite and searches through the alias; the    *)
(* lexical index is built from the collection once in the worker's life.     *)
ReadFacts ==
  /\ chat.pc = "facts"
  /\ chat' = [chat EXCEPT !.pc = "search", !.facts = kb[Asked]]
  /\ UNCHANGED <<session, datasetLock, lexical, jobs>> /\ Store
Search ==
  /\ chat.pc = "search"
  /\ lexical' = [lexical EXCEPT ![Asked] = IF @ = 0 THEN Index(Asked) ELSE @]
  /\ chat' = [chat EXCEPT !.pc = "done", !.dense = Index(Asked), !.sparse = lexical'[Asked]]
  /\ UNCHANGED <<session, datasetLock, jobs>> /\ Store
EndQuestion ==
  /\ chat.pc = "done"
  /\ datasetLock' = [datasetLock EXCEPT ![Asked] = Nobody]
  /\ chat' = IdleChat
  /\ UNCHANGED <<session, lexical, jobs>> /\ Store
ChatStep == LockForQuestion \/ ActivateForQuestion \/ ReadFacts \/ Search \/ EndQuestion

(* The chat worker dies, and another one starts without its cache. *)
ChatCrash ==
  /\ crashes < MaxCrashes
  /\ crashes' = crashes + 1
  /\ chat' = IdleChat /\ lexical' = [d \in Datasets |-> 0]
  /\ datasetLock' = [d \in Datasets |-> IF datasetLock[d] = "chat" THEN Nobody ELSE datasetLock[d]]
  /\ UNCHANGED <<registry, registryLock, proc, session, edits, jobs>> /\ Files /\ Collections

-----------------------------------------------------------------------------
Next ==
  \/ \E p \in Processes : \E d \in Datasets :
       \/ \E path \in Paths : BeginImport(p, d, path) \/ BeginRegister(p, d, path)
       \/ BeginAsk(p, d) \/ BeginDelete(p, d) \/ BeginGc(p, d)
  \/ \E p \in Processes : ProcessStep(p) \/ Crash(p)
  \/ \E path \in Paths : Edit(path)
  \/ \E b \in Builds : Age(b)
  \/ \E s \in Sessions : InspectKb(s) \/ InspectIndex(s) \/ Ask(s)
  \/ ChatStep \/ ChatCrash

Spec == Init /\ [][Next]_vars

-----------------------------------------------------------------------------
(* What the store promises.                                                 *)

(* An answer is computed from the generation its conversation is pinned to,  *)
(* facts and search hits alike: nothing is rebuilt or deleted underneath it. *)
AnswerFromPin ==
  chat.pc = "done" /\ chat.dense # 0 =>
    chat.facts = session[chat.session].kb /\ chat.dense = session[chat.session].index

(* The active alias of a report points to a complete collection of its own,  *)
(* whichever build failed half-way and whatever gc deleted.                  *)
AliasIsComplete ==
  \A d \in Datasets : alias[d] # 0 => builds[alias[d]].of = d /\ builds[alias[d]].full

(* A report the registry calls ready has its facts and its index, also while *)
(* it is being deleted and after a deletion that died.                       *)
ReadyIsBuilt ==
  \A d \in Datasets : registry[d].status = "ready" => kb[d] # 0 /\ alias[d] # 0

(* The index of a report the registry calls ready was made from its facts.   *)
Agrees(d) == registry[d].status = "ready" => Index(d) = kb[d]

(* What a report is served from is whole, whoever failed or died; and the    *)
(* facts and the index of a ready report fall apart at one step only, the    *)
(* replacement of the knowledge base, by the process that holds its lock.    *)
(* Nothing else does it: no save of a record, no activation, deletion or gc. *)
ReportsStayWhole ==
  /\ [](AliasIsComplete /\ ReadyIsBuilt)
  /\ [][\A d \in Datasets : Agrees(d) /\ ~Agrees(d)' =>
         \E p \in Processes : At(p, "kb") /\ Mine(p) = d /\ datasetLock[d] = p]_vars

(* docs/architecture.md: the knowledge base and the index are built aside    *)
(* and then activated, and a build that fails does not damage the version in *)
(* use.  So a ready report nobody works on has the index of its facts.  It   *)
(* has not when the build fails after the replacement of the SQLite file.    *)
FailedBuildKeepsReport ==
  \A d \in Datasets : datasetLock[d] = Nobody => Agrees(d)

(* Saving the record of one report never changes that of another one.        *)
RegistryKeepsOthers ==
  [][\A d \in Datasets : registry'[d] # registry[d] =>
       \E p \in Processes : proc[p].pc = "write" /\ proc[p].of = d /\ proc'[p].pc # "write"]_vars

(* The lexical hits of an answer are of the generation it is pinned to.      *)
LexicalFromPin ==
  chat.pc = "done" /\ chat.dense # 0 => chat.sparse = session[chat.session].index

=============================================================================
