------------------------- MODULE DatasetBuildProofs -------------------------
(***************************************************************************)
(* The report store for every number of reports, processes, conversations  *)
(* and builds.  Who works on a report holds its lock (LocksInv), and what   *)
(* he relies on is about that report alone: the facts he indexed, the       *)
(* collection he filled, the collections he deletes (StoreInv).  A record   *)
(* is written without that lock, but never as ready (RecordsInv).           *)
(***************************************************************************)
EXTENDS DatasetBuild, FiniteSetTheorems, TLAPS

ProcessRecords ==
  [pc : ProcessPoints, kind : {"none", "import", "register", "ask", "delete", "gc"},
   of : Datasets \union {0}, rec : Records, read : [Datasets -> Records],
   version : Nat, fresh : BOOLEAN, staged : 0..MaxBuilds,
   todo : SUBSET Builds, next : ProcessPoints]

(* A process past `lock` holds the lock of its report. *)
Held(p) ==
  \/ proc[p].pc \in {"source", "kb", "index", "fill", "activate", "files", "unalias", "remove",
                     "plan", "done"}
  \/ proc[p].pc \in {"save", "write"} /\ proc[p].next # "lock"

ChatHolds == chat.pc \in {"activate", "facts", "search", "done"}

LocksInv ==
  /\ \A p \in Processes : Held(p) => datasetLock[Mine(p)] = p
  /\ ChatHolds => datasetLock[Asked] = "chat"
  /\ \A p \in Processes : At(p, "write") => registryLock = p /\ proc[p].read = registry

(* What a process is about, and where it goes. *)
LocalOK(p) ==
  /\ ~At(p, "idle") => Mine(p) \in Datasets
  /\ At(p, "lock") => proc[p].next \in {"save", "lock", "source", "plan"}
  /\ At(p, "lock") /\ proc[p].next = "save" =>
       proc[p].kind = "delete" \/ proc[p].rec.status = "registered"
  /\ At(p, "lock") /\ proc[p].next # "save" => proc[p].kind # "delete"
  /\ proc[p].pc \in {"save", "write"} => proc[p].next \in {"lock", "source", "done"}
  /\ proc[p].pc \in {"save", "write"} /\ proc[p].kind # "delete" /\ proc[p].rec.status = "ready" =>
       proc[p].next = "done"
  /\ proc[p].pc \in {"save", "write"} /\ proc[p].kind = "delete" => proc[p].next = "source"
  /\ proc[p].pc \in {"source", "kb", "index", "fill", "activate", "plan"} => proc[p].kind # "delete"
  /\ ~At(p, "idle") /\ proc[p].kind # "delete" => proc[p].rec.path \in Paths
  /\ At(p, "kb") => proc[p].version # 0

RecordsInv ==
  /\ \A d \in Datasets : registry[d] # NoRecord => registry[d].path \in Paths
  /\ \A p \in Processes : LocalOK(p)
  /\ \A p \in Processes : proc[p].pc \in {"files", "unalias"} => registry[Mine(p)].status # "ready"

(* Collections are numbered as they were created. *)
CreatedInv ==
  /\ \A b \in Builds : b > created => builds[b] = NoBuild
  /\ \A d \in Datasets : alias[d] <= created

(* What a process that holds a lock knows of its report. *)
StagedOK(p) ==
  proc[p].pc \in {"fill", "activate"} =>
    /\ proc[p].staged \in 1..created
    /\ builds[proc[p].staged].of = Mine(p) /\ builds[proc[p].staged].version = kb[Mine(p)]
    /\ \A d \in Datasets : alias[d] # proc[p].staged
    /\ At(p, "activate") => builds[proc[p].staged].full
TodoOK(p) ==
  At(p, "remove") =>
    /\ alias[Mine(p)] \notin proc[p].todo
    /\ \A b \in proc[p].todo : b <= created /\ builds[b].of = Mine(p)
BuiltOK(p) ==
  proc[p].pc \in {"save", "write"} /\ proc[p].next = "done" /\ proc[p].rec.status = "ready" =>
    kb[Mine(p)] # 0 /\ Index(Mine(p)) = kb[Mine(p)]
StoreOK(p) ==
  /\ proc[p].pc \in {"index", "fill", "activate"} => kb[Mine(p)] # 0
  /\ StagedOK(p) /\ TodoOK(p) /\ BuiltOK(p)
StoreInv == \A p \in Processes : StoreOK(p)

(* What the chat worker knows of the pinned generation. *)
ChatInv ==
  /\ chat.pc # "idle" => chat.session \in Sessions /\ session[chat.session].pc \in {"pinned", "closed"}
  /\ chat.pc # "done" => chat.dense = 0
  /\ chat.pc \in {"facts", "search"} => SameGeneration(session[chat.session], Asked)
  /\ chat.pc = "search" => chat.facts = kb[Asked]
  /\ AnswerFromPin

IInv ==
  /\ TypeOK /\ LocksInv /\ RecordsInv /\ CreatedInv /\ AliasIsComplete /\ ReadyIsBuilt
  /\ StoreInv /\ ChatInv
-----------------------------------------------------------------------------
(* Locks exclude, and processes change one record of their own.             *)

LEMMA LocksExclude ==
  ASSUME IInv, NEW p \in Processes, Held(p)
  PROVE  /\ Mine(p) \in Datasets /\ datasetLock[Mine(p)] = p
         /\ \A q \in Processes \ {p} : Held(q) => Mine(q) # Mine(p)
         /\ ChatHolds => Asked # Mine(p)
<1>1. datasetLock[Mine(p)] = p
  BY DEF IInv, LocksInv
<1>2. Mine(p) \in Datasets
  <2>1. ~At(p, "idle")
    BY DEF Held, At
  <2> QED BY <2>1 DEF IInv, RecordsInv, LocalOK
<1>3. \A q \in Processes \ {p} : Held(q) => Mine(q) # Mine(p)
  BY <1>1 DEF IInv, LocksInv
<1>4. ChatHolds => Asked # Mine(p)
  BY <1>1, BuildAssumption DEF IInv, LocksInv
<1> QED BY <1>1, <1>2, <1>3, <1>4

OnlyProc(p) ==
  /\ proc' \in [Processes -> ProcessRecords]
  /\ \A q \in Processes \ {p} : proc'[q] = proc[q]

LEMMA OwnRecord ==
  ASSUME TypeOK, NEW p \in Processes, NEW r \in ProcessRecords, proc' = [proc EXCEPT ![p] = r]
  PROVE  OnlyProc(p) /\ proc'[p] = r
BY DEF TypeOK, ProcessRecords, OnlyProc

(* A step that changes the artifacts of no report but d... *)
SameBuild(b) ==
  builds'[b].of = builds[b].of /\ builds'[b].version = builds[b].version
  /\ builds'[b].full = builds[b].full
Touches(d) ==
  /\ created' \in Nat /\ created <= created'
  /\ \A e \in Datasets \ {d} : kb'[e] = kb[e] /\ alias'[e] = alias[e]
  /\ \/ alias'[d] \in {0, alias[d]}
     \/ alias'[d] \in Builds /\ builds[alias'[d]].of = d
  /\ \A b \in Builds : builds[b].of \notin {0, d} => SameBuild(b)
(* ... and one that changes none. *)
Same == UNCHANGED <<kb, alias, created>> /\ \A b \in Builds : SameBuild(b)

LEMMA CreatedNumber == IInv => created \in Nat /\ created <= created /\ created \in 0..MaxBuilds
<1>1. IInv => created \in 0..MaxBuilds
  BY DEF IInv, TypeOK
<1> QED BY <1>1, BuildAssumption

LEMMA AliasInBuilds ==
  ASSUME TypeOK, NEW d \in Datasets, alias[d] # 0
  PROVE  alias[d] \in Builds
<1>1. alias[d] \in 0..MaxBuilds
  BY DEF TypeOK
<1> QED BY <1>1, BuildAssumption DEF Builds

LEMMA OtherIndex ==
  ASSUME IInv, NEW m \in Datasets, Touches(m), NEW d \in Datasets, d # m
  PROVE  Index(d)' = Index(d)
<1>1. alias'[d] = alias[d]
  BY DEF Touches
<1>2. CASE alias[d] = 0
  BY <1>1, <1>2 DEF Index
<1>3. CASE alias[d] # 0
  <2>1. alias[d] \in Builds /\ builds[alias[d]].of = d
    BY <1>3, AliasInBuilds DEF IInv, AliasIsComplete
  <2>2. SameBuild(alias[d])
    BY <2>1, BuildAssumption DEF Touches
  <2> QED BY <1>1, <1>3, <2>2 DEF Index, SameBuild
<1> QED BY <1>2, <1>3

(* What others know of their report stays true while p works on its own.    *)
LEMMA OthersKnow ==
  ASSUME IInv, NEW p \in Processes, Held(p), Touches(Mine(p)),
         NEW q \in Processes \ {p}, proc'[q] = proc[q]
  PROVE  StoreOK(q)'
<1>1. CASE ~Held(q)
  BY <1>1 DEF Held, StoreOK, StagedOK, TodoOK, BuiltOK, At
<1>2. CASE Held(q)
  <2> DEFINE d == Mine(q)
  <2>1. d \in Datasets /\ d # Mine(p) /\ Mine(p) \in Datasets /\ Mine(q)' = Mine(q)
    BY <1>2, LocksExclude DEF Mine
  <2>2. kb'[d] = kb[d] /\ alias'[d] = alias[d]
    BY <2>1 DEF Touches
  <2>3. \A b \in Builds : builds[b].of = d => SameBuild(b)
    BY <2>1, BuildAssumption DEF Touches
  <2>4. StoreOK(q)
    BY DEF IInv, StoreInv
  <2>5. Index(d)' = Index(d)
    BY <2>1, OtherIndex
  <2>6. StagedOK(q)'
    <3> SUFFICES ASSUME proc[q].pc \in {"fill", "activate"}
                 PROVE  StagedOK(q)'
      BY DEF StagedOK
    <3> DEFINE b == proc[q].staged
    <3>1. b \in 1..created /\ builds[b].of = d /\ builds[b].version = kb[d]
          /\ (\A e \in Datasets : alias[e] # b) /\ (At(q, "activate") => builds[b].full)
      BY <2>4 DEF StoreOK, StagedOK
    <3>2. b \in Builds /\ b # 0 /\ b \in 1..created'
      <4>1. created \in 0..MaxBuilds
        BY DEF IInv, TypeOK
      <4>2. created' \in Nat /\ created <= created'
        BY DEF Touches
      <4> QED BY <3>1, <4>1, <4>2, BuildAssumption DEF Builds
    <3>3. SameBuild(b)
      BY <2>3, <3>1, <3>2
    <3>4. \A e \in Datasets : alias'[e] # b
      <4> TAKE e \in Datasets
      <4>1. CASE e # Mine(p)
        BY <3>1, <4>1 DEF Touches
      <4>2. CASE e = Mine(p)
        BY <2>1, <3>1, <3>2, <4>2 DEF Touches
      <4> QED BY <4>1, <4>2
    <3> QED BY <2>1, <2>2, <3>1, <3>2, <3>3, <3>4 DEF StagedOK, SameBuild, At
  <2>7. TodoOK(q)'
    <3> SUFFICES ASSUME At(q, "remove") PROVE TodoOK(q)'
      BY DEF TodoOK, At
    <3>1. alias[d] \notin proc[q].todo /\ \A b \in proc[q].todo : b <= created /\ builds[b].of = d
      BY <2>4 DEF StoreOK, TodoOK
    <3>2. proc[q].todo \subseteq Builds
      BY DEF IInv, TypeOK
    <3>3. ASSUME NEW b \in proc[q].todo PROVE b <= created' /\ builds'[b].of = d
      <4>1. created \in Nat /\ created' \in Nat /\ created <= created' /\ b \in Nat
        BY <3>2, BuildAssumption DEF IInv, TypeOK, Touches, Builds
      <4> QED BY <2>3, <3>1, <3>2, <4>1 DEF SameBuild
    <3> QED BY <2>1, <2>2, <3>1, <3>3 DEF TodoOK
  <2>8. BuiltOK(q)'
    BY <2>1, <2>2, <2>4, <2>5 DEF StoreOK, BuiltOK
  <2> QED BY <2>1, <2>2, <2>4, <2>6, <2>7, <2>8 DEF StoreOK
<1> QED BY <1>1, <1>2

LEMMA ChatKnows ==
  ASSUME IInv, NEW p \in Processes, Held(p), Touches(Mine(p)), UNCHANGED <<chat, session>>
  PROVE  ChatInv'
<1>1. chat.pc \in {"facts", "search"} => kb'[Asked] = kb[Asked] /\ Index(Asked)' = Index(Asked)
  <2> HAVE chat.pc \in {"facts", "search"}
  <2>1. Asked \in Datasets /\ Asked # Mine(p)
    <3>1. chat.session \in Sessions
      BY DEF IInv, ChatInv
    <3>2. ChatHolds
      BY DEF ChatHolds
    <3> QED BY <3>1, <3>2, LocksExclude, BuildAssumption DEF Asked
  <2>2. kb'[Asked] = kb[Asked] /\ alias'[Asked] = alias[Asked]
    BY <2>1 DEF Touches
  <2>3. Asked' = Asked /\ Mine(p) \in Datasets
    BY LocksExclude DEF Asked
  <2>4. Index(Asked)' = Index(Asked)
    BY <2>1, <2>3, OtherIndex
  <2> QED BY <2>2, <2>4
<1> QED BY <1>1 DEF IInv, ChatInv, SameGeneration, Asked, AnswerFromPin

(* When no artifact changes, everyone still knows what he knew.              *)
LEMMA SameIndex ==
  ASSUME IInv, Same, NEW d \in Datasets
  PROVE  Index(d)' = Index(d)
<1>1. CASE alias[d] = 0
  BY <1>1 DEF Index, Same
<1>2. CASE alias[d] # 0
  <2>1. alias[d] \in Builds
    BY <1>2, AliasInBuilds DEF IInv
  <2> QED BY <1>2, <2>1 DEF Index, Same, SameBuild
<1> QED BY <1>1, <1>2

LEMMA SameKnown ==
  ASSUME IInv, Same, NEW q \in Processes, proc'[q] = proc[q]
  PROVE  StoreOK(q)'
<1>1. CASE At(q, "idle")
  BY <1>1 DEF At, StoreOK, StagedOK, TodoOK, BuiltOK
<1>2. CASE ~At(q, "idle")
  <2>1. Mine(q) \in Datasets /\ Mine(q)' = Mine(q)
    BY <1>2 DEF IInv, RecordsInv, LocalOK, Mine
  <2>2. StoreOK(q)
    BY DEF IInv, StoreInv
  <2>3. Index(Mine(q))' = Index(Mine(q)) /\ kb' = kb /\ alias' = alias /\ created' = created
    BY <2>1, SameIndex DEF Same
  <2>4. StagedOK(q)'
    <3> SUFFICES ASSUME proc[q].pc \in {"fill", "activate"} PROVE StagedOK(q)'
      BY DEF StagedOK
    <3>1. proc[q].staged \in 1..created /\ created \in 0..MaxBuilds
      BY <2>2 DEF StoreOK, StagedOK, IInv, TypeOK
    <3>2. proc[q].staged \in Builds
      BY <3>1, BuildAssumption DEF Builds
    <3> QED BY <2>1, <2>2, <2>3, <3>2 DEF StoreOK, StagedOK, Same, SameBuild, At
  <2>5. TodoOK(q)'
    <3>1. proc[q].todo \subseteq Builds
      BY DEF IInv, TypeOK
    <3> QED BY <2>1, <2>2, <2>3, <3>1 DEF StoreOK, TodoOK, Same, SameBuild, At
  <2>6. BuiltOK(q)'
    BY <2>1, <2>2, <2>3 DEF StoreOK, BuiltOK
  <2> QED BY <2>1, <2>2, <2>3, <2>4, <2>5, <2>6 DEF StoreOK
<1> QED BY <1>1, <1>2

LEMMA SameStore ==
  ASSUME IInv, Same
  PROVE  AliasIsComplete' /\ (UNCHANGED registry => ReadyIsBuilt')
         /\ (UNCHANGED <<chat, session>> => ChatInv')
<1>1. AliasIsComplete'
  <2> SUFFICES ASSUME NEW d \in Datasets, alias'[d] # 0
               PROVE  builds'[alias'[d]].of = d /\ builds'[alias'[d]].full
    BY DEF AliasIsComplete
  <2>1. alias'[d] = alias[d] /\ alias[d] \in Builds
    BY AliasInBuilds DEF IInv, Same
  <2> QED BY <2>1 DEF IInv, AliasIsComplete, Same, SameBuild
<1>2. UNCHANGED registry => ReadyIsBuilt'
  BY DEF IInv, ReadyIsBuilt, Same
<1>3. UNCHANGED <<chat, session>> => ChatInv'
  <2> HAVE UNCHANGED <<chat, session>>
  <2>1. chat.pc # "idle" => Asked \in Datasets
    BY BuildAssumption DEF IInv, ChatInv, Asked
  <2>2. chat.pc # "idle" => Index(Asked)' = Index(Asked) /\ kb' = kb
    BY <2>1, SameIndex DEF Same, Asked
  <2> QED BY <2>2 DEF IInv, ChatInv, SameGeneration, Asked, AnswerFromPin
<1> QED BY <1>1, <1>2, <1>3
-----------------------------------------------------------------------------
(* Steps of a process that change no artifact.                              *)

NotReadyOK(p) == proc[p].pc \in {"files", "unalias"} => registry[Mine(p)].status # "ready"

LEMMA QuietInv ==
  ASSUME IInv, NEW p \in Processes, OnlyProc(p), LocksInv', TypeOK',
         UNCHANGED <<registry, kb, builds, created, alias, session, chat>>,
         LocalOK(p)', NotReadyOK(p)', StoreOK(p)'
  PROVE  IInv'
<1>1. Same
  BY DEF Same, SameBuild
<1>2. StoreInv'
  BY <1>1, SameKnown DEF StoreInv, OnlyProc
<1>3. RecordsInv'
  <2>1. \A q \in Processes \ {p} : LocalOK(q)'
    BY DEF IInv, RecordsInv, LocalOK, OnlyProc, At, Mine
  <2> QED BY <2>1 DEF IInv, RecordsInv, OnlyProc, Mine, NotReadyOK
<1>4. CreatedInv'
  BY DEF IInv, CreatedInv
<1> QED BY <1>1, <1>2, <1>3, <1>4, SameStore DEF IInv

LEMMA QuietType ==
  ASSUME TypeOK, NEW p \in Processes, OnlyProc(p),
         UNCHANGED <<registry, content, kb, builds, created, alias, session, chat, lexical>>,
         datasetLock' \in [Datasets -> Processes \union {Nobody, "chat"}],
         registryLock' \in Processes \union {Nobody},
         edits' \in Nat, jobs' \in Nat, crashes' \in Nat
  PROVE  TypeOK'
BY DEF TypeOK, OnlyProc, ProcessRecords

LEMMA Locals ==
  ASSUME TypeOK, NEW p \in Processes
  PROVE  /\ proc \in [Processes -> ProcessRecords] /\ proc[p] \in ProcessRecords
         /\ NoRecord \in Records /\ IdleProcess \in ProcessRecords
         /\ registry \in [Datasets -> Records]
<1>1. proc \in [Processes -> ProcessRecords] /\ registry \in [Datasets -> Records]
  BY DEF TypeOK, ProcessRecords
<1>2. NoRecord \in Records
  BY DEF NoRecord, Records
<1>3. 0 \in 0..MaxBuilds /\ 0 \in Nat
  BY BuildAssumption
<1>4. [d \in Datasets |-> NoRecord] \in [Datasets -> Records]
  BY <1>2
<1>5. IdleProcess \in ProcessRecords
  BY <1>2, <1>3, <1>4 DEF IdleProcess, ProcessRecords, ProcessPoints
<1> QED BY <1>1, <1>2, <1>5

LEMMA BeginInv ==
  ASSUME IInv, NEW p \in Processes, NEW d \in Datasets, NEW kind, NEW rec \in Records, NEW pc, NEW next,
         Begin(p, kind, d, rec, pc, next),
         \/ kind = "import" /\ pc = "lock" /\ next = "save" /\ rec.status = "registered"
         \/ kind = "register" /\ pc = "save" /\ next = "lock" /\ rec.status = "registered"
         \/ kind = "ask" /\ pc = "lock" /\ next = "source"
         \/ kind = "delete" /\ pc = "lock" /\ next = "save"
         \/ kind = "gc" /\ pc = "lock" /\ next = "plan",
         rec.path \in Paths
  PROVE  IInv'
<1> DEFINE r == [IdleProcess EXCEPT !.pc = pc, !.kind = kind, !.of = d, !.rec = rec, !.next = next]
<1>1. At(p, "idle") /\ jobs' = jobs + 1 /\ proc' = [proc EXCEPT ![p] = r]
      /\ UNCHANGED <<registry, content, kb, builds, created, alias, datasetLock, registryLock,
                    session, chat, lexical, edits, crashes>>
  BY DEF Begin, Files, Collections, Locks, Web
<1>2. kind \in {"import", "register", "ask", "delete", "gc"} /\ pc \in {"lock", "save"}
      /\ pc \in ProcessPoints /\ next \in ProcessPoints
  BY DEF ProcessPoints
<1>3. r \in ProcessRecords
  BY <1>2, Locals DEF ProcessRecords, IInv
<1>4. r.pc = pc /\ r.kind = kind /\ r.of = d /\ r.rec = rec /\ r.next = next
  BY DEF IdleProcess
<1>5. OnlyProc(p) /\ proc'[p] = r
  BY <1>1, <1>3, OwnRecord DEF IInv
<1>6. TypeOK'
  <2>1. jobs' \in Nat
    BY <1>1 DEF IInv, TypeOK
  <2>2. TypeOK /\ datasetLock \in [Datasets -> Processes \union {Nobody, "chat"}]
        /\ registryLock \in Processes \union {Nobody} /\ edits \in Nat /\ crashes \in Nat
    BY DEF IInv, TypeOK
  <2> QED BY <1>1, <1>5, <2>1, <2>2, QuietType
<1>7. LocalOK(p)'
  BY <1>4, <1>5 DEF LocalOK, At, Mine
<1>8. NotReadyOK(p)' /\ StoreOK(p)'
  BY <1>4, <1>5 DEF NotReadyOK, StoreOK, StagedOK, TodoOK, BuiltOK, At
<1>9. LocksInv'
  <2>1. ~Held(p)' /\ ~At(p, "write")'
    BY <1>4, <1>5 DEF Held, At
  <2> QED BY <1>1, <1>5, <2>1 DEF IInv, LocksInv, Held, ChatHolds, OnlyProc, At, Mine, Asked
<1> QED BY <1>1, <1>5, <1>6, <1>7, <1>8, <1>9, QuietInv

LEMMA BeginsInv ==
  ASSUME IInv, NEW p \in Processes, NEW d \in Datasets,
         \/ \E path \in Paths : BeginImport(p, d, path) \/ BeginRegister(p, d, path)
         \/ BeginAsk(p, d) \/ BeginDelete(p, d) \/ BeginGc(p, d)
  PROVE  IInv'
<1>1. registry[d] # NoRecord => registry[d] \in Records /\ registry[d].path \in Paths
  BY DEF IInv, RecordsInv, TypeOK
<1>2. ASSUME NEW path \in Paths, BeginImport(p, d, path) \/ BeginRegister(p, d, path) PROVE IInv'
  <2> DEFINE rec == [path |-> path, status |-> "registered"]
  <2>1. rec \in Records /\ rec.path \in Paths /\ rec.status = "registered"
    BY DEF Records
  <2>2. CASE BeginImport(p, d, path)
    <3>1. Begin(p, "import", d, rec, "lock", "save")
      BY <2>2 DEF BeginImport
    <3> HIDE DEF rec
    <3> QED BY <2>1, <3>1, BeginInv
  <2>3. CASE BeginRegister(p, d, path)
    <3>1. Begin(p, "register", d, rec, "save", "lock")
      BY <2>3 DEF BeginRegister
    <3> HIDE DEF rec
    <3> QED BY <2>1, <3>1, BeginInv
  <2> QED BY <1>2, <2>2, <2>3
<1>3. CASE BeginAsk(p, d)
  BY <1>1, <1>3, BeginInv DEF BeginAsk
<1>4. CASE BeginDelete(p, d)
  BY <1>1, <1>4, BeginInv DEF BeginDelete
<1>5. CASE BeginGc(p, d)
  BY <1>1, <1>5, BeginInv DEF BeginGc
<1> QED BY <1>2, <1>3, <1>4, <1>5

LEMMA LockInv ==
  ASSUME IInv, NEW p \in Processes, Lock(p)
  PROVE  IInv'
<1> DEFINE pc1 == IF proc[p].next = "lock" THEN "source" ELSE proc[p].next
           r == [proc[p] EXCEPT !.pc = pc1, !.next = "source"]
<1>1. /\ At(p, "lock") /\ datasetLock[Mine(p)] = Nobody
      /\ datasetLock' = [datasetLock EXCEPT ![Mine(p)] = p] /\ proc' = [proc EXCEPT ![p] = r]
      /\ UNCHANGED <<registry, registryLock, content, kb, builds, created, alias,
                    session, chat, lexical, edits, jobs, crashes>>
  BY DEF Lock, DatasetIsFree, Files, Collections, Web, Bounds
<1>2. LocalOK(p) /\ proc[p] \in ProcessRecords
  BY Locals DEF IInv, RecordsInv
<1>3. Mine(p) \in Datasets /\ proc[p].next \in {"save", "lock", "source", "plan"}
  BY <1>1, <1>2 DEF LocalOK, At
<1>4. /\ r \in ProcessRecords /\ r.pc = pc1 /\ r.next = "source" /\ r.kind = proc[p].kind
      /\ r.of = Mine(p) /\ r.rec = proc[p].rec
  BY <1>2, <1>3 DEF ProcessRecords, ProcessPoints, Mine
<1>5. OnlyProc(p) /\ proc'[p] = r
  BY <1>1, <1>4, OwnRecord DEF IInv
<1> HIDE DEF r
<1>6. TypeOK'
  <2>1. TypeOK /\ datasetLock' \in [Datasets -> Processes \union {Nobody, "chat"}]
        /\ registryLock \in Processes \union {Nobody} /\ edits \in Nat /\ jobs \in Nat /\ crashes \in Nat
    BY <1>1 DEF IInv, TypeOK
  <2> QED BY <1>1, <1>5, <2>1, QuietType
<1>7. LocalOK(p)'
  BY <1>1, <1>2, <1>3, <1>4, <1>5 DEF LocalOK, At, Mine
<1>8. NotReadyOK(p)' /\ StoreOK(p)'
  BY <1>3, <1>4, <1>5 DEF NotReadyOK, StoreOK, StagedOK, TodoOK, BuiltOK, At
<1>9. LocksInv'
  <2>1. \A q \in Processes : datasetLock[Mine(q)] = q => Mine(q) # Mine(p)
    BY <1>1, BuildAssumption
  <2>2. datasetLock \in [Datasets -> Processes \union {Nobody, "chat"}]
    BY DEF IInv, TypeOK
  <2>3. datasetLock'[Mine(p)] = p /\ Mine(p)' = Mine(p) /\ \A d \in Datasets \ {Mine(p)} : datasetLock'[d] = datasetLock[d]
    BY <1>1, <1>3, <1>4, <1>5, <2>2 DEF Mine
  <2>4. ~At(p, "write")' /\ (\A q \in Processes : ~At(q, "write") \/ q # p)
    BY <1>1, <1>3, <1>4, <1>5 DEF At
  <2>5. ASSUME NEW q \in Processes, Held(q)' PROVE datasetLock'[Mine(q)'] = q
    <3>1. CASE q = p
      BY <2>3, <3>1
    <3>2. CASE q # p
      <4>1. Held(q) /\ Mine(q)' = Mine(q)
        BY <1>5, <2>5, <3>2 DEF OnlyProc, Held, Mine
      <4>2. Mine(q) \in Datasets /\ datasetLock[Mine(q)] = q
        BY <4>1, LocksExclude
      <4> QED BY <2>1, <2>3, <4>1, <4>2
    <3> QED BY <3>1, <3>2
  <2>6. ChatHolds' => datasetLock'[Asked'] = "chat"
    <3> HAVE ChatHolds'
    <3>1. ChatHolds /\ Asked' = Asked /\ Asked \in Datasets
      BY <1>1, BuildAssumption DEF ChatHolds, Asked, IInv, ChatInv
    <3>2. datasetLock[Asked] = "chat"
      BY <3>1 DEF IInv, LocksInv
    <3>3. Asked # Mine(p)
      BY <1>1, <3>2, BuildAssumption
    <3> QED BY <2>3, <3>1, <3>2, <3>3
  <2>7. \A q \in Processes : At(q, "write")' => registryLock' = q /\ proc'[q].read = registry'
    BY <1>1, <1>5, <2>4 DEF IInv, LocksInv, OnlyProc, At
  <2> QED BY <2>5, <2>6, <2>7 DEF LocksInv
<1> QED BY <1>1, <1>5, <1>6, <1>7, <1>8, <1>9, QuietInv
LEMMA KeepLocks ==
  ASSUME IInv, NEW p \in Processes, OnlyProc(p), UNCHANGED <<registry, datasetLock, registryLock, chat>>,
         Mine(p)' = Mine(p), Held(p)' => Held(p), proc'[p].pc # "write"
  PROVE  LocksInv'
<1>1. \A q \in Processes : Held(q)' => datasetLock'[Mine(q)'] = q
  BY DEF IInv, LocksInv, OnlyProc, Held, Mine
<1>2. ChatHolds' => datasetLock'[Asked'] = "chat"
  BY DEF IInv, LocksInv, ChatHolds, Asked
<1>3. \A q \in Processes : At(q, "write")' => registryLock' = q /\ proc'[q].read = registry'
  BY DEF IInv, LocksInv, OnlyProc, At
<1> QED BY <1>1, <1>2, <1>3 DEF LocksInv

LEMMA LoadRegistryInv ==
  ASSUME IInv, NEW p \in Processes, LoadRegistry(p)
  PROVE  IInv'
<1> DEFINE r == [proc[p] EXCEPT !.pc = "write", !.read = registry]
<1>1. /\ At(p, "save") /\ registryLock = Nobody /\ registryLock' = p /\ proc' = [proc EXCEPT ![p] = r]
      /\ UNCHANGED <<registry, datasetLock, content, kb, builds, created, alias,
                    session, chat, lexical, edits, jobs, crashes>>
  BY DEF LoadRegistry, RegistryIsFree, Files, Collections, Web, Bounds
<1>2. LocalOK(p) /\ StoreOK(p) /\ proc[p] \in ProcessRecords /\ registry \in [Datasets -> Records]
  BY Locals DEF IInv, RecordsInv, StoreInv
<1>3. /\ r \in ProcessRecords /\ r.pc = "write" /\ r.next = proc[p].next /\ r.kind = proc[p].kind
      /\ r.of = Mine(p) /\ r.rec = proc[p].rec /\ r.read = registry
  BY <1>2 DEF ProcessRecords, ProcessPoints, Mine
<1>4. OnlyProc(p) /\ proc'[p] = r
  BY <1>1, <1>3, OwnRecord DEF IInv
<1> HIDE DEF r
<1>5. TypeOK'
  <2>1. TypeOK /\ datasetLock \in [Datasets -> Processes \union {Nobody, "chat"}]
        /\ registryLock' \in Processes \union {Nobody} /\ edits \in Nat /\ jobs \in Nat /\ crashes \in Nat
    BY <1>1 DEF IInv, TypeOK
  <2> QED BY <1>1, <1>4, <2>1, QuietType
<1>6. LocalOK(p)'
  BY <1>1, <1>2, <1>3, <1>4 DEF LocalOK, At, Mine
<1>7. NotReadyOK(p)' /\ StoreOK(p)'
  <2>1. BuiltOK(p)'
    BY <1>1, <1>2, <1>3, <1>4 DEF StoreOK, BuiltOK, At, Mine, Index
  <2> QED BY <1>3, <1>4, <2>1 DEF NotReadyOK, StoreOK, StagedOK, TodoOK, At
<1>8. LocksInv'
  <2>1. \A q \in Processes : Held(q)' => datasetLock'[Mine(q)'] = q
    BY <1>1, <1>3, <1>4 DEF IInv, LocksInv, OnlyProc, Held, Mine, At
  <2>2. ChatHolds' => datasetLock'[Asked'] = "chat"
    BY <1>1 DEF IInv, LocksInv, ChatHolds, Asked
  <2>3. \A q \in Processes : At(q, "write")' => q = p
    BY <1>1, <1>4, BuildAssumption DEF IInv, LocksInv, OnlyProc, At
  <2> QED BY <1>1, <1>3, <1>4, <2>1, <2>2, <2>3 DEF LocksInv
<1> QED BY <1>1, <1>4, <1>5, <1>6, <1>7, <1>8, QuietInv

LEMMA ReadSourceInv ==
  ASSUME IInv, NEW p \in Processes, ReadSource(p)
  PROVE  IInv'
<1> DEFINE version == content[proc[p].rec.path]
<1>1. /\ At(p, "source")
      /\ UNCHANGED <<registry, content, kb, builds, created, alias, datasetLock, registryLock,
                    session, chat, lexical, edits, jobs, crashes>>
  BY DEF ReadSource, Files, Collections, Locks, Web, Bounds
<1>2. LocalOK(p) /\ proc[p] \in ProcessRecords /\ version \in Nat
  <2>1. LocalOK(p) /\ proc[p] \in ProcessRecords
    BY Locals DEF IInv, RecordsInv
  <2>2. proc[p].rec.path \in Paths
    BY <1>1, <2>1 DEF LocalOK, At
  <2> QED BY <2>1, <2>2 DEF IInv, TypeOK
<1>3. PICK r : /\ proc' = [proc EXCEPT ![p] = r]
               /\ \/ r = [proc[p] EXCEPT !.pc = "index"] /\ kb[Mine(p)] = version /\ version # 0
                  \/ r = [proc[p] EXCEPT !.pc = "kb", !.version = version] /\ version # 0
                  \/ r = [proc[p] EXCEPT !.pc = "done"]
  BY ZenonT(60) DEF ReadSource, Goto
<1>4. /\ r \in ProcessRecords /\ r.pc \in {"index", "kb", "done"} /\ r.kind = proc[p].kind
      /\ r.of = Mine(p) /\ r.rec = proc[p].rec
      /\ (r.pc = "kb" => r.version # 0) /\ (r.pc = "index" => kb[Mine(p)] # 0)
  BY <1>2, <1>3, ZenonT(60) DEF ProcessRecords, ProcessPoints, Mine
<1>5. OnlyProc(p) /\ proc'[p] = r
  BY <1>3, <1>4, OwnRecord DEF IInv
<1>6. TypeOK'
  <2>1. TypeOK /\ datasetLock \in [Datasets -> Processes \union {Nobody, "chat"}]
        /\ registryLock \in Processes \union {Nobody} /\ edits \in Nat /\ jobs \in Nat /\ crashes \in Nat
    BY DEF IInv, TypeOK
  <2> QED BY <1>1, <1>5, <2>1, QuietType
<1>7. LocalOK(p)'
  BY <1>1, <1>2, <1>4, <1>5 DEF LocalOK, At, Mine
<1>8. NotReadyOK(p)' /\ StoreOK(p)'
  BY <1>1, <1>4, <1>5 DEF NotReadyOK, StoreOK, StagedOK, TodoOK, BuiltOK, At, Mine
<1>9. LocksInv'
  BY <1>1, <1>4, <1>5, KeepLocks DEF Held, Mine, At
<1> QED BY <1>1, <1>5, <1>6, <1>7, <1>8, <1>9, QuietInv

LEMMA PlanGcInv ==
  ASSUME IInv, NEW p \in Processes, PlanGc(p)
  PROVE  IInv'
<1> DEFINE r == [proc[p] EXCEPT !.pc = "remove", !.todo = Superseded(Mine(p))]
<1>1. /\ At(p, "plan") /\ proc' = [proc EXCEPT ![p] = r]
      /\ UNCHANGED <<registry, content, kb, builds, created, alias, datasetLock, registryLock,
                    session, chat, lexical, edits, jobs, crashes>>
  BY DEF PlanGc, Files, Collections, Locks, Web, Bounds
<1>2. LocalOK(p) /\ proc[p] \in ProcessRecords /\ Mine(p) \in Datasets
  BY <1>1, Locals DEF IInv, RecordsInv, LocalOK, At
<1>3. /\ Superseded(Mine(p)) \subseteq {b \in Builds : builds[b].of = Mine(p)}
      /\ alias[Mine(p)] \notin Superseded(Mine(p))
  BY DEF Superseded
<1>4. \A b \in Superseded(Mine(p)) : b <= created /\ builds[b].of = Mine(p)
  <2> TAKE b \in Superseded(Mine(p))
  <2>1. b \in Builds /\ builds[b].of = Mine(p) /\ builds[b] # NoBuild
    BY <1>2, <1>3, BuildAssumption DEF NoBuild
  <2>2. ~(b > created)
    BY <2>1 DEF IInv, CreatedInv
  <2>3. b \in Nat /\ created \in Nat
    BY <2>1, BuildAssumption DEF Builds, IInv, TypeOK
  <2> QED BY <2>1, <2>2, <2>3
<1>5. /\ r \in ProcessRecords /\ r.pc = "remove" /\ r.kind = proc[p].kind /\ r.todo = Superseded(Mine(p))
      /\ r.of = Mine(p) /\ r.rec = proc[p].rec
  BY <1>2, <1>3 DEF ProcessRecords, ProcessPoints, Mine
<1>6. OnlyProc(p) /\ proc'[p] = r
  BY <1>1, <1>5, OwnRecord DEF IInv
<1> HIDE DEF r
<1>7. TypeOK'
  <2>1. TypeOK /\ datasetLock \in [Datasets -> Processes \union {Nobody, "chat"}]
        /\ registryLock \in Processes \union {Nobody} /\ edits \in Nat /\ jobs \in Nat /\ crashes \in Nat
    BY DEF IInv, TypeOK
  <2> QED BY <1>1, <1>6, <2>1, QuietType
<1>8. LocalOK(p)'
  BY <1>1, <1>2, <1>5, <1>6 DEF LocalOK, At, Mine
<1>9. NotReadyOK(p)' /\ StoreOK(p)'
  <2>1. TodoOK(p)'
    BY <1>1, <1>3, <1>4, <1>5, <1>6 DEF TodoOK, At, Mine
  <2> QED BY <1>5, <1>6, <2>1 DEF NotReadyOK, StoreOK, StagedOK, BuiltOK, At
<1>10. LocksInv'
  BY <1>1, <1>5, <1>6, KeepLocks DEF Held, Mine, At
<1> QED BY <1>1, <1>6, <1>7, <1>8, <1>9, <1>10, QuietInv

(* Releasing the locks of p, when p ends or dies.                           *)
LEMMA ReleaseInv ==
  ASSUME IInv, NEW p \in Processes, proc' = [proc EXCEPT ![p] = IdleProcess],
         UNCHANGED <<registry, content, kb, builds, created, alias, session, chat, lexical>>,
         datasetLock' \in [Datasets -> Processes \union {Nobody, "chat"}],
         \A d \in Datasets : datasetLock[d] # p => datasetLock'[d] = datasetLock[d],
         registryLock' \in Processes \union {Nobody}, registryLock # p => registryLock' = registryLock,
         edits' \in Nat, jobs' \in Nat, crashes' \in Nat
  PROVE  IInv'
<1>1. OnlyProc(p) /\ proc'[p] = IdleProcess /\ IdleProcess.pc = "idle"
  BY OwnRecord, Locals DEF IInv, IdleProcess
<1>2. TypeOK'
  BY <1>1, QuietType DEF IInv
<1>3. LocalOK(p)' /\ NotReadyOK(p)' /\ StoreOK(p)'
  BY <1>1 DEF LocalOK, NotReadyOK, StoreOK, StagedOK, TodoOK, BuiltOK, At
<1>4. LocksInv'
  <2>1. ~Held(p)' /\ ~At(p, "write")'
    BY <1>1 DEF Held, At
  <2>2. ASSUME NEW q \in Processes \ {p}, Held(q)' PROVE datasetLock'[Mine(q)'] = q
    <3>1. Held(q) /\ Mine(q)' = Mine(q)
      BY <1>1, <2>2 DEF OnlyProc, Held, Mine
    <3>2. Mine(q) \in Datasets /\ datasetLock[Mine(q)] = q
      BY <3>1, LocksExclude
    <3> QED BY <3>1, <3>2
  <2>3. ChatHolds' => datasetLock'[Asked'] = "chat"
    <3> HAVE ChatHolds'
    <3>1. ChatHolds /\ Asked' = Asked /\ Asked \in Datasets
      BY BuildAssumption DEF ChatHolds, Asked, IInv, ChatInv
    <3>2. datasetLock[Asked] = "chat"
      BY <3>1 DEF IInv, LocksInv
    <3> QED BY <3>1, <3>2, BuildAssumption
  <2>4. \A q \in Processes \ {p} : At(q, "write")' => registryLock' = q /\ proc'[q].read = registry'
    BY <1>1 DEF IInv, LocksInv, OnlyProc, At
  <2> QED BY <2>1, <2>2, <2>3, <2>4 DEF LocksInv
<1> QED BY <1>1, <1>2, <1>3, <1>4, QuietInv

LEMMA DoneInv ==
  ASSUME IInv, NEW p \in Processes, Done(p)
  PROVE  IInv'
<1>1. /\ At(p, "done") /\ datasetLock' = [datasetLock EXCEPT ![Mine(p)] = Nobody]
      /\ proc' = [proc EXCEPT ![p] = IdleProcess]
      /\ UNCHANGED <<registry, registryLock, content, kb, builds, created, alias, session, chat, lexical,
                    edits, jobs, crashes>>
  BY DEF Done, Unlocked, Files, Collections, Web, Bounds
<1>2. Mine(p) \in Datasets /\ datasetLock[Mine(p)] = p
  <2>1. Held(p)
    BY <1>1 DEF Held, At
  <2> QED BY <2>1, LocksExclude
<1>3. /\ datasetLock \in [Datasets -> Processes \union {Nobody, "chat"}] /\ registryLock \in Processes \union {Nobody}
      /\ edits \in Nat /\ jobs \in Nat /\ crashes \in Nat
  BY DEF IInv, TypeOK
<1>4. datasetLock' \in [Datasets -> Processes \union {Nobody, "chat"}]
      /\ \A d \in Datasets : datasetLock[d] # p => datasetLock'[d] = datasetLock[d]
  BY <1>1, <1>2, <1>3
<1> QED BY <1>1, <1>3, <1>4, ReleaseInv

LEMMA CrashInv ==
  ASSUME IInv, NEW p \in Processes, Crash(p)
  PROVE  IInv'
<1>1. /\ crashes' = crashes + 1 /\ proc' = [proc EXCEPT ![p] = IdleProcess]
      /\ datasetLock' = [d \in Datasets |-> IF datasetLock[d] = p THEN Nobody ELSE datasetLock[d]]
      /\ registryLock' = (IF registryLock = p THEN Nobody ELSE registryLock)
      /\ UNCHANGED <<registry, content, kb, builds, created, alias, session, chat, lexical, edits, jobs>>
  BY DEF Crash, Files, Collections, Web
<1>2. /\ datasetLock \in [Datasets -> Processes \union {Nobody, "chat"}] /\ registryLock \in Processes \union {Nobody}
      /\ edits \in Nat /\ jobs \in Nat /\ crashes \in Nat
  BY DEF IInv, TypeOK
<1>3. datasetLock' \in [Datasets -> Processes \union {Nobody, "chat"}]
      /\ \A d \in Datasets : datasetLock[d] # p => datasetLock'[d] = datasetLock[d]
  BY <1>1, <1>2
<1>4. registryLock' \in Processes \union {Nobody} /\ (registryLock # p => registryLock' = registryLock)
      /\ edits' \in Nat /\ jobs' \in Nat /\ crashes' \in Nat
  BY <1>1, <1>2
<1> QED BY <1>1, <1>3, <1>4, ReleaseInv
LEMMA SaveRegistryInv ==
  ASSUME IInv, NEW p \in Processes, SaveRegistry(p)
  PROVE  IInv'
<1> DEFINE me == proc[p]
           d == Mine(p)
           rec == IF me.kind = "delete" THEN NoRecord ELSE Merged(me.rec, me.read[d])
           pc1 == IF me.kind = "delete" THEN (IF me.read[d] = NoRecord THEN "done" ELSE "files")
                  ELSE me.next
           r == [me EXCEPT !.rec = IF me.kind = "delete" THEN me.read[d] ELSE rec,
                           !.read = IdleProcess.read, !.pc = pc1]
<1>1. /\ At(p, "write") /\ registry' = [me.read EXCEPT ![d] = rec] /\ registryLock' = Nobody
      /\ proc' = [proc EXCEPT ![p] = r]
      /\ UNCHANGED <<datasetLock, content, kb, builds, created, alias,
                    session, chat, lexical, edits, jobs, crashes>>
  BY DEF SaveRegistry, Files, Collections, Web, Bounds
<1>2. LocalOK(p) /\ StoreOK(p) /\ me \in ProcessRecords /\ registry \in [Datasets -> Records]
      /\ IdleProcess \in ProcessRecords /\ NoRecord \in Records
  BY Locals DEF IInv, RecordsInv, StoreInv
<1>3. /\ registryLock = p /\ me.read = registry /\ d \in Datasets
      /\ me.next \in {"lock", "source", "done"} /\ (me.kind = "delete" => me.next = "source")
  BY <1>1, <1>2 DEF IInv, LocksInv, LocalOK, At
<1>4. /\ rec \in Records /\ registry' \in [Datasets -> Records] /\ registry'[d] = rec
      /\ \A e \in Datasets \ {d} : registry'[e] = registry[e]
  <2>1. rec \in Records
    BY <1>2, <1>3 DEF Merged, ProcessRecords
  <2> QED BY <1>1, <1>2, <1>3, <2>1
<1>5. /\ r \in ProcessRecords /\ r.pc = pc1 /\ r.next = me.next /\ r.kind = me.kind /\ r.of = d
      /\ (me.kind # "delete" => r.rec = rec)
  <2>1. pc1 \in ProcessPoints /\ IdleProcess.read \in [Datasets -> Records]
        /\ (IF me.kind = "delete" THEN me.read[d] ELSE rec) \in Records
    BY <1>2, <1>3, <1>4 DEF ProcessPoints, ProcessRecords
  <2> HIDE DEF rec, pc1
  <2> QED BY <1>2, <2>1 DEF ProcessRecords, Mine
<1>6. me.kind # "delete" => me.rec.path \in Paths /\ rec.path = me.rec.path
  BY <1>1, <1>2 DEF LocalOK, At, Merged
<1>7. rec.status = "ready" =>
        registry[d].status = "ready" \/ (me.next = "done" /\ kb[d] # 0 /\ Index(d) = kb[d])
  <2> HAVE rec.status = "ready"
  <2>1. me.kind # "delete"
    BY DEF NoRecord
  <2>2. rec = registry[d] \/ rec = me.rec
    BY <1>3, <2>1 DEF Merged
  <2>3. CASE rec = me.rec
    BY <1>1, <1>2, <2>1, <2>3 DEF LocalOK, StoreOK, BuiltOK, At
  <2> QED BY <2>2, <2>3
<1>8. OnlyProc(p) /\ proc'[p] = r
  BY <1>1, <1>5, OwnRecord, ZenonT(60) DEF IInv
<1> HIDE DEF r
<1>9. TypeOK'
  BY <1>1, <1>4, <1>8 DEF IInv, TypeOK, OnlyProc, ProcessRecords
<1>10. Same
  BY <1>1 DEF Same, SameBuild
<1>11. LocalOK(p)'
  BY <1>1, <1>3, <1>5, <1>6, <1>8 DEF LocalOK, At, Mine
<1>12. StoreOK(p)'
  BY <1>3, <1>5, <1>8 DEF StoreOK, StagedOK, TodoOK, BuiltOK, At
<1>13. StoreInv'
  BY <1>8, <1>10, <1>12, SameKnown DEF StoreInv, OnlyProc
<1>14. RecordsInv'
  <2>1. \A q \in Processes \ {p} : LocalOK(q)'
    BY <1>8 DEF IInv, RecordsInv, LocalOK, OnlyProc, At, Mine
  <2>2. \A e \in Datasets : registry'[e] # NoRecord => registry'[e].path \in Paths
    BY <1>4, <1>6 DEF IInv, RecordsInv
  <2>3. NotReadyOK(p)'
    BY <1>3, <1>4, <1>5, <1>8 DEF NotReadyOK, Mine, NoRecord
  <2>4. ASSUME NEW q \in Processes \ {p}, proc'[q].pc \in {"files", "unalias"}
        PROVE  registry'[Mine(q)'].status # "ready"
    <3>1. Held(q) /\ Mine(q)' = Mine(q) /\ proc[q].pc \in {"files", "unalias"}
      BY <1>8, <2>4 DEF OnlyProc, Held, Mine
    <3>2. Mine(q) \in Datasets /\ registry[Mine(q)].status # "ready"
      BY <3>1, LocksExclude DEF IInv, RecordsInv
    <3>3. CASE Mine(q) # d
      BY <1>4, <3>1, <3>2, <3>3
    <3>4. CASE Mine(q) = d
      <4>1. ~Held(p)
        BY <3>1, <3>4, LocksExclude
      <4>2. me.next = "lock"
        BY <1>1, <4>1 DEF Held, At
      <4> QED BY <1>4, <1>7, <3>1, <3>2, <3>4, <4>2
    <3> QED BY <3>3, <3>4
  <2> QED BY <1>11, <2>1, <2>2, <2>3, <2>4 DEF RecordsInv, NotReadyOK
<1>15. ReadyIsBuilt'
  <2> SUFFICES ASSUME NEW e \in Datasets, registry'[e].status = "ready"
               PROVE  kb'[e] # 0 /\ alias'[e] # 0
    BY DEF ReadyIsBuilt
  <2>1. registry[e].status = "ready" => kb[e] # 0 /\ alias[e] # 0
    BY DEF IInv, ReadyIsBuilt
  <2>2. CASE e # d
    BY <1>1, <1>4, <2>1, <2>2
  <2>3. CASE e = d
    <3>1. kb[d] # 0 /\ Index(d) = kb[d] => alias[d] # 0
      BY DEF Index
    <3> QED BY <1>1, <1>4, <1>7, <2>1, <2>3, <3>1
  <2> QED BY <2>2, <2>3
<1>16. LocksInv'
  <2>1. \A q \in Processes : Held(q)' => Held(q) /\ Mine(q)' = Mine(q)
    BY <1>1, <1>3, <1>5, <1>8 DEF OnlyProc, Held, Mine, At
  <2>2. \A q \in Processes : ~At(q, "write")'
    <3> TAKE q \in Processes
    <3>1. At(q, "write") => q = p
      BY <1>3 DEF IInv, LocksInv
    <3> QED BY <1>3, <1>5, <1>8, <3>1 DEF OnlyProc, At
  <2>3. ChatHolds' => datasetLock'[Asked'] = "chat"
    BY <1>1 DEF IInv, LocksInv, ChatHolds, Asked
  <2> QED BY <1>1, <2>1, <2>2, <2>3 DEF IInv, LocksInv
<1>17. CreatedInv' /\ AliasIsComplete' /\ ChatInv'
  BY <1>1, <1>10, SameStore DEF IInv, CreatedInv
<1> QED BY <1>9, <1>13, <1>14, <1>15, <1>16, <1>17 DEF IInv

-----------------------------------------------------------------------------
(* Steps of a process that work on the artifacts of its report.             *)

LEMMA WorkInv ==
  ASSUME IInv, NEW p \in Processes, Held(p), OnlyProc(p), Touches(Mine(p)),
         UNCHANGED <<registry, datasetLock, registryLock, session, chat>>,
         Mine(p)' = Mine(p), proc'[p].pc # "write",
         TypeOK', LocalOK(p)', NotReadyOK(p)', StoreOK(p)',
         CreatedInv', AliasIsComplete', ReadyIsBuilt'
  PROVE  IInv'
<1>1. LocksInv'
  BY KeepLocks
<1>2. RecordsInv'
  <2>1. \A q \in Processes \ {p} : LocalOK(q)'
    BY DEF IInv, RecordsInv, LocalOK, OnlyProc, At, Mine
  <2> QED BY <2>1 DEF IInv, RecordsInv, OnlyProc, Mine, NotReadyOK
<1>3. StoreInv'
  BY OthersKnow DEF StoreInv, OnlyProc
<1>4. ChatInv'
  BY ChatKnows
<1> QED BY <1>1, <1>2, <1>3, <1>4 DEF IInv

(* The collections stay as they are... *)
LEMMA ReplaceKbInv ==
  ASSUME IInv, NEW p \in Processes, ReplaceKb(p)
  PROVE  IInv'
<1> DEFINE r == [proc[p] EXCEPT !.pc = "index", !.version = 0, !.fresh = TRUE]
<1>1. /\ At(p, "kb") /\ kb' = [kb EXCEPT ![Mine(p)] = proc[p].version] /\ proc' = [proc EXCEPT ![p] = r]
      /\ UNCHANGED <<registry, content, builds, created, alias, datasetLock, registryLock,
                    session, chat, lexical, edits, jobs, crashes>>
  BY DEF ReplaceKb, Collections, Locks, Web, Bounds
<1>2. LocalOK(p) /\ proc[p] \in ProcessRecords /\ Held(p)
  BY <1>1, Locals DEF IInv, RecordsInv, Held, At
<1>3. Mine(p) \in Datasets /\ proc[p].version \in Nat /\ proc[p].version # 0
  BY <1>1, <1>2 DEF LocalOK, At, ProcessRecords
<1>4. /\ r \in ProcessRecords /\ r.pc = "index" /\ r.kind = proc[p].kind /\ r.of = Mine(p) /\ r.rec = proc[p].rec
  BY <1>2 DEF ProcessRecords, ProcessPoints, Mine
<1>5. OnlyProc(p) /\ proc'[p] = r
  BY <1>1, <1>4, OwnRecord DEF IInv
<1> HIDE DEF r
<1>6. kb' \in [Datasets -> Nat] /\ kb'[Mine(p)] # 0 /\ \A d \in Datasets \ {Mine(p)} : kb'[d] = kb[d]
  BY <1>1, <1>3 DEF IInv, TypeOK
<1>7. TypeOK'
  BY <1>1, <1>5, <1>6 DEF IInv, TypeOK, OnlyProc, ProcessRecords
<1>8. Touches(Mine(p))
  BY <1>1, <1>6, CreatedNumber DEF Touches, SameBuild
<1>9. LocalOK(p)' /\ NotReadyOK(p)'
  BY <1>1, <1>2, <1>4, <1>5 DEF LocalOK, NotReadyOK, At, Mine
<1>10. StoreOK(p)'
  BY <1>4, <1>5, <1>6 DEF StoreOK, StagedOK, TodoOK, BuiltOK, At, Mine
<1>11. CreatedInv' /\ AliasIsComplete'
  BY <1>1 DEF IInv, CreatedInv, AliasIsComplete
<1>12. ReadyIsBuilt'
  BY <1>1, <1>6 DEF IInv, ReadyIsBuilt
<1> QED BY <1>1, <1>2, <1>4, <1>5, <1>7, <1>8, <1>9, <1>10, <1>11, <1>12, WorkInv DEF Mine

LEMMA DeleteFilesInv ==
  ASSUME IInv, NEW p \in Processes, DeleteFiles(p)
  PROVE  IInv'
<1> DEFINE r == [proc[p] EXCEPT !.pc = "unalias"]
           path == proc[p].rec.path
<1>1. /\ At(p, "files") /\ kb' = [kb EXCEPT ![Mine(p)] = 0] /\ proc' = [proc EXCEPT ![p] = r]
      /\ content' = (IF path \in Managed THEN [content EXCEPT ![path] = 0] ELSE content)
      /\ UNCHANGED <<registry, builds, created, alias, datasetLock, registryLock,
                    session, chat, lexical, edits, jobs, crashes>>
  BY DEF DeleteFiles, Goto, Collections, Locks, Web, Bounds
<1>2. LocalOK(p) /\ proc[p] \in ProcessRecords /\ Held(p) /\ NotReadyOK(p)
  BY <1>1, Locals DEF IInv, RecordsInv, Held, At, NotReadyOK
<1>3. Mine(p) \in Datasets /\ registry[Mine(p)].status # "ready"
  BY <1>1, <1>2 DEF LocalOK, NotReadyOK, At
<1>4. /\ r \in ProcessRecords /\ r.pc = "unalias" /\ r.kind = proc[p].kind /\ r.of = Mine(p) /\ r.rec = proc[p].rec
  BY <1>2 DEF ProcessRecords, ProcessPoints, Mine
<1>5. OnlyProc(p) /\ proc'[p] = r
  BY <1>1, <1>4, OwnRecord DEF IInv
<1> HIDE DEF r
<1>6. kb' \in [Datasets -> Nat] /\ content' \in [Paths -> Nat] /\ \A d \in Datasets \ {Mine(p)} : kb'[d] = kb[d]
  BY <1>1, <1>3 DEF IInv, TypeOK
<1>7. TypeOK'
  BY <1>1, <1>5, <1>6 DEF IInv, TypeOK, OnlyProc, ProcessRecords
<1>8. Touches(Mine(p))
  BY <1>1, <1>6, CreatedNumber DEF Touches, SameBuild
<1>9. LocalOK(p)' /\ NotReadyOK(p)'
  BY <1>1, <1>2, <1>3, <1>4, <1>5 DEF LocalOK, NotReadyOK, At, Mine
<1>10. StoreOK(p)'
  BY <1>4, <1>5 DEF StoreOK, StagedOK, TodoOK, BuiltOK, At, Mine
<1>11. CreatedInv' /\ AliasIsComplete'
  BY <1>1 DEF IInv, CreatedInv, AliasIsComplete
<1>12. ReadyIsBuilt'
  BY <1>1, <1>3, <1>6 DEF IInv, ReadyIsBuilt
<1> QED BY <1>1, <1>2, <1>4, <1>5, <1>7, <1>8, <1>9, <1>10, <1>11, <1>12, WorkInv DEF Mine
LEMMA FinishedRecord ==
  ASSUME TypeOK, NEW p \in Processes, Finished(p)
  PROVE  /\ OnlyProc(p) /\ proc'[p].pc = "save" /\ proc'[p].next = "done"
         /\ proc'[p].kind = proc[p].kind /\ proc'[p].of = proc[p].of
         /\ proc'[p].rec.path = proc[p].rec.path /\ proc'[p].rec.status = "ready"
<1> DEFINE rec1 == [proc[p].rec EXCEPT !.status = "ready"]
           r == [proc[p] EXCEPT !.pc = "save", !.next = "done", !.rec = rec1, !.staged = 0]
<1>1. proc' = [proc EXCEPT ![p] = r]
  BY DEF Finished
<1>2. proc[p] \in ProcessRecords
  BY Locals
<1>3. rec1 \in Records /\ rec1.path = proc[p].rec.path /\ rec1.status = "ready"
  BY <1>2 DEF ProcessRecords, Records
<1> HIDE DEF rec1
<1>4. 0 \in 0..MaxBuilds
  BY BuildAssumption
<1>5. /\ r \in ProcessRecords /\ r.pc = "save" /\ r.next = "done" /\ r.rec = rec1
      /\ r.kind = proc[p].kind /\ r.of = proc[p].of
  BY <1>2, <1>3, <1>4 DEF ProcessRecords, ProcessPoints
<1> HIDE DEF r
<1> QED BY <1>1, <1>3, <1>5, OwnRecord

LEMMA StageIndexInv ==
  ASSUME IInv, NEW p \in Processes, StageIndex(p)
  PROVE  IInv'
<1>1. /\ At(p, "index") /\ UNCHANGED <<registry, alias, content, kb, datasetLock, registryLock,
                                     session, chat, lexical, edits, jobs, crashes>>
  BY DEF StageIndex, Files, Locks, Web, Bounds
<1>2. LocalOK(p) /\ proc[p] \in ProcessRecords /\ Held(p) /\ kb[Mine(p)] # 0
  BY <1>1, Locals DEF IInv, RecordsInv, StoreInv, StoreOK, Held, At
<1>3. Mine(p) \in Datasets
  BY <1>1, <1>2 DEF LocalOK, At
<1>4. ReadyIsBuilt'
  BY <1>1 DEF IInv, ReadyIsBuilt
<1>5. ASSUME UNCHANGED <<builds, created>>, OnlyProc(p), TypeOK', LocalOK(p)', NotReadyOK(p)', StoreOK(p)',
             Mine(p)' = Mine(p), proc'[p].pc # "write"
      PROVE  IInv'
  <2>1. Touches(Mine(p))
    BY <1>1, <1>5, CreatedNumber DEF Touches, SameBuild
  <2>2. CreatedInv' /\ AliasIsComplete'
    BY <1>1, <1>5 DEF IInv, CreatedInv, AliasIsComplete
  <2> QED BY <1>1, <1>2, <1>4, <1>5, <2>1, <2>2, WorkInv
<1>6. CASE IndexMatches(Mine(p)) /\ Finished(p) /\ UNCHANGED <<builds, created>>
  <2>1. /\ OnlyProc(p) /\ proc'[p].pc = "save" /\ proc'[p].next = "done"
        /\ proc'[p].kind = proc[p].kind /\ Mine(p)' = Mine(p)
        /\ proc'[p].rec.path = proc[p].rec.path
    BY <1>6, FinishedRecord DEF IInv, Mine
  <2>2. TypeOK'
    BY <1>1, <1>6, <2>1 DEF IInv, TypeOK, OnlyProc, ProcessRecords
  <2>3. LocalOK(p)' /\ NotReadyOK(p)'
    BY <1>1, <1>2, <1>3, <2>1 DEF LocalOK, NotReadyOK, At
  <2>4. BuiltOK(p)'
    BY <1>1, <1>2, <1>6, <2>1 DEF BuiltOK, IndexMatches, Index
  <2>5. StoreOK(p)'
    BY <2>1, <2>4 DEF StoreOK, StagedOK, TodoOK, At
  <2> QED BY <1>5, <1>6, <2>1, <2>2, <2>3, <2>5
<1>7. CASE Goto(p, "done") /\ UNCHANGED <<builds, created>>
  <2> DEFINE r == [proc[p] EXCEPT !.pc = "done"]
  <2>1. /\ r \in ProcessRecords /\ r.pc = "done" /\ r.kind = proc[p].kind /\ r.of = Mine(p) /\ r.rec = proc[p].rec
    BY <1>2 DEF ProcessRecords, ProcessPoints, Mine
  <2>2. proc' = [proc EXCEPT ![p] = r]
    BY <1>7 DEF Goto
  <2> HIDE DEF r
  <2>3. OnlyProc(p) /\ proc'[p] = r
    BY <2>1, <2>2, OwnRecord DEF IInv
  <2>4. TypeOK'
    BY <1>1, <1>7, <2>3 DEF IInv, TypeOK, OnlyProc, ProcessRecords
  <2>5. LocalOK(p)' /\ NotReadyOK(p)' /\ StoreOK(p)' /\ Mine(p)' = Mine(p)
    BY <1>1, <1>2, <2>1, <2>3 DEF LocalOK, NotReadyOK, StoreOK, StagedOK, TodoOK, BuiltOK, At, Mine
  <2> QED BY <1>5, <1>7, <2>1, <2>3, <2>4, <2>5
<1>8. ASSUME created < MaxBuilds, created' = created + 1,
             builds' = [builds EXCEPT ![created'] = [NoBuild EXCEPT !.of = Mine(p), !.version = kb[Mine(p)]]],
             proc' = [proc EXCEPT ![p].pc = "fill", ![p].staged = created', ![p].fresh = FALSE]
      PROVE  IInv'
  <2> DEFINE new == [NoBuild EXCEPT !.of = Mine(p), !.version = kb[Mine(p)]]
             r == [proc[p] EXCEPT !.pc = "fill", !.staged = created', !.fresh = FALSE]
  <2>1. /\ created \in Nat /\ created' \in Builds /\ created' \in 1..created' /\ created' \in 0..MaxBuilds
        /\ created' \in Nat /\ created <= created' /\ \A n \in 0..created : n # created' /\ n <= created'
    BY <1>8, CreatedNumber, BuildAssumption DEF Builds
  <2>2. builds' = [builds EXCEPT ![created'] = new]
    BY <1>8
  <2>3. builds \in [Builds -> [of : Datasets \union {0}, version : Nat, full : BOOLEAN, old : BOOLEAN]]
        /\ kb \in [Datasets -> Nat]
    BY DEF IInv, TypeOK
  <2>4. new \in [of : Datasets \union {0}, version : Nat, full : BOOLEAN, old : BOOLEAN]
        /\ new.of = Mine(p) /\ new.version = kb[Mine(p)]
    BY <1>3, <2>3 DEF NoBuild
  <2> HIDE DEF new
  <2>5. /\ builds' \in [Builds -> [of : Datasets \union {0}, version : Nat, full : BOOLEAN, old : BOOLEAN]]
        /\ builds'[created'] = new /\ \A b \in Builds : b # created' => builds'[b] = builds[b]
    BY <2>1, <2>2, <2>3, <2>4
  <2>6. /\ r \in ProcessRecords /\ r.pc = "fill" /\ r.staged = created' /\ r.kind = proc[p].kind
        /\ r.of = Mine(p) /\ r.rec = proc[p].rec
    BY <1>2, <2>1 DEF ProcessRecords, ProcessPoints, Mine
  <2>7. proc' = [proc EXCEPT ![p] = r]
    BY <1>8
  <2> HIDE DEF r
  <2>8. OnlyProc(p) /\ proc'[p] = r /\ Mine(p)' = Mine(p)
    BY <2>6, <2>7, OwnRecord DEF IInv, Mine
  <2>9. TypeOK'
    BY <1>1, <2>1, <2>5, <2>8 DEF IInv, TypeOK, OnlyProc, ProcessRecords
  <2>10. \A d \in Datasets : alias[d] \in 0..created
    <3> TAKE d \in Datasets
    <3>1. alias[d] \in 0..MaxBuilds /\ alias[d] <= created
      BY DEF IInv, TypeOK, CreatedInv
    <3> QED BY <2>1, <3>1, BuildAssumption
  <2>11. CreatedInv'
    <3>1. \A b \in Builds : b > created' => b > created /\ b # created'
      BY <2>1, BuildAssumption DEF Builds
    <3>2. \A d \in Datasets : alias[d] <= created'
      BY <2>1, <2>10
    <3> QED BY <1>1, <2>5, <3>1, <3>2 DEF IInv, CreatedInv
  <2>12. builds[created'] = NoBuild
    <3>1. created' > created
      BY <1>8, <2>1
    <3> QED BY <2>1, <3>1 DEF IInv, CreatedInv
  <2>13. Touches(Mine(p))
    BY <1>1, <2>1, <2>5, <2>12 DEF Touches, SameBuild, NoBuild
  <2>14. AliasIsComplete'
    <3> SUFFICES ASSUME NEW d \in Datasets, alias'[d] # 0
                 PROVE  builds'[alias'[d]].of = d /\ builds'[alias'[d]].full
      BY DEF AliasIsComplete
    <3>1. alias[d] \in Builds /\ alias[d] # created' /\ alias'[d] = alias[d]
      BY <1>1, <2>1, <2>10, AliasInBuilds DEF IInv
    <3> QED BY <2>5, <3>1 DEF IInv, AliasIsComplete
  <2>15. LocalOK(p)' /\ NotReadyOK(p)'
    BY <1>1, <1>2, <1>3, <2>6, <2>8 DEF LocalOK, NotReadyOK, At
  <2>16. StoreOK(p)'
    <3>1. \A d \in Datasets : alias'[d] # created'
      BY <1>1, <2>1, <2>10
    <3>2. StagedOK(p)'
      BY <1>1, <2>1, <2>4, <2>5, <2>6, <2>8, <3>1 DEF StagedOK, At
    <3> QED BY <1>1, <1>2, <2>6, <2>8, <3>2 DEF StoreOK, TodoOK, BuiltOK, At
  <2> QED BY <1>1, <1>2, <1>4, <2>6, <2>8, <2>9, <2>11, <2>13, <2>14, <2>15, <2>16, WorkInv
<1> QED BY <1>6, <1>7, <1>8 DEF StageIndex

LEMMA FillInv ==
  ASSUME IInv, NEW p \in Processes, Fill(p)
  PROVE  IInv'
<1>1. /\ At(p, "fill") /\ UNCHANGED <<registry, created, alias, content, kb, datasetLock, registryLock,
                                    session, chat, lexical, edits, jobs, crashes>>
  BY DEF Fill, Files, Locks, Web, Bounds
<1>2. LocalOK(p) /\ proc[p] \in ProcessRecords /\ Held(p) /\ kb[Mine(p)] # 0 /\ StagedOK(p)
  BY <1>1, Locals DEF IInv, RecordsInv, StoreInv, StoreOK, Held, At
<1>3. Mine(p) \in Datasets
  BY <1>1, <1>2 DEF LocalOK, At
<1> DEFINE b == proc[p].staged
<1>4. b \in 1..created /\ builds[b].of = Mine(p) /\ builds[b].version = kb[Mine(p)]
      /\ \A d \in Datasets : alias[d] # b
  BY <1>1, <1>2 DEF StagedOK, At
<1>5. b \in Builds /\ created \in Nat /\ ~(b > created)
  BY <1>4, CreatedNumber, BuildAssumption DEF Builds
<1>6. PICK pc1 \in {"activate", "done"} :
        /\ Goto(p, pc1)
        /\ pc1 = "activate" => builds' = [builds EXCEPT ![b].full = TRUE]
        /\ pc1 = "done" => UNCHANGED builds
  BY DEF Fill
<1> DEFINE r == [proc[p] EXCEPT !.pc = pc1]
<1>7. /\ r \in ProcessRecords /\ r.pc = pc1 /\ r.kind = proc[p].kind /\ r.of = Mine(p) /\ r.rec = proc[p].rec
      /\ r.staged = b
  BY <1>2, <1>6 DEF ProcessRecords, ProcessPoints, Mine
<1>8. proc' = [proc EXCEPT ![p] = r]
  BY <1>6 DEF Goto
<1> HIDE DEF r
<1>9. OnlyProc(p) /\ proc'[p] = r /\ Mine(p)' = Mine(p)
  BY <1>7, <1>8, OwnRecord DEF IInv, Mine
<1>10. builds \in [Builds -> [of : Datasets \union {0}, version : Nat, full : BOOLEAN, old : BOOLEAN]]
  BY DEF IInv, TypeOK
<1>11. /\ builds' \in [Builds -> [of : Datasets \union {0}, version : Nat, full : BOOLEAN, old : BOOLEAN]]
       /\ \A c \in Builds : c # b => builds'[c] = builds[c]
       /\ builds'[b].of = builds[b].of /\ builds'[b].version = builds[b].version
       /\ (pc1 = "activate" => builds'[b].full)
  BY <1>5, <1>6, <1>10, ZenonT(60)
<1>12. TypeOK'
  BY <1>1, <1>9, <1>11 DEF IInv, TypeOK, OnlyProc, ProcessRecords
<1>13. Touches(Mine(p))
  BY <1>1, <1>4, <1>11, CreatedNumber DEF Touches, SameBuild
<1>14. CreatedInv'
  BY <1>1, <1>5, <1>11 DEF IInv, CreatedInv
<1>15. AliasIsComplete'
  <2> SUFFICES ASSUME NEW d \in Datasets, alias'[d] # 0
               PROVE  builds'[alias'[d]].of = d /\ builds'[alias'[d]].full
    BY DEF AliasIsComplete
  <2>1. alias[d] \in Builds /\ alias[d] # b /\ alias'[d] = alias[d]
    BY <1>1, <1>4, AliasInBuilds DEF IInv
  <2> QED BY <1>11, <2>1 DEF IInv, AliasIsComplete
<1>16. ReadyIsBuilt'
  BY <1>1 DEF IInv, ReadyIsBuilt
<1>17. LocalOK(p)' /\ NotReadyOK(p)'
  BY <1>1, <1>2, <1>3, <1>7, <1>9 DEF LocalOK, NotReadyOK, At
<1>18. StoreOK(p)'
  <2>1. StagedOK(p)'
    BY <1>1, <1>4, <1>7, <1>9, <1>11 DEF StagedOK, At
  <2> QED BY <1>1, <1>2, <1>6, <1>7, <1>9, <2>1 DEF StoreOK, TodoOK, BuiltOK, At
<1>19. proc'[p].pc # "write"
  BY <1>6, <1>7, <1>9
<1> QED BY <1>1, <1>2, <1>9, <1>12, <1>13, <1>14, <1>15, <1>16, <1>17, <1>18, <1>19, WorkInv
LEMMA ActivateInv ==
  ASSUME IInv, NEW p \in Processes, Activate(p)
  PROVE  IInv'
<1> DEFINE b == proc[p].staged
           m == Mine(p)
<1>1. /\ At(p, "activate") /\ alias' = [alias EXCEPT ![m] = b] /\ Finished(p)
      /\ UNCHANGED <<registry, builds, created, content, kb, datasetLock, registryLock,
                    session, chat, lexical, edits, jobs, crashes>>
  BY DEF Activate, Files, Locks, Web, Bounds
<1>2. LocalOK(p) /\ Held(p) /\ kb[m] # 0 /\ StagedOK(p)
  BY <1>1 DEF IInv, RecordsInv, StoreInv, StoreOK, Held, At
<1>3. m \in Datasets
  BY <1>1, <1>2 DEF LocalOK, At
<1>4. b \in 1..created /\ builds[b].of = m /\ builds[b].version = kb[m] /\ builds[b].full
  BY <1>1, <1>2 DEF StagedOK, At
<1>5. b \in Builds /\ b # 0 /\ b <= created /\ b \in 0..MaxBuilds
  BY <1>4, CreatedNumber, BuildAssumption DEF Builds
<1>6. /\ OnlyProc(p) /\ proc'[p].pc = "save" /\ proc'[p].next = "done"
      /\ proc'[p].kind = proc[p].kind /\ Mine(p)' = m /\ proc'[p].rec.path = proc[p].rec.path
  BY <1>1, FinishedRecord DEF IInv, Mine
<1>7. alias' \in [Datasets -> 0..MaxBuilds] /\ alias'[m] = b /\ \A d \in Datasets \ {m} : alias'[d] = alias[d]
  BY <1>1, <1>3, <1>5 DEF IInv, TypeOK
<1>8. TypeOK'
  BY <1>1, <1>6, <1>7 DEF IInv, TypeOK, OnlyProc, ProcessRecords
<1>9. Touches(m)
  BY <1>1, <1>4, <1>5, <1>7, CreatedNumber DEF Touches, SameBuild
<1>10. CreatedInv'
  BY <1>1, <1>5, <1>7 DEF IInv, CreatedInv
<1>11. AliasIsComplete'
  BY <1>1, <1>4, <1>7 DEF IInv, AliasIsComplete
<1>12. ReadyIsBuilt'
  BY <1>1, <1>5, <1>7 DEF IInv, ReadyIsBuilt
<1>13. LocalOK(p)' /\ NotReadyOK(p)'
  BY <1>1, <1>2, <1>3, <1>6 DEF LocalOK, NotReadyOK, At
<1>14. StoreOK(p)'
  <2>1. Index(m)' = kb'[m]
    BY <1>1, <1>4, <1>5, <1>6, <1>7 DEF Index
  <2>2. BuiltOK(p)'
    BY <1>1, <1>2, <1>6, <2>1 DEF BuiltOK
  <2> QED BY <1>6, <2>2 DEF StoreOK, StagedOK, TodoOK, At
<1>15. proc'[p].pc # "write"
  BY <1>6
<1> QED BY <1>1, <1>2, <1>6, <1>8, <1>9, <1>10, <1>11, <1>12, <1>13, <1>14, <1>15, WorkInv

LEMMA DeleteAliasInv ==
  ASSUME IInv, NEW p \in Processes, DeleteAlias(p)
  PROVE  IInv'
<1> DEFINE m == Mine(p)
           todo == {b \in Builds : builds[b].of = m}
           r == [proc[p] EXCEPT !.pc = "remove", !.todo = todo]
<1>1. /\ At(p, "unalias") /\ alias' = [alias EXCEPT ![m] = 0] /\ proc' = [proc EXCEPT ![p] = r]
      /\ UNCHANGED <<registry, builds, created, content, kb, datasetLock, registryLock,
                    session, chat, lexical, edits, jobs, crashes>>
  BY DEF DeleteAlias, Files, Locks, Web, Bounds
<1>2. LocalOK(p) /\ proc[p] \in ProcessRecords /\ Held(p) /\ NotReadyOK(p)
  BY <1>1, Locals DEF IInv, RecordsInv, Held, At, NotReadyOK
<1>3. m \in Datasets /\ registry[m].status # "ready"
  BY <1>1, <1>2 DEF LocalOK, NotReadyOK, At
<1>4. \A b \in todo : b <= created /\ builds[b].of = m
  <2> TAKE b \in todo
  <2>1. b \in Builds /\ builds[b].of = m /\ builds[b] # NoBuild
    BY <1>3, BuildAssumption DEF NoBuild
  <2>2. ~(b > created)
    BY <2>1 DEF IInv, CreatedInv
  <2>3. b \in Nat /\ created \in Nat
    BY <2>1, CreatedNumber, BuildAssumption DEF Builds
  <2> QED BY <2>1, <2>2, <2>3
<1>5. 0 \notin todo /\ todo \subseteq Builds
  BY BuildAssumption DEF Builds
<1> HIDE DEF todo
<1>6. /\ r \in ProcessRecords /\ r.pc = "remove" /\ r.kind = proc[p].kind /\ r.todo = todo
      /\ r.of = m /\ r.rec = proc[p].rec
  BY <1>2, <1>5 DEF ProcessRecords, ProcessPoints, Mine
<1> HIDE DEF r
<1>7. OnlyProc(p) /\ proc'[p] = r /\ Mine(p)' = m
  BY <1>1, <1>6, OwnRecord DEF IInv, Mine
<1>8. /\ alias' \in [Datasets -> 0..MaxBuilds] /\ alias'[m] = 0
      /\ \A d \in Datasets \ {m} : alias'[d] = alias[d]
  <2>1. 0 \in 0..MaxBuilds
    BY BuildAssumption
  <2> QED BY <1>1, <1>3, <2>1 DEF IInv, TypeOK
<1>9. TypeOK'
  BY <1>1, <1>7, <1>8 DEF IInv, TypeOK, OnlyProc, ProcessRecords
<1>10. Touches(m)
  BY <1>1, <1>8, CreatedNumber DEF Touches, SameBuild
<1>11. CreatedInv'
  <2>1. 0 <= created
    BY CreatedNumber
  <2> QED BY <1>1, <1>8, <2>1 DEF IInv, CreatedInv
<1>12. AliasIsComplete'
  BY <1>1, <1>8 DEF IInv, AliasIsComplete
<1>13. ReadyIsBuilt'
  BY <1>1, <1>3, <1>8 DEF IInv, ReadyIsBuilt
<1>14. LocalOK(p)' /\ NotReadyOK(p)'
  BY <1>1, <1>2, <1>3, <1>6, <1>7 DEF LocalOK, NotReadyOK, At
<1>15. StoreOK(p)'
  BY <1>1, <1>4, <1>5, <1>6, <1>7, <1>8 DEF StoreOK, StagedOK, TodoOK, BuiltOK, At
<1>16. proc'[p].pc # "write"
  BY <1>6, <1>7
<1> QED BY <1>1, <1>2, <1>7, <1>9, <1>10, <1>11, <1>12, <1>13, <1>14, <1>15, <1>16, WorkInv

LEMMA RemoveCollectionInv ==
  ASSUME IInv, NEW p \in Processes, RemoveCollection(p)
  PROVE  IInv'
<1> DEFINE m == Mine(p)
<1>1. /\ At(p, "remove") /\ UNCHANGED <<registry, created, alias, content, kb, datasetLock, registryLock,
                                      session, chat, lexical, edits, jobs, crashes>>
  BY DEF RemoveCollection, Files, Locks, Web, Bounds
<1>2. LocalOK(p) /\ proc[p] \in ProcessRecords /\ Held(p) /\ TodoOK(p)
  BY <1>1, Locals DEF IInv, RecordsInv, StoreInv, StoreOK, Held, At
<1>3. m \in Datasets
  BY <1>1, <1>2 DEF LocalOK, At
<1>4. alias[m] \notin proc[p].todo /\ (\A b \in proc[p].todo : b <= created /\ builds[b].of = m)
      /\ proc[p].todo \subseteq Builds
  BY <1>1, <1>2 DEF TodoOK, ProcessRecords
<1>5. ReadyIsBuilt'
  BY <1>1 DEF IInv, ReadyIsBuilt
<1>6. CASE Goto(p, "done") /\ UNCHANGED builds
  <2> DEFINE r == [proc[p] EXCEPT !.pc = "done"]
  <2>1. /\ r \in ProcessRecords /\ r.pc = "done" /\ r.kind = proc[p].kind /\ r.of = m /\ r.rec = proc[p].rec
    BY <1>2 DEF ProcessRecords, ProcessPoints, Mine
  <2>2. proc' = [proc EXCEPT ![p] = r]
    BY <1>6 DEF Goto
  <2> HIDE DEF r
  <2>3. OnlyProc(p) /\ proc'[p] = r /\ Mine(p)' = m
    BY <2>1, <2>2, OwnRecord DEF IInv, Mine
  <2>4. TypeOK'
    BY <1>1, <1>6, <2>3 DEF IInv, TypeOK, OnlyProc, ProcessRecords
  <2>5. LocalOK(p)' /\ NotReadyOK(p)' /\ StoreOK(p)'
    BY <1>1, <1>2, <1>3, <2>1, <2>3 DEF LocalOK, NotReadyOK, StoreOK, StagedOK, TodoOK, BuiltOK, At
  <2>6. Touches(m)
    BY <1>1, <1>6, CreatedNumber DEF Touches, SameBuild
  <2>7. CreatedInv' /\ AliasIsComplete'
    BY <1>1, <1>6 DEF IInv, CreatedInv, AliasIsComplete
  <2>8. proc'[p].pc # "write"
    BY <2>1, <2>3
  <2> QED BY <1>1, <1>2, <1>5, <2>3, <2>4, <2>5, <2>6, <2>7, <2>8, WorkInv
<1>7. ASSUME NEW b \in proc[p].todo, builds' = [builds EXCEPT ![b] = NoBuild],
             proc' = [proc EXCEPT ![p].todo = @ \ {b}]
      PROVE  IInv'
  <2> DEFINE r == [proc[p] EXCEPT !.todo = proc[p].todo \ {b}]
  <2>1. /\ r \in ProcessRecords /\ r.pc = "remove" /\ r.kind = proc[p].kind /\ r.of = m /\ r.rec = proc[p].rec
        /\ r.todo = proc[p].todo \ {b}
    BY <1>1, <1>2 DEF ProcessRecords, ProcessPoints, Mine, At
  <2>2. proc' = [proc EXCEPT ![p] = r]
    BY <1>7
  <2> HIDE DEF r
  <2>3. OnlyProc(p) /\ proc'[p] = r /\ Mine(p)' = m
    BY <2>1, <2>2, OwnRecord DEF IInv, Mine
  <2>4. NoBuild \in [of : Datasets \union {0}, version : Nat, full : BOOLEAN, old : BOOLEAN]
    BY DEF NoBuild
  <2>5. /\ builds' \in [Builds -> [of : Datasets \union {0}, version : Nat, full : BOOLEAN, old : BOOLEAN]]
        /\ builds'[b] = NoBuild /\ \A c \in Builds : c # b => builds'[c] = builds[c]
    BY <1>4, <1>7, <2>4 DEF IInv, TypeOK
  <2>6. TypeOK'
    BY <1>1, <2>3, <2>5 DEF IInv, TypeOK, OnlyProc, ProcessRecords
  <2>7. b \in Builds /\ builds[b].of = m
    BY <1>4
  <2>8. Touches(m)
    BY <1>1, <2>5, <2>7, CreatedNumber DEF Touches, SameBuild
  <2>9. CreatedInv'
    BY <1>1, <2>5 DEF IInv, CreatedInv
  <2>10. AliasIsComplete'
    <3> SUFFICES ASSUME NEW d \in Datasets, alias'[d] # 0
                 PROVE  builds'[alias'[d]].of = d /\ builds'[alias'[d]].full
      BY DEF AliasIsComplete
    <3>1. alias[d] \in Builds /\ alias'[d] = alias[d] /\ builds[alias[d]].of = d
      BY <1>1, AliasInBuilds DEF IInv, AliasIsComplete
    <3>2. alias[d] # b
      BY <1>4, <2>7, <3>1
    <3> QED BY <2>5, <3>1, <3>2 DEF IInv, AliasIsComplete
  <2>11. LocalOK(p)' /\ NotReadyOK(p)'
    BY <1>1, <1>2, <1>3, <2>1, <2>3 DEF LocalOK, NotReadyOK, At
  <2>12. TodoOK(p)'
    BY <1>1, <1>4, <2>1, <2>3, <2>5 DEF TodoOK
  <2>13. StoreOK(p)'
    BY <2>1, <2>3, <2>12 DEF StoreOK, StagedOK, BuiltOK, At
  <2>14. proc'[p].pc # "write"
    BY <2>1, <2>3
  <2> QED BY <1>1, <1>2, <1>5, <2>3, <2>6, <2>8, <2>9, <2>10, <2>11, <2>13, <2>14, WorkInv
<1> QED BY <1>6, <1>7 DEF RemoveCollection

LEMMA ProcessStepInv ==
  ASSUME IInv, NEW p \in Processes, ProcessStep(p)
  PROVE  IInv'
BY LockInv, LoadRegistryInv, SaveRegistryInv, ReadSourceInv, ReplaceKbInv, StageIndexInv, FillInv,
   ActivateInv, DeleteFilesInv, DeleteAliasInv, PlanGcInv, RemoveCollectionInv, DoneInv DEF ProcessStep

-----------------------------------------------------------------------------
(* Steps of no process. *)

LEMMA EnvironmentInv ==
  ASSUME IInv, UNCHANGED <<registry, registryLock, proc>>, Same, TypeOK', CreatedInv',
         \A p \in Processes : Held(p) => datasetLock'[Mine(p)] = p,
         ChatHolds' => datasetLock'[Asked'] = "chat", ChatInv'
  PROVE  IInv'
<1>1. StoreInv'
  BY SameKnown DEF StoreInv
<1>2. RecordsInv'
  BY DEF IInv, RecordsInv, LocalOK, At, Mine
<1>3. LocksInv'
  BY DEF IInv, LocksInv, Held, At, Mine
<1> QED BY <1>1, <1>2, <1>3, SameStore DEF IInv

LEMMA EditInv ==
  ASSUME IInv, NEW path \in Paths, Edit(path)
  PROVE  IInv'
<1>1. /\ edits' = edits + 1 /\ content' = [content EXCEPT ![path] = Cardinality(Paths) + edits']
      /\ UNCHANGED <<registry, kb, proc, jobs, crashes, builds, created, alias, datasetLock, registryLock,
                    session, chat, lexical>>
  BY DEF Edit, Collections, Locks, Web
<1>2. edits' \in Nat /\ content' \in [Paths -> Nat]
  <2>1. Cardinality(Paths) \in Nat /\ edits \in Nat
    BY BuildAssumption, FS_CardinalityType DEF IInv, TypeOK
  <2>2. edits' \in Nat /\ Cardinality(Paths) + edits' \in Nat
    BY <1>1, <2>1
  <2> QED BY <1>1, <2>2 DEF IInv, TypeOK
<1>3. Same
  BY <1>1 DEF Same, SameBuild
<1>4. TypeOK'
  BY <1>1, <1>2 DEF IInv, TypeOK
<1>5. CreatedInv' /\ ChatInv'
  BY <1>1, <1>3, SameStore DEF IInv, CreatedInv
<1>6. ChatHolds' => datasetLock'[Asked'] = "chat"
  BY <1>1 DEF IInv, LocksInv, ChatHolds, Asked
<1> QED BY <1>1, <1>3, <1>4, <1>5, <1>6, EnvironmentInv DEF IInv, LocksInv

LEMMA AgeInv ==
  ASSUME IInv, NEW b \in Builds, Age(b)
  PROVE  IInv'
<1>1. /\ builds[b].of # 0 /\ builds' = [builds EXCEPT ![b].old = TRUE]
      /\ UNCHANGED <<registry, created, alias, proc, content, kb, datasetLock, registryLock,
                    session, chat, lexical, edits, jobs, crashes>>
  BY DEF Age, Files, Locks, Web, Bounds
<1>2. builds \in [Builds -> [of : Datasets \union {0}, version : Nat, full : BOOLEAN, old : BOOLEAN]]
  BY DEF IInv, TypeOK
<1>3. /\ builds' \in [Builds -> [of : Datasets \union {0}, version : Nat, full : BOOLEAN, old : BOOLEAN]]
      /\ \A c \in Builds : c # b => builds'[c] = builds[c]
      /\ builds'[b].of = builds[b].of /\ builds'[b].version = builds[b].version
      /\ builds'[b].full = builds[b].full
  BY <1>1, <1>2
<1>4. Same
  BY <1>1, <1>3 DEF Same, SameBuild
<1>5. TypeOK'
  BY <1>1, <1>3 DEF IInv, TypeOK
<1>6. CreatedInv'
  <2>1. NoBuild.of = 0
    BY DEF NoBuild
  <2>2. ~(b > created)
    BY <1>1, <2>1 DEF IInv, CreatedInv
  <2> QED BY <1>1, <1>3, <2>2 DEF IInv, CreatedInv
<1>7. ChatInv'
  BY <1>1, <1>4, SameStore
<1>8. ChatHolds' => datasetLock'[Asked'] = "chat"
  BY <1>1 DEF IInv, LocksInv, ChatHolds, Asked
<1> QED BY <1>1, <1>4, <1>5, <1>6, <1>7, <1>8, EnvironmentInv DEF IInv, LocksInv
-----------------------------------------------------------------------------
(* Conversations and the chat worker. *)

LEMMA WebStep ==
  ASSUME IInv, Store, crashes' \in Nat,
         session' \in [Sessions -> [pc : {"none", "half", "pinned", "closed"}, kb : Nat, index : Nat]],
         chat' \in [pc : {"idle", "lock", "activate", "facts", "search", "done"},
                    session : Sessions \union {0}, status : {"absent", "registered", "ready"},
                    facts : Nat, dense : Nat, sparse : Nat],
         lexical' \in [Datasets -> Nat], jobs' \in Nat,
         datasetLock' \in [Datasets -> Processes \union {Nobody, "chat"}],
         \A d \in Datasets : datasetLock[d] \in Processes => datasetLock'[d] = datasetLock[d],
         ChatHolds' => datasetLock'[Asked'] = "chat", ChatInv'
  PROVE  IInv'
<1>1. Same /\ CreatedInv'
  BY DEF Store, Same, SameBuild, IInv, CreatedInv
<1>2. TypeOK'
  BY DEF Store, IInv, TypeOK
<1>3. \A p \in Processes : Held(p) => datasetLock'[Mine(p)] = p
  BY LocksExclude
<1> QED BY <1>1, <1>2, <1>3, EnvironmentInv DEF Store

LEMMA WebTypes ==
  ASSUME IInv
  PROVE  /\ session \in [Sessions -> [pc : {"none", "half", "pinned", "closed"}, kb : Nat, index : Nat]]
         /\ chat \in [pc : {"idle", "lock", "activate", "facts", "search", "done"},
                      session : Sessions \union {0}, status : {"absent", "registered", "ready"},
                      facts : Nat, dense : Nat, sparse : Nat]
         /\ lexical \in [Datasets -> Nat] /\ jobs \in Nat /\ jobs + 1 \in Nat
         /\ crashes \in Nat /\ crashes + 1 \in Nat
         /\ datasetLock \in [Datasets -> Processes \union {Nobody, "chat"}]
         /\ kb \in [Datasets -> Nat] /\ registry \in [Datasets -> Records]
         /\ \A d \in Datasets : Index(d) \in Nat
         /\ (ChatHolds => datasetLock[Asked] = "chat")
         /\ (chat.pc # "idle" => Asked \in Datasets)
<1>1. /\ session \in [Sessions -> [pc : {"none", "half", "pinned", "closed"}, kb : Nat, index : Nat]]
      /\ chat \in [pc : {"idle", "lock", "activate", "facts", "search", "done"},
                   session : Sessions \union {0}, status : {"absent", "registered", "ready"},
                   facts : Nat, dense : Nat, sparse : Nat]
      /\ lexical \in [Datasets -> Nat] /\ jobs \in Nat /\ crashes \in Nat
      /\ datasetLock \in [Datasets -> Processes \union {Nobody, "chat"}]
      /\ kb \in [Datasets -> Nat] /\ registry \in [Datasets -> Records]
  BY DEF IInv, TypeOK
<1>2. \A d \in Datasets : Index(d) \in Nat
  <2> TAKE d \in Datasets
  <2>1. CASE alias[d] = 0
    BY <2>1 DEF Index
  <2>2. CASE alias[d] # 0
    <3>1. alias[d] \in Builds
      BY <2>2, AliasInBuilds DEF IInv
    <3>2. builds[alias[d]].version \in Nat
      BY <3>1 DEF IInv, TypeOK
    <3> QED BY <2>2, <3>2 DEF Index
  <2> QED BY <2>1, <2>2
<1>3. jobs + 1 \in Nat /\ crashes + 1 \in Nat
  BY <1>1
<1>4. (ChatHolds => datasetLock[Asked] = "chat") /\ (chat.pc # "idle" => Asked \in Datasets)
  BY BuildAssumption DEF IInv, LocksInv, ChatInv, Asked
<1> QED BY <1>1, <1>2, <1>3, <1>4

(* A conversation that is not the one asked about changes its pin. *)
LEMMA PinInv ==
  ASSUME IInv, Store, UNCHANGED <<datasetLock, chat, lexical, jobs>>, NEW s \in Sessions,
         session[s].pc \in {"none", "half"},
         NEW pin \in [pc : {"none", "half", "pinned", "closed"}, kb : Nat, index : Nat],
         session' = [session EXCEPT ![s] = pin]
  PROVE  IInv'
<1>1. /\ session' \in [Sessions -> [pc : {"none", "half", "pinned", "closed"}, kb : Nat, index : Nat]]
      /\ \A t \in Sessions \ {s} : session'[t] = session[t]
  BY WebTypes
<1>2. ChatInv'
  <2>1. chat.pc # "idle" => chat.session \in Sessions \ {s}
    BY DEF IInv, ChatInv
  <2>2. chat.pc # "idle" => session'[chat.session] = session[chat.session]
    BY <1>1, <2>1
  <2> QED BY <2>2 DEF IInv, ChatInv, SameGeneration, Store, Index, Asked, AnswerFromPin
<1>3. ChatHolds' => datasetLock'[Asked'] = "chat"
  BY WebTypes DEF ChatHolds, Asked
<1> QED BY <1>1, <1>2, <1>3, WebStep, WebTypes DEF Store

LEMMA InspectKbInv ==
  ASSUME IInv, NEW s \in Sessions, InspectKb(s)
  PROVE  IInv'
<1> DEFINE pin == [pc |-> "half", kb |-> kb[ReportOf[s]], index |-> 0]
<1>1. pin \in [pc : {"none", "half", "pinned", "closed"}, kb : Nat, index : Nat]
  BY WebTypes, BuildAssumption
<1>2. /\ session[s].pc = "none" /\ session' = [session EXCEPT ![s] = pin]
      /\ UNCHANGED <<datasetLock, chat, lexical, jobs>> /\ Store
  BY DEF InspectKb
<1> HIDE DEF pin
<1> QED BY <1>1, <1>2, PinInv

LEMMA InspectIndexInv ==
  ASSUME IInv, NEW s \in Sessions, InspectIndex(s)
  PROVE  IInv'
<1> DEFINE pin == IF Queryable(ReportOf[s])
                    THEN [session[s] EXCEPT !.pc = "pinned", !.index = Index(ReportOf[s])] ELSE NoPin
<1>1. pin \in [pc : {"none", "half", "pinned", "closed"}, kb : Nat, index : Nat]
  <2>1. Index(ReportOf[s]) \in Nat
    BY WebTypes, BuildAssumption
  <2>2. session[s] \in [pc : {"none", "half", "pinned", "closed"}, kb : Nat, index : Nat]
    BY WebTypes
  <2> QED BY <2>1, <2>2 DEF NoPin
<1>2. /\ session[s].pc = "half" /\ session' = [session EXCEPT ![s] = pin]
      /\ UNCHANGED <<datasetLock, chat, lexical, jobs>> /\ Store
  BY DEF InspectIndex
<1> HIDE DEF pin
<1> QED BY <1>1, <1>2, PinInv

LEMMA AskInv ==
  ASSUME IInv, NEW s \in Sessions, Ask(s)
  PROVE  IInv'
<1>1. /\ chat.pc = "idle" /\ session[s].pc = "pinned" /\ jobs' = jobs + 1
      /\ UNCHANGED <<datasetLock, lexical>> /\ Store
  BY DEF Ask
<1>2. CASE registry[ReportOf[s]] = NoRecord
  <2>1. session' = [session EXCEPT ![s].pc = "closed"] /\ UNCHANGED chat
    BY <1>2 DEF Ask
  <2>2. session' \in [Sessions -> [pc : {"none", "half", "pinned", "closed"}, kb : Nat, index : Nat]]
    BY <2>1, WebTypes
  <2>3. ChatInv'
    BY <1>1, <2>1 DEF IInv, ChatInv, AnswerFromPin
  <2>4. ~ChatHolds'
    BY <1>1, <2>1 DEF ChatHolds
  <2> QED BY <1>1, <2>1, <2>2, <2>3, <2>4, WebStep, WebTypes DEF Store
<1>3. CASE registry[ReportOf[s]] # NoRecord
  <2> DEFINE c == [IdleChat EXCEPT !.pc = "lock", !.session = s, !.status = registry[ReportOf[s]].status]
  <2>1. chat' = c /\ UNCHANGED session
    BY <1>3 DEF Ask
  <2>2. registry[ReportOf[s]].status \in {"absent", "registered", "ready"}
    BY WebTypes, BuildAssumption DEF Records
  <2>3. /\ c \in [pc : {"idle", "lock", "activate", "facts", "search", "done"},
                  session : Sessions \union {0}, status : {"absent", "registered", "ready"},
                  facts : Nat, dense : Nat, sparse : Nat]
        /\ c.pc = "lock" /\ c.session = s /\ c.dense = 0
    BY <2>2 DEF IdleChat
  <2> HIDE DEF c
  <2>4. ChatInv'
    BY <1>1, <2>1, <2>3 DEF ChatInv, AnswerFromPin
  <2>5. ~ChatHolds'
    BY <2>1, <2>3 DEF ChatHolds
  <2> QED BY <1>1, <2>1, <2>3, <2>4, <2>5, WebStep, WebTypes DEF Store
<1> QED BY <1>2, <1>3

LEMMA ChatStepInv ==
  ASSUME IInv, ChatStep
  PROVE  IInv'
<1> DEFINE chats == [pc : {"idle", "lock", "activate", "facts", "search", "done"},
                     session : Sessions \union {0}, status : {"absent", "registered", "ready"},
                     facts : Nat, dense : Nat, sparse : Nat]
<1>1. CASE LockForQuestion
  <2> DEFINE c == [chat EXCEPT !.pc = "activate"]
  <2>1. /\ chat.pc = "lock" /\ datasetLock[Asked] = Nobody /\ chat' = c
        /\ datasetLock' = [datasetLock EXCEPT ![Asked] = "chat"]
        /\ UNCHANGED <<session, lexical, jobs>> /\ Store
    BY <1>1 DEF LockForQuestion, DatasetIsFree
  <2>2. c \in chats /\ c.pc = "activate" /\ c.session = chat.session /\ c.dense = chat.dense
    BY WebTypes
  <2> HIDE DEF c
  <2>3. Asked' = Asked /\ Asked \in Datasets
    BY <2>1, <2>2, WebTypes DEF Asked
  <2>4. /\ datasetLock' \in [Datasets -> Processes \union {Nobody, "chat"}] /\ datasetLock'[Asked] = "chat"
        /\ \A d \in Datasets : datasetLock[d] \in Processes => datasetLock'[d] = datasetLock[d]
    BY <2>1, <2>3, WebTypes, BuildAssumption
  <2>5. ChatInv'
    BY <2>1, <2>2 DEF IInv, ChatInv, AnswerFromPin
  <2> QED BY <2>1, <2>2, <2>3, <2>4, <2>5, WebStep, WebTypes DEF Store
<1>2. CASE ActivateForQuestion
  <2> DEFINE open == kb[Asked] # 0 /\ Queryable(Asked) /\ SameGeneration(session[chat.session], Asked)
             go == chat.status = "ready" /\ open
             c == [chat EXCEPT !.pc = IF go THEN "facts" ELSE "done"]
  <2>1. /\ chat.pc = "activate" /\ chat' = c
        /\ session' \in {session, [session EXCEPT ![chat.session].pc = "closed"]}
        /\ (go => session' = session)
        /\ UNCHANGED <<datasetLock, lexical, jobs>> /\ Store
    BY <1>2 DEF ActivateForQuestion
  <2>2. /\ c \in chats /\ c.pc \in {"facts", "done"} /\ (c.pc = "facts" => go)
        /\ c.session = chat.session /\ c.dense = chat.dense
    BY WebTypes
  <2> HIDE DEF c
  <2>3. chat.session \in Sessions /\ chat.dense = 0 /\ session[chat.session].pc \in {"pinned", "closed"}
    BY <2>1 DEF IInv, ChatInv
  <2>4. session' \in [Sessions -> [pc : {"none", "half", "pinned", "closed"}, kb : Nat, index : Nat]]
        /\ session'[chat.session].pc \in {"pinned", "closed"}
    BY <2>1, <2>3, WebTypes
  <2>5. Asked' = Asked
    BY <2>1, <2>2 DEF Asked
  <2>6. ChatHolds' => datasetLock'[Asked'] = "chat"
    BY <2>1, <2>5, WebTypes DEF ChatHolds
  <2>7. ChatInv'
    BY <2>1, <2>2, <2>3, <2>4, <2>5 DEF ChatInv, AnswerFromPin, SameGeneration, Store, Index
  <2> QED BY <2>1, <2>2, <2>4, <2>6, <2>7, WebStep, WebTypes DEF Store
<1>3. CASE ReadFacts
  <2> DEFINE c == [chat EXCEPT !.pc = "search", !.facts = kb[Asked]]
  <2>1. chat.pc = "facts" /\ chat' = c /\ UNCHANGED <<session, datasetLock, lexical, jobs>> /\ Store
    BY <1>3 DEF ReadFacts
  <2>2. kb[Asked] \in Nat
    BY <2>1, WebTypes
  <2>3. /\ c \in chats /\ c.pc = "search" /\ c.session = chat.session /\ c.dense = chat.dense
        /\ c.facts = kb[Asked]
    BY <2>2, WebTypes
  <2> HIDE DEF c
  <2>4. Asked' = Asked
    BY <2>1, <2>3 DEF Asked
  <2>5. ChatHolds' => datasetLock'[Asked'] = "chat"
    BY <2>1, <2>4, WebTypes DEF ChatHolds
  <2>6. ChatInv'
    BY <2>1, <2>3, <2>4 DEF IInv, ChatInv, AnswerFromPin, SameGeneration, Store, Index
  <2> QED BY <2>1, <2>3, <2>5, <2>6, WebStep, WebTypes DEF Store
<1>4. CASE Search
  <2> DEFINE c == [chat EXCEPT !.pc = "done", !.dense = Index(Asked), !.sparse = lexical'[Asked]]
  <2>1. /\ chat.pc = "search" /\ chat' = c
        /\ lexical' = [lexical EXCEPT ![Asked] = IF lexical[Asked] = 0 THEN Index(Asked) ELSE lexical[Asked]]
        /\ UNCHANGED <<session, datasetLock, jobs>> /\ Store
    BY <1>4 DEF Search
  <2>2. Asked \in Datasets /\ Index(Asked) \in Nat /\ lexical' \in [Datasets -> Nat]
    <3>1. Asked \in Datasets /\ Index(Asked) \in Nat /\ lexical \in [Datasets -> Nat]
      BY <2>1, WebTypes
    <3> QED BY <2>1, <3>1
  <2>3. /\ c \in chats /\ c.pc = "done" /\ c.session = chat.session /\ c.dense = Index(Asked)
        /\ c.facts = chat.facts
    BY <2>2, WebTypes
  <2> HIDE DEF c
  <2>4. Asked' = Asked
    BY <2>1, <2>3 DEF Asked
  <2>5. ChatHolds' => datasetLock'[Asked'] = "chat"
    BY <2>1, <2>4, WebTypes DEF ChatHolds
  <2>6. ChatInv'
    BY <2>1, <2>3, <2>4 DEF IInv, ChatInv, AnswerFromPin, SameGeneration
  <2> QED BY <2>1, <2>2, <2>3, <2>5, <2>6, WebStep, WebTypes DEF Store
<1>5. CASE EndQuestion
  <2>1. /\ chat.pc = "done" /\ datasetLock' = [datasetLock EXCEPT ![Asked] = Nobody] /\ chat' = IdleChat
        /\ UNCHANGED <<session, lexical, jobs>> /\ Store
    BY <1>5 DEF EndQuestion
  <2>2. IdleChat \in chats /\ IdleChat.pc = "idle" /\ IdleChat.dense = 0
    BY DEF IdleChat
  <2>3. Asked \in Datasets /\ datasetLock[Asked] = "chat"
    BY <2>1, WebTypes DEF ChatHolds
  <2>4. /\ datasetLock' \in [Datasets -> Processes \union {Nobody, "chat"}]
        /\ \A d \in Datasets : datasetLock[d] \in Processes => datasetLock'[d] = datasetLock[d]
    BY <2>1, <2>3, WebTypes, BuildAssumption
  <2>5. ChatInv' /\ ~ChatHolds'
    BY <2>1, <2>2 DEF ChatInv, AnswerFromPin, ChatHolds
  <2> QED BY <2>1, <2>2, <2>4, <2>5, WebStep, WebTypes DEF Store
<1> QED BY <1>1, <1>2, <1>3, <1>4, <1>5 DEF ChatStep

LEMMA ChatCrashInv ==
  ASSUME IInv, ChatCrash
  PROVE  IInv'
<1>1. /\ crashes' = crashes + 1 /\ chat' = IdleChat /\ lexical' = [d \in Datasets |-> 0]
      /\ datasetLock' = [d \in Datasets |-> IF datasetLock[d] = "chat" THEN Nobody ELSE datasetLock[d]]
      /\ UNCHANGED <<registry, registryLock, proc, session, edits, jobs, content, kb, builds, created, alias>>
  BY DEF ChatCrash, Files, Collections
<1>2. /\ IdleChat \in [pc : {"idle", "lock", "activate", "facts", "search", "done"},
                       session : Sessions \union {0}, status : {"absent", "registered", "ready"},
                       facts : Nat, dense : Nat, sparse : Nat]
      /\ IdleChat.pc = "idle" /\ IdleChat.dense = 0
  BY DEF IdleChat
<1>3. lexical' \in [Datasets -> Nat]
  BY <1>1
<1>4. /\ datasetLock' \in [Datasets -> Processes \union {Nobody, "chat"}]
      /\ \A d \in Datasets : datasetLock[d] \in Processes => datasetLock'[d] = datasetLock[d]
  BY <1>1, WebTypes, BuildAssumption
<1>5. crashes' \in Nat
  BY <1>1, WebTypes
<1>6. TypeOK'
  BY <1>1, <1>2, <1>3, <1>4, <1>5 DEF IInv, TypeOK
<1>7. Same /\ CreatedInv'
  BY <1>1 DEF Same, SameBuild, IInv, CreatedInv
<1>8. ChatInv' /\ ~ChatHolds'
  BY <1>1, <1>2 DEF ChatInv, AnswerFromPin, ChatHolds
<1>9. \A p \in Processes : Held(p) => datasetLock'[Mine(p)] = p
  BY <1>4, LocksExclude
<1> QED BY <1>1, <1>6, <1>7, <1>8, <1>9, EnvironmentInv
-----------------------------------------------------------------------------

LEMMA InitInv == Init => IInv
<1> SUFFICES ASSUME Init PROVE IInv
  OBVIOUS
<1>1. /\ registry = [d \in Datasets |-> NoRecord] /\ content = [p \in Paths |-> p]
      /\ kb = [d \in Datasets |-> 0] /\ builds = [b \in Builds |-> NoBuild] /\ created = 0
      /\ alias = [d \in Datasets |-> 0] /\ datasetLock = [d \in Datasets |-> Nobody]
      /\ registryLock = Nobody /\ proc = [p \in Processes |-> IdleProcess]
      /\ session = [s \in Sessions |-> NoPin] /\ chat = IdleChat /\ lexical = [d \in Datasets |-> 0]
      /\ edits = 0 /\ jobs = 0 /\ crashes = 0
  BY DEF Init
<1>2. NoRecord \in Records /\ NoRecord.status = "absent"
  BY DEF NoRecord, Records
<1>3. 0 \in 0..MaxBuilds /\ 0 \in Nat
  BY BuildAssumption
<1>4. \A p \in Processes : proc[p].pc = "idle" /\ proc[p] = IdleProcess
  BY <1>1 DEF IdleProcess
<1>5. chat.pc = "idle" /\ chat.dense = 0
  BY <1>1 DEF IdleChat
<1>6. TypeOK
  <2>1. registry \in [Datasets -> Records]
    BY <1>1, <1>2
  <2>2. content \in [Paths -> Nat]
    BY <1>1, BuildAssumption
  <2>3. kb \in [Datasets -> Nat] /\ lexical \in [Datasets -> Nat] /\ alias \in [Datasets -> 0..MaxBuilds]
        /\ created \in 0..MaxBuilds /\ edits \in Nat /\ jobs \in Nat /\ crashes \in Nat
    BY <1>1, <1>3
  <2>4. builds \in [Builds -> [of : Datasets \union {0}, version : Nat, full : BOOLEAN, old : BOOLEAN]]
    <3>1. NoBuild \in [of : Datasets \union {0}, version : Nat, full : BOOLEAN, old : BOOLEAN]
      BY DEF NoBuild
    <3> QED BY <1>1, <3>1
  <2>5. proc \in [Processes -> ProcessRecords]
    <3>1. [d \in Datasets |-> NoRecord] \in [Datasets -> Records]
      BY <1>2
    <3>2. IdleProcess \in ProcessRecords
      BY <1>2, <1>3, <3>1 DEF IdleProcess, ProcessRecords, ProcessPoints
    <3> QED BY <1>1, <3>2
  <2>6. session \in [Sessions -> [pc : {"none", "half", "pinned", "closed"}, kb : Nat, index : Nat]]
    <3>1. NoPin \in [pc : {"none", "half", "pinned", "closed"}, kb : Nat, index : Nat]
      BY DEF NoPin
    <3> QED BY <1>1, <3>1
  <2>7. chat \in [pc : {"idle", "lock", "activate", "facts", "search", "done"},
                  session : Sessions \union {0}, status : {"absent", "registered", "ready"},
                  facts : Nat, dense : Nat, sparse : Nat]
    BY <1>1 DEF IdleChat
  <2>8. datasetLock \in [Datasets -> Processes \union {Nobody, "chat"}] /\ registryLock \in Processes \union {Nobody}
    BY <1>1
  <2> QED BY <2>1, <2>2, <2>3, <2>4, <2>5, <2>6, <2>7, <2>8 DEF TypeOK, ProcessRecords
<1>7. LocksInv
  BY <1>4, <1>5 DEF LocksInv, Held, ChatHolds, At
<1>8. RecordsInv
  <2>1. \A p \in Processes : LocalOK(p)
    BY <1>4 DEF LocalOK, At
  <2> QED BY <1>1, <1>4, <2>1 DEF RecordsInv
<1>9. CreatedInv
  <2>1. \A d \in Datasets : alias[d] = 0
    BY <1>1
  <2>2. \A b \in Builds : builds[b] = NoBuild
    BY <1>1
  <2>3. 0 <= created
    BY <1>1
  <2> QED BY <2>1, <2>2, <2>3 DEF CreatedInv
<1>10. AliasIsComplete /\ ReadyIsBuilt
  BY <1>1, <1>2 DEF AliasIsComplete, ReadyIsBuilt
<1>11. StoreInv
  BY <1>4 DEF StoreInv, StoreOK, StagedOK, TodoOK, BuiltOK, At
<1>12. ChatInv
  BY <1>5 DEF ChatInv, AnswerFromPin
<1> QED BY <1>6, <1>7, <1>8, <1>9, <1>10, <1>11, <1>12 DEF IInv

LEMMA StutterInv == IInv /\ UNCHANGED vars => IInv'
<1> SUFFICES ASSUME IInv, UNCHANGED vars PROVE IInv'
  OBVIOUS
<1>1. UNCHANGED <<registry, content, kb, builds, created, alias, datasetLock, registryLock, proc,
                 session, chat, lexical, edits, jobs, crashes>>
  BY DEF vars
<1>2. Same /\ TypeOK' /\ CreatedInv'
  BY <1>1 DEF Same, SameBuild, IInv, TypeOK, CreatedInv
<1>3. ChatInv' /\ (ChatHolds' => datasetLock'[Asked'] = "chat")
  BY <1>1, <1>2, SameStore DEF IInv, LocksInv, ChatHolds, Asked
<1>4. \A p \in Processes : Held(p) => datasetLock'[Mine(p)] = p
  BY <1>1 DEF IInv, LocksInv
<1> QED BY <1>1, <1>2, <1>3, <1>4, EnvironmentInv

LEMMA NextInv == IInv /\ [Next]_vars => IInv'
<1> SUFFICES ASSUME IInv, [Next]_vars PROVE IInv'
  OBVIOUS
<1>1. CASE UNCHANGED vars
  BY <1>1, StutterInv
<1>2. CASE \E p \in Processes : \E d \in Datasets :
             \/ \E path \in Paths : BeginImport(p, d, path) \/ BeginRegister(p, d, path)
             \/ BeginAsk(p, d) \/ BeginDelete(p, d) \/ BeginGc(p, d)
  BY <1>2, BeginsInv
<1>3. CASE \E p \in Processes : ProcessStep(p) \/ Crash(p)
  BY <1>3, ProcessStepInv, CrashInv
<1>4. CASE \E path \in Paths : Edit(path)
  BY <1>4, EditInv
<1>5. CASE \E b \in Builds : Age(b)
  BY <1>5, AgeInv
<1>6. CASE \E s \in Sessions : InspectKb(s) \/ InspectIndex(s) \/ Ask(s)
  BY <1>6, InspectKbInv, InspectIndexInv, AskInv
<1>7. CASE ChatStep \/ ChatCrash
  BY <1>7, ChatStepInv, ChatCrashInv
<1> QED BY <1>1, <1>2, <1>3, <1>4, <1>5, <1>6, <1>7 DEF Next

LEMMA Invariant == Spec => []IInv
BY InitInv, NextInv, PTL DEF Spec

(* The variables of the report store keep their types: registry records,     *)
(* collections, locks, the locals of processes, pins and questions.          *)
THEOREM TypeCorrect == Spec => []TypeOK
<1>1. IInv => TypeOK
  BY DEF IInv
<1> QED BY Invariant, <1>1, PTL

-----------------------------------------------------------------------------
(* The facts and the index of a ready report.                               *)

SameVersion(d) ==
  alias'[d] = alias[d] /\ (alias[d] # 0 => builds'[alias[d]].version = builds[alias[d]].version)

LEMMA StillAgrees ==
  ASSUME NEW d \in Datasets, Agrees(d), kb'[d] = kb[d], SameVersion(d),
         registry'[d].status = "ready" => registry[d].status = "ready"
  PROVE  Agrees(d)'
BY DEF Agrees, Index, SameVersion

LEMMA StagedAgrees ==
  ASSUME IInv, NEW p \in Processes, NEW d \in Datasets, Agrees(d),
         StageIndex(p) \/ Fill(p) \/ RemoveCollection(p)
  PROVE  Agrees(d)'
<1>1. UNCHANGED <<registry, alias, kb>>
  BY DEF StageIndex, Fill, RemoveCollection, Files
<1>2. ASSUME alias[d] # 0 PROVE builds'[alias[d]].version = builds[alias[d]].version
  <2>1. alias[d] \in Builds /\ builds[alias[d]].of = d /\ alias[d] <= created
    BY <1>2, AliasInBuilds DEF IInv, AliasIsComplete, CreatedInv
  <2>2. builds \in [Builds -> [of : Datasets \union {0}, version : Nat, full : BOOLEAN, old : BOOLEAN]]
        /\ created \in Nat /\ alias[d] \in Nat
    <3>1. alias[d] \in Nat
      BY <2>1, BuildAssumption DEF Builds
    <3> QED BY <3>1, CreatedNumber DEF IInv, TypeOK
  <2>3. CASE UNCHANGED builds
    BY <2>3
  <2>4. ASSUME StageIndex(p), ~UNCHANGED builds PROVE builds'[alias[d]] = builds[alias[d]]
    <3>1. created' = created + 1
          /\ builds' = [builds EXCEPT ![created'] = [NoBuild EXCEPT !.of = Mine(p), !.version = kb[Mine(p)]]]
      BY <2>4 DEF StageIndex
    <3>2. alias[d] # created'
      BY <2>1, <2>2, <3>1
    <3> QED BY <2>1, <2>2, <3>1, <3>2
  <2>5. ASSUME Fill(p), ~UNCHANGED builds PROVE builds'[alias[d]].version = builds[alias[d]].version
    <3>1. builds' = [builds EXCEPT ![proc[p].staged].full = TRUE]
      BY <2>5 DEF Fill
    <3> QED BY <2>1, <2>2, <3>1
  <2>6. ASSUME RemoveCollection(p), ~UNCHANGED builds PROVE builds'[alias[d]] = builds[alias[d]]
    <3>1. PICK b \in proc[p].todo : builds' = [builds EXCEPT ![b] = NoBuild]
      BY <2>6 DEF RemoveCollection
    <3>2. At(p, "remove") /\ TodoOK(p)
      BY <2>6 DEF RemoveCollection, IInv, StoreInv, StoreOK
    <3>3. alias[d] # b
      BY <2>1, <3>2 DEF TodoOK
    <3> QED BY <2>1, <2>2, <3>1, <3>3
  <2> QED BY <2>3, <2>4, <2>5, <2>6
<1> QED BY <1>1, <1>2, StillAgrees DEF SameVersion

LEMMA ActivatedAgrees ==
  ASSUME IInv, NEW p \in Processes, NEW d \in Datasets, Agrees(d), Activate(p)
  PROVE  Agrees(d)'
<1>1. /\ At(p, "activate") /\ alias' = [alias EXCEPT ![Mine(p)] = proc[p].staged]
      /\ UNCHANGED <<registry, builds, kb>> /\ alias \in [Datasets -> 0..MaxBuilds]
  BY DEF Activate, Files, IInv, TypeOK
<1>2. CASE d # Mine(p)
  BY <1>1, <1>2, StillAgrees DEF SameVersion
<1>3. CASE d = Mine(p)
  <2>1. proc[p].staged \in 1..created /\ builds[proc[p].staged].version = kb[d]
    BY <1>1, <1>3 DEF IInv, StoreInv, StoreOK, StagedOK, At
  <2>2. proc[p].staged # 0
    BY <2>1, CreatedNumber
  <2>3. alias'[d] = proc[p].staged
    BY <1>1, <1>3
  <2> QED BY <1>1, <2>1, <2>2, <2>3 DEF Agrees, Index
<1> QED BY <1>2, <1>3

LEMMA SavedAgrees ==
  ASSUME IInv, NEW p \in Processes, NEW d \in Datasets, Agrees(d), SaveRegistry(p)
  PROVE  Agrees(d)'
<1> DEFINE me == proc[p]
           rec == IF me.kind = "delete" THEN NoRecord ELSE Merged(me.rec, me.read[Mine(p)])
<1>1. /\ At(p, "write") /\ registry' = [me.read EXCEPT ![Mine(p)] = rec] /\ UNCHANGED <<kb, alias, builds>>
      /\ registry \in [Datasets -> Records]
  BY Locals DEF SaveRegistry, Files, Collections, IInv
<1>2. me.read = registry /\ Mine(p) \in Datasets /\ LocalOK(p) /\ BuiltOK(p)
  BY <1>1 DEF IInv, LocksInv, RecordsInv, LocalOK, StoreInv, StoreOK, At
<1>3. CASE d # Mine(p)
  BY <1>1, <1>2, <1>3, StillAgrees DEF SameVersion
<1>4. CASE d = Mine(p)
  <2>1. registry'[d] = rec
    BY <1>1, <1>2, <1>4
  <2>2. rec = NoRecord \/ rec = registry[d] \/ (me.kind # "delete" /\ rec = me.rec)
    BY <1>2, <1>4 DEF Merged
  <2>3. CASE rec = NoRecord \/ rec = registry[d]
    BY <1>1, <2>1, <2>3, StillAgrees DEF SameVersion, NoRecord
  <2>4. CASE me.kind # "delete" /\ rec = me.rec
    <3>1. rec.status = "ready" => Index(d) = kb[d]
      BY <1>1, <1>2, <1>4, <2>4 DEF LocalOK, BuiltOK, At
    <3> QED BY <1>1, <2>1, <3>1 DEF Agrees, Index
  <2> QED BY <2>2, <2>3, <2>4
<1> QED BY <1>3, <1>4

LEMMA DeletedAgrees ==
  ASSUME IInv, NEW p \in Processes, NEW d \in Datasets, Agrees(d), DeleteFiles(p) \/ DeleteAlias(p)
  PROVE  Agrees(d)'
<1>1. /\ proc[p].pc \in {"files", "unalias"} /\ UNCHANGED <<registry, builds>>
      /\ kb' = kb \/ kb' = [kb EXCEPT ![Mine(p)] = 0]
      /\ alias' = alias \/ alias' = [alias EXCEPT ![Mine(p)] = 0]
      /\ kb \in [Datasets -> Nat] /\ alias \in [Datasets -> 0..MaxBuilds]
  BY DEF DeleteFiles, DeleteAlias, Files, Collections, At, IInv, TypeOK
<1>2. CASE d # Mine(p)
  BY <1>1, <1>2, StillAgrees DEF SameVersion
<1>3. CASE d = Mine(p)
  BY <1>1, <1>3 DEF IInv, RecordsInv, Agrees
<1> QED BY <1>2, <1>3

LEMMA ReplacedAgrees ==
  ASSUME IInv, NEW p \in Processes, NEW d \in Datasets, Agrees(d), ReplaceKb(p), ~Agrees(d)'
  PROVE  At(p, "kb") /\ Mine(p) = d /\ datasetLock[d] = p
<1>1. /\ At(p, "kb") /\ kb' = [kb EXCEPT ![Mine(p)] = proc[p].version] /\ UNCHANGED <<registry, builds, alias>>
      /\ kb \in [Datasets -> Nat]
  BY DEF ReplaceKb, Collections, IInv, TypeOK
<1>2. Mine(p) = d
  <2>1. CASE d # Mine(p)
    BY <1>1, <2>1, StillAgrees DEF SameVersion
  <2> QED BY <2>1
<1>3. Held(p)
  BY <1>1 DEF Held, At
<1> QED BY <1>1, <1>2, <1>3 DEF IInv, LocksInv

LEMMA OthersAgree ==
  ASSUME IInv, [Next]_vars, NEW d \in Datasets, Agrees(d),
         \A p \in Processes : ~(\/ SaveRegistry(p) \/ ReplaceKb(p) \/ StageIndex(p) \/ Fill(p) \/ Activate(p)
                                \/ DeleteFiles(p) \/ DeleteAlias(p) \/ RemoveCollection(p))
  PROVE  Agrees(d)'
<1>1. CASE \E b \in Builds : Age(b)
  <2>1. PICK b \in Builds : Age(b)
    BY <1>1
  <2>2. builds' = [builds EXCEPT ![b].old = TRUE] /\ UNCHANGED <<registry, alias, kb>>
        /\ builds \in [Builds -> [of : Datasets \union {0}, version : Nat, full : BOOLEAN, old : BOOLEAN]]
    BY <2>1 DEF Age, Files, IInv, TypeOK
  <2>3. alias[d] # 0 => builds'[alias[d]].version = builds[alias[d]].version
    BY <2>2, AliasInBuilds DEF IInv
  <2> QED BY <2>2, <2>3, StillAgrees DEF SameVersion
<1>2. CASE \A b \in Builds : ~Age(b)
  <2>1. UNCHANGED <<registry, kb, alias, builds>>
    <3>1. CASE UNCHANGED vars
      BY <3>1 DEF vars
    <3>2. ASSUME NEW p \in Processes, NEW e \in Datasets,
                 \/ \E path \in Paths : BeginImport(p, e, path) \/ BeginRegister(p, e, path)
                 \/ BeginAsk(p, e) \/ BeginDelete(p, e) \/ BeginGc(p, e)
          PROVE  UNCHANGED <<registry, kb, alias, builds>>
      <4>1. ASSUME NEW kind, NEW rec, NEW pc, NEW next, Begin(p, kind, e, rec, pc, next)
            PROVE  UNCHANGED <<registry, kb, alias, builds>>
        BY <4>1 DEF Begin, Files, Collections
      <4> QED BY <3>2, <4>1 DEF BeginImport, BeginRegister, BeginAsk, BeginDelete, BeginGc
    <3>3. ASSUME NEW p \in Processes, ProcessStep(p) \/ Crash(p)
          PROVE  UNCHANGED <<registry, kb, alias, builds>>
      <4>1. Lock(p) \/ LoadRegistry(p) \/ ReadSource(p) \/ PlanGc(p) \/ Done(p) \/ Crash(p)
        BY <3>3 DEF ProcessStep
      <4> QED BY <4>1 DEF Lock, LoadRegistry, ReadSource, PlanGc, Done, Crash, Files, Collections
    <3>4. CASE \E path \in Paths : Edit(path)
      BY <3>4 DEF Edit, Collections
    <3>5. CASE \E s \in Sessions : InspectKb(s) \/ InspectIndex(s) \/ Ask(s)
      BY <3>5 DEF InspectKb, InspectIndex, Ask, Store
    <3>6. CASE ChatStep \/ ChatCrash
      BY <3>6 DEF ChatStep, LockForQuestion, ActivateForQuestion, ReadFacts, Search, EndQuestion,
                  ChatCrash, Store, Files, Collections
    <3> QED BY <1>2, <3>1, <3>2, <3>3, <3>4, <3>5, <3>6 DEF Next
  <2> QED BY <2>1, StillAgrees DEF SameVersion
<1> QED BY <1>1, <1>2

(* What a report is served from is whole (activate_versioned_collection,     *)
(* delete_dataset, plan_collection_gc): the alias points to a complete        *)
(* collection of that report and a ready report has facts and an index,      *)
(* whoever failed or died; and the two fall apart at the replacement of the  *)
(* SQLite file only, by the process that holds the report's lock.            *)
THEOREM WholeReports == Spec => ReportsStayWhole
<1> DEFINE Whole == AliasIsComplete /\ ReadyIsBuilt
           Replaced(d) == \E p \in Processes : At(p, "kb") /\ Mine(p) = d /\ datasetLock[d] = p
           Keeps == \A d \in Datasets : Agrees(d) /\ ~Agrees(d)' => Replaced(d)
<1>1. IInv => Whole
  BY DEF IInv
<1>2. IInv /\ [Next]_vars => [Keeps]_vars
  <2> SUFFICES ASSUME IInv, [Next]_vars, NEW d \in Datasets, Agrees(d), ~Agrees(d)' PROVE Replaced(d)
    OBVIOUS
  <2>1. PICK p \in Processes : \/ SaveRegistry(p) \/ ReplaceKb(p) \/ StageIndex(p) \/ Fill(p) \/ Activate(p)
                               \/ DeleteFiles(p) \/ DeleteAlias(p) \/ RemoveCollection(p)
    BY OthersAgree
  <2>2. ReplaceKb(p)
    BY <2>1, SavedAgrees, StagedAgrees, ActivatedAgrees, DeletedAgrees
  <2> QED BY <2>2, ReplacedAgrees
<1>3. Spec => [][Next]_vars
  BY PTL DEF Spec
<1> HIDE DEF Keeps
<1>4. Spec => []Whole /\ [][Keeps]_vars
  BY Invariant, <1>1, <1>2, <1>3, PTL
<1> QED BY <1>4 DEF ReportsStayWhole, Keeps

(* An answer is computed from the generation its conversation is pinned to:  *)
(* the lock of the report covers the comparison and both reads.              *)
THEOREM AnswersFromPin == Spec => []AnswerFromPin
<1>1. IInv => AnswerFromPin
  BY DEF IInv, ChatInv
<1> QED BY Invariant, <1>1, PTL

(* save_registry writes the whole document it read, and still changes the    *)
(* record of no other report: the registry lock covers read and write.       *)
THEOREM OthersAreKept == Spec => RegistryKeepsOthers
<1> DEFINE Keeps == \A d \in Datasets : registry'[d] # registry[d] =>
                      \E p \in Processes : proc[p].pc = "write" /\ proc[p].of = d /\ proc'[p].pc # "write"
<1>1. IInv /\ [Next]_vars => [Keeps]_vars
  <2> SUFFICES ASSUME IInv, Next PROVE Keeps
    BY DEF vars
  <2>1. ASSUME NEW p \in Processes, SaveRegistry(p) PROVE Keeps
    <3>1. At(p, "write") /\ LocalOK(p) /\ proc[p] \in ProcessRecords /\ proc \in [Processes -> ProcessRecords]
      BY <2>1, Locals DEF SaveRegistry, IInv, RecordsInv
    <3>2. proc[p].read = registry /\ Mine(p) \in Datasets /\ proc[p].next \in {"lock", "source", "done"}
      BY <3>1 DEF IInv, LocksInv, LocalOK, At
    <3>3. \A d \in Datasets : d # Mine(p) => registry'[d] = registry[d]
      <4>1. registry \in [Datasets -> Records]
        BY Locals DEF IInv
      <4> QED BY <2>1, <3>2, <4>1 DEF SaveRegistry
    <3>4. proc'[p].pc # "write"
      BY <2>1, <3>1, <3>2 DEF SaveRegistry
    <3> QED BY <3>1, <3>3, <3>4 DEF At, Mine
  <2>2. ASSUME UNCHANGED registry PROVE Keeps
    BY <2>2, SMTT(60)
  <2>3. (\A p \in Processes : ~SaveRegistry(p)) => UNCHANGED registry
    BY DEF Next, BeginImport, BeginRegister, BeginAsk, BeginDelete, BeginGc, Begin, ProcessStep,
           Lock, LoadRegistry, ReadSource, ReplaceKb, StageIndex, Fill, Activate, DeleteFiles,
           DeleteAlias, PlanGc, RemoveCollection, Done, Crash, Edit, Age, InspectKb, InspectIndex,
           Ask, ChatStep, LockForQuestion, ActivateForQuestion, ReadFacts, Search, EndQuestion,
           ChatCrash, Store
  <2> QED BY <2>1, <2>2, <2>3
<1>2. Spec => [][Next]_vars
  BY PTL DEF Spec
<1> QED BY Invariant, <1>1, <1>2, PTL DEF RegistryKeepsOthers
=============================================================================
