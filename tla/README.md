# AgentFinX in TLA+

Specifications of the stateful core of AgentFinX (`src/backend/src/agentfinx`): how a report is
confirmed and imported, built and queried, how a question is admitted and answered, what the page in the
browser makes of it, and what is left when one of its processes fails in between. Paths below are relative to that directory unless they
start with `docs/` (in `src/docs`) or `web/` (in `src/web`). What the specifications are checked for is in the `.cfg` files;
`PROJECT.json` ties every definition to the lines it models and lists runs, hazards and findings.

## 1. The system

AgentFinX answers questions about financial reports of Vietnamese companies. It runs as separate
processes that share files:

    browser ── HTTP ──> API (api/app.py)            CLI (agentfinx ask | datasets | reports | storage)
                          │  web.sqlite3 (sessions, runs, hand-offs, news)      │
                          │  acquisition.sqlite3 (jobs, ledger, slots, quota)   │
                  ┌───────┴────────┐                                            │
            chat worker       import worker                                     │
                  └──── registry.json, per-report SQLite, Qdrant, lock files ───┘

The two databases share no transaction, and neither shares one with Qdrant or the registry file. A
worker is single per queue (`locks.ProcessSingleton`); everything else may run side by side.

| Component | State it keeps | Operations | Hard behaviour |
| --- | --- | --- | --- |
| Import hand-off `api/handoff.py` | `import_handoffs`, `chat_sessions.provisioning`, `import_jobs.dispatch_hold` | confirm, replay, recover | two databases, retries with one key, death between commits, recovery of slow requests |
| Import runs `acquisition/service.py`, `store.py`, `llamaparse.py` | jobs, `parse_attempts` (ledger), `parse_slots`, cache, sidecars | claim, run, convert, recover, reconcile | a billed provider, lost remote IDs, one document for two accounts, slots that outlive processes |
| Chat queue `api/app.py`, `api/worker.py`, `api/chat_runner.py` | `chat_runs`, messages, `read_only`, question usage | submit, override, claim, answer, fail, recover | stale checks, worker death, a second worker, charging once |
| News messages `api/news_updates.py` | `news_updates` | schedule, claim, retry, post, give up | retries against a deadline, posting once |
| Datasets `datasets/` | registry, locks, active alias, versioned collections | save, delete, activate, gc | lost updates, partial builds, generations |
| Building `workflow/pipeline.py`, `ingestion/pipeline.py`, `datasets/vectorstore/` | SQLite facts, Qdrant collections, lexical cache | parse, stage, swap | failure between two swaps, caches of other processes |
| Import budget `acquisition/quota.py` | the jobs' rows, read as reservations and bills | admit, cancel, run, reconcile | charges that come late, in another month, or never |
| Workflow graph `workflow/` | LangGraph state, the news branch's threads | plan, route, superstep, collect, join, speak, follow up | deadlines, late results, rounds, a limit tested in two places |
| Planner, router, Synth `agents/*_runner.py` | plan, routes, the decisions written so far | plan, route, bypass, write, repair, choose | rules that rewrite each other's output, fallbacks |
| Tool calls and evidence `agents/tools/`, `workflow/evidence.py` | the runtime cache, futures in flight | look up, claim, fetch, coalesce, evict | parallel threads, waiting without a limit |
| News cache `news/collect/` | rows and covered span of a ticker | search, list, store, record | two processes, lists that are cut short |
| Parsers `ingestion/table_parser.py`, `kb_builder.py` | what is latched from headings and rows | read a line, a row; emit a fact | state that outlives the block it belongs to |
| Accounts `api/app.py`, `throttle.py`, `db.py` | users, invites, the log of attempts | register, sign in, invite, revoke | hashing between look-up and transaction, sliding windows |
| Storage migration `datasets/storage_migration.py` | old store, new store, the record | plan, lock, copy, check, record | programs that still write, a run that dies |
| Experiments `evaluation/security/`, `core/experiment.py` | results by cell, budget, spent keys | launch, answer, judge, resume | death of runner and worker, paid calls |
| Discovery `api/discovery.py` | `discovery_requests`, the owner's lock | search, replay | key checked before the lock, two processes |
| Chat page `web/app/chat/page.tsx` | the view and its generation, items, three polls, the last list | open, ask, override, import, search, delete, reload, poll | replies that come after the user went on, lost connections, polls of an earlier view |
| Prompts, vocabularies, ranking, schemas, styling | texts | — | data rather than control |

What makes each of them correct:

- hand-off: no job is dispatched before the conversation it belongs to points at it; nothing hidden or
  held is left for ever; a conversation gets one report at most;
- import runs: nothing is submitted (and paid) twice, running parses stay within the limit, a bill is
  confirmed only from what the provider reported, a job ends;
- chat queue: a question is charged once, executed at most once, ends, and is answered only from the
  generation its conversation is pinned to;
- datasets: a reader under the lock sees one generation, the alias points to complete collections, no
  writer of the registry undoes another;
- budget: what the provider charges in a month stays below what locks admission, one import an account;
- graph: Synth starts when every agent it expects has answered in this round, reads the newest news, and every
  run ends with an answer or at the recursion limit;
- planning and writing: no request of the question is lost on the way to the routes, no repair makes the answer worse;
- evidence: one search for one key at a time, and whoever waits for it goes on;
- news cache: the span the database claims is listed without a gap;
- parsers: a fact and a table carry the section, period, entity and note they stand in, and a total its sum;
- accounts: one account an invite, limits hold in every window;
- discovery: a request has one card at most, whoever gets an answer gets that one, and a request that failed has left none;
- chat page: nothing is rendered into another conversation or twice, the composer comes back, an import in view is followed;
- migration: the record is written only over a faithful copy; experiments: the schedule is measured once, in order.

## 2. Modules

| Module | Models | One action is |
| --- | --- | --- |
| `ImportConfirm` | abstract: a reservation is linked and dispatched, or cancelled | |
| `ImportHandoff` | `api/handoff.py`, `api/imports.py`, the session and job tables they touch | a database transaction |
| `ImportRuns` | `acquisition/service.py` from `run_job` on, `store.py`, `llamaparse.py` | a commit, lock or provider call |
| `ImportBudget` | `acquisition/quota.py` and what rows of `import_jobs` tell it | a write of a row |
| `QuestionAnswer` | abstract: a question is taken up once, alone, and ends for good | |
| `ChatQueue` | `api/app.py` (chat), `api/worker.py`, `api/chat_runner.py`, `api/news_updates.py` | a transaction, lock or read |
| `DatasetBuild` | `datasets/`, `ingestion/pipeline.py`, `vectorstore/`, the locking of `workflow/pipeline.py` | a file swap, Qdrant call or lock |
| `WorkflowGraph` | `workflow/graph.py` with its nodes, edges and router, `workflow/news_branch.py` | a superstep |
| `QuestionPlan` | planner and router with their rules and fallbacks | a model call and the rules after it |
| `EvidenceCache` | the evidence stage, the runtime cache, tool calls of parallel agents | a critical section or backend call |
| `SynthAnswer` | Synth's requests, repairs and choice | a request |
| `NewsCache` | `news/collect/vietstock.py`, `cache.py` | a page, or a statement of the database |
| `TableScan` | `df_to_facts` and the numbered-row pass of `ingestion/kb_builder.py` | a row |
| `ReportContext` | `attach_context` of `ingestion/table_parser.py`, header inheritance | a line |
| `Accounts` | registration, sign-in, invites and limits of `api/` | a transaction |
| `StorageMigration` | `datasets/storage_migration.py` and programs of the old layout | a lock, copy or check of one item |
| `ExperimentRun` | `evaluation/security/` runner, worker, keys; the call budget of `core/experiment.py` | a file written, or a request |
| `Discovery` | `api/discovery.py`, the search of `api/chat_runner.py`, the lock they share | a transaction, a lock or a search |
| `ChatPage` | the handlers and polls of `web/app/chat/page.tsx`, with the API as they see it | the code between two awaits |
| `ImportHandoffProofs`, `ChatQueueProofs`, `DatasetBuildProofs`, `ImportRunsProofs`, `WorkflowGraphProofs`, `ChatPageProofs` | theorems about the module of that name; the last part of `ImportRunsProofs` about `ImportRuns` without CLI processes | |
| `ReportProofs` | theorems about `ReportContext` and `TableScan`, and lemmas about folds and sums | |
| `PlatformProofs` | theorems about `Accounts`, `Discovery`, `EvidenceCache`, `ExperimentRun`, `ImportBudget`, `NewsCache`, `QuestionPlan`, `StorageMigration`, `SynthAnswer` | |
| `*MC` | the instances for TLC | |

An action stands for one transaction, lock operation or call of an external system together with all
local work up to the next. The gaps between are where other processes interleave and where a process can
die. A process is a record with a program point and the values it has read and still holds: the stale
copies are in the model because they are in the code.

Most MC modules only instantiate one specification; `ChatQueueMC` also orders interchangeable names, and `ChatPageMC` has three users (`user`): one
asks two questions, one asks once, imports and deletes, one asks once, searches and deletes. `SharedDocumentMC` and `DatasetBuildMC` hold two settings of one
specification, `ReportImportMC` these two side by side, `PlatformMC` twelve components that share no state, the page with the users
of `ChatPageMC` among them: a variable (`setting`, `part`, `focus`) chosen at the start says which one
runs. Every behaviour is thus a behaviour of one setting or component. A setting of `DatasetBuildMC` restricts what may begin
and keeps fair what it lets go on; and a collection grows old under a gc only, which alone asks for its age.

**ImportHandoff.** An idempotency key names one job (`UNIQUE(owner, key)`) and one row, so both are functions
of the key. `BeginFresh` and `BeginReplay` are `_begin`, `CheckExisting` and `AdmitJob` are `create_job`, `RequestLink` is
`_link_and_release` and so on; recovery (`StartRecovery` … `HeldCancel`) is the import worker's pass at
`recover_handoffs`, working from rows it read in another transaction. `SlowRequests` says whether a request
may still be alive when recovery takes it for dead (`STALE_AFTER`). `ImportConfirm` is what all of it
promises; the mapping takes `linked` from the history of committed links and `outcome` from the job's state.

**ImportRuns.** A remote parse is named by the job and part that submitted it. `files` holds what is on disk
about a document (sidecar references, cached result, payer reference); `attempt`, `adopted` and `noted` are
the ledger; `remote` is the provider (external). `Clis` are `agentfinx reports import` processes, which run
jobs next to the worker. A remote parse whose pages need repair ends `flawed`: whether a second part is submitted depends on
its result alone (`llamaparse.py:627`), so every run that reads it decides the same. An earlier form of the model left that to
each run, and with two documents, one slot and a crash the provider ran two parses in it, which the code cannot do.

**ImportBudget.** The other view of the same jobs: what admission can know of the bill. The ledger of a job is one state
(`submitted`, `lost`, `settled`) and the payer it waits for; the provider charges a parse when it ends, whatever month
that is. Taken as given: no parse costs more than the pages at the tier's rate with one repair, which is what
`estimate_import_credits` reserves. A page is one credit, the trial lock one number (it never lies above the provider's), and
the row's `updated` is its month. A job whose remote ID was lost stays counted for ever, as in the code.

**ChatQueue.** A run is named by its key. The API's request reads the session, checks the report, and submits
in one web transaction that contains a commit of the acquisition database; the worker's points follow
`_process_chat_run`. The start of a worker, which
takes the singleton lock and then ends what an earlier one left running, is one step: what can come between the two is the
API, the user and the report's processes, and neither a submission, a deletion nor a rebuild disturbs the recovery or is disturbed by it.
`QuestionAnswer` is the same queue served by one process that never dies; the mapping reads a question's
phase off its row and its conversation. What the report's processes do is one generation counter here, and in detail in
`DatasetBuild`.

**DatasetBuild.** What a source parses to is a version; facts and collections carry the version they were
made from, and a generation is the pair. `kind` says which command a process runs: `import`
(`build_imported_dataset`), `register` (`ask --file-path`), `ask`, `delete`, `gc`. The collection `create_collection`
makes before a first build is always empty and never an alias target, so it is left out, as are
collections without a timestamp. The command line's own answer after `ensure_built` reads under the same lock
and is left out.

**WorkflowGraph.** `node` is the superstep's node; while agents work, `stage` is the task of each (call the model, run
tools, finish), because LangGraph runs the tasks of a superstep side by side and `collect_analysis` at the end of each.
`Superstep` is one such step for every agent at once. Marks earlier rounds left (`said`, `done`, `forced`, `calls`) carry
their round, as in `workflow/state.py`. `branch` is the thread pool of the news branch, `BranchEnds` its only action, and
`JoinWeb` either finds the result or reaches its deadline and analyses the bundle itself. A model's reply is a choice of tool calls,
an answer or nothing. An agent's first call sees the `Send` payload and not the state; the model has it so. Left out:
Synth may raise ("synth fact contract violated"), which ends the run as any exception does.

**QuestionPlan.** A question is the set of classes its patterns put it in; the planner's and the router's model may return
whatever the schema accepts. `PlannerAnswers` is the call with every rule after it, in order; `PlannerFails`, `Bypass`,
`RouterFails` are what stands in for a call. The first round only: a follow-up's requests are `WorkflowGraph`'s.

**EvidenceCache.** `cache` is the ordered dictionary of the process with its eviction, `flight` and `futures` are
`_INFLIGHT_CACHE_CALLS`. A tool call passes the steps of `_call_tool_for_agent_once`, one lock region at a time:
look up, claim, look again, fetch, store, resolve, close, or wait for another's future.

**SynthAnswer.** A decision is the number of violations each check finds in it. Structured output in the mode `auto`: what a
refused request teaches about the model is shared with other threads (`OthersLearn`).

**NewsCache.** Articles are numbered by time; `coverage` is the span of the ticker, `refresh` the steps of one refresh in one
process: pages, the rows' transaction, the read of the span and its write, which are two statements in the code. Two
articles never have one time, the source neither removes articles nor returns a short page in the middle of its list, and what a
row says is left out.

**TableScan.** One record a row: label, outline number, the numbers of its columns, and in a matrix relation and
transaction. Texts are classes (a total, a group, a title); a table is any sequence of rows of the small sets. The outline
(`hierarchy` in the code) is the set of headings a row stands under, one a level: a new one drops those of its level and below, so the order
of the list is the order of the levels. What a fact should say is written from the rows above it alone (`Stands`, `StandsBare`,
`OwnerOf`, `Summed`), without the variables of the pass. **ReportContext.** A
line is what the patterns of `table_parser.py` find in it; captions of units and rows wrapped over lines are left out.

**Discovery.** A request of the form is a thread of the API, sent again it is another with the same key; `SearchRuns` are questions the
chat worker takes as searches. What the source answers is one card whatever it is. Read-only conversations are left out.

**ChatPage.** JavaScript runs one handler at a time up to its next `await`, so a step is one such piece and `calls` is the set of
handlers that await something, each with what it captured (`gen`, conversation, run). `page` is the view with the three refs its
loops compare against (`runPoll`, `newsPoll`, `importPoll`); `known` is `sessionsRef`, `entry` what it said when a conversation was
opened. `items` counts how often a message is shown. The server is reduced to what the page can see: conversations, one open
run each, runs that end with or without news to follow, imports that end. Any call may lose its connection or be
answered with an error (`Failures`). A reload forgets everything but the address bar. Back and
forward are `OpenSession` and `StartNewChat`; renaming, forms, health, caption and progress lines are left out.

**Accounts.** An attempt is admitted, hashes outside any transaction, and ends; the log keeps what the windows count. Registration
mode `invite`. **StorageMigration.** Contents are version numbers; programs of the old layout write under lock files or in
database transactions, or, where no lock file exists, under nothing. **ExperimentRun.** Every result is a file; what is not in
a file is lost with the runner.

## 3. Runs

| Run | Shows | Bounds |
| --- | --- | --- |
| `handoff_one_key` | types, link before dispatch, hidden sessions reachable, refinement of `ImportConfirm`; holds and hidden sessions are resolved (`HandoffSettles`) | 1 key, 2 requests that may hang or die, 2 sessions, 1 row, 1 crash |
| `handoff_aborted` | finding: a refused twin aborts a hand-off whose job exists | |
| `runs_one_job` | submitted once, lost IDs kept, one parse at a time (`SubmissionsAreAccounted`); jobs end, stay ended, bills settle (`JobsSettle`) | 1 job of 2 parts, the worker alone, 1 crash |
| `report_import` | of two accounts one pays, once, bills are backed by usage; parses of the worker stay within one slot; answers from the pinned generation, work that wants the chat's lock ends; what a report is served from is whole and its facts and index part at one step only (`ReportsStayWhole`), no lost update in the registry | 2 jobs, 1 public document: worker and a CLI called for the second, 2 slots; or the worker, 1 slot, 1 crash; or 1 conversation, 2 files, 4 commands or questions, 1 edit, 1 crash; or 2 reports, 2 processes, 3 commands, 1 crash |
| `build_failed` | finding: a build that fails after the swap of the facts damages the report in use | 1 process, 2 builds, 1 edit |
| `build_lexical` | finding: lexical hits of another generation | 1 process, 2 conversations |
| `chat_one_conversation` | types, pinned answers, justified closing, running is owned, refinement of `QuestionAnswer`, questions and news end (`PromisesEnd`) | 2 requests, 2 keys, 1 conversation whose report comes later, 2 workers, 1 rebuild, 2 crashes, 1 API death |
| `chat_charged_twice` | finding: a question is charged twice around an API death | 1 API death |
| `workflow_rounds` | Synth hears every agent, no silent end, fresh news, the run ends | 2 agents, 2 bundles, 2 follow-up rounds, 2 tool calls a reply and a round, 2 news analyses, 4 passes |
| `workflow_refused` | finding: a follow-up refused at the limit is routed all the same | 1 agent |
| `platform` | twelve components, see below | see below |
| `discovery_again` | finding: a search sent again is made again | as `platform`, focus discovery |

In `platform`:

| Focus | Property | Bounds |
| --- | --- | --- |
| evidence | `SearchIsShared` | 2 agents, 2 keys, a cache of 1, 3 calls, 1 stage |
| news | `CoverageIsListed` | 2 processes, 3 articles, pages of 1, 2 pages a refresh |
| accounts | `AccountHasItsInvite`, `FailuresAreLimited` | 2 addresses, 1 invite, 1 client, limits 1 and 2, 5 attempts, a window of 1 tick |
| migration | `RecordIsFaithful` | 1 database, 2 files with a lock each, 2 versions, any number of runs |
| experiment | `ScheduleIsKept` | 2 cells, 1 key, 2 calls, 2 failures, 3 attempts |
| plan | `PlanCoversTheQuestion` | every class of question, every plan of the schema |
| synth | `BestAnswerIsKept` | every decision with at most one violation of a kind |
| table | `FactsMeanTheirRows` | every table of at most 4 of the 10 and 8 rows listed in `PlatformMC` |
| report | `TablesStandInTheirNote` | every report of at most 5 of the 9 lines listed there |
| budget | `ImportsStayInBudget` | 2 imports of 2 accounts, 2 pages, 2 months, locked at 3 credits |
| discovery | `OneCardPerRequest` | 2 requests with 1 key, 1 question, 2 conversations, 3 searches |
| page | `ItemsBelongToTheView`, `ShownOnce`, `ComposerComesBack`, `ImportIsFollowed` | 2 questions, or 1 with 1 import or 1 search, and a deletion; 2 conversations, 2 more views, 2 calls when the user goes on; any call may fail |

*Bounds.* Two actors of a kind are enough for every race above, because each protocol serializes on one row,
lock or file at a time: what a third one could add is that two of them find the resource taken. One crash
of a component reaches every program point, `chat_one_conversation` has two, so that recovery itself can die; the safety of the hand-off and
of the chat queue is proved for any number.
Three of builds or commands let one thing fail between two that work. In the graph two follow-up rounds let an agent carry marks of a
round it sat out, and four passes reach the recursion limit. A cache of one entry evicts at every second key. Four rows fit a heading, two
components and their total; five lines a statement, a note and a table that lost its header. The views after the first let a call of the first arrive in the third, or in a second view of its own conversation; the
user goes on while at most two calls are under way, and these may lead to more. In the budget one import's open bill and the next month's
admission exceed the lock together; three imports and a lock of four were checked once (3.4 million states) and showed the same.
Counters that only grow (rows, builds,
edits, crashes, deaths, jobs, attempts, versions) are the `Max…` constants, tested in the guard of the action that counts. Where
`CHECK_DEADLOCK FALSE` stands, the system really comes to rest: no more requests, jobs or commands are made.
Symmetry is used in the safety run `chat_charged_twice`, over names no guard compares by order; where liveness is checked,
`NamesInOrder` of `ChatQueueMC` leaves out the same renamings by hand. Questions of two conversations in the queue at once are
covered by the proofs, not by that run.

*Types.* Every module states what its variables range over (`TypeOK`, `CacheTypeOK`, …). Two runs check it (`ImportHandoff`,
`ChatQueue`); it is a theorem for these two, `DatasetBuild`, `ImportRuns`, `WorkflowGraph` and `ChatPage`. For the components of
`PlatformMC` it is no property of the run, which says what types do not; `TypeOK` of `PlatformMC` conjoins them, held over all
1.8 million states of `Platform.cfg` when it was added to the configuration, and the invariants of `PlatformProofs` and
`ReportProofs` contain what their arguments need of it.

*Fairness.* Weak fairness for a process that runs: the import and chat workers loop for ever and are restarted
by their supervisor (`docs/operations.md`, worker restart); API requests and user actions are never fair (a
client may leave). `TimePasses`, `NewsDue` and `NewsLate` are fair because clocks go on. `flock` hands a free lock
to a process that waits; where others may take it again and again this is strong fairness of the lock step
(`ImportRuns`), and in `DatasetBuild` the bound on commands makes weak fairness enough. Bills settle only if an
operator reconciles again and again and the provider reports usage some time, both said in `docs/operations.md`;
`JobsSettle` assumes just that. The graph is one weakly fair action: model calls, tools and the join all have time limits, so a
superstep ends; the news thread is not fair, and `GraphEnds` holds although it may never finish.

## 4. What the code does otherwise than it says

Six runs are expected to fail; their texts, with the sentences they contradict, are in `PROJECT.json`.

- `handoff_aborted`: two requests with one key race; one creates and dispatches the job, the other is refused the slot
  and aborts the row, which a later request restarts because "nothing was created last time".
- `chat_charged_twice`: the quota is committed in the other database before the run is.
- `build_lexical`: the lexical cache of the chat worker survives a rebuild by the import worker.
- `build_failed`: the knowledge base is replaced before the index is built (`ingestion/pipeline.py:505`); a build that fails between leaves
  new facts, the old index and a record that says ready, where `docs/architecture.md:82` says that a failed build does not
  damage the version in use.
- `discovery_again`: `discover_reports` looks its key up before it takes the owner's lock; a search sent again is refused while the first
  holds the lock and made a second time, to fail on the unique key, when the first has just stored its card. `web/lib/api.ts:91` expects
  the first one's result.
- `workflow_refused`: at the limit Synth refuses a follow-up but leaves `need_more` set and the round at the limit, and the edge
  tests "above the limit": evidence, agents and Synth run again in the same round, until the recursion limit if Synth insists.

`report_import` and `chat_one_conversation` hold beside these because they are about other parts of the answer, and
a charge is no part of what `chat_one_conversation` promises. `ReportsStayWhole` holds beside `build_failed` because it excepts the step
that finding is about, and no other; `OneCardPerRequest` beside `discovery_again` because the second search leaves no card. `GraphEnds` holds because it
counts the recursion limit as an end.

The models contain more behaviour of this kind, which no run shows, because we found no sentence of the repository that says otherwise
or because it costs little; where there is such a sentence it is named below. Hazards in `PROJECT.json` have it as notes where a
property passes it by.

- Imports: a CLI import stopped between claim and lock is run twice; a slot taken before a crash can have no attempt to be freed by;
  a job resumed into a cache hit gives up the slot of its first parse while that may still run, where `store.py:463` keeps it until
  reconciled (section 5); a crash after `ready` leaves a report unattached.
- Builds: gc may take a failed build for the previous one; an `ask` that waited for the lock saves a stale record.
- Graph: a sequential news analysis in a later round can be replaced when the join takes up an older job; the join's own
  analysis does not look at `MAX_RUNS_PER_QUESTION` (`workflow/news_node.py:18`).
- News: the look at a row and its write are separate transactions (`cache.py:231`); a short page in the middle of the list, or equal
  times at a page's end, would leave rows out of a span that claims them.
- Migration: a file for which no lock file exists can be written between the comparison of its copy and the re-reading of its digest
  (`storage_migration.py:486`), which the last check then compares with; `docs/operations.md:52` says that whoever wants to write waits and
  fails, and `:68` that at the end the old store is as it was when it was copied. `RecordIsFaithful` is about items held
  still (`HeldStill`) and says nothing of that write. The record is looked for before the locks are taken.
- Experiments: after an interrupted request, the repeated attempt is judged by the request without a reply it finds in the log; a worker
  can outlive a runner that is killed.
- Discovery: a conversation the second search opened for itself stays, empty.
- Page: the poll of an import ends at an error that is no lost connection (`page.tsx:515`), with a notice, and the card stays as it is
  until the conversation is opened again; a conversation left and reopened within a tick of its news poll shows "the news will appear here" for ever: the old view's poll
  clears the ref by which the new one lives (`page.tsx:413`); a user who leaves a conversation and returns before its question is
  answered sees no answer and nothing that waits for it, because the list conversations are opened by is older than the question
  (`page.tsx:309`); a slow list brings a deleted conversation back into the sidebar; a slow reading of messages replaces what was appended
  meanwhile, or takes up a run that has ended in place of the one just asked; a search opens its conversation although the user
  moved on while the list was read; an upload goes to the conversation in view when the file has arrived, not where it was begun.
- Tables: a blank total after numbered components is named after the last of them; a numbered heading without numbers leaves the
  older parent in place; a matrix row with nothing but a number inherits the entity above. The reference of the last schedule
  stays until the next numbered heading, across chapters.

## 5. Proofs

`ImportHandoffProofs` proves, for any numbers of keys, requests, sessions, rows and crashes, from
`HandoffAssumption` alone:

- `TypeCorrect`: `Spec => []TypeOK`;
- `DispatchFollowsLink`: `Spec => []DispatchedJobIsLinked`;
- `HiddenSessionsAreReachable`: `Spec => []ProvisioningIsReachable`;
- `SessionsHaveOneReport`: `Spec => []OneReportPerSession`;
- `ImplementsConfirm`: `Spec => Confirm!Spec`, the refinement.

None of the invariants is inductive. Actors decide from rows they read earlier, so the induction needs what such
a copy still guarantees. `IInv` has three parts:

- `DataInv`, about the tables alone: what a hand-off row and a job in each state imply about the session;
- `RequestsInv`: what each request knows at its program point (`Knows`): a copy of a row is about a row that stands or was
  replaced, a job about to be linked exists, a job about to be released was linked;
- `WorkerInv`: the same of recovery, its list of work, and the job the worker is running.

The argument is split in two. Every transaction preserves `DataInv` and satisfies `Keeps`: no transaction takes away what others
know (jobs do not vanish, links are never forgotten, copies stay meaningful). From `Keeps`, actors that did not move keep
their part of the invariant; only the actor that moved is looked at action by action. `KeepsRunning` adds that
nobody but the worker changes a job it runs.

`ChatQueueProofs` proves, for any conversations, keys, requests, workers and crashes, from `ChatAssumption` alone:

- `TypeCorrect`: `Spec => []TypeOK`;
- `NoRunIsOrphaned`: `Spec => []RunningIsOwned`;
- `AnswersFromPinned`: `Spec => []AnswerFromPinnedGeneration`;
- `ClosedForCause`: `Spec => []ReadOnlyIsJustified`;
- `OneNewsMessage`: `Spec => []NewsOnce`;
- `ImplementsQuestion`: `Spec => Question!Spec`, the refinement.

Here the induction follows what is read where. A run keeps what its request read of the conversation (`RunOK`,
`RequestOK`), and that stays true because a pin is set once and never changed; the one live worker's locals agree with the
row it claimed until it writes it (`ClaimedOK`, `LocalsOK`), and from `activate` on the lock it holds keeps the report
at the generation it checked. `OneMoves` and `OthersAreDown` say that a worker's step concerns no other worker (the
singleton); `Gentle` lists what the API, the user and the builds may do to the row a worker holds, and
`WorkersUndisturbed` that they cannot falsify what it knows: in particular a report that has changed stays
changed (`StaysChanged`), so a worker that decided to close a conversation is still right when it does. The refinement needs
`OneRunning`: recovery ends at most one question, which is why marking all running rows is one step of the promise.

`DatasetBuildProofs` proves, for any finite set of paths and any reports, processes, conversations, versions and crashes:

- `TypeCorrect`: `Spec => []TypeOK`;
- `WholeReports`: `Spec => ReportsStayWhole`;
- `AnswersFromPin`: `Spec => []AnswerFromPin`;
- `OthersAreKept`: `Spec => RegistryKeepsOthers`.

From `BuildAssumption`, in which `IsFiniteSet(Paths)` (a source is one of finitely many files) and `0 \notin Datasets` (0 is the name of no report)
are what the proofs added. A collection is made complete before the alias moves, and who moves it holds the report's lock,
so the invariant says what the holder of each lock has done so far (its program point against registry, facts and collections)
and that nobody else is at a point that needs the lock.

`ImportRunsProofs` proves, for any jobs, documents, parts, slots, CLI processes and crashes:

- `TypeCorrect`: `Spec => []TypeOK`;
- `PartsSubmittedOnce`: `Spec => []SubmittedOnce`, the first part of `SubmissionsAreAccounted`;
- `PaidOnce`: `Spec => NeverPaidAgain`;
- `PaidIfConfirmed`: `Spec => []ConfirmedIsPaid`.

And in its last part under `Clis = {}`, for any jobs, documents, parts, slots and crashes:

- `Accounted`: `Spec => []SubmissionsAreAccounted`;
- `LimitKept`: `Spec => []RunningWithinLimit`, its last part by itself;
- `OverForGood`: `Spec => TerminalStays`, the safety half of `JobsSettle`.

From `RunsAssumption`, in which the names of nobody and of the admin are no runner's. The ledger is written before the submission and
the files after it, so the induction follows one attempt through both: what an attempt in each state, with or without a sidecar, implies
about the provider (`SentInv` and the other parts of `IInv`). The documents' lock gives `PaidOnce`: between looking a document up and
submitting it, nobody else puts anything on record. For the limit every running parse must be found in a slot whatever died since
it was submitted: `WInv` adds that one runner is at work at a time (`OneInv`), that a job whose parse may still run is unsure of it in the ledger and
keeps its slot (`UnsureInv`, `SlotsInv`), and that of a job's parts the earlier ones have ended (`PartsInv`). `WInv` was checked by TLC on four
instances (up to 8.2 million states) before it was proved.

Why the worker alone: with a CLI process next to it, TLC shows `TerminalStays` violated (the CLI claims, the worker starts and puts the job
back before the CLI takes the job's lock, and both run it, one after the other) and `LostIsKept` with two jobs and two slots. `RunningWithinLimit` fails
too, with four jobs, three documents, two slots (the default), one CLI and one crash: the worker submits a document and dies before its sidecar is
on disk; a CLI import of the same document finds nothing, pays for its own parse and fills the cache; the worker's job comes back, hits the
cache, and leaves its slot as after any success (`store.py:472`) while its first parse still runs. Two jobs of other documents then
run a second and a third one. With the worker alone this cannot happen, because it takes the oldest job first and its own unfinished one
therefore before any that could fill the cache. Where TLC found no
violation with a CLI is one slot, one crash and two jobs, of one document or of two (13.5 million states).
`PaidOnce` and `PaidIfConfirmed` need no such restriction.

`WorkflowGraphProofs` proves, for any agents, bundles, rounds, tool calls and passes:

- `TypeCorrect`: `Spec => []TypeOK`;
- `SynthHears`: `Spec => []SynthHearsEveryAgent`;
- `NeverEndsSilently`: `Spec => []EndsAnswered`;
- `NewsFresh`: `Spec => []NewsIsFresh`.

From `GraphAssumption` and `NewsRunsAssumption`, `MaxNewsRuns <= 2`: `MAX_RUNS_PER_QUESTION` is 2 and `NewsInv` uses it; with
three TLC finds no violation on the run's instance either, but that is not proved. `collect_analysis` counts what is marked with the present round, so no mark may be of a later one (`RoundsInv`) and
what an agent's marks say in a round that is still open must agree with its stage (`AgentsInv`); `EndsInv` ties a collected round to
Synth's next word; `PassesInv` bounds the analyses by the passes through the join, which `NewsInv` needs to exclude an old job.

`ChatPageProofs` proves, for any conversations, questions, imports, searches, views and calls, from `PageAssumption` alone:

- `TypeCorrect`: `Spec => []PageTypeOK`;
- `ItemsStayInTheirView`: `Spec => []ItemsBelongToTheView`;
- `NothingIsShownTwice`: `Spec => []ShownOnce`;
- `ComposerIsHeld`: `Spec => []ComposerComesBack`;
- `WorkingImportIsPolled`: `Spec => []ImportIsFollowed`.

The properties speak of what is shown; what decides them is what the calls under way still hold. `CallsInv` says that a call
has captured what belongs to its conversation, and that its conversation is the one in view while its generation is the view's.
`TurnsInv`: at most one call of the view can still tell the end of a question, so no second one brings the answer or the notice again;
`MakersInv`: what is to be created is being created by one call; `OpenInv`: while a view is being opened, no other call of it opens
it or follows an import. `ComposerComesBack` is inductive together with these. Calls of earlier views
remain in `calls` with an older generation and are constrained only by what they captured.
`PInv` was checked by TLC on the page's instance before it was proved.

`PlatformProofs` proves about nine smaller components, for all values of their constants:

- `InvitesAreUsedOnce`: `AccountsSpec => []AccountHasItsInvite`, and `SignInsAreLimited`: `AccountsSpec => []FailuresAreLimited`. An attempt
  counts from its admission, so that what hashes is in the window already (`LimitsInv`); what a registration read of its invite
  is looked at again in the transaction that uses it (`RegistersInv`).
- `RetriesAreOneCard`: `DiscoverySpec => []OneCardPerRequest`. A key's card is stored once; an answer is that card
  (`CardsInv`, `AnswersInv`).
- `ExperimentKeepsSchedule`: `ExperimentSpec => []ScheduleIsKept`. Needs that no cell after the worker's has a result, since
  judging turns a failed attempt into the mark of a spent key (`RunnerInv`).
- `CoverageIsTrue`: `NewsSpec => []CoverageIsListed`. A listing in the making has no gap between its first and last article
  (`ListingInv`), and what a refresh read of the span is a span that is still covered (`SpansInv`).
- `RepairsNeverLose`: `SynthSpec => []BestAnswerIsKept`. What is kept is the best of what was written so far (`WrittenInv`).
- `RecordIsOverACopy`: `MigrationSpec => RecordIsFaithful`. What was copied of an item that cannot change under the
  migration is the item as it is (`CopiesInv`); when the record is due, all that was planned is copied and nothing else is there (`PlanInv`).
- `SearchesAreShared`: `CacheSpec => []SearchIsShared`. A key in flight has one owner, from its claim to its close
  (`OwnersInv`, `FlightsInv`), who waits for a future knows it by the owner (`WaitersInv`), and between stages nobody is at work
  (`RestInv`). That storing and touching bring no other key into the cache, whatever
  is evicted, is proved of the library's folds.
- `ImportsAreWithinBudget`: `BudgetSpec => []ImportsStayInBudget`. What is held against an import never grows after its admission
  (`RowOK`: the pages it will have are reserved before they are known), and is never less than what it was charged in the present month, because
  a bill settled this month was written this month (`ChargeOK`, `BillOK`). So the sum that admission reads bounds the sum the
  provider charges while a month lasts (`ChargesAreCommitted`), and the month keeps that bound when it has passed (`MonthsInv`).
- `PlanAlwaysCoversTheQuestion`: `PlanSpec => []PlanCoversTheQuestion`. The router falls back on what the plan says, so
  the plan's own consistency is needed before there are routes (`PlanIsConsistent`), and the events a narrative question names must
  be in the plan from the moment there is one, whichever call wrote it (`EventsKept`), for the router to keep them (`NothingIsDropped`). The module has no constants, so this repeats
  by argument what the run enumerates.

`ReportProofs` proves, for tables of any rows and any length, and for reports of any lines and any length:

- `FactsMeanTheirRowsAlways`: `ScanSpec => []FactsMeanTheirRows`;
- `TablesAlwaysStandInTheirNote`: `ContextSpec => []TablesStandInTheirNote`.

From `ScanAssumption` and `ContextAssumption`. Both are passes with a memory, and the properties say what a fact or a table should be in terms of
the rows or lines themselves, so the invariant ties the memory to the input read so far. `TInv` says it of the table: section, period and entity
are those a reader finds above the present row (`PlaceInv`); the outline holds every numbered heading that still
stands and no heading that does not (`OutlineInv`); the facts are of rows already read, in their order, no two of one row (`ReadInv`); the running sums and their count are those of the components since the last heading, divider or total (`ComponentsInv`),
for which a sum over a set is compared with the sum over that set and one more. What is said of a row read earlier must not change when
further rows are read; the lemmas before `TInv` show that. `ContextInv` says of the report: what is latched is what the
properties' reader says of the last line (`HereInv`), that reading on does not change what was said of earlier lines (`ReadingStays`), and every
block is right from the moment it is flushed (`BlocksInv`). The pass that hands headers on is a fold over the blocks; `AllInherited` follows it block by block.

Assumptions the proofs added: a row without label, relation and descriptor has no outline number (`TableScan`: the code reads the
number off the label); a row of a matrix that says something of relation or transaction has numbers. The second leaves out rows real tables
have, with text in those columns and no figures, so `FactsMeanTheirRows` claims nothing of a matrix with such a row; the name of no invite is an invite's (`Accounts`); a search of the chat worker is no request of the form, and the
conversation of none is neither a conversation nor a key (`Discovery`); none is no conversation, import or question (`ChatPage`); finitely many keys and imports (`EvidenceCache`, `ImportBudget`).

The library folds by recursive functions on the sets of what is left, and it leaves open which element comes next. In `ReportProofs`, `FoldExists`
and `SumExists` show that such functions exist over every finite set, `FoldStays` what they keep, `SumIsTheSum` that the choice makes no
difference to a sum of natural numbers or of integers, and in `PlatformProofs` `SumGrows` and `SumOfOneMore` how sums compare; `AllSubsets` is the induction they share.

These induction arguments quantify over every constant; least elements of sets of numbers come from the well-foundedness of `<` (`LeastNumber`),
which is also how induction over numbers is done where it is needed.

Proved but checked by no run alone: the type invariant of `ChatPage`, `OneReportPerSession`, `NewsOnce`, `SubmittedOnce`, `RunningWithinLimit` and `TerminalStays`.

Only model-checked, and why:

- liveness (`HandoffSettles`, `JobsSettle`, `PromisesEnd`, `WorkEnds`, `GraphEnds`): fairness and ENABLED are out of the
  prover's reach;
- what the findings violate, `ChargedOnce` among it;
- `SlotsAreEnough`, which says `RunningWithinLimit` of the setting of `SharedDocumentMC` where the worker is alone. The property itself is
  `LimitKept`, for any jobs, slots and crashes; only the statement about this instance is left to TLC.

Every other property of a passing run is stated by a theorem. `ConfirmedIsPaid` and `NeverPaidAgain` of `report_import` are those of
`ImportRuns`, which `PaidIfConfirmed` and `PaidOnce` are about, with the constants of the instance in `ReportImportMC`.

No module uses `RECURSIVE`, so theorems about each remain possible.

## 6. Not modelled

The implementation is mostly data: Vietnamese vocabularies and patterns (line items, periods, units, companies), their
matching and ranking, prompts, the validation of a draft's figures and wording, schemas, graders. Their code is sequential, its input
is text, and what it does has no state for TLC to explore; a model of it would be the code again. The modules take from it the
classes the control distinguishes. That is why the map covers a small part of the lines: `synth_runner.py`, `keyworder_runner.py`,
`query_routing.py`, `financial_validation.py`, `triage.py` alone are fifteen thousand lines of that kind, of which the call,
repair and choice are in `SynthAnswer` and `QuestionPlan`.

Also left out: the pages the discovery of reports reads, which are data, and the symbol catalog, a file replaced in one step; page selection in a PDF; the quarantine and migration of old registries; password changes and the disabling of accounts,
single updates; sessions and cookies; the end of the trial period; batches of evaluation and their statistics; of the web front end everything but the handlers of the chat page. SQLite and Qdrant
are taken to do what they promise: a transaction is atomic, an alias update is one step.

## 7. Plan

Done: every module of the table in section 2, and the proofs of section 5. What would come next:

1. A refinement between `ImportRuns` and `ImportBudget`: the ledger read as reservation and bill.
2. The limit of running parses with CLI processes where every job has a document of its own.
