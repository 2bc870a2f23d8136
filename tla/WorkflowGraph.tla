---------------------------- MODULE WorkflowGraph ----------------------------
(***************************************************************************)
(* The graph that answers a question (workflow/graph.py): plan, route,      *)
(* build evidence, let the analysis agents work side by side in supersteps, *)
(* collect them, read the company news that was analysed meanwhile outside  *)
(* the graph (workflow/news_branch.py), speak, and perhaps ask for another  *)
(* round.  What the models say is a choice; the routing is the code's.      *)
(***************************************************************************)
EXTENDS Integers, FiniteSets, Sequences

CONSTANTS
  Agents,      \* ANALYSIS_AGENT_ORDER
  Bundles,     \* news bundles the evidence stage may leave, by bundle_key
  NeedBy,      \* the agents whose requirements the search behind a bundle serves
  NoBundle,
  Parallel,    \* the run has a WebBranchRunner (services.web_runner)
  Links,       \* the question ties news to an agent's figures (links_news_to_analysis)
  MaxRounds,   \* execution.max_followup_rounds
  ToolCap,     \* execution.max_tool_calls_per_round
  MaxNewsRuns, \* MAX_RUNS_PER_QUESTION
  MaxCalls,    \* bound: calls a model names in one reply
  MaxPasses    \* langgraph's recursion limit, counted in passes of the router

ASSUME GraphAssumption ==
  /\ NoBundle \notin Bundles /\ NeedBy \in [Bundles -> SUBSET Agents]
  /\ Parallel \in BOOLEAN /\ Links \in BOOLEAN
  /\ MaxRounds \in Nat /\ ToolCap \in Nat \ {0} /\ MaxNewsRuns \in Nat
  /\ MaxPasses \in Nat \ {0} /\ MaxCalls \in Nat

(* MAX_RUNS_PER_QUESTION is 2.                                              *)
ASSUME NewsRunsAssumption == MaxNewsRuns <= 2

VARIABLES
  node,      \* the node of this superstep; "analysis" while agents are at work
  round,     \* followup_rounds
  passes,    \* times the router ran
  plan,      \* planner_plan: may this round use analysis agents
  expected,  \* expected_workers
  decision,  \* collect_decision
  stage,     \* the task of each agent in this superstep
  collecting, \* collect_analysis is a task of this superstep
  said,      \* latest agent_response: its kind, tool calls and round
  calls,     \* tool_call_counts: round and count
  forced,    \* force_collect_agents: a round, or -1
  done,      \* done_workers: a round, or -1
  collected, \* collected_keys
  analysed,  \* agents with an entry in worker_results
  spoken,    \* the round of Synth's last decision, or -1
  bundle,    \* web_bundle
  job,       \* web_job
  news,      \* web_analysis.memo_key: the bundle it was made from, or left unfinished
  newsFor,   \* web_news_agents
  newsRuns,  \* web_analysis_runs
  branch     \* WebBranchRunner._jobs: queued in order, and ended

agentVars == <<stage, collecting, said, calls, forced, done, collected, analysed>>
newsVars == <<job, news, newsFor, newsRuns, branch>>
vars == <<node, round, passes, plan, expected, decision, spoken,
          bundle, agentVars, newsVars>>

Rounds == 0..MaxRounds
Never == -1
Nodes == {"agent_main", "agent_router", "build_evidence", "agent_web", "start_web",
          "analysis", "join_web", "agent_synth", "end", "failed"}

(* What a task of an agent may come to.  A model may name several tools.     *)
Nothing == [kind |-> "none", n |-> 0]
ToolReplies == [kind : {"tools"}, n : 1..MaxCalls]
Answer == [kind |-> "answer", n |-> 0]
ToolEnds == [kind : {"ok", "bad", "repeat"}, n : {0}]

TypeOK ==
  /\ node \in Nodes /\ round \in Rounds /\ passes \in 0..MaxPasses
  /\ plan \in {"agents", "tables"}
  /\ expected \subseteq Agents
  /\ decision \in {"", "analysis", "synth", "stop"}
  /\ stage \in [Agents -> {"idle", "first", "again", "tools", "finalize"}]
  /\ collecting \in BOOLEAN
  /\ said \in [Agents -> [round : Rounds \union {Never},
                          reply : {Nothing, Answer} \union ToolReplies]]
  /\ calls \in [Agents -> [round : Rounds, n : 0..ToolCap]]
  /\ \A m \in {forced, done} : m \in [Agents -> Rounds \union {Never}]
  /\ collected \subseteq Rounds /\ analysed \subseteq Agents
  /\ spoken \in Rounds \union {Never}
  /\ {bundle, job, news} \subseteq Bundles \union {NoBundle}
  /\ newsFor \subseteq Agents /\ newsRuns \in 0..MaxNewsRuns + MaxPasses
  /\ branch \in [queue : Seq(Bundles), ended : SUBSET Bundles]

Init ==
  /\ node \in {"agent_main", "agent_router"}
  /\ round = 0 /\ passes = 0 /\ plan = "agents" /\ expected = {}
  /\ decision = ""
  /\ stage = [a \in Agents |-> "idle"] /\ collecting = FALSE
  /\ said = [a \in Agents |-> [round |-> Never, reply |-> Nothing]]
  /\ calls = [a \in Agents |-> [round |-> 0, n |-> 0]]
  /\ forced = [a \in Agents |-> Never]
  /\ done = [a \in Agents |-> Never]
  /\ collected = {}
  /\ analysed = {}
  /\ spoken = Never
  /\ bundle = NoBundle /\ job = NoBundle /\ news = NoBundle /\ newsFor = {} /\ newsRuns = 0
  /\ branch = [queue |-> << >>, ended |-> {}]

-----------------------------------------------------------------------------
(* Planning and evidence. *)

Main ==
  /\ node = "agent_main" /\ node' = "agent_router"
  /\ UNCHANGED <<round, passes, plan, expected, decision, spoken,
                 bundle, agentVars, newsVars>>

(* A plan always comes out, the model's or the fallback.                    *)
Router ==
  /\ node = "agent_router" /\ node' = "build_evidence"
  /\ passes' = passes + 1
  /\ expected' = {}
  /\ UNCHANGED <<round, plan, decision, spoken, bundle, agentVars, newsVars>>

(* Where the graph goes after evidence (and after the news node).           *)
Dispatch(target) ==
  IF decision' = "analysis" /\ target # {}
    THEN /\ node' = "analysis"
         /\ stage' = [a \in Agents |-> IF a \in target THEN "first" ELSE "idle"]
    ELSE node' = "join_web" /\ UNCHANGED stage

(* (mutated form: one analysis for a question, whatever is fetched later.)   *)
NeedsNews_First(b) == b # NoBundle /\ news = NoBundle /\ job = NoBundle /\ newsRuns < MaxNewsRuns

NeedsNews(b) ==
  /\ b \notin {NoBundle, news, job}
  /\ newsRuns < MaxNewsRuns

SequentialNews(b, target) ==
  \/ Links /\ NeedBy[b] \intersect target # {}
  \/ ~Parallel

(* The analysis agents of the router's plan, which has none when it is for  *)
(* requests about tables.                                                   *)
Plans == IF plan = "agents" THEN SUBSET Agents ELSE {{}}

(* A planned agent may lack a target; a fetch that brings no bundle leaves  *)
(* the one of an earlier round.                                             *)
BuildEvidence ==
  /\ node = "build_evidence"
  /\ \E planned \in Plans :
       /\ expected' \in SUBSET planned
       /\ decision' = IF planned = {} THEN "synth" ELSE "analysis"
  /\ bundle' \in {bundle} \union Bundles
  /\ IF NeedsNews(bundle')
       THEN /\ node' = IF SequentialNews(bundle', expected') THEN "agent_web" ELSE "start_web"
            /\ UNCHANGED stage
       ELSE Dispatch(expected')
  /\ UNCHANGED <<round, passes, plan, spoken, collecting, said,
                 calls, forced, done, collected, analysed, newsVars>>

(* Sequential: the analysis an agent is about to read; without events or    *)
(* with an error no agent receives it.                                      *)
AgentWeb ==
  /\ node = "agent_web"
  /\ news' = bundle
  /\ newsFor' \in {{}, IF Links THEN NeedBy[bundle] \intersect expected ELSE {}}
  /\ newsRuns' = newsRuns + 1
  /\ UNCHANGED decision /\ Dispatch(expected)
  /\ UNCHANGED <<round, passes, plan, expected, spoken, bundle,
                 collecting, said, calls, forced, done, collected, analysed, job, branch>>

(* Parallel: once for a key, on the branch's single thread.                 *)
Started == {branch.queue[i] : i \in DOMAIN branch.queue} \union branch.ended

StartWeb ==
  /\ node = "start_web"
  /\ job' = bundle /\ newsFor' = {}
  /\ branch' = IF bundle \in Started THEN branch
               ELSE [branch EXCEPT !.queue = Append(@, bundle)]
  /\ UNCHANGED decision /\ Dispatch(expected)
  /\ UNCHANGED <<round, passes, plan, expected, spoken, bundle,
                 collecting, said, calls, forced, done, collected, analysed, news, newsRuns>>

(* The branch's thread ends an analysis at any time, well or not, even      *)
(* after the graph ended: close() does not wait for it.                     *)
BranchEnds ==
  /\ branch.queue # << >>
  /\ branch' = [queue |-> Tail(branch.queue), ended |-> branch.ended \union {Head(branch.queue)}]
  /\ UNCHANGED <<node, round, passes, plan, expected, decision,
                 spoken, bundle, agentVars, job, news, newsFor, newsRuns>>

(* Waits until the job ends or its deadline passes, whichever is first.     *)
JoinWeb ==
  /\ node = "join_web" /\ node' = "agent_synth"
  /\ IF job = NoBundle \/ news = job
       THEN UNCHANGED <<news, newsRuns>>
       ELSE /\ newsRuns' = newsRuns + 1
            /\ \/ job \in branch.ended /\ news' = job
               \/ job \notin branch.ended /\ news' = bundle
  /\ UNCHANGED <<round, passes, plan, expected, decision, spoken,
                 bundle, agentVars, job, newsFor, branch>>

-----------------------------------------------------------------------------
(* A superstep of the analysis: every task reads the state the superstep    *)
(* began with, and their writes are merged at its end.                      *)

Count(a) == IF calls[a].round = round THEN calls[a].n ELSE 0

(* An agent asks for tools only below its cap and unless told to collect;   *)
(* its first call sees the Send payload, which holds neither.               *)
MayAskTools(a) ==
  \/ stage[a] = "first"
  \/ forced[a] # round /\ Count(a) < ToolCap

Outcomes(a) ==
  IF stage[a] \in {"first", "again"}
    THEN {Answer} \union (IF MayAskTools(a) THEN ToolReplies ELSE {})
  ELSE IF stage[a] = "tools" THEN ToolEnds
  ELSE {Nothing}

(* make_should_continue. *)
AfterCall(a, reply) ==
  IF forced[a] = round \/ Count(a) >= ToolCap \/ reply.kind # "tools"
    THEN "finalize" ELSE "tools"

NextStage(a, out) ==
  CASE stage[a] \in {"first", "again"} -> AfterCall(a, out)
    [] stage[a] = "tools" -> "again"
    [] OTHER -> "idle"

(* The calls of one reply, up to what the cap leaves.  A repeated call      *)
(* counts as the rest of the cap; an overflow, an error and a repeat force  *)
(* the agent to answer.                                                     *)
Executed(a) == IF said[a].reply.n < ToolCap - Count(a)
               THEN said[a].reply.n ELSE ToolCap - Count(a)
(* (mutated form: the count of the round stays as it was.)                   *)
Counted_Never(a, out) == [round |-> round, n |-> Count(a)]

Counted(a, out) == [round |-> round,
                    n |-> IF out.kind = "repeat" THEN ToolCap ELSE Count(a) + Executed(a)]
ForcesAnswer(a, out) == out.kind # "ok" \/ said[a].reply.n > Executed(a)

MarkDone(a) == IF stage[a] = "finalize" THEN round ELSE done[a]

(* collect_analysis: ready when every expected agent has finished in this   *)
(* round, and once in a round.                                              *)
(* (mutated form: a mark of any round counts.)                               *)
Ready_AnyRound == expected # {} /\ \A a \in expected : done[a] # Never

Ready == expected # {} /\ \A a \in expected : done[a] = round
(* (mutated form: collected once for the whole question.)                    *)
CollectDecision_OnceEver == IF Ready /\ collected = {} THEN "synth" ELSE "stop"

CollectDecision == IF Ready /\ round \notin collected THEN "synth" ELSE "stop"

(* Every expected agent gets an entry: its analysis, or an empty one (which  *)
(* keeps that of an earlier round) when its answer is empty or unreadable.  *)
Collect ==
  IF collecting
    THEN /\ decision' = CollectDecision
         /\ IF decision' = "synth"
              THEN /\ collected' = collected \union {round}
                   /\ analysed' = analysed \union expected
              ELSE UNCHANGED <<collected, analysed>>
    ELSE UNCHANGED <<decision, collected, analysed>>

Superstep ==
  /\ node = "analysis"
  /\ \E out \in [Agents -> {Nothing, Answer} \union ToolReplies \union ToolEnds] :
       /\ \A a \in Agents : out[a] \in Outcomes(a)
       /\ stage' = [a \in Agents |-> NextStage(a, out[a])]
       /\ said' = [a \in Agents |-> IF stage[a] \in {"first", "again"}
                                    THEN [round |-> round, reply |-> out[a]] ELSE said[a]]
       /\ calls' = [a \in Agents |-> IF stage[a] = "tools" THEN Counted(a, out[a])
                                     ELSE calls[a]]
       /\ forced' = [a \in Agents |-> IF stage[a] = "tools" /\ ForcesAnswer(a, out[a])
                                      THEN round ELSE forced[a]]
  /\ done' = [a \in Agents |-> MarkDone(a)]
  /\ collecting' = \E a \in Agents : stage[a] = "finalize"
  /\ Collect
  /\ node' = IF collecting /\ decision' = "synth" THEN "join_web"
             ELSE IF ~collecting' /\ \A a \in Agents : stage'[a] = "idle" THEN "end"
             ELSE "analysis"
  /\ UNCHANGED <<round, passes, plan, expected, spoken, bundle,
                 newsVars>>

-----------------------------------------------------------------------------
(* Speaking. *)

(* What Synth may ask for: in a round with analysis agents (planned, even    *)
(* if none got a target), only an agent that has no analysis yet.           *)
Requests ==
  IF expected = {} /\ decision # "analysis" THEN {"agents", "tables"}
  ELSE IF analysed = Agents THEN {} ELSE {"agents"}

(* synth_route. *)
SynthRoute(need, r) == IF need /\ 0 < r /\ r <= MaxRounds THEN "followup" ELSE "end"

(* Below the limit a request prepares the next round; at the limit Synth    *)
(* refuses it, and keeps the round and the request.                         *)
Synth ==
  /\ node = "agent_synth"
  /\ spoken' = round
  /\ \E asks \in IF Requests = {} THEN {FALSE} ELSE BOOLEAN :
       /\ IF asks /\ round < MaxRounds
            THEN round' = round + 1 /\ plan' \in Requests
            ELSE UNCHANGED <<round, plan>>
       /\ node' = IF SynthRoute(asks, round') = "end" THEN "end"
                  ELSE IF passes = MaxPasses THEN "failed" ELSE "agent_router"
  /\ UNCHANGED <<passes, expected, decision, bundle, agentVars, newsVars>>

Graph ==
  Main \/ Router \/ BuildEvidence \/ AgentWeb \/ StartWeb \/ Superstep \/ JoinWeb \/ Synth

Next == Graph \/ BranchEnds

Spec == Init /\ [][Next]_vars

(* The run's process executes the graph; every wait inside it has a limit.  *)
FairSpec == Spec /\ WF_vars(Graph)
-----------------------------------------------------------------------------
(* Properties. *)

(* What Synth writes from is complete: no agent is still at work, and every *)
(* agent this round expects has replied in this round with an answer, not   *)
(* with a tool call nobody ran.                                             *)
SynthHearsEveryAgent ==
  node \in {"join_web", "agent_synth"} =>
    /\ \A a \in Agents : stage[a] = "idle"
    /\ \A a \in expected : said[a] = [round |-> round, reply |-> Answer]

(* A run never ends silently: when the graph stops, Synth has spoken in the *)
(* round it stopped in, although an unready or repeated collection also     *)
(* ends its branch of the graph.                                            *)
EndsAnswered == node = "end" => spoken = round

(* The news an agent or Synth is about to read was analysed from the        *)
(* newest bundle, unless the question has used up its analyses.             *)
NewsIsFresh ==
  /\ node = "analysis" /\ newsFor \intersect expected # {} =>
       news = bundle \/ newsRuns >= MaxNewsRuns
  /\ node = "agent_synth" /\ bundle # NoBundle =>
       news = bundle \/ newsRuns >= MaxNewsRuns

(* Whatever the models reply, the run ends: the cap bounds an agent's tools, *)
(* the rounds bound the follow-ups, and langgraph bounds the rest.          *)
GraphEnds == <>(node \in {"end", "failed"})

(* conditions.py:124: the edge has the ceiling Synth enforces, so a pass     *)
(* back to the router is always a new round.                                *)
FollowupIsANewRound ==
  [][node = "agent_synth" /\ node' = "agent_router" => round' = round + 1]_vars
=============================================================================
