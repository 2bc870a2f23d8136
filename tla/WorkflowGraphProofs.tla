------------------------- MODULE WorkflowGraphProofs -------------------------
(***************************************************************************)
(* The graph for every number of agents, bundles, rounds and tool calls.   *)
(* Beside the types the invariant says: nothing is marked with a round     *)
(* still to come (RoundsInv); in a round that is not collected yet the     *)
(* marks of an agent, its stage and its reply tell one story (AgentsInv);  *)
(* a collected round is about to be spoken in or was (EndsInv); a pass     *)
(* joins the news once (PassesInv); and an analysis of the news that is    *)
(* not joined yet is that of the newest bundle (NewsInv).                  *)
(***************************************************************************)
EXTENDS WorkflowGraph, TLAPS

(* No mark is of a later round. *)
RoundsInv ==
  /\ \A a \in Agents : forced[a] <= round /\ done[a] <= round /\ calls[a].round <= round
  /\ collected \subseteq 0..round
  /\ spoken <= round

Untouched(a) == forced[a] # round /\ done[a] # round /\ Count(a) = 0
Answered(a) == said[a] = [round |-> round, reply |-> Answer]
AllIdle == \A a \in Agents : stage[a] = "idle"

(* What an agent at work in a round that is not collected has done in it. *)
AgentOK(a) ==
  /\ stage[a] # "idle" => a \in expected /\ done[a] # round
  /\ stage[a] = "first" => Untouched(a)
  /\ stage[a] = "finalize" => Answered(a)
  /\ done[a] = round => Answered(a)
  /\ a \in expected /\ stage[a] = "idle" => done[a] = round

AgentsInv ==
  /\ node # "analysis" => AllIdle
  /\ node \notin {"analysis", "end"} /\ round \notin collected =>
       \A a \in Agents : Untouched(a)
  /\ node = "analysis" => expected # {}
  /\ node = "analysis" /\ AllIdle => collecting
  /\ node = "analysis" /\ round \notin collected => \A a \in Agents : AgentOK(a)
  /\ node \in {"agent_web", "start_web"} => expected = {} \/ decision = "analysis"

(* A round is collected once, and spoken in before anything else. *)
EndsInv ==
  /\ node \notin {"join_web", "agent_synth"} /\ round \in collected => spoken = round
  /\ EndsAnswered

(* Each pass joins the news once, and each of the other analyses is allowed. *)
BeforeJoin == {"build_evidence", "agent_web", "start_web", "analysis", "join_web"}
PassesInv ==
  /\ node \in {"agent_main", "agent_router"} => passes < MaxPasses
  /\ node \in BeforeJoin => passes >= 1 /\ newsRuns <= MaxNewsRuns + passes - 1
  /\ newsRuns <= MaxNewsRuns + passes

NewsInv ==
  /\ node \in {"agent_web", "start_web"} => NeedsNews(bundle)
  /\ bundle = NoBundle => news = NoBundle /\ job = NoBundle /\ newsFor = {}
  /\ newsRuns < MaxNewsRuns =>
       /\ newsRuns = 0 => news = NoBundle
       /\ job \notin {NoBundle, news} =>
            /\ job = bundle /\ newsFor = {}
            /\ node \in {"analysis", "join_web", "end", "failed"}
       /\ node \in {"analysis", "join_web", "agent_synth"} /\ bundle # NoBundle =>
            bundle \in {news, job}

IInv ==
  /\ TypeOK /\ RoundsInv /\ AgentsInv /\ SynthHearsEveryAgent /\ EndsInv /\ PassesInv /\ NewsInv

-----------------------------------------------------------------------------

(* The numbers, as numbers. *)
LEMMA NumbersOfConstants ==
  /\ MaxRounds \in Nat /\ ToolCap \in Nat /\ ToolCap >= 1 /\ MaxNewsRuns \in Nat /\ MaxNewsRuns <= 2
  /\ MaxPasses \in Nat /\ MaxPasses >= 1 /\ MaxCalls \in Nat
<1>1. ToolCap \in Nat \ {0} /\ MaxPasses \in Nat \ {0}
  BY GraphAssumption
<1>2. MaxRounds \in Nat /\ MaxNewsRuns \in Nat /\ MaxCalls \in Nat
  BY GraphAssumption
<1> QED BY <1>1, <1>2, NewsRunsAssumption

LEMMA Numbers ==
  ASSUME TypeOK
  PROVE  /\ round \in Nat /\ passes \in Nat /\ newsRuns \in Nat
         /\ round <= MaxRounds /\ passes <= MaxPasses
         /\ branch \in [queue : Seq(Bundles), ended : SUBSET Bundles]
<1>1. round \in 0..MaxRounds /\ passes \in 0..MaxPasses /\ newsRuns \in 0..MaxNewsRuns + MaxPasses
      /\ branch \in [queue : Seq(Bundles), ended : SUBSET Bundles]
  BY DEF TypeOK, Rounds
<1> QED BY <1>1, NumbersOfConstants

LEMMA InitInv == Init => IInv
<1> SUFFICES ASSUME Init PROVE IInv
  OBVIOUS
<1>1. /\ node \in {"agent_main", "agent_router"} /\ plan = "agents" /\ expected = {}
      /\ decision = "" /\ collecting = FALSE /\ collected = {} /\ analysed = {} /\ newsFor = {}
      /\ bundle = NoBundle /\ job = NoBundle /\ news = NoBundle
  BY DEF Init
<1>2. /\ stage = [a \in Agents |-> "idle"]
      /\ said = [a \in Agents |-> [round |-> Never, reply |-> Nothing]]
      /\ calls = [a \in Agents |-> [round |-> 0, n |-> 0]]
      /\ forced = [a \in Agents |-> Never] /\ done = [a \in Agents |-> Never]
      /\ branch = [queue |-> << >>, ended |-> {}]
  BY DEF Init
<1>3. round = 0 /\ passes = 0 /\ newsRuns = 0 /\ spoken = Never
  BY DEF Init
<1>4. Never <= 0 /\ Never # 0 /\ 0 \in Rounds /\ 0 \in 0..ToolCap
      /\ 0 \in 0..MaxPasses /\ 0 \in 0..MaxNewsRuns + MaxPasses /\ {} \subseteq 0..0
  BY NumbersOfConstants DEF Never, Rounds
<1>5. TypeOK
  <2>1. round \in Rounds /\ passes \in 0..MaxPasses /\ spoken \in Rounds \union {Never}
        /\ newsRuns \in 0..MaxNewsRuns + MaxPasses
    BY <1>3, <1>4
  <2>2. said \in [Agents -> [round : Rounds \union {Never}, reply : {Nothing, Answer} \union ToolReplies]]
    <3>1. [round |-> Never, reply |-> Nothing]
          \in [round : Rounds \union {Never}, reply : {Nothing, Answer} \union ToolReplies]
      OBVIOUS
    <3> QED BY <1>2, <3>1
  <2>3. calls \in [Agents -> [round : Rounds, n : 0..ToolCap]]
    BY <1>2, <1>4
  <2>4. branch \in [queue : Seq(Bundles), ended : SUBSET Bundles]
    <3>1. << >> \in Seq(Bundles) /\ {} \in SUBSET Bundles
      OBVIOUS
    <3> QED BY <1>2, <3>1
  <2>5. forced \in [Agents -> Rounds \union {Never}] /\ done \in [Agents -> Rounds \union {Never}]
    BY <1>2
  <2> QED BY <1>1, <1>2, <2>1, <2>2, <2>3, <2>4, <2>5 DEF TypeOK, Nodes
<1>6. RoundsInv
  <2>1. \A a \in Agents : forced[a] = Never /\ done[a] = Never /\ calls[a].round = 0
    BY <1>2
  <2>2. 0 <= 0 /\ Never <= 0
    BY <1>4
  <2>3. \A a \in Agents : forced[a] <= round /\ done[a] <= round /\ calls[a].round <= round
    BY <1>3, <2>1, <2>2
  <2>4. collected \subseteq 0..round
    BY <1>1
  <2>5. spoken <= round
    BY <1>3, <2>2
  <2> QED BY <2>3, <2>4, <2>5 DEF RoundsInv
<1>7. AgentsInv
  <2>1. \A a \in Agents : Untouched(a)
    BY <1>2, <1>3, <1>4 DEF Untouched, Count
  <2> QED BY <1>1, <1>2, <2>1 DEF AgentsInv, AllIdle
<1>8. SynthHearsEveryAgent /\ EndsInv
  BY <1>1 DEF SynthHearsEveryAgent, EndsInv, EndsAnswered
<1>9. PassesInv
  <2>1. 0 < MaxPasses /\ 0 <= MaxNewsRuns + 0
    BY NumbersOfConstants
  <2>2. passes < MaxPasses /\ newsRuns <= MaxNewsRuns + passes
    BY <1>3, <2>1
  <2> QED BY <1>1, <2>2 DEF PassesInv, BeforeJoin
<1>10. NewsInv
  BY <1>1 DEF NewsInv
<1> QED BY <1>5, <1>6, <1>7, <1>8, <1>9, <1>10 DEF IInv

LEMMA StutterInv == IInv /\ UNCHANGED vars => IInv'
<1> SUFFICES ASSUME IInv, UNCHANGED vars PROVE IInv'
  OBVIOUS
<1> USE DEF IInv, vars, agentVars, newsVars
<1>1. TypeOK'
  BY DEF TypeOK
<1>2. RoundsInv'
  BY DEF RoundsInv
<1>3. AgentsInv'
  BY DEF AgentsInv, AllIdle, Untouched, Count, AgentOK, Answered
<1>4. SynthHearsEveryAgent' /\ EndsInv'
  BY DEF SynthHearsEveryAgent, EndsInv, EndsAnswered
<1>5. PassesInv'
  BY DEF PassesInv, BeforeJoin
<1>6. NewsInv'
  BY DEF NewsInv, NeedsNews
<1> QED BY <1>1, <1>2, <1>3, <1>4, <1>5, <1>6

(* A step between nodes at which no agent works, and in no new round.       *)
Resting == UNCHANGED <<round, spoken, agentVars>>

LEMMA RestInv ==
  ASSUME IInv, Resting, node \notin {"analysis", "end"}, node' \notin {"analysis", "end"},
         node \in {"join_web", "agent_synth"} <=> node' \in {"join_web", "agent_synth"},
         node' \in {"agent_web", "start_web"} => expected' = {} \/ decision' = "analysis",
         node' \in {"join_web", "agent_synth"} => UNCHANGED expected
  PROVE  RoundsInv' /\ AgentsInv' /\ SynthHearsEveryAgent' /\ EndsInv'
<1> USE DEF IInv, Resting, agentVars
<1>1. RoundsInv'
  BY DEF RoundsInv
<1>2. AgentsInv'
  BY DEF AgentsInv, AllIdle, Untouched, Count
<1>3. SynthHearsEveryAgent'
  BY DEF SynthHearsEveryAgent, AgentsInv, AllIdle
<1>4. EndsInv'
  BY DEF EndsInv, EndsAnswered
<1> QED BY <1>1, <1>2, <1>3, <1>4

(* What Dispatch starts, or leads to Synth.                                 *)
LEMMA DispatchInv ==
  ASSUME IInv, UNCHANGED <<round, spoken, collecting, said, calls, forced, done, collected, analysed>>,
         node \in {"build_evidence", "agent_web", "start_web"},
         expected' \subseteq Agents, Dispatch(expected'), expected' = {} \/ decision' = "analysis"
  PROVE  /\ node' \in {"analysis", "join_web"}
         /\ stage' \in [Agents -> {"idle", "first", "again", "tools", "finalize"}]
         /\ RoundsInv' /\ AgentsInv' /\ SynthHearsEveryAgent' /\ EndsInv'
<1> USE DEF IInv
<1>1. RoundsInv'
  BY DEF RoundsInv
<1>2. CASE decision' = "analysis" /\ expected' # {}
  <2>1. node' = "analysis" /\ stage' = [a \in Agents |-> IF a \in expected' THEN "first" ELSE "idle"]
    BY <1>2 DEF Dispatch
  <2>2. PICK b \in Agents : stage'[b] = "first"
    BY <1>2, <2>1
  <2>3. round \notin collected => \A a \in Agents : AgentOK(a)'
    BY <2>1 DEF AgentsInv, AgentOK, Untouched, Count
  <2>4. AgentsInv'
    BY <1>2, <2>1, <2>2, <2>3 DEF AgentsInv, AllIdle
  <2> QED BY <1>1, <2>1, <2>4 DEF SynthHearsEveryAgent, EndsInv, EndsAnswered
<1>3. CASE ~(decision' = "analysis" /\ expected' # {})
  <2>1. node' = "join_web" /\ UNCHANGED stage /\ expected' = {}
    BY <1>3 DEF Dispatch
  <2>2. AgentsInv'
    BY <2>1 DEF AgentsInv, AllIdle, Untouched, Count
  <2>3. SynthHearsEveryAgent'
    BY <2>1 DEF SynthHearsEveryAgent, AgentsInv, AllIdle
  <2> QED BY <1>1, <2>1, <2>2, <2>3 DEF EndsInv, EndsAnswered, TypeOK
<1> QED BY <1>2, <1>3
-----------------------------------------------------------------------------

LEMMA MainInv == IInv /\ Main => IInv'
<1> SUFFICES ASSUME IInv, Main PROVE IInv'
  OBVIOUS
<1> USE DEF Main
<1>1. RoundsInv' /\ AgentsInv' /\ SynthHearsEveryAgent' /\ EndsInv'
  BY RestInv DEF Resting
<1>2. TypeOK'
  BY DEF IInv, TypeOK, Nodes, agentVars, newsVars
<1>3. PassesInv'
  BY DEF IInv, PassesInv, BeforeJoin, newsVars
<1>4. NewsInv'
  BY DEF IInv, NewsInv, newsVars
<1> QED BY <1>1, <1>2, <1>3, <1>4 DEF IInv

LEMMA RouterInv == IInv /\ Router => IInv'
<1> SUFFICES ASSUME IInv, Router PROVE IInv'
  OBVIOUS
<1> USE DEF Router
<1>1. RoundsInv' /\ AgentsInv' /\ SynthHearsEveryAgent' /\ EndsInv'
  BY RestInv DEF Resting
<1>2. passes < MaxPasses /\ newsRuns <= MaxNewsRuns + passes
  BY DEF IInv, PassesInv
<1>3. TypeOK /\ passes \in Nat /\ newsRuns \in Nat /\ MaxPasses \in Nat /\ MaxNewsRuns \in Nat
  BY Numbers, NumbersOfConstants DEF IInv
<1>4. TypeOK'
  <2>1. passes' \in 0..MaxPasses
    BY <1>2, <1>3
  <2> QED BY <1>3, <2>1 DEF TypeOK, Nodes, agentVars, newsVars
<1>5. PassesInv'
  <2>1. passes' >= 1 /\ newsRuns' <= MaxNewsRuns + passes' - 1 /\ newsRuns' <= MaxNewsRuns + passes'
    BY <1>2, <1>3 DEF newsVars
  <2> QED BY <2>1 DEF PassesInv
<1>6. NewsInv'
  BY DEF IInv, NewsInv, newsVars
<1> QED BY <1>1, <1>4, <1>5, <1>6 DEF IInv

LEMMA BuildEvidenceInv == IInv /\ BuildEvidence => IInv'
<1> SUFFICES ASSUME IInv, BuildEvidence PROVE IInv'
  OBVIOUS
<1> USE DEF BuildEvidence
<1>1. expected' \subseteq Agents /\ decision' \in {"analysis", "synth"}
      /\ (expected' = {} \/ decision' = "analysis")
  BY DEF Plans
<1>2. bundle' \in Bundles \union {NoBundle} /\ (bundle' = NoBundle => bundle = NoBundle)
  BY GraphAssumption DEF IInv, TypeOK
<1>3. CASE NeedsNews(bundle')
  <2>1. node' \in {"agent_web", "start_web"} /\ UNCHANGED stage
    BY <1>3
  <2>2. RoundsInv' /\ AgentsInv' /\ SynthHearsEveryAgent' /\ EndsInv'
    BY <1>1, <2>1, RestInv DEF Resting, agentVars
  <2>3. TypeOK'
    BY <1>1, <1>2, <2>1 DEF IInv, TypeOK, Nodes, newsVars
  <2>4. PassesInv'
    BY <2>1 DEF IInv, PassesInv, BeforeJoin, newsVars
  <2>5. NewsInv'
    BY <1>2, <1>3, <2>1 DEF IInv, NewsInv, NeedsNews, newsVars
  <2> QED BY <2>2, <2>3, <2>4, <2>5 DEF IInv
<1>4. CASE ~NeedsNews(bundle')
  <2>1. Dispatch(expected')
    BY <1>4
  <2>2. /\ node' \in {"analysis", "join_web"}
        /\ stage' \in [Agents -> {"idle", "first", "again", "tools", "finalize"}]
        /\ RoundsInv' /\ AgentsInv' /\ SynthHearsEveryAgent' /\ EndsInv'
    BY <1>1, <2>1, DispatchInv
  <2>3. TypeOK'
    BY <1>1, <1>2, <2>2 DEF IInv, TypeOK, Nodes, newsVars
  <2>4. PassesInv'
    BY <2>2 DEF IInv, PassesInv, BeforeJoin, newsVars
  <2>5. NewsInv'
    BY <1>2, <1>4, <2>2 DEF IInv, NewsInv, NeedsNews, newsVars
  <2> QED BY <2>2, <2>3, <2>4, <2>5 DEF IInv
<1> QED BY <1>3, <1>4

LEMMA AgentWebInv == IInv /\ AgentWeb => IInv'
<1> SUFFICES ASSUME IInv, AgentWeb PROVE IInv'
  OBVIOUS
<1> USE DEF AgentWeb
<1>1. expected' \subseteq Agents /\ (expected' = {} \/ decision' = "analysis") /\ Dispatch(expected')
  BY DEF IInv, TypeOK, AgentsInv
<1>2. /\ node' \in {"analysis", "join_web"}
      /\ stage' \in [Agents -> {"idle", "first", "again", "tools", "finalize"}]
      /\ RoundsInv' /\ AgentsInv' /\ SynthHearsEveryAgent' /\ EndsInv'
  BY <1>1, DispatchInv
<1>0. newsRuns \in Nat /\ passes \in Nat /\ MaxPasses \in Nat /\ MaxNewsRuns \in Nat
      /\ MaxNewsRuns <= 2 /\ MaxPasses >= 1
  BY Numbers, NumbersOfConstants DEF IInv
<1>3. newsRuns < MaxNewsRuns /\ bundle \in Bundles
  BY DEF IInv, TypeOK, NewsInv, NeedsNews
<1>4. TypeOK'
  <2>1. newsFor' \subseteq Agents
    BY <1>3, GraphAssumption DEF IInv, TypeOK
  <2>2. newsRuns' \in 0..MaxNewsRuns + MaxPasses
    BY <1>3, <1>0
  <2> QED BY <1>1, <1>2, <1>3, <2>1, <2>2 DEF IInv, TypeOK, Nodes
<1>5. PassesInv'
  <2>1. passes >= 1
    BY DEF IInv, PassesInv, BeforeJoin
  <2>2. newsRuns' <= MaxNewsRuns + passes' - 1 /\ newsRuns' <= MaxNewsRuns + passes' /\ passes' >= 1
    BY <1>0, <1>3, <2>1
  <2> QED BY <1>2, <2>2 DEF PassesInv
<1>6. NewsInv'
  <2>1. newsRuns' < MaxNewsRuns => newsRuns = 0
    BY <1>3, <1>0
  <2>2. newsRuns < MaxNewsRuns /\ newsRuns = 0 => job = NoBundle
    <3> HAVE newsRuns < MaxNewsRuns /\ newsRuns = 0
    <3>1. news = NoBundle
      BY DEF IInv, NewsInv
    <3>2. node \notin {"analysis", "join_web", "end", "failed"}
      OBVIOUS
    <3> QED BY <3>1, <3>2 DEF IInv, NewsInv
  <2>3. newsRuns' # 0
    BY <1>0
  <2>4. bundle # NoBundle /\ bundle' # NoBundle
    BY <1>3, GraphAssumption
  <2>5. newsRuns' < MaxNewsRuns => job' = NoBundle /\ news' = bundle'
    BY <1>3, <2>1, <2>2
  <2> QED BY <1>2, <2>3, <2>4, <2>5 DEF NewsInv
<1> QED BY <1>2, <1>4, <1>5, <1>6 DEF IInv

LEMMA StartWebInv == IInv /\ StartWeb => IInv'
<1> SUFFICES ASSUME IInv, StartWeb PROVE IInv'
  OBVIOUS
<1> USE DEF StartWeb
<1>1. expected' \subseteq Agents /\ (expected' = {} \/ decision' = "analysis") /\ Dispatch(expected')
  BY DEF IInv, TypeOK, AgentsInv
<1>2. /\ node' \in {"analysis", "join_web"}
      /\ stage' \in [Agents -> {"idle", "first", "again", "tools", "finalize"}]
      /\ RoundsInv' /\ AgentsInv' /\ SynthHearsEveryAgent' /\ EndsInv'
  BY <1>1, DispatchInv
<1>3. bundle \in Bundles
  BY DEF IInv, TypeOK, NewsInv, NeedsNews
<1>4. TypeOK'
  <2>1. branch' \in [queue : Seq(Bundles), ended : SUBSET Bundles]
    <3>1. branch \in [queue : Seq(Bundles), ended : SUBSET Bundles]
      BY Numbers DEF IInv
    <3>2. Append(branch.queue, bundle) \in Seq(Bundles)
      BY <1>3, <3>1
    <3> QED BY <3>1, <3>2
  <2> QED BY <1>1, <1>2, <1>3, <2>1 DEF IInv, TypeOK, Nodes
<1>5. PassesInv'
  BY <1>2 DEF IInv, PassesInv, BeforeJoin
<1>6. NewsInv'
  BY <1>2, <1>3, GraphAssumption DEF IInv, NewsInv, NeedsNews
<1> QED BY <1>2, <1>4, <1>5, <1>6 DEF IInv

LEMMA BranchEndsInv == IInv /\ BranchEnds => IInv'
<1> SUFFICES ASSUME IInv, BranchEnds PROVE IInv'
  OBVIOUS
<1> USE DEF BranchEnds, agentVars, IInv
<1>1. TypeOK'
  <2>1. branch' \in [queue : Seq(Bundles), ended : SUBSET Bundles]
    <3>1. branch \in [queue : Seq(Bundles), ended : SUBSET Bundles]
      BY Numbers
    <3>2. branch.queue \in Seq(Bundles) /\ branch.queue # << >>
      BY <3>1
    <3>3. Head(branch.queue) \in Bundles /\ Tail(branch.queue) \in Seq(Bundles)
      BY <3>2
    <3> QED BY <3>1, <3>3
  <2> QED BY <2>1 DEF TypeOK
<1>2. RoundsInv'
  BY DEF RoundsInv
<1>3. AgentsInv'
  BY DEF AgentsInv, AllIdle, Untouched, Count, AgentOK, Answered
<1>4. SynthHearsEveryAgent' /\ EndsInv'
  BY DEF SynthHearsEveryAgent, EndsInv, EndsAnswered
<1>5. PassesInv'
  BY DEF PassesInv, BeforeJoin
<1>6. NewsInv'
  BY DEF NewsInv, NeedsNews
<1> QED BY <1>1, <1>2, <1>3, <1>4, <1>5, <1>6

LEMMA JoinWebInv == IInv /\ JoinWeb => IInv'
<1> SUFFICES ASSUME IInv, JoinWeb PROVE IInv'
  OBVIOUS
<1> USE DEF JoinWeb
<1>1. RoundsInv' /\ AgentsInv' /\ SynthHearsEveryAgent' /\ EndsInv'
  BY RestInv DEF Resting
<1>2. newsRuns' \in {newsRuns, newsRuns + 1} /\ news' \in {news, job, bundle}
  OBVIOUS
<1>3. newsRuns \in Nat /\ passes \in Nat /\ MaxPasses \in Nat /\ MaxNewsRuns \in Nat
      /\ MaxNewsRuns <= 2 /\ passes <= MaxPasses
  BY Numbers, NumbersOfConstants DEF IInv
<1>4. newsRuns <= MaxNewsRuns + passes - 1
  BY DEF IInv, PassesInv, BeforeJoin
<1>5. TypeOK'
  <2>1. newsRuns' \in 0..MaxNewsRuns + MaxPasses
    BY <1>2, <1>3, <1>4
  <2> QED BY <1>2, <2>1 DEF IInv, TypeOK, Nodes, agentVars
<1>6. PassesInv'
  <2>1. newsRuns' <= MaxNewsRuns + passes'
    BY <1>2, <1>3, <1>4
  <2> QED BY <2>1 DEF PassesInv, BeforeJoin
<1>7. NewsInv'
  <2>1. CASE job = NoBundle \/ news = job
    BY <2>1 DEF IInv, NewsInv
  <2>2. CASE ~(job = NoBundle \/ news = job)
    <3>1. newsRuns' = newsRuns + 1 /\ newsRuns' # 0
      BY <2>2, <1>3
    <3>2. bundle # NoBundle /\ bundle' # NoBundle
      BY <2>2 DEF IInv, NewsInv
    <3>3. newsRuns' < MaxNewsRuns => newsRuns < MaxNewsRuns
      BY <3>1, <1>3
    <3>4. newsRuns' < MaxNewsRuns => job = bundle
      BY <2>2, <3>3 DEF IInv, NewsInv
    <3>5. newsRuns' < MaxNewsRuns => news' = bundle' /\ job' = bundle'
      BY <2>2, <3>4
    <3> QED BY <3>1, <3>2, <3>5 DEF NewsInv
  <2> QED BY <2>1, <2>2
<1> QED BY <1>1, <1>5, <1>6, <1>7 DEF IInv

-----------------------------------------------------------------------------
(* One superstep of an agent, from what the superstep began with. *)

LEMMA AgentStep ==
  ASSUME IInv, node = "analysis", NEW a \in Agents, NEW out,
         out \in Outcomes(a),
         stage'[a] = NextStage(a, out),
         said'[a] = IF stage[a] \in {"first", "again"} THEN [round |-> round, reply |-> out] ELSE said[a],
         calls'[a] = IF stage[a] = "tools" THEN Counted(a, out) ELSE calls[a],
         forced'[a] = IF stage[a] = "tools" /\ ForcesAnswer(a, out) THEN round ELSE forced[a],
         done'[a] = MarkDone(a), round' = round, expected' = expected
  PROVE  /\ stage'[a] \in {"idle", "first", "again", "tools", "finalize"}
         /\ said'[a] \in [round : Rounds \union {Never}, reply : {Nothing, Answer} \union ToolReplies]
         /\ calls'[a] \in [round : Rounds, n : 0..ToolCap]
         /\ forced'[a] \in Rounds \union {Never} /\ done'[a] \in Rounds \union {Never}
         /\ forced'[a] <= round /\ done'[a] <= round /\ calls'[a].round <= round
         /\ round \notin collected => AgentOK(a)'
<1>1. /\ round \in Nat /\ MaxRounds \in Nat /\ ToolCap \in Nat /\ ToolCap >= 1 /\ round \in Rounds
      /\ round # Never
  BY Numbers, NumbersOfConstants DEF IInv, Rounds, Never
<1>2. /\ stage[a] \in {"idle", "first", "again", "tools", "finalize"}
      /\ said[a] \in [round : Rounds \union {Never}, reply : {Nothing, Answer} \union ToolReplies]
      /\ calls[a] \in [round : Rounds, n : 0..ToolCap]
      /\ forced[a] \in Rounds \union {Never} /\ done[a] \in Rounds \union {Never}
  BY DEF IInv, TypeOK
<1>3. forced[a] <= round /\ done[a] <= round /\ calls[a].round <= round
  BY DEF IInv, RoundsInv
<1>4. Count(a) \in 0..ToolCap
  BY <1>1, <1>2 DEF Count
<1>5. round \notin collected => AgentOK(a)
  BY DEF IInv, AgentsInv
<1>6. CASE stage[a] \in {"first", "again"}
  <2>1. out = Answer \/ (out \in ToolReplies /\ MayAskTools(a))
    BY <1>6 DEF Outcomes
  <2>2. stage'[a] = AfterCall(a, out) /\ said'[a] = [round |-> round, reply |-> out]
        /\ UNCHANGED <<calls[a], forced[a], done[a]>>
    BY <1>6 DEF NextStage, MarkDone
  <2>3. stage'[a] \in {"finalize", "tools"}
    BY <2>2 DEF AfterCall
  <2>4. round \notin collected /\ stage'[a] = "finalize" => out = Answer
    <3> HAVE round \notin collected /\ stage'[a] = "finalize"
    <3>1. SUFFICES ASSUME out \in ToolReplies, MayAskTools(a) PROVE FALSE
      BY <2>1
    <3>2. out.kind = "tools"
      BY <3>1 DEF ToolReplies
    <3>3. forced[a] = round \/ Count(a) >= ToolCap
      BY <2>2, <3>2 DEF AfterCall
    <3>4. stage[a] = "first" => forced[a] # round /\ Count(a) = 0
      BY <1>5 DEF AgentOK, Untouched
    <3>5. stage[a] = "first"
      BY <1>1, <1>4, <3>1, <3>3 DEF MayAskTools
    <3> QED BY <1>1, <1>4, <3>3, <3>4, <3>5
  <2>5. said'[a] \in [round : Rounds \union {Never}, reply : {Nothing, Answer} \union ToolReplies]
    BY <1>1, <2>1, <2>2
  <2>6. round \notin collected => AgentOK(a)'
    BY <1>5, <1>6, <2>2, <2>3, <2>4 DEF AgentOK, Answered
  <2> QED BY <1>2, <1>3, <2>2, <2>3, <2>5, <2>6
<1>7. CASE stage[a] = "tools"
  <2>1. stage'[a] = "again" /\ said'[a] = said[a] /\ done'[a] = done[a]
        /\ calls'[a] = Counted(a, out)
        /\ forced'[a] \in {forced[a], round}
    BY <1>7 DEF NextStage, MarkDone
  <2>2. said[a].reply.n \in Nat
    <3>1. said[a].reply \in {Nothing, Answer} \union ToolReplies
      BY <1>2
    <3>2. Nothing.n = 0 /\ Answer.n = 0 /\ \A r \in ToolReplies : r.n \in 1..MaxCalls
      BY DEF Nothing, Answer, ToolReplies
    <3>3. \A r \in ToolReplies : r.n \in Nat
      BY <3>2, NumbersOfConstants
    <3> QED BY <3>1, <3>2, <3>3
  <2>3. Counted(a, out) \in [round : Rounds, n : 0..ToolCap] /\ Counted(a, out).round = round
    <3>1. Executed(a) \in Nat /\ Count(a) + Executed(a) \in 0..ToolCap
      BY <1>1, <1>4, <2>2 DEF Executed
    <3>2. ToolCap \in 0..ToolCap
      BY <1>1
    <3> QED BY <1>1, <3>1, <3>2 DEF Counted
  <2>4. round \notin collected => AgentOK(a)'
    BY <1>5, <1>7, <2>1 DEF AgentOK, Answered
  <2>5. round <= round
    BY <1>1
  <2> QED BY <1>1, <1>2, <1>3, <2>1, <2>3, <2>4, <2>5
<1>8. CASE stage[a] = "finalize"
  <2>1. stage'[a] = "idle" /\ done'[a] = round /\ UNCHANGED <<said[a], calls[a], forced[a]>>
    BY <1>8 DEF NextStage, MarkDone
  <2>2. round \notin collected => AgentOK(a)'
    BY <1>5, <1>8, <2>1 DEF AgentOK, Answered
  <2> QED BY <1>1, <1>2, <1>3, <2>1, <2>2
<1>9. CASE stage[a] = "idle"
  <2>1. stage'[a] = "idle" /\ UNCHANGED <<said[a], calls[a], forced[a], done[a]>>
    BY <1>9 DEF NextStage, MarkDone
  <2>2. round \notin collected => AgentOK(a)'
    BY <1>5, <1>9, <2>1 DEF AgentOK, Answered
  <2> QED BY <1>1, <1>2, <1>3, <2>1, <2>2
<1> QED BY <1>2, <1>6, <1>7, <1>8, <1>9

LEMMA SuperstepInv == IInv /\ Superstep => IInv'
<1> SUFFICES ASSUME IInv, Superstep PROVE IInv'
  OBVIOUS
<1>1. /\ node = "analysis"
      /\ UNCHANGED <<round, passes, plan, expected, spoken, bundle, job, news, newsFor, newsRuns, branch>>
      /\ collecting' = \E a \in Agents : stage[a] = "finalize"
      /\ Collect
      /\ node' = IF collecting /\ decision' = "synth" THEN "join_web"
                 ELSE IF ~collecting' /\ AllIdle' THEN "end"
                 ELSE "analysis"
  BY DEF Superstep, newsVars, AllIdle
<1>2. PICK out :
        /\ \A a \in Agents : out[a] \in Outcomes(a)
        /\ stage' = [a \in Agents |-> NextStage(a, out[a])]
        /\ said' = [a \in Agents |-> IF stage[a] \in {"first", "again"}
                                     THEN [round |-> round, reply |-> out[a]] ELSE said[a]]
        /\ calls' = [a \in Agents |-> IF stage[a] = "tools" THEN Counted(a, out[a]) ELSE calls[a]]
        /\ forced' = [a \in Agents |-> IF stage[a] = "tools" /\ ForcesAnswer(a, out[a])
                                       THEN round ELSE forced[a]]
  BY DEF Superstep
<1>3. done' = [a \in Agents |-> MarkDone(a)]
  BY DEF Superstep
<1>4. ASSUME NEW a \in Agents
      PROVE  /\ stage'[a] \in {"idle", "first", "again", "tools", "finalize"}
             /\ said'[a] \in [round : Rounds \union {Never}, reply : {Nothing, Answer} \union ToolReplies]
             /\ calls'[a] \in [round : Rounds, n : 0..ToolCap]
             /\ forced'[a] \in Rounds \union {Never} /\ done'[a] \in Rounds \union {Never}
             /\ forced'[a] <= round /\ done'[a] <= round /\ calls'[a].round <= round
             /\ round \notin collected => AgentOK(a)'
  <2>1. out[a] \in Outcomes(a)
    BY <1>2
  <2>2. stage'[a] = NextStage(a, out[a])
        /\ said'[a] = (IF stage[a] \in {"first", "again"} THEN [round |-> round, reply |-> out[a]] ELSE said[a])
        /\ calls'[a] = (IF stage[a] = "tools" THEN Counted(a, out[a]) ELSE calls[a])
        /\ forced'[a] = (IF stage[a] = "tools" /\ ForcesAnswer(a, out[a]) THEN round ELSE forced[a])
    BY <1>2
  <2>3. done'[a] = MarkDone(a)
    BY <1>3
  <2> QED BY <1>1, <2>1, <2>2, <2>3, AgentStep
<1>5. round \in Rounds /\ round \in 0..round
  BY Numbers, NumbersOfConstants DEF IInv, Rounds
<1>6. /\ collected' \in {collected, collected \union {round}}
      /\ analysed' \in {analysed, analysed \union expected}
      /\ decision' \in {decision, "synth", "stop"}
      /\ (collected' # collected => collecting /\ decision' = "synth")
  BY <1>1 DEF Collect, CollectDecision
<1>7. TypeOK'
  <2>1. stage' \in [Agents -> {"idle", "first", "again", "tools", "finalize"}]
    BY <1>2, <1>4
  <2>2. said' \in [Agents -> [round : Rounds \union {Never},
                              reply : {Nothing, Answer} \union ToolReplies]]
    BY <1>2, <1>4
  <2>3. calls' \in [Agents -> [round : Rounds, n : 0..ToolCap]]
    BY <1>2, <1>4
  <2>4. forced' \in [Agents -> Rounds \union {Never}] /\ done' \in [Agents -> Rounds \union {Never}]
    BY <1>2, <1>3, <1>4
  <2>5. collected' \subseteq Rounds /\ analysed' \subseteq Agents /\ decision' \in {"", "analysis", "synth", "stop"}
    BY <1>5, <1>6 DEF IInv, TypeOK
  <2>6. node' \in Nodes /\ collecting' \in BOOLEAN
    BY <1>1 DEF Nodes
  <2> QED BY <1>1, <2>1, <2>2, <2>3, <2>4, <2>5, <2>6 DEF IInv, TypeOK
<1>8. RoundsInv'
  BY <1>1, <1>4, <1>5, <1>6 DEF IInv, RoundsInv
<1>9. AllIdle => AllIdle' /\ said' = said /\ ~collecting'
  <2>1. said \in [Agents -> [round : Rounds \union {Never},
                             reply : {Nothing, Answer} \union ToolReplies]]
    BY DEF IInv, TypeOK
  <2>2. AllIdle => AllIdle' /\ ~collecting'
    BY <1>1, <1>2 DEF AllIdle, NextStage
  <2>3. ASSUME AllIdle PROVE said' = said
    <3>1. \A a \in Agents : said'[a] = said[a]
      BY <1>2, <2>3 DEF AllIdle
    <3> QED BY <1>2, <2>1, <3>1
  <2> QED BY <2>2, <2>3
<1>10. node' = "join_web" => AllIdle /\ (\A a \in expected : Answered(a)) /\ round \in collected'
  <2> HAVE node' = "join_web"
  <2>1. collecting /\ decision' = "synth"
    BY <1>1
  <2>2. decision' = CollectDecision /\ collected' = collected \union {round}
    BY <1>1, <2>1 DEF Collect
  <2>3. Ready /\ round \notin collected
    BY <2>1, <2>2 DEF CollectDecision
  <2>4. \A a \in Agents : AgentOK(a)
    BY <1>1, <2>3 DEF IInv, AgentsInv
  <2>5. \A a \in expected : done[a] = round /\ a \in Agents
    BY <2>3 DEF Ready, IInv, TypeOK
  <2> QED BY <2>2, <2>4, <2>5 DEF AgentOK, AllIdle
<1>11. AgentsInv'
  <2>1. node' # "analysis" => AllIdle'
    BY <1>1, <1>9, <1>10
  <2>2. expected # {}
    BY <1>1 DEF IInv, AgentsInv
  <2>3. node' = "analysis" /\ AllIdle' => collecting'
    BY <1>1
  <2>4. round \notin collected' => \A a \in Agents : AgentOK(a)'
    BY <1>4, <1>6
  <2> QED BY <1>1, <1>10, <2>1, <2>2, <2>3, <2>4 DEF AgentsInv
<1>12. SynthHearsEveryAgent'
  BY <1>1, <1>9, <1>10 DEF SynthHearsEveryAgent, AllIdle, Answered
<1>13. EndsInv'
  <2>1. node' # "join_web" => collected' = collected
    BY <1>1, <1>6
  <2>2. round \in collected => spoken = round
    BY <1>1 DEF IInv, EndsInv
  <2>3. ASSUME node' = "end", round \notin collected PROVE FALSE
    <3>1. ~collecting' /\ AllIdle'
      BY <1>1, <2>3
    <3>2. \A a \in Agents : AgentOK(a)
      BY <1>1, <2>3 DEF IInv, AgentsInv
    <3>3. ASSUME NEW a \in Agents PROVE stage[a] = "idle"
      <4>1. NextStage(a, out[a]) = "idle" /\ stage[a] # "finalize"
        BY <1>1, <1>2, <3>1 DEF AllIdle
      <4>2. stage[a] \in {"idle", "first", "again", "tools", "finalize"}
        BY DEF IInv, TypeOK
      <4> QED BY <4>1, <4>2 DEF NextStage, AfterCall
    <3>4. collecting
      BY <1>1, <3>3 DEF IInv, AgentsInv, AllIdle
    <3>5. \A a \in expected : done[a] = round
      BY <3>2, <3>3 DEF AgentOK, IInv, TypeOK
    <3>6. Ready
      BY <1>1, <3>5 DEF Ready, IInv, AgentsInv
    <3>7. decision' = "synth"
      BY <1>1, <2>3, <3>4, <3>6 DEF Collect, CollectDecision
    <3> QED BY <1>1, <2>3, <3>4, <3>7
  <2> QED BY <1>1, <2>1, <2>2, <2>3 DEF EndsInv, EndsAnswered
<1>14. PassesInv'
  BY <1>1 DEF IInv, PassesInv, BeforeJoin
<1>15. NewsInv'
  BY <1>1 DEF IInv, NewsInv
<1> QED BY <1>7, <1>8, <1>11, <1>12, <1>13, <1>14, <1>15 DEF IInv

LEMMA SynthInv == IInv /\ Synth => IInv'
<1> SUFFICES ASSUME IInv, Synth PROVE IInv'
  OBVIOUS
<1>1. /\ node = "agent_synth" /\ spoken' = round
      /\ UNCHANGED <<passes, expected, decision, bundle, stage, collecting, said, calls, forced, done,
                     collected, analysed, job, news, newsFor, newsRuns, branch>>
  BY DEF Synth, agentVars, newsVars
<1>2. PICK asks \in BOOLEAN :
        /\ asks => Requests # {}
        /\ IF asks /\ round < MaxRounds
             THEN round' = round + 1 /\ plan' \in Requests
             ELSE UNCHANGED <<round, plan>>
        /\ node' = IF SynthRoute(asks, round') = "end" THEN "end"
                   ELSE IF passes = MaxPasses THEN "failed" ELSE "agent_router"
  BY DEF Synth
<1>3. node' \in {"end", "failed", "agent_router"} /\ (node' = "agent_router" => passes # MaxPasses)
  BY <1>2
<1>4. round \in Nat /\ passes \in Nat /\ MaxPasses \in Nat /\ MaxRounds \in Nat
      /\ passes <= MaxPasses /\ round <= MaxRounds /\ round \in Rounds
  BY Numbers, NumbersOfConstants DEF IInv, Rounds
<1>5. AllIdle
  BY <1>1 DEF IInv, AgentsInv
<1>6. TypeOK'
  <2>1. round' \in Rounds /\ plan' \in {"agents", "tables"}
    <3>1. plan \in {"agents", "tables"} /\ Requests \subseteq {"agents", "tables"}
      BY DEF IInv, TypeOK, Requests
    <3>2. CASE asks /\ round < MaxRounds
      <4>1. round' = round + 1 /\ plan' \in Requests
        BY <1>2, <3>2
      <4>2. round + 1 \in 0..MaxRounds
        BY <1>4, <3>2
      <4> QED BY <3>1, <4>1, <4>2 DEF Rounds
    <3>3. CASE ~(asks /\ round < MaxRounds)
      <4>1. round' = round /\ plan' = plan
        BY <1>2, <3>3
      <4> QED BY <1>4, <3>1, <4>1
    <3> QED BY <3>2, <3>3
  <2> QED BY <1>1, <1>3, <1>4, <2>1 DEF IInv, TypeOK, Nodes
<1>7. PassesInv'
  <2>1. node' = "agent_router" => passes < MaxPasses
    BY <1>3, <1>4
  <2> QED BY <1>1, <1>3, <2>1 DEF IInv, PassesInv, BeforeJoin
<1>8. NewsInv'
  BY <1>1, <1>3 DEF IInv, NewsInv
<1>9. SynthHearsEveryAgent'
  BY <1>3 DEF SynthHearsEveryAgent
<1>10. CASE asks /\ round < MaxRounds
  <2>1. round' = round + 1 /\ node' # "end"
    <3>1. 0 < round + 1 /\ round + 1 <= MaxRounds
      BY <1>4, <1>10
    <3> QED BY <1>2, <1>10, <3>1 DEF SynthRoute
  <2>2. ASSUME NEW a \in Agents
        PROVE  /\ forced[a] <= round' /\ done[a] <= round' /\ calls[a].round <= round'
               /\ forced[a] # round' /\ done[a] # round' /\ calls[a].round # round'
    <3>1. forced[a] <= round /\ done[a] <= round /\ calls[a].round <= round
      BY DEF IInv, RoundsInv
    <3>2. forced[a] \in Rounds \union {Never} /\ done[a] \in Rounds \union {Never} /\ calls[a].round \in Rounds
      BY DEF IInv, TypeOK
    <3>3. forced[a] \in Int /\ done[a] \in Int /\ calls[a].round \in Int
      BY <3>2, <1>4 DEF Rounds, Never
    <3> QED BY <1>4, <2>1, <3>1, <3>3
  <2>3. collected \subseteq 0..round
    BY DEF IInv, RoundsInv
  <2>4. round' \notin collected /\ collected \subseteq 0..round'
    BY <1>4, <2>1, <2>3
  <2>5. RoundsInv'
    BY <1>1, <1>4, <2>1, <2>2, <2>4 DEF RoundsInv
  <2>6. \A a \in Agents : Untouched(a)'
    BY <1>1, <2>2 DEF Untouched, Count
  <2>7. AgentsInv'
    BY <1>1, <1>3, <1>5, <2>6 DEF AgentsInv, AllIdle
  <2>8. EndsInv'
    BY <1>1, <2>1, <2>4 DEF EndsInv, EndsAnswered
  <2> QED BY <1>6, <1>7, <1>8, <1>9, <2>5, <2>7, <2>8 DEF IInv
<1>11. CASE ~(asks /\ round < MaxRounds)
  <2>1. round' = round
    BY <1>2, <1>11
  <2>2. RoundsInv'
    <3>1. spoken' <= round'
      BY <1>1, <1>4, <2>1
    <3> QED BY <1>1, <2>1, <3>1 DEF IInv, RoundsInv
  <2>3. AgentsInv'
    BY <1>1, <1>3, <1>5, <2>1 DEF IInv, AgentsInv, AllIdle, Untouched, Count
  <2>4. EndsInv'
    BY <1>1, <2>1 DEF EndsInv, EndsAnswered
  <2> QED BY <1>6, <1>7, <1>8, <1>9, <2>2, <2>3, <2>4 DEF IInv
<1> QED BY <1>10, <1>11

-----------------------------------------------------------------------------

LEMMA Invariant == Spec => []IInv
<1>1. IInv /\ [Next]_vars => IInv'
  <2> SUFFICES ASSUME IInv, [Next]_vars PROVE IInv'
    OBVIOUS
  <2> QED BY MainInv, RouterInv, BuildEvidenceInv, AgentWebInv, StartWebInv, SuperstepInv,
             JoinWebInv, SynthInv, BranchEndsInv, StutterInv DEF Next, Graph
<1> QED BY InitInv, <1>1, PTL DEF Spec

(* Every variable of the graph keeps its type: no round beyond the limit, no *)
(* tool count beyond the cap, no pass beyond langgraph's recursion limit.    *)
THEOREM TypeCorrect == Spec => []TypeOK
<1>1. IInv => TypeOK
  BY DEF IInv
<1> QED BY Invariant, <1>1, PTL

(* Synth speaks only when no agent is at work and each expected agent has    *)
(* answered in this round, for any number of agents, tools and rounds        *)
(* (collect_analysis, make_should_continue).                                 *)
THEOREM SynthHears == Spec => []SynthHearsEveryAgent
<1>1. IInv => SynthHearsEveryAgent
  BY DEF IInv
<1> QED BY Invariant, <1>1, PTL

(* The graph never stops without Synth having spoken in the round it stops   *)
(* in, although collect_analysis may also send its branch to END.            *)
THEOREM NeverEndsSilently == Spec => []EndsAnswered
<1>1. IInv => EndsAnswered
  BY DEF IInv, EndsInv
<1> QED BY Invariant, <1>1, PTL

(* Agents and Synth read an analysis of the newest bundle of news, unless    *)
(* the question's two analyses are used up (news_node.py, join_web).         *)
THEOREM NewsFresh == Spec => []NewsIsFresh
<1>1. IInv => NewsIsFresh
  <2> SUFFICES ASSUME IInv PROVE NewsIsFresh
    OBVIOUS
  <2>1. newsRuns \in Nat /\ MaxNewsRuns \in Nat
    BY Numbers, NumbersOfConstants DEF IInv
  <2>2. newsRuns < MaxNewsRuns \/ newsRuns >= MaxNewsRuns
    BY <2>1
  <2>3. ASSUME newsRuns < MaxNewsRuns, node = "analysis", newsFor # {} PROVE news = bundle
    <3>1. bundle # NoBundle /\ bundle \in {news, job}
      BY <2>3 DEF IInv, NewsInv
    <3> QED BY <2>3, <3>1 DEF IInv, NewsInv
  <2>4. ASSUME newsRuns < MaxNewsRuns, node = "agent_synth", bundle # NoBundle PROVE news = bundle
    <3>1. bundle \in {news, job}
      BY <2>4 DEF IInv, NewsInv
    <3> QED BY <2>4, <3>1 DEF IInv, NewsInv
  <2> QED BY <2>2, <2>3, <2>4 DEF NewsIsFresh
<1> QED BY Invariant, <1>1, PTL
=============================================================================
