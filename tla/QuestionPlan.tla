----------------------------- MODULE QuestionPlan -----------------------------
(***************************************************************************)
(* How a financial question gets its plan and its routes: the planner's     *)
(* model call and the deterministic rules after it (agents/planner_runner   *)
(* .py), then the router's call, or what stands in for it, with its rules   *)
(* (agents/keyworder_runner.py).  The text of the question is the set of    *)
(* classes its patterns put it in; the model may answer any plan its schema *)
(* accepts.  First round only: follow-ups are WorkflowGraph's.              *)
(***************************************************************************)
EXTENDS FiniteSets

VARIABLES
  question,  \* user_query: what its patterns say of it
  plan,      \* planner_plan
  routes,    \* worker_plan: the agents to dispatch, the premises and news to search
  ready      \* which of the two steps is done

planVars == <<question, plan, routes, ready>>

Analyses == {"profitability", "liquidity", "cashflow", "efficiency"}
Premises == {"event", "stated"}   \* compiled from the question, or the model's own

Questions ==
  [kind : {"calculation", "grounded", "qualitative", "other"},
   lineItem : BOOLEAN, evaluative : BOOLEAN, events : BOOLEAN,
   broad : {"none", "profitability", "sustained", "financial"}]

Plans ==
  [difficulty : {"easy", "medium", "hard"}, mode : {"extractive", "grounded"},
   axes : SUBSET Analyses, premises : SUBSET Premises,
   web : {"none", "company_news", "unsupported_external"}]

DefaultPlan ==
  [difficulty |-> "easy", mode |-> "extractive", axes |-> {}, premises |-> {}, web |-> "none"]
NoRoutes == [agents |-> {}, searched |-> {}, news |-> FALSE, asked |-> FALSE]

PlanTypeOK ==
  /\ question \in Questions /\ plan \in Plans
  /\ routes \in [agents : SUBSET Analyses, searched : SUBSET Premises,
                 news : BOOLEAN, asked : BOOLEAN]
  /\ ready \in {"nothing", "plan", "routes", "discovery"}

PlanInit ==
  /\ question \in {q \in Questions : q.events => q.kind = "grounded"}
  /\ plan = DefaultPlan /\ routes = NoRoutes /\ ready = "nothing"

-----------------------------------------------------------------------------
(* The planner.                                                             *)

Numeric(p, level) ==
  [p EXCEPT !.difficulty = level, !.mode = "extractive", !.premises = {}, !.axes = {}, !.web = "none"]

(* A complete calculation and a direct line item fix the whole plan; a       *)
(* narrative question keeps no axis; an evaluative one is hard, by its own   *)
(* words or by those of the objectives the model wrote.                     *)
Heuristics(q, p, judging) ==
  CASE q.kind = "calculation" -> Numeric(p, "medium")
    [] q.kind # "calculation" /\ q.lineItem -> Numeric(p, "easy")
    [] q.kind = "grounded" /\ ~q.lineItem ->
         [p EXCEPT !.difficulty = "medium", !.mode = "grounded", !.axes = {},
                   !.premises = p.premises \union (IF q.events THEN {"event"} ELSE {})]
    [] q.kind = "qualitative" /\ ~q.lineItem ->
         [p EXCEPT !.difficulty = "easy", !.mode = "extractive", !.axes = {}, !.premises = {}]
    [] q.kind = "other" /\ ~q.lineItem ->
         IF q.evaluative \/ judging THEN [p EXCEPT !.difficulty = "hard"] ELSE p

(* The guard after every path: analysis wins over a narrative mode, and a    *)
(* narrative without premises becomes a plain lookup.                        *)
Consistent(p) ==
  IF p.axes # {} \/ p.difficulty = "hard"
    THEN [p EXCEPT !.difficulty = "hard", !.mode = "extractive", !.premises = {}]
  ELSE IF p.mode = "grounded"
    THEN IF p.premises = {} THEN [DefaultPlan EXCEPT !.web = p.web]
         ELSE [p EXCEPT !.difficulty = "medium"]
  ELSE p

BroadAnalyses(q) ==
  CASE q.broad = "none" -> {}
    [] q.broad = "profitability" -> {"profitability", "cashflow", "efficiency"}
    [] q.broad \in {"sustained", "financial"} -> Analyses

Expanded(q, p) ==
  IF p.difficulty = "hard" /\ p.mode = "extractive" /\ q.evaluative /\ ~q.lineItem
    THEN [p EXCEPT !.axes = p.axes \union BroadAnalyses(q)]
    ELSE p

(* The model answered a valid plan; it owns the axes unless the expansion    *)
(* switch is on.                                                             *)
PlannerAnswers ==
  /\ ready = "nothing"
  /\ \E p \in Plans, judging, expand \in BOOLEAN :
       LET kept == Consistent(Heuristics(question, p, judging))
       IN plan' = IF expand THEN Expanded(question, kept) ELSE kept
  /\ ready' = "plan" /\ UNCHANGED <<question, routes>>

(* The call or its parsing failed: the conservative plan, promoted only for  *)
(* a narrative question.                                                     *)
PlannerFails ==
  /\ ready = "nothing"
  /\ plan' = Expanded(question, Consistent(
       IF question.kind = "grounded" THEN Heuristics(question, DefaultPlan, FALSE)
       ELSE DefaultPlan))
  /\ ready' = "plan" /\ UNCHANGED <<question, routes>>

(* Web planner: the user asked to find a report, there is no plan to route.  *)
Discovery ==
  /\ ready = "nothing" /\ ready' = "discovery" /\ UNCHANGED <<question, plan, routes>>

-----------------------------------------------------------------------------
(* The router.                                                              *)

(* The planner's axes are the agents; without any, those of the model.  The  *)
(* analysis plan made from them is compared with the axes once more: an axis *)
(* without an agent gets one, an agent without an axis goes.  That finds     *)
(* nothing to do as long as both are read from the same axes.                *)
Assigned(p, chosen) == IF p.axes # {} THEN p.axes ELSE chosen
Reconciled(p, agents) ==
  IF p.axes = {} THEN agents ELSE (agents \intersect p.axes) \union (p.axes \ agents)
Targets(p, chosen) ==
  IF p.difficulty # "hard" THEN {} ELSE Reconciled(p, Assigned(p, chosen))

(* Each premise of a narrative question is searched on its own.              *)
PremiseSearches(p) == IF p.mode = "grounded" THEN p.premises ELSE {}

(* _ensure_company_news_target: asked is the request it protects.            *)
Routed(chosen, item, active) ==
  LET asked == active /\ plan.web = "company_news"
  IN [agents |-> Targets(plan, chosen), searched |-> PremiseSearches(plan),
      news |-> item \/ asked, asked |-> asked]

(* (mutated form: a plan that asks for the web may bypass the router)        *)
MayBypass_Web == plan.difficulty = "easy" /\ plan.axes = {}

(* _direct_router_plan_from_query; its patterns of a line item are not those *)
(* of the planner.                                                           *)
MayBypass == plan.difficulty = "easy" /\ plan.web = "none" /\ plan.axes = {}

Bypass ==
  /\ ready = "plan" /\ MayBypass
  /\ routes' = [NoRoutes EXCEPT !.searched = PremiseSearches(plan),
                                !.asked = plan.web = "company_news"]
  /\ ready' = "routes" /\ UNCHANGED <<question, plan>>

(* The model's routes: any agents, with or without a web item.               *)
RouterAnswers ==
  /\ ready = "plan"
  /\ \E chosen \in SUBSET Analyses, item, active \in BOOLEAN : routes' = Routed(chosen, item, active)
  /\ ready' = "routes" /\ UNCHANGED <<question, plan>>

(* The fallback payload holds no agent of its own; its web item is taken for *)
(* a table if the question is a keyword of one.                              *)
RouterFails ==
  /\ ready = "plan"
  /\ \E item, active \in BOOLEAN :
       /\ item => plan.web # "none"
       /\ routes' = Routed({}, item, active)
  /\ ready' = "routes" /\ UNCHANGED <<question, plan>>

PlanNext ==
  PlannerAnswers \/ PlannerFails \/ Discovery \/ Bypass \/ RouterAnswers \/ RouterFails

PlanSpec == PlanInit /\ [][PlanNext]_planVars

-----------------------------------------------------------------------------
(* The answer's format is never chosen from a contradictory plan, whatever   *)
(* the model wrote, however its rules fired: axes make the question hard, a  *)
(* hard one is extractive without premises, a narrative is medium and has    *)
(* premises and no axis (_enforce_response_mode_invariants).                 *)
PlanIsConsistent ==
  /\ plan.axes # {} => plan.difficulty = "hard"
  /\ plan.difficulty = "hard" => plan.mode = "extractive" /\ plan.premises = {}
  /\ plan.mode = "grounded" => plan.difficulty = "medium" /\ plan.axes = {} /\ plan.premises # {}

(* Nothing asked for is lost between the question and the routes, whichever  *)
(* call failed or was bypassed: the planner's axes are the agents            *)
(* dispatched, the events a narrative question names are searched even when  *)
(* the model stated another premise, and a request for company news has a    *)
(* web item.                                                                 *)
NothingIsDropped ==
  ready = "routes" =>
    /\ plan.axes # {} => routes.agents = plan.axes
    /\ (question.events /\ ~question.lineItem) => "event" \in routes.searched
    /\ routes.asked => routes.news

(* The routes serve the question as asked: the plan they come from is never  *)
(* contradictory and loses nothing the question names.                       *)
PlanCoversTheQuestion == PlanIsConsistent /\ NothingIsDropped
=============================================================================
