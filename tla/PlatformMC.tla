------------------------------ MODULE PlatformMC ------------------------------
(* Small instances of the components that share no state with one another,   *)
(* the page of the browser (ChatPageMC) among them: every behaviour is one   *)
(* component's, with the others at rest.                                     *)
EXTENDS EvidenceCache, NewsCache, Accounts, StorageMigration, ExperimentRun,
        QuestionPlan, SynthAnswer, TableScan, ReportContext, ImportBudget, Discovery,
        ChatPageMC

VARIABLE focus   \* the component that runs

CONSTANTS i1, e1, e2, a1, a2

BothForE1 == [i \in Invites |-> e1]
OwnLock == [f \in Files |-> f]

Components == {"evidence", "news", "accounts", "migration", "experiment", "plan", "synth",
               "table", "report", "budget", "discovery", "page"}

platformVars == <<cacheVars, newsCacheVars, accountVars, migrationVars, experimentVars,
                  planVars, synthVars, scanVars, contextVars, budgetVars, discoveryVars, pageVars,
                  user, focus>>

(* The rows of the tables: a label, an outline number, a "1." before it, and *)
(* the numbers of two columns; in a matrix also relationship and transaction.*)
Row(label, level, numbered, cells) ==
  [label |-> label, outline |-> level, numbered |-> numbered, cells |-> cells,
   relation |-> "", descriptor |-> ""]
Deal(label, related, deal, n) ==
  [label |-> label, outline |-> 0, numbered |-> FALSE, cells |-> [now |-> n],
   relation |-> related, descriptor |-> deal]

SmallStatement ==
  {Row("", 0, FALSE, [now |-> 3, before |-> 1]), Row("a", 0, FALSE, [now |-> 1, before |-> 1]),
   Row("b", 0, FALSE, [now |-> 2]), Row("cost", 0, FALSE, << >>),
   Row("previous", 0, FALSE, << >>), Row("group", 0, FALSE, << >>),
   Row("x", 1, TRUE, << >>), Row("y", 2, TRUE, [now |-> 1]), Row("sum", 0, FALSE, [now |-> 3]),
   Row("title", 2, FALSE, [now |-> 3])}
SmallMatrix ==
  {Row("", 0, FALSE, << >>), Row("group", 0, FALSE, << >>), Row("", 0, FALSE, [now |-> 3]),
   Row("sum", 0, FALSE, [now |-> 3]), Deal("a", "parent", "buys", 1), Deal("b", "", "buys", 2),
   Deal("", "", "sells", 1), Deal("", "sister", "sells", 2)}

(* The lines of a report: page 2 begins, a numbered line, rows of three      *)
(* kinds, and headings that open the notes, a statement and a chapter.       *)
PlainLine(kind) ==
  [kind |-> kind, page |-> 0, look |-> "", width |-> 0, names |-> "", starts |-> FALSE,
   chapter |-> "", schedule |-> 0, continued |-> FALSE]
TableLine(look) ==
  [PlainLine("row") EXCEPT !.look = look, !.width = IF look = "marker" THEN 3 ELSE 2]
HeadingLine(names, starts, continued) ==
  [PlainLine("heading") EXCEPT !.names = names, !.starts = starts, !.continued = continued]

SmallReport ==
  {[PlainLine("page") EXCEPT !.page = 2], [PlainLine("text") EXCEPT !.schedule = 5],
   TableLine("semantic"), TableLine("data"), TableLine("marker"),
   HeadingLine("note", TRUE, FALSE), HeadingLine("balance", TRUE, FALSE),
   HeadingLine("balance", FALSE, TRUE),
   [HeadingLine("income", FALSE, FALSE) EXCEPT !.chapter = "VI"]}

Init ==
  /\ focus \in Components
  /\ CacheInit /\ NewsInit /\ AccountsInit /\ MigrationInit
  /\ ExperimentInit /\ PlanInit /\ SynthInit /\ ContextInit /\ BudgetInit
  /\ DiscoveryInit /\ UserInit
  /\ focus # "plan" => question = [kind |-> "other", lineItem |-> FALSE, evaluative |-> FALSE,
                                   events |-> FALSE, broad |-> "none"]
  /\ focus # "migration" => \A x \in Items : old[x] = Absent /\ \A l \in Locks : lock[l] = "none"
  /\ focus # "page" => user = "asks" /\ \A c \in calls : c.session = Null
  /\ focus # "discovery" => created = {CHOOSE c \in Conversations : TRUE}
  /\ IF focus = "table" THEN ScanInit
     ELSE table = << >> /\ byEntity = FALSE /\ header = "" /\ ScanStart

(* What rests while a component runs.                                        *)
questionVars == <<cacheVars, newsCacheVars, planVars, synthVars>>
reportVars == <<scanVars, contextVars, budgetVars>>
otherVars == <<accountVars, migrationVars, experimentVars, discoveryVars, pageVars, user>>

Evidence ==
  CacheNext /\ UNCHANGED <<newsCacheVars, planVars, synthVars, reportVars, otherVars>>
News ==
  NewsNext /\ UNCHANGED <<cacheVars, planVars, synthVars, reportVars, otherVars>>
SigningIn ==
  AccountsNext /\ UNCHANGED <<migrationVars, experimentVars, discoveryVars, pageVars, user,
                                questionVars, reportVars>>
Migration ==
  MigrationNext /\ UNCHANGED <<accountVars, experimentVars, discoveryVars, pageVars, user,
                                questionVars, reportVars>>
Experiment ==
  ExperimentNext /\ UNCHANGED <<accountVars, migrationVars, discoveryVars, pageVars, user,
                                questionVars, reportVars>>
Planning ==
  PlanNext /\ UNCHANGED <<cacheVars, newsCacheVars, synthVars, reportVars, otherVars>>
Synthesis ==
  SynthNext /\ UNCHANGED <<cacheVars, newsCacheVars, planVars, reportVars, otherVars>>
Scanning ==
  ScanNext /\ UNCHANGED <<contextVars, budgetVars, questionVars, otherVars>>
Reporting ==
  ContextNext /\ UNCHANGED <<scanVars, budgetVars, questionVars, otherVars>>
Budgeting ==
  BudgetNext /\ UNCHANGED <<scanVars, contextVars, questionVars, otherVars>>
Discovering ==
  DiscoveryNext /\ UNCHANGED <<accountVars, migrationVars, experimentVars, pageVars, user,
                                questionVars, reportVars>>
Visiting ==
  UserNext /\ UNCHANGED <<accountVars, migrationVars, experimentVars, discoveryVars, questionVars,
                          reportVars>>

Next ==
  /\ UNCHANGED focus
  /\ \/ focus = "evidence" /\ Evidence
     \/ focus = "news" /\ News
     \/ focus = "accounts" /\ SigningIn
     \/ focus = "migration" /\ Migration
     \/ focus = "experiment" /\ Experiment
     \/ focus = "plan" /\ Planning
     \/ focus = "synth" /\ Synthesis
     \/ focus = "table" /\ Scanning
     \/ focus = "report" /\ Reporting
     \/ focus = "budget" /\ Budgeting
     \/ focus = "discovery" /\ Discovering
     \/ focus = "page" /\ Visiting

Spec == Init /\ [][Next]_platformVars

(* Every variable of the component that runs keeps its type.                 *)
TypeOK ==
  /\ focus = "evidence" => CacheTypeOK
  /\ focus = "news" => NewsTypeOK
  /\ focus = "accounts" => AccountsTypeOK
  /\ focus = "migration" => MigrationTypeOK
  /\ focus = "experiment" => ExperimentTypeOK
  /\ focus = "plan" => PlanTypeOK
  /\ focus = "synth" => SynthTypeOK
  /\ focus = "table" => ScanTypeOK
  /\ focus = "report" => ContextTypeOK
  /\ focus = "budget" => BudgetTypeOK
  /\ focus = "discovery" => DiscoveryTypeOK
  /\ focus = "page" => PageTypeOK
=============================================================================
