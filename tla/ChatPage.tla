------------------------------- MODULE ChatPage -------------------------------
(***************************************************************************)
(* The chat page in the browser (web/app/chat/page.tsx): one view at a time, *)
(* and the asynchronous calls its handlers leave behind, each of which goes  *)
(* on with what it captured before its awaits.  A step here is the code      *)
(* between two awaits.  The API and its worker are what they show the page:  *)
(* conversations, and runs that end; ChatQueue has how they do that.         *)
(***************************************************************************)
EXTENDS Integers, FiniteSets

CONSTANTS
  Sessions,     \* conversations that may exist
  Old,          \* those that exist at first
  Deletable,    \* bound: those the user may delete
  MaxRuns,      \* bound: questions asked
  ImportJobs,      \* bound: reports imported
  Searches,     \* bound: searches for reports
  MaxViews,     \* bound: views entered (viewGen)
  MaxCalls,     \* bound: calls under way when the user goes on
  Failures,     \* whether a connection may drop, and the API answer with an error
  Null

ASSUME PageAssumption ==
  /\ {MaxRuns, MaxViews, MaxCalls} \subseteq Nat /\ Failures \in BOOLEAN
  /\ Old \union Deletable \subseteq Sessions
  /\ Null \notin Sessions \union ImportJobs \union 1..MaxRuns

Runs == 1..MaxRuns   \* in the order they are asked

VARIABLES
  session,  \* the server's conversations
  chatRun,      \* its runs, and the questions the page has taken
  job,      \* its imports
  found,    \* the conversation a search's messages are stored in
  page,     \* what the page shows, and the refs its loops compare against
  known,    \* sessionsRef: the conversations as last listed
  calls     \* the handlers of the page that await something

serverVars == <<session, chatRun, job, found>>
pageVars == <<serverVars, page, known, calls>>

Messages ==
  ({"local", "question", "answer", "news", "notice"} \X Runs) \union ({"found"} \X Searches)
NoEntry == [run |-> Null, news |-> Null, job |-> Null]
NoQuestion == [session |-> Null, status |-> "none", news |-> "none", override |-> FALSE]
Unsent == {"none", "typed", "refused"}

PageTypeOK ==
  /\ session \in [Sessions -> {"unused", "open", "deleted"}]
  /\ chatRun \in [Runs -> [session : Sessions \union {Null}, override : BOOLEAN,
                       status : Unsent \union {"active", "answered", "failed"},
                       news : {"none", "pending", "told"}]]
  /\ job \in [ImportJobs -> [session : Sessions \union {Null},
                          status : {"none", "working", "ready", "failed"}]]
  /\ found \in [Searches -> Sessions \union {Null}]
  /\ page \in [gen : Nat, session : Sessions \union {Null}, items : [Messages -> 0..2],
               pending : BOOLEAN, sending : BOOLEAN, newsPending : BOOLEAN,
               runPoll : Runs \union {Null}, newsPoll : Runs \union {Null},
               importPoll : ImportJobs \union {Null}, importJob : ImportJobs \union {Null},
               importNotice : BOOLEAN]
  /\ DOMAIN known \subseteq Sessions
  /\ \A c \in calls : c.gen \in 0..page.gen /\ c.session \in Sessions \union {Null}

-----------------------------------------------------------------------------
(* What the server answers. *)

Open == {s \in Sessions : session[s] = "open"}
Unused == {s \in Sessions : session[s] = "unused"}
Active(s) == {r \in Runs : chatRun[r].session = s /\ chatRun[r].status = "active"}
Updating(s) == {r \in Runs : chatRun[r].session = s /\ chatRun[r].news = "pending"}
Newest(rs) == IF rs = {} THEN Null ELSE CHOOSE r \in rs : \A q \in rs : q <= r
JobOf(s) == IF \E j \in ImportJobs : job[j].session = s
            THEN CHOOSE j \in ImportJobs : job[j].session = s ELSE Null

ListSessions ==
  [s \in Open |-> [run |-> Newest(Active(s)), news |-> Newest(Updating(s)), job |-> JobOf(s)]]

StoredOf(s) ==
  LET Of(P(_)) == {r \in Runs : chatRun[r].session = s /\ P(chatRun[r])}
      Asked(r) == ~r.override /\ r.status \notin Unsent
      Answered(r) == r.status = "answered"
      Told(r) == r.news = "told"
  IN ({"question"} \X Of(Asked)) \union ({"answer"} \X Of(Answered))
     \union ({"news"} \X Of(Told)) \union ({"found"} \X {d \in Searches : found[d] = s})

(* The worker ends a run, perhaps with news to follow, which always end in a *)
(* message; an import ends.                                                  *)
RunOver(r) ==
  /\ chatRun[r].status = "active"
  /\ \/ \E news \in {"none", "pending"} :
          chatRun' = [chatRun EXCEPT ![r].status = "answered", ![r].news = news]
     \/ chatRun' = [chatRun EXCEPT ![r].status = "failed"]
  /\ UNCHANGED <<session, job, found, page, known, calls>>

NewsComes(r) ==
  /\ chatRun[r].news = "pending"
  /\ chatRun' = [chatRun EXCEPT ![r].news = "told"]
  /\ UNCHANGED <<session, job, found, page, known, calls>>

ImportEnds(j) ==
  /\ job[j].status = "working"
  /\ \E status \in {"ready", "failed"} : job' = [job EXCEPT ![j].status = status]
  /\ UNCHANGED <<session, chatRun, found, page, known, calls>>

-----------------------------------------------------------------------------
(* The view. *)

(* A call on a conversation may fail, as it does when the conversation is gone. *)
AnswersError(c) == Failures \/ c.session \notin Open

Call(kind, gen, s, x) ==
  [kind |-> kind, at |-> "asked", gen |-> gen, session |-> s, of |-> x, then |-> "",
   entry |-> NoEntry, messages |-> {}, list |-> << >>]

EmptyView(gen, s) ==
  [gen |-> gen, session |-> s, items |-> [m \in Messages |-> 0], pending |-> FALSE,
   sending |-> FALSE, newsPending |-> FALSE, runPoll |-> Null, newsPoll |-> Null,
   importPoll |-> Null, importJob |-> Null, importNotice |-> FALSE]

EnterSession(p, s) == EmptyView(p.gen + 1, s)

(* (mutated form: any call of a page that is still open may render.)         *)
Live_Mounted(c) == c.gen <= page.gen
Live(c) == c.gen = page.gen

(* (mutated form: whatever arrives is appended.)                             *)
AppendItem_Always(p, m) == [p EXCEPT !.items[m] = IF @ < 2 THEN @ + 1 ELSE @]

(* What the server stored is shown once; what the page adds itself has no id. *)
AppendItem(p, m) ==
  [p EXCEPT !.items[m] = IF @ = 0 \/ (@ = 1 /\ m[1] \in {"local", "notice"}) THEN @ + 1
                         ELSE @]

Replace(c, new) == calls' = (calls \ {c}) \union new
Begins(call) == calls' = calls \union {call} /\ UNCHANGED <<page, known>>
Replied(c, new) == Replace(c, new) /\ UNCHANGED <<page, known>>
Renders(c, p, new) == page' = p /\ Replace(c, new) /\ UNCHANGED <<known, serverVars>>
Drop(c) == Renders(c, page, {})

Refresh(gen) == Call("list", gen, Null, Null)
ThenOpen(call, why, s) == [call EXCEPT !.then = why, !.session = s]
Opening(list, s) == {[Call("open", page.gen + 1, s, Null) EXCEPT !.entry = list[s]]}

(* The user goes on: views that calls may still enter are kept free, and     *)
(* conversations they may create.                                            *)
Creating == {c \in calls : c.kind \in {"create", "confirm", "search"}}
Entering ==
  Creating \union {c \in calls : c.kind = "delete" \/ c.then \in {"start", "target", "found"}}
Room == page.gen + Cardinality(Entering) < MaxViews
Spare == Room /\ Cardinality(Creating) < Cardinality(Unused)
Idle == Cardinality(calls) < MaxCalls

OpenSession(s) ==
  /\ Room /\ s \in DOMAIN known
  /\ page' = EnterSession(page, s)
  /\ calls' = calls \union Opening(known, s)
  /\ UNCHANGED <<known, serverVars>>

StartNewChat ==
  /\ Room
  /\ page' = EnterSession(page, Null)
  /\ UNCHANGED <<known, calls, serverVars>>

(* A reload forgets all but the address bar; a question on its way may still *)
(* arrive.                                                                   *)
Reload ==
  /\ page.gen + 1 < MaxViews
  /\ page' = EmptyView(page.gen + 1, Null)
  /\ known' = << >>
  /\ calls' = {c \in calls : c.kind = "post" /\ c.at = "asked"}
              \union {ThenOpen(Refresh(page.gen + 1), "start", page.session)}
  /\ UNCHANGED serverVars

(* Following a run and its news begins without an await.                     *)
FollowRun(p, r) == [p EXCEPT !.runPoll = r, !.pending = TRUE]
FollowNews(p, r) ==
  IF p.newsPoll = r THEN p ELSE [p EXCEPT !.newsPoll = r, !.newsPending = TRUE]
NewsCalls(p, r) ==
  IF p.newsPoll = r THEN {} ELSE {[Call("news", p.gen, p.session, r) EXCEPT !.at = "waits"]}

-----------------------------------------------------------------------------
(* A conversation is opened: its messages are read, then its open run, its   *)
(* import and its news are followed from what the list said of it.           *)

MessagesRead(c) ==
  /\ c.kind = "open" /\ c.at = "asked" /\ Live(c)
  /\ \/ c.session \in Open
        /\ Replied(c, {[c EXCEPT !.at = "answered", !.messages = StoredOf(c.session)]})
     \/ AnswersError(c) /\ Replied(c, {})   \* and a notice
  /\ UNCHANGED serverVars

MessagesShown(c) ==
  /\ c.kind = "open"
  /\ \/ ~Live(c) /\ Drop(c)
     \/ /\ c.at = "answered" /\ Live(c)
        /\ LET e == c.entry
               stored == [m \in Messages |-> IF m \in c.messages THEN 1 ELSE 0]
               loaded == [page EXCEPT !.items = stored,
                                      !.importPoll = IF e.job = Null THEN @ ELSE e.job]
               resumed == IF e.run = Null THEN loaded
                          ELSE [FollowRun(loaded, e.run) EXCEPT !.sending = TRUE]
               Resume(r) == [Call("run", c.gen, c.session, r) EXCEPT !.then = "resume"]
           IN Renders(c, IF e.news = Null THEN resumed ELSE FollowNews(resumed, e.news),
                      {Resume(r) : r \in {e.run} \ {Null}}
                      \union (UNION {NewsCalls(resumed, r) : r \in {e.news} \ {Null}})
                      \union {Call("import", c.gen, c.session, j) : j \in {e.job} \ {Null}})

(* loadSessions: the list is set whoever asked for it; then a conversation   *)
(* may be opened: of the address bar, of an import (unless the user moved    *)
(* on), or of a search.                                                      *)
SessionsRead(c) ==
  /\ c.kind = "list" /\ c.at = "asked"
  /\ \E list \in {ListSessions} \union (IF Failures THEN {known} ELSE {}) :
       Replied(c, {[c EXCEPT !.at = "answered", !.list = list]})
  /\ UNCHANGED serverVars

SessionsShown(c) ==
  /\ c.kind = "list" /\ c.at = "answered"
  /\ known' = c.list
  /\ IF c.then # "" /\ c.session \in DOMAIN c.list /\ (c.then = "found" \/ Live(c))
     THEN page' = EnterSession(page, c.session) /\ Replace(c, Opening(c.list, c.session))
     ELSE Replace(c, {}) /\ UNCHANGED page
  /\ UNCHANGED serverVars

-----------------------------------------------------------------------------
(* Questions. *)

Unasked(r) == chatRun[r].status = "none" /\ \A q \in Runs : q < r => chatRun[q].status # "none"
Typed(r, s, override) ==
  LET question == [NoQuestion EXCEPT !.session = s, !.status = "typed", !.override = override]
  IN chatRun' = [chatRun EXCEPT ![r] = question]

(* A question is shown at once, then posted.                                 *)
Ask(p, r) == [AppendItem(p, <<"local", r>>) EXCEPT !.pending = TRUE, !.sending = TRUE]
Post(gen, s, r, why) == [Call("post", gen, s, r) EXCEPT !.then = why]

SubmitQuestion(r) ==
  /\ Unasked(r) /\ ~page.sending /\ page.session # Null
  /\ Typed(r, page.session, FALSE)
  /\ page' = Ask(page, r)
  /\ calls' = calls \union {Post(page.gen, page.session, r, "submit")}
  /\ UNCHANGED <<session, job, found, known>>

(* On the start screen the conversation is created first.                    *)
SubmitFirst(r) ==
  /\ Unasked(r) /\ ~page.sending /\ page.session = Null /\ Spare
  /\ Typed(r, Null, FALSE)
  /\ page' = [page EXCEPT !.sending = TRUE]
  /\ calls' = calls \union {[Call("create", page.gen, Null, r) EXCEPT !.then = "submit"]}
  /\ UNCHANGED <<session, job, found, known>>

SessionCreated(c) ==
  /\ c.kind = "create" /\ c.at = "asked"
  /\ \/ \E s \in Unused : /\ session' = [session EXCEPT ![s] = "open"]
                          /\ Replied(c, {[c EXCEPT !.at = "answered", !.session = s]})
     \/ Failures /\ Replied(c, {[c EXCEPT !.at = "refused"]}) /\ UNCHANGED session
  /\ UNCHANGED <<chatRun, job, found>>

FirstQuestion(c) ==
  /\ c.kind = "create" /\ c.at = "answered"
  /\ \/ ~Live(c) /\ Drop(c)
     \/ /\ Live(c)
        /\ known' = [s \in DOMAIN known \union {c.session} |->
                       IF s = c.session THEN NoEntry ELSE known[s]]
        /\ page' = Ask(EnterSession(page, c.session), c.of)
        /\ Typed(c.of, c.session, FALSE)
        /\ Replace(c, {Post(page.gen + 1, c.session, c.of, "submit")})
        /\ UNCHANGED <<session, job, found>>

(* The user's override of a search that was meant as a question.             *)
AnswerWithReport(q, r) ==
  /\ page.items[<<"answer", q>>] > 0 /\ Unasked(r)
  /\ Typed(r, page.session, TRUE)
  /\ Begins(Post(page.gen, page.session, r, "override"))
  /\ UNCHANGED <<session, job, found>>

(* The server takes one question of a conversation at a time; a connection   *)
(* that drops three times leaves the page without the answer it gave.        *)
PostTaken(c) ==
  /\ c.kind = "post" /\ c.at = "asked"
  /\ \/ /\ c.session \in Open /\ Active(c.session) = {}
        /\ chatRun' = [chatRun EXCEPT ![c.of].status = "active"]
        /\ \E at \in {"answered"} \union (IF Failures THEN {"refused"} ELSE {}) :
             Replied(c, {[c EXCEPT !.at = at]})
     \/ /\ Failures \/ c.session \notin Open \/ Active(c.session) # {}
        /\ chatRun' = [chatRun EXCEPT ![c.of].status = "refused"]
        /\ Replied(c, {[c EXCEPT !.at = "refused"]})
  /\ UNCHANGED <<session, job, found>>

PostAnswered(c) ==
  /\ c.kind = "post" /\ c.at = "answered"
  /\ IF ~Live(c) THEN Drop(c)
     ELSE Renders(c, [FollowRun(page, c.of) EXCEPT !.sending = @ \/ c.then = "override"],
                  {[Call("run", c.gen, c.session, c.of) EXCEPT !.then = c.then]})

(* The end of submitQuestion, of answerWithReport and of resumeRun.          *)
Settles(c, p, more) ==
  IF Live(c) THEN Renders(c, [p EXCEPT !.sending = FALSE],
                          more \union IF c.then = "submit" THEN {Refresh(c.gen)} ELSE {})
  ELSE Drop(c)

Notice(p, r) == AppendItem([p EXCEPT !.pending = FALSE], <<"notice", r>>)

(* What failed before there is a conversation is told under the report       *)
(* picker, a failed override on its card.                                    *)
PostRefused(c) ==
  /\ c.kind \in {"post", "create"} /\ c.at = "refused"
  /\ IF c.then = "override" THEN Drop(c)
     ELSE Settles(c, IF c.kind = "create" THEN page ELSE Notice(page, c.of), {})

-----------------------------------------------------------------------------
(* followRun polls until the run ends, the user leaves, or another run is    *)
(* followed.                                                                 *)

Follows(c) == Live(c) /\ page.runPoll = c.of

FollowStops(c) == c.kind = "run" /\ ~Follows(c) /\ Settles(c, page, {})

Polls(c) == c.kind = "run" /\ c.at = "asked" /\ Live(c)
StillPending(c) == Renders(c, [page EXCEPT !.pending = TRUE], {[c EXCEPT !.at = "waits"]})

FollowWaits(c) == Polls(c) /\ Follows(c) /\ chatRun[c.of].status = "active" /\ StillPending(c)

(* The line about the lost connection is shown before the poll looks whether *)
(* it is still the one that counts.                                          *)
FollowDropped(c) == Failures /\ Polls(c) /\ StillPending(c)

FollowAgain(c) ==
  /\ c.kind = "run" /\ c.at = "waits" /\ Follows(c)
  /\ Renders(c, page, {[c EXCEPT !.at = "asked"]})

(* An error other than a lost connection ends the poll, and the page says so *)
(* (mutated form: it returns before it settles).                             *)
FollowFails_Returns(c) == Polls(c) /\ AnswersError(c) /\ Renders(c, Notice(page, c.of), {})
FollowFails(c) == Polls(c) /\ AnswersError(c) /\ Settles(c, Notice(page, c.of), {})

FollowEnds(c) ==
  /\ Polls(c) /\ Follows(c) /\ c.session \in Open
  /\ chatRun[c.of].status \in {"answered", "failed"}
  /\ LET over == [page EXCEPT !.pending = FALSE, !.runPoll = Null]
         told == IF chatRun[c.of].status = "answered" THEN AppendItem(over, <<"answer", c.of>>)
                 ELSE Notice(over, c.of)
     IN CASE chatRun[c.of].news = "told" -> Settles(c, AppendItem(told, <<"news", c.of>>), {})
          [] chatRun[c.of].news = "pending" -> Settles(c, FollowNews(told, c.of), NewsCalls(told, c.of))
          [] OTHER -> Settles(c, told, {})

-----------------------------------------------------------------------------
(* followNewsUpdate waits quietly for the news of an answer. *)

NewsCounts(c) == c.kind = "news" /\ Live(c) /\ page.newsPoll = c.of

(* Its end, however it comes.                                                *)
NewsOver(c, p) ==
  Renders(c, IF p.newsPoll # c.of THEN p
             ELSE [p EXCEPT !.newsPoll = Null, !.newsPending = @ /\ ~Live(c)], {})

NewsStops(c) == c.kind = "news" /\ ~NewsCounts(c) /\ NewsOver(c, page)

(* What failed, and an update that still waits, are asked again.             *)
NewsAgain(c) ==
  /\ NewsCounts(c)
  /\ c.at = "asked" => AnswersError(c) \/ chatRun[c.of].news = "pending"
  /\ Renders(c, page, {[c EXCEPT !.at = IF c.at = "asked" THEN "waits" ELSE "asked"]})

NewsShown(c) ==
  /\ NewsCounts(c) /\ c.at = "asked" /\ c.session \in Open /\ chatRun[c.of].news = "told"
  /\ NewsOver(c, AppendItem(page, <<"news", c.of>>))

(* The page gives up after eleven minutes; the server did after ten.         *)
NewsGivenUp(c) ==
  /\ NewsCounts(c) /\ chatRun[c.of].news # "pending" /\ AnswersError(c)
  /\ NewsOver(c, page)

-----------------------------------------------------------------------------
(* Imports and searches: the server picks their conversation, the one named  *)
(* (an import: if it has no report), else one of its own.                    *)

Chosen(s, free) == IF s \in Open /\ free THEN {s} ELSE Unused
Makes(s) == session' = [session EXCEPT ![s] = "open"]

(* confirmCandidate; and uploadReport, whose conversation is the one in view *)
(* when the file has arrived, for the view of before.                        *)
StartImport(j, gen) ==
  /\ Spare /\ job[j].status = "none" /\ \A c \in Creating : c.of # j
  /\ gen \in 0..page.gen
  /\ Begins(Call("confirm", gen, page.session, j))
  /\ UNCHANGED serverVars

ImportTaken(c) ==
  /\ c.kind = "confirm"
  /\ \/ \E s \in Chosen(c.session, JobOf(c.session) = Null) :
          /\ Makes(s)
          /\ job' = [job EXCEPT ![c.of] = [session |-> s, status |-> "working"]]
          /\ Replied(c, {ThenOpen(Refresh(c.gen), "target", s)})
     \/ Failures /\ Replied(c, {}) /\ UNCHANGED <<session, job>>
  /\ UNCHANGED <<chatRun, found>>

(* (mutated form: a lost connection ends the poll.)                          *)
ImportLost_Ends(c) == Failures /\ Drop(c)

(* A lost connection is tried again.                                         *)
ImportLost(c) == Failures /\ Renders(c, page, {c})

(* Any other error ends the poll, and the page says so.                      *)
ImportFails(c) == Failures /\ Renders(c, [page EXCEPT !.importNotice = TRUE], {})

ImportAnswered(c) ==
  LET status == job[c.of].status
  IN Renders(c, [page EXCEPT !.importJob = c.of,
                             !.importPoll = IF status = "working" THEN @ ELSE Null],
             CASE status = "working" -> {c}
               [] status = "ready" -> {Refresh(c.gen)}
               [] OTHER -> {})

ImportPolled(c) ==
  /\ c.kind = "import"
  /\ IF Live(c) /\ page.importPoll = c.of
     THEN ImportLost(c) \/ ImportFails(c) \/ ImportAnswered(c)
     ELSE Drop(c)

Discover(d) ==
  /\ Spare /\ found[d] = Null /\ \A c \in Creating : c.of # d
  /\ Begins(Call("search", page.gen, page.session, d))
  /\ UNCHANGED serverVars

Searched(c) ==
  /\ c.kind = "search" /\ c.at = "asked"
  /\ \/ \E s \in Chosen(c.session, TRUE) :
          /\ Makes(s)
          /\ found' = [found EXCEPT ![c.of] = s]
          /\ Replied(c, {[c EXCEPT !.at = "answered"]})
     \/ Failures /\ Replied(c, {}) /\ UNCHANGED <<session, found>>
  /\ UNCHANGED <<chatRun, job>>

SearchShown(c) ==
  /\ c.kind = "search" /\ c.at = "answered"
  /\ LET s == found[c.of]
     IN CASE ~Live(c) -> Drop(c)
          [] Live(c) /\ c.session = s -> Renders(c, AppendItem(page, <<"found", c.of>>), {})
          [] OTHER -> Renders(c, page, {ThenOpen(Refresh(c.gen), "found", s)})

Delete(s) ==
  /\ Room /\ s \in DOMAIN known /\ \A c \in calls : c.kind = "delete" => c.session # s
  /\ Begins(Call("delete", page.gen, s, Null))
  /\ UNCHANGED serverVars

SessionDeleted(c) ==
  /\ c.kind = "delete" /\ c.at = "asked"
  /\ IF c.session \in Open
     THEN /\ session' = [session EXCEPT ![c.session] = "deleted"]
          /\ Replied(c, {[c EXCEPT !.at = "answered"]})
     ELSE Replied(c, {}) /\ UNCHANGED session
  /\ UNCHANGED <<chatRun, job, found>>

DeletionShown(c) ==
  /\ c.kind = "delete" /\ c.at = "answered"
  /\ known' = [s \in DOMAIN known \ {c.session} |-> known[s]]
  /\ page' = IF page.session = c.session THEN EnterSession(page, Null) ELSE page
  /\ Replace(c, {})
  /\ UNCHANGED serverVars

-----------------------------------------------------------------------------
PageInit ==
  /\ session = [s \in Sessions |-> IF s \in Old THEN "open" ELSE "unused"]
  /\ chatRun = [r \in Runs |-> NoQuestion]
  /\ job = [j \in ImportJobs |-> [session |-> Null, status |-> "none"]]
  /\ found = [d \in Searches |-> Null]
  /\ page = EmptyView(0, Null)
  /\ known = << >>
  /\ \E wanted \in Old \union {Null} : calls = {ThenOpen(Refresh(0), "start", wanted)}

User ==
  /\ Idle
  /\ \/ \E s \in Sessions : OpenSession(s)
     \/ \E s \in Deletable : Delete(s)
     \/ StartNewChat
     \/ Reload
     \/ \E r \in Runs : SubmitQuestion(r)
     \/ \E r \in Runs : SubmitFirst(r)
     \/ \E q, r \in Runs : AnswerWithReport(q, r)
     \/ \E j \in ImportJobs, gen \in 0..MaxViews : StartImport(j, gen)
     \/ \E d \in Searches : Discover(d)

Server ==
  \/ \E r \in Runs : RunOver(r) \/ NewsComes(r)
  \/ \E j \in ImportJobs : ImportEnds(j)

(* What brings a call further.                                               *)
Proceeds(c) ==
  \/ MessagesRead(c) \/ MessagesShown(c) \/ SessionsRead(c) \/ SessionsShown(c)
  \/ SessionCreated(c) \/ FirstQuestion(c) \/ PostTaken(c) \/ PostAnswered(c) \/ PostRefused(c)
  \/ FollowWaits(c) \/ FollowDropped(c) \/ FollowAgain(c)
  \/ FollowStops(c) \/ FollowFails(c) \/ FollowEnds(c)
  \/ NewsStops(c) \/ NewsAgain(c) \/ NewsShown(c) \/ NewsGivenUp(c)
  \/ ImportTaken(c) \/ ImportPolled(c) \/ Searched(c) \/ SearchShown(c)
  \/ SessionDeleted(c) \/ DeletionShown(c)

PageNext ==
  \/ User \/ Server
  \/ \E c \in calls : Proceeds(c)

PageSpec == PageInit /\ [][PageNext]_pageVars

-----------------------------------------------------------------------------
(* Properties. *)

SessionOf(m) == IF m[1] = "found" THEN found[m[2]] ELSE chatRun[m[2]].session
Shows(m) == page.items[m] > 0

(* No call renders into a conversation the user switched to meanwhile: what  *)
(* is on the page belongs to the conversation in view.                       *)
ItemsBelongToTheView == \A m \in Messages : Shows(m) => SessionOf(m) = page.session

(* Nothing is shown twice, though a message may come with the conversation,  *)
(* with the poll of its run and with the poll of its news.                   *)
ShownOnce ==
  /\ \A m \in Messages : page.items[m] <= 1
  /\ \A r \in Runs : ~(Shows(<<"local", r>>) /\ Shows(<<"question", r>>))

(* The composer comes back, however the question, its poll and the           *)
(* navigation meanwhile end: while it is locked, a call of this view is      *)
(* under way at whose end it is given back.                                  *)
ComposerComesBack ==
  page.sending =>
    \E c \in calls : Live(c) /\ (c.kind \in {"create", "run"} \/ c.then = "submit")

(* The card of an import is the card of the conversation in view, and the    *)
(* import that the view follows is followed to its end, whatever was lost,    *)
(* unless the page told that it could not go on.                             *)
ImportIsFollowed ==
  /\ page.importJob # Null =>
       /\ job[page.importJob].session = page.session
       /\ job[page.importJob].status = "working" => page.importPoll = page.importJob
  /\ page.importPoll # Null =>
       \/ page.importNotice
       \/ \E c \in calls : c.kind = "import" /\ Live(c) /\ c.of = page.importPoll
=============================================================================
