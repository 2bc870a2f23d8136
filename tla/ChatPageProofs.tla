--------------------------- MODULE ChatPageProofs ---------------------------
(***************************************************************************)
(* The chat page, for any conversations, questions, imports, searches,       *)
(* views and calls: what it shows is of the conversation in view and shown   *)
(* once, the composer comes back, and an import on its card is followed.     *)
(***************************************************************************)
EXTENDS ChatPage, NaturalsInduction, WellFoundedInduction, TLAPS

(* What is on the page and what its calls hold.                              *)
Somewhere == Sessions \union {Null}
Entries == [run : Runs \union {Null}, news : Runs \union {Null}, job : ImportJobs \union {Null}]
Lists == UNION {[S -> Entries] : S \in SUBSET Sessions}
Kinds == {"open", "list", "create", "post", "run", "news", "import", "confirm", "search", "delete"}
Asking == {"post", "run"}
About == {"post", "run", "news"}

Subjects == Runs \union ImportJobs \union Searches \union {Null}

CallRecords ==
  [kind : Kinds, at : {"asked", "answered", "refused", "waits"}, gen : Nat, session : Somewhere,
   of : Subjects,
   then : {"", "start", "target", "found", "submit", "override", "resume"},
   entry : Entries, messages : SUBSET Messages, list : Lists]
Pages ==
  [gen : Nat, session : Somewhere, items : [Messages -> Nat],
   pending : BOOLEAN, sending : BOOLEAN, newsPending : BOOLEAN,
   runPoll : Runs \union {Null}, newsPoll : Runs \union {Null},
   importPoll : ImportJobs \union {Null}, importJob : ImportJobs \union {Null},
   importNotice : BOOLEAN]

ServerTypes ==
  /\ session \in [Sessions -> {"unused", "open", "deleted"}]
  /\ chatRun \in [Runs -> [session : Somewhere, override : BOOLEAN,
                       status : Unsent \union {"active", "answered", "failed"},
                       news : {"none", "pending", "told"}]]
  /\ job \in [ImportJobs -> [session : Somewhere, status : {"none", "working", "ready", "failed"}]]
  /\ found \in [Searches -> Somewhere]
PageTypes == ServerTypes /\ page \in Pages /\ known \in Lists /\ calls \subseteq CallRecords

(* Where a question or an import went is decided once.                       *)
ServerInv ==
  /\ \A r \in Runs : chatRun[r].status = "none" => chatRun[r].session = Null
  /\ \A j \in ImportJobs : (job[j].status = "none") <=> (job[j].session = Null)

(* What a list says of a conversation, and what was read of it, is about it.  *)
EntryOK(e, s) ==
  /\ e.run # Null => chatRun[e.run].session = s
  /\ e.news # Null => chatRun[e.news].session = s
  /\ e.job # Null => job[e.job].session = s
ListOK(l) == \A s \in DOMAIN l : EntryOK(l[s], s)

(* What a call goes on with.                                                 *)
Captured(c) ==
  CASE c.kind \in About ->
         c.of \in Runs /\ c.session # Null /\ chatRun[c.of].session = c.session
    [] c.kind = "create" ->
         /\ c.of \in Runs /\ chatRun[c.of].session = Null /\ chatRun[c.of].status # "none"
         /\ c.at = "answered" => c.session # Null
    [] c.kind = "open" ->
         /\ c.session # Null /\ EntryOK(c.entry, c.session)
         /\ \A m \in c.messages : SessionOf(m) = c.session /\ m[1] \notin {"local", "notice"}
    [] c.kind = "list" -> ListOK(c.list)
    [] c.kind = "import" -> c.of \in ImportJobs /\ c.session # Null /\ job[c.of].session = c.session
    [] c.kind = "confirm" -> c.of \in ImportJobs /\ job[c.of].status = "none"
    [] c.kind = "search" ->
         c.of \in Searches /\ (IF c.at = "asked" THEN found[c.of] = Null ELSE found[c.of] # Null)
    [] OTHER -> TRUE
OfTheView(c) == Live(c) /\ c.kind \notin {"create", "list", "confirm", "delete"} =>
                  c.session = page.session
Thens(c) ==
  /\ c.then = "submit" => c.kind \in {"create", "post", "run"}
  /\ c.kind = "post" => c.then \in {"submit", "override"}
  /\ c.kind = "create" => c.then = "submit"
CallOK(c) == c.gen <= page.gen /\ Captured(c) /\ OfTheView(c) /\ Thens(c)
CallsInv == ListOK(known) /\ \A c \in calls : CallOK(c)

(* One call creates one thing.                                               *)
Makers == {"create", "confirm", "search"}
Rivals(c, d) ==
  /\ c.kind \in Makers /\ c.kind = d.kind /\ c.of = d.of
  /\ c.kind = "search" => c.at = "asked" /\ d.at = "asked"
MakersInv == \A c, d \in calls : Rivals(c, d) => c = d

(* One call of the view, at most, can still tell the end of a question.      *)
Turn(c, r) ==
  Live(c) /\ ((c.kind \in Asking /\ c.of = r) \/ (c.kind = "open" /\ c.entry.run = r))
TurnsInv ==
  \A r \in Runs : \A c, d \in calls : Turn(c, r) /\ Turn(d, r) => c = d

ItemsInv ==
  /\ \A m \in Messages :
       /\ page.items[m] <= 1
       /\ Shows(m) => page.session # Null /\ SessionOf(m) = page.session
  /\ \A r \in Runs :
       /\ ~(Shows(<<"local", r>>) /\ Shows(<<"question", r>>))
       /\ Shows(<<"notice", r>>) => \A c \in calls : ~Turn(c, r)

(* A view that is being opened follows no import yet.                        *)
Loads(c, d) == Live(c) /\ Live(d) /\ c.kind = "open" /\ d.kind \in {"open", "import"}
OpenInv ==
  /\ \A c \in calls : Live(c) /\ c.kind = "open" => page.importJob = Null
  /\ \A c, d \in calls : Loads(c, d) => c = d

ImportInv ==
  /\ page.importJob # Null =>
       /\ job[page.importJob].session = page.session
       /\ job[page.importJob].status # "none"
       /\ job[page.importJob].status = "working" => page.importPoll = page.importJob
  /\ page.importPoll # Null =>
       \/ page.importNotice
       \/ \E c \in calls : c.kind = "import" /\ Live(c) /\ c.of = page.importPoll

PInv ==
  /\ PageTypes /\ ServerInv /\ CallsInv /\ MakersInv /\ TurnsInv /\ ItemsInv /\ OpenInv
  /\ ImportInv /\ ComposerComesBack

-----------------------------------------------------------------------------
(* The model's operators.                                                    *)
LEMMA MessageIs ==
  ASSUME NEW m \in Messages
  PROVE  \/ m[1] = "found" /\ m[2] \in Searches
         \/ m[1] \in {"local", "question", "answer", "news", "notice"} /\ m[2] \in Runs
<1> QED BY DEF Messages

LEMMA MessagesAre ==
  ASSUME NEW r \in Runs, NEW kind \in {"local", "question", "answer", "news", "notice"}
  PROVE  /\ <<kind, r>> \in Messages
         /\ <<kind, r>>[1] = kind
         /\ SessionOf(<<kind, r>>) = chatRun[r].session
<1> QED BY DEF Messages, SessionOf

LEMMA NoList == << >> \in Lists /\ DOMAIN << >> = {}
<1>1. << >> = [x \in {} |-> NoEntry]
    OBVIOUS
<1>2. << >> \in [{} -> Entries]
    BY <1>1
<1> QED BY <1>2 DEF Lists

LEMMA ListHas ==
  ASSUME NEW l \in Lists
  PROVE  /\ DOMAIN l \subseteq Sessions
         /\ \A s \in DOMAIN l : l[s] \in Entries
<1>1. PICK S \in SUBSET Sessions : l \in [S -> Entries]
    BY DEF Lists
<1> QED BY <1>1

LEMMA NoEntryIs == NoEntry \in Entries /\ \A s : EntryOK(NoEntry, s)
<1> QED BY DEF NoEntry, Entries, EntryOK

(* The newest of some questions is one of them.                              *)
LEMMA GreatestNumber ==
  ASSUME NEW n \in Nat, NEW S, S \subseteq 1..n, S # {}
  PROVE  \E x \in S : \A y \in S : y <= x
<1> DEFINE R == {pair \in Nat \X Nat : pair[1] < pair[2]}
           T == {n - x : x \in S}
<1>1. IsWellFoundedOn(R, Nat)
    BY NatLessThanWellFounded DEF OpToRel
<1>2. T \subseteq Nat /\ T # {}
  <2>1. \A x \in S : n - x \in Nat
      OBVIOUS
  <2> QED BY <2>1
<1>3. PICK t \in T : \A u \in T : <<u, t>> \notin R
    <2> HIDE DEF R, T
    <2> QED BY <1>1, <1>2, WFMin
<1>4. PICK x \in S : t = n - x
    OBVIOUS
<1>5. ASSUME NEW y \in S PROVE y <= x
  <2>1. n - y \in T /\ n - y \in Nat /\ t \in Nat
      BY <1>2
  <2>2. ~(n - y < t)
      BY <1>3, <2>1
  <2> QED BY <1>4, <2>2
<1> QED BY <1>5

LEMMA NewestIsOne ==
  ASSUME NEW rs, rs \subseteq Runs
  PROVE  Newest(rs) \in Runs \union {Null} /\ (Newest(rs) # Null => Newest(rs) \in rs)
<1>1. CASE rs = {}
    BY <1>1 DEF Newest
<1>2. CASE rs # {}
  <2>1. \E r \in rs : \A q \in rs : q <= r
      BY <1>2, PageAssumption, GreatestNumber DEF Runs
  <2> QED BY <1>2, <2>1 DEF Newest
<1> QED BY <1>1, <1>2

LEMMA JobIsOfIt ==
  ASSUME NEW s
  PROVE  /\ JobOf(s) \in ImportJobs \union {Null}
         /\ JobOf(s) # Null => job[JobOf(s)].session = s
<1> QED BY DEF JobOf

(* A list says of each open conversation what is so.                         *)
LEMMA ListsAreTrue == ASSUME ServerTypes PROVE ListSessions \in Lists /\ ListOK(ListSessions)
<1>1. ASSUME NEW s
      PROVE  LET e == [run |-> Newest(Active(s)), news |-> Newest(Updating(s)), job |-> JobOf(s)]
             IN  e \in Entries /\ EntryOK(e, s)
  <2>1. Active(s) \subseteq Runs /\ \A r \in Active(s) : chatRun[r].session = s
      BY DEF Active
  <2>2. Updating(s) \subseteq Runs /\ \A r \in Updating(s) : chatRun[r].session = s
      BY DEF Updating
  <2> QED BY <2>1, <2>2, NewestIsOne, JobIsOfIt DEF Entries, EntryOK
<1>2. Open \in SUBSET Sessions
    BY DEF Open
<1>3. ListSessions \in [Open -> Entries] /\ ListOK(ListSessions)
    BY <1>1 DEF ListSessions, ListOK
<1> QED BY <1>2, <1>3 DEF Lists

LEMMA StoredIsOfIt ==
  ASSUME ServerTypes, NEW s
  PROVE  /\ StoredOf(s) \subseteq Messages
         /\ \A m \in StoredOf(s) : SessionOf(m) = s /\ m[1] \notin {"local", "notice"}
<1> SUFFICES ASSUME NEW m \in StoredOf(s)
             PROVE  m \in Messages /\ SessionOf(m) = s /\ m[1] \notin {"local", "notice"}
    OBVIOUS
<1>1. CASE \E d \in Searches : m = <<"found", d>> /\ found[d] = s
    BY <1>1 DEF Messages, SessionOf
<1>2. CASE \E r \in Runs, kind \in {"question", "answer", "news"} :
             m = <<kind, r>> /\ chatRun[r].session = s
    BY <1>2 DEF Messages, SessionOf
<1>3. \/ \E d \in Searches : m = <<"found", d>> /\ found[d] = s
      \/ \E r \in Runs, kind \in {"question", "answer", "news"} :
           m = <<kind, r>> /\ chatRun[r].session = s
    BY DEF StoredOf
<1> QED BY <1>1, <1>2, <1>3

(* A message is appended.                                                    *)
LEMMA Appended ==
  ASSUME NEW p \in Pages, NEW m \in Messages, \A x \in Messages : p.items[x] <= 1
  PROVE  LET q == AppendItem(p, m)
         IN  /\ q \in Pages /\ q.gen = p.gen /\ q.session = p.session
             /\ q.pending = p.pending /\ q.sending = p.sending /\ q.newsPending = p.newsPending
             /\ q.runPoll = p.runPoll /\ q.newsPoll = p.newsPoll
             /\ q.importPoll = p.importPoll /\ q.importJob = p.importJob
             /\ q.importNotice = p.importNotice
             /\ \A x \in Messages \ {m} : q.items[x] = p.items[x]
             /\ q.items[m] > 0
             /\ (m[1] \in {"local", "notice"} => p.items[m] = 0) => q.items[m] = 1
<1> DEFINE k == IF p.items[m] = 0 \/ (p.items[m] = 1 /\ m[1] \in {"local", "notice"})
                THEN p.items[m] + 1 ELSE p.items[m]
<1>1. p.items \in [Messages -> Nat] /\ p.items[m] \in {0, 1}
    BY DEF Pages
<1>2. k \in Nat /\ k > 0 /\ ((m[1] \in {"local", "notice"} => p.items[m] = 0) => k = 1)
    BY <1>1
<1>3. AppendItem(p, m) = [p EXCEPT !.items[m] = k]
    BY DEF AppendItem
<1> HIDE DEF k
<1> QED BY <1>1, <1>2, <1>3 DEF Pages

-----------------------------------------------------------------------------
(* What a step may do to the server's data.                                  *)
Steady ==
  /\ \A r \in Runs : /\ chatRun[r].status # "none" => chatRun'[r].status # "none"
                     /\ chatRun[r].session # Null => chatRun'[r].session = chatRun[r].session
  /\ \A j \in ImportJobs : /\ job[j].status # "none" => job'[j].status # "none"
                           /\ job[j].session # Null => job'[j].session = job[j].session
  /\ \A d \in Searches : found[d] # Null => found'[d] = found[d]

(* What a call makes is not there before it does.                            *)
StillToMake(c) ==
  /\ c.kind = "create" => chatRun'[c.of].session = Null
  /\ c.kind = "confirm" => job'[c.of].status = "none"
  /\ c.kind = "search" /\ c.at = "asked" => found'[c.of] = Null

LEMMA MessagesStay ==
  ASSUME Steady, NEW m \in Messages, SessionOf(m) # Null
  PROVE  SessionOf(m)' = SessionOf(m)
<1> QED BY MessageIs DEF Steady, SessionOf

LEMMA ListsStay ==
  ASSUME Steady, NEW l \in Lists, ListOK(l), Null \notin Sessions
  PROVE  ListOK(l)'
<1> SUFFICES ASSUME NEW s \in DOMAIN l PROVE EntryOK(l[s], s)'
    BY DEF ListOK
<1>1. s # Null /\ l[s] \in Entries /\ EntryOK(l[s], s)
    BY ListHas DEF ListOK
<1> QED BY <1>1 DEF EntryOK, Entries, Steady

LEMMA EntriesStay ==
  ASSUME Steady, NEW e \in Entries, NEW s, s # Null, EntryOK(e, s)
  PROVE  EntryOK(e, s)'
<1> QED BY DEF EntryOK, Entries, Steady

LEMMA CapturedStays ==
  ASSUME Steady, NEW c \in CallRecords, Captured(c), StillToMake(c)
  PROVE  Captured(c)'
<1>1. Null \notin Sessions
    BY PageAssumption
<1>2. c.list \in Lists /\ c.entry \in Entries /\ c.messages \subseteq Messages /\ c.kind \in Kinds
    BY DEF CallRecords
<1>3. CASE c.kind \in About
  <2>1. c.of \in Runs /\ c.session # Null /\ chatRun[c.of].session = c.session
      BY <1>3 DEF Captured, About
  <2>2. chatRun'[c.of].session = c.session
      BY <2>1 DEF Steady
  <2> QED BY <1>3, <2>1, <2>2 DEF Captured, About
<1>4. CASE c.kind = "create"
    BY <1>4 DEF Captured, Steady, StillToMake, About
<1>5. CASE c.kind = "open"
  <2>1. c.session # Null /\ EntryOK(c.entry, c.session)'
      BY <1>2, <1>5, EntriesStay DEF Captured, About
  <2>2. \A m \in c.messages : SessionOf(m)' = c.session /\ m[1] \notin {"local", "notice"}
      BY <1>2, <1>5, <2>1, MessagesStay DEF Captured, About
  <2> QED BY <1>5, <2>1, <2>2 DEF Captured, About
<1>6. CASE c.kind = "list"
  <2>1. ListOK(c.list)'
      BY <1>1, <1>2, <1>6, ListsStay DEF Captured, About
  <2> QED BY <1>6, <2>1 DEF Captured, About
<1>7. CASE c.kind = "import"
    BY <1>7 DEF Captured, Steady, About
<1>8. CASE c.kind = "confirm"
    BY <1>8 DEF Captured, StillToMake, About
<1>9. CASE c.kind = "search"
    BY <1>9 DEF Captured, Steady, StillToMake, About
<1>10. CASE c.kind = "delete"
    BY <1>10 DEF Captured, About
<1> QED BY <1>2, <1>3, <1>4, <1>5, <1>6, <1>7, <1>8, <1>9, <1>10 DEF Kinds, About

(* The view stays, or a new one is entered.                                  *)
SameView == page'.gen = page.gen /\ page'.session = page.session
NextView == page'.gen = page.gen + 1

LEMMA CallsStay ==
  ASSUME Steady, PageTypes, page' \in Pages, NEW c \in calls, CallOK(c), StillToMake(c),
         SameView \/ NextView
  PROVE  CallOK(c)'
<1>1. c \in CallRecords /\ c.gen \in Nat /\ page.gen \in Nat
    BY DEF PageTypes, CallRecords, Pages
<1>2. Captured(c)'
    BY <1>1, CapturedStays DEF CallOK
<1>3. c.gen <= page'.gen
    BY <1>1 DEF CallOK, SameView, NextView
<1>4. OfTheView(c)'
    BY <1>1 DEF CallOK, OfTheView, Live, SameView, NextView
<1> QED BY <1>2, <1>3, <1>4 DEF CallOK, Thens

(* A step within a view, with what each new call must be beside the others.   *)
Fits(n, others) ==
  /\ CallOK(n)'
  /\ n.kind = "open" /\ n.gen = page.gen => page'.importJob = Null
  /\ \A d \in others :
       /\ Rivals(n, d) \/ Rivals(d, n) => n = d
       /\ \A r \in Runs : Turn(n, r)' /\ Turn(d, r)' => n = d
       /\ (Loads(n, d) \/ Loads(d, n))' => n = d

LEMMA StepInView ==
  ASSUME PInv, NEW kept \in SUBSET calls, NEW new \in SUBSET CallRecords, calls' = kept \union new,
         ServerTypes', ServerInv', Steady, page' \in Pages, SameView,
         known' \in Lists, ListOK(known)',
         \A d \in kept : StillToMake(d),
         \A n \in new : Fits(n, kept \union new),
         page'.importJob = page.importJob \/ \A d \in kept : ~(d.kind = "open" /\ Live(d))
  PROVE  PageTypes' /\ ServerInv' /\ CallsInv' /\ MakersInv' /\ TurnsInv' /\ OpenInv'
<1>1. /\ PageTypes /\ CallsInv /\ MakersInv /\ TurnsInv /\ OpenInv
      /\ \A c \in calls : Live(c)' <=> Live(c)
    BY DEF PInv, SameView, Live
<1>2. PageTypes'
    BY <1>1 DEF PageTypes
<1>3. CallsInv'
  <2>1. \A d \in kept : CallOK(d)'
      BY <1>1, CallsStay DEF CallsInv
  <2>2. \A n \in new : CallOK(n)'
      BY DEF Fits
  <2> QED BY <2>1, <2>2 DEF CallsInv
<1>4. MakersInv'
  <2> SUFFICES ASSUME NEW c \in kept \union new, NEW d \in kept \union new, Rivals(c, d)
               PROVE  c = d
      BY DEF MakersInv
  <2>1. CASE c \in kept /\ d \in kept
      BY <1>1, <2>1 DEF MakersInv
  <2>2. CASE c \in new \/ d \in new
      BY <2>2 DEF Fits
  <2> QED BY <2>1, <2>2
<1>5. TurnsInv'
  <2> SUFFICES ASSUME NEW r \in Runs, NEW c \in kept \union new, NEW d \in kept \union new,
                      Turn(c, r)', Turn(d, r)'
               PROVE  c = d
      BY DEF TurnsInv
  <2>1. CASE c \in kept /\ d \in kept
    <3>1. Turn(c, r) /\ Turn(d, r)
        BY <1>1, <2>1 DEF Turn
    <3> QED BY <1>1, <2>1, <3>1 DEF TurnsInv
  <2>2. CASE c \in new \/ d \in new
      BY <2>2 DEF Fits
  <2> QED BY <2>1, <2>2
<1>6. OpenInv'
  <2>1. ASSUME NEW c \in kept \union new, Live(c)', c.kind = "open" PROVE page'.importJob = Null
    <3>1. CASE c \in kept
        BY <1>1, <2>1, <3>1 DEF OpenInv
    <3>2. CASE c \in new
        BY <2>1, <3>2 DEF Fits, SameView, Live
    <3> QED BY <3>1, <3>2
  <2>2. ASSUME NEW c \in kept \union new, NEW d \in kept \union new, Loads(c, d)'
        PROVE  c = d
    <3>1. CASE c \in kept /\ d \in kept
      <4>1. Loads(c, d)
          BY <1>1, <2>2, <3>1 DEF Loads
      <4> QED BY <1>1, <3>1, <4>1 DEF OpenInv
    <3>2. CASE c \in new \/ d \in new
        BY <2>2, <3>2 DEF Fits
    <3> QED BY <3>1, <3>2
  <2> QED BY <2>1, <2>2 DEF OpenInv
<1> QED BY <1>2, <1>3, <1>4, <1>5, <1>6

(* In a new view only its own call is live.                                  *)
LEMMA StepToView ==
  ASSUME PInv, NEW kept \in SUBSET calls, NEW new \in SUBSET CallRecords, calls' = kept \union new,
         ServerTypes', ServerInv', Steady, page' \in Pages, NextView,
         known' \in Lists, ListOK(known)',
         \A d \in kept : StillToMake(d),
         \A m, n \in new : m = n,
         \A n \in new : CallOK(n)' /\ n.kind \notin Makers,
         page'.importJob = Null, page'.importPoll = Null, ItemsInv', ComposerComesBack'
  PROVE  PInv'
<1>1. /\ PageTypes /\ CallsInv /\ MakersInv /\ page.gen \in Nat
      /\ \A c \in calls : c \in CallRecords /\ c.gen \in Nat /\ c.gen <= page.gen
    BY DEF PInv, PageTypes, Pages, CallRecords, CallsInv, CallOK
<1>2. PageTypes'
    BY <1>1 DEF PageTypes
<1>3. \A c \in kept : ~Live(c)'
    BY <1>1 DEF Live, NextView
<1>4. CallsInv'
  <2>1. \A c \in kept : CallOK(c)'
      BY <1>1, CallsStay DEF CallsInv
  <2> QED BY <2>1 DEF CallsInv
<1>5. MakersInv'
    BY <1>1 DEF MakersInv, Rivals
<1>6. TurnsInv'
    BY <1>3 DEF TurnsInv, Turn
<1>7. OpenInv'
    BY <1>3 DEF OpenInv, Loads
<1>8. ImportInv'
    BY DEF ImportInv
<1> QED BY <1>2, <1>4, <1>5, <1>6, <1>7, <1>8 DEF PInv

(* A view that is entered shows nothing yet.                                 *)
LEMMA ViewsStartEmpty ==
  ASSUME PageTypes, NEW s \in Somewhere
  PROVE  LET p == EmptyView(page.gen + 1, s)
         IN  /\ p \in Pages /\ p.gen = page.gen + 1 /\ p.session = s
             /\ \A m \in Messages : p.items[m] = 0
             /\ p.importJob = Null /\ p.importPoll = Null /\ p.sending = FALSE
<1>1. page.gen \in Nat
    BY DEF PageTypes, Pages
<1> QED BY <1>1 DEF EmptyView, Pages

LEMMA StepToEmptyView ==
  ASSUME PInv, NEW s \in Somewhere, page' = EmptyView(page.gen + 1, s),
         NEW kept \in SUBSET calls, NEW new \in SUBSET CallRecords, calls' = kept \union new,
         \A m, n \in new : m = n,
         \A n \in new : CallOK(n)' /\ n.kind \notin Makers,
         UNCHANGED serverVars, known' \in Lists, ListOK(known)'
  PROVE  PInv'
<1>1. PageTypes /\ ServerInv /\ CallsInv
    BY DEF PInv
<1>2. /\ page' \in Pages /\ page'.gen = page.gen + 1 /\ page'.session = s
      /\ \A m \in Messages : page'.items[m] = 0
      /\ page'.importJob = Null /\ page'.importPoll = Null /\ page'.sending = FALSE
    BY <1>1, ViewsStartEmpty
<1>3. ServerTypes' /\ ServerInv' /\ Steady
    BY <1>1 DEF PageTypes, ServerTypes, ServerInv, Steady, serverVars
<1>4. \A d \in kept : StillToMake(d)
    BY <1>1 DEF CallsInv, CallOK, Captured, StillToMake, About, serverVars
<1>5. ItemsInv'
  <2>1. \A m \in Messages : page'.items[m] <= 1 /\ ~(page'.items[m] > 0)
      BY <1>2
  <2> QED BY <2>1, MessagesAre DEF ItemsInv, Shows
<1>6. ComposerComesBack' /\ NextView
    BY <1>2 DEF ComposerComesBack, NextView
<1> QED BY <1>2, <1>3, <1>4, <1>5, <1>6, StepToView

-----------------------------------------------------------------------------
(* The steps that enter a view.                                              *)

(* What a step of the page sees of what the invariant says.                  *)
LEMMA PageHas ==
  ASSUME PInv
  PROVE  /\ PageTypes /\ ServerTypes /\ ServerInv /\ known \in Lists /\ ListOK(known)
         /\ page \in Pages /\ page.gen \in Nat /\ page.session \in Somewhere
         /\ Null \notin Sessions /\ Null \in Somewhere /\ Sessions \subseteq Somewhere
         /\ Null \in Subjects
         /\ \A c \in calls : c \in CallRecords /\ CallOK(c)
<1> QED BY PageAssumption DEF PInv, PageTypes, Pages, CallsInv, Somewhere, Subjects

LEMMA ServerStays ==
  ASSUME ServerTypes, ServerInv, UNCHANGED serverVars
  PROVE  /\ ServerTypes' /\ ServerInv' /\ Steady
         /\ \A e, s : EntryOK(e, s)' <=> EntryOK(e, s)
         /\ \A l : ListOK(l)' <=> ListOK(l)
<1> QED BY DEF ServerTypes, ServerInv, Steady, EntryOK, ListOK, serverVars

LEMMA OpeningIs ==
  ASSUME PInv, UNCHANGED serverVars, NEW l \in Lists, ListOK(l), NEW s \in DOMAIN l,
         page' = EmptyView(page.gen + 1, s)
  PROVE  /\ Opening(l, s) \in SUBSET CallRecords /\ \A m, n \in Opening(l, s) : m = n
         /\ \A n \in Opening(l, s) : CallOK(n)' /\ n.kind \notin Makers
         /\ s \in Somewhere
<1>1. /\ Null \in Subjects /\ s \in Somewhere /\ s # Null /\ l[s] \in Entries /\ page.gen \in Nat /\ page.gen + 1 \in Nat /\ PageTypes
      /\ ServerTypes /\ ServerInv
    BY PageHas, ListHas
<1>2. EntryOK(l[s], s)'
    BY <1>1, ServerStays DEF ListOK
<1>3. PICK first : first = Call("open", page.gen + 1, s, Null)
    OBVIOUS
<1>4. "open" \in Kinds
    BY DEF Kinds
<1>5. /\ first \in CallRecords /\ first.kind = "open" /\ first.gen = page.gen + 1
      /\ first.session = s /\ first.then = "" /\ first.messages = {}
    BY <1>1, <1>3, <1>4, NoList, NoEntryIs DEF Call, CallRecords
<1>6. PICK n : n = [first EXCEPT !.entry = l[s]]
    OBVIOUS
<1>7. /\ n \in CallRecords /\ n.kind = "open" /\ n.gen = page.gen + 1
      /\ n.session = s /\ n.then = "" /\ n.messages = {} /\ n.entry = l[s]
    BY <1>1, <1>5, <1>6 DEF CallRecords
<1>8. Opening(l, s) = {n}
    BY <1>3, <1>6 DEF Opening
<1>9. page'.gen = page.gen + 1 /\ page'.session = s
    BY <1>1, ViewsStartEmpty
<1>10. CallOK(n)'
  <2>1. Captured(n)'
      BY <1>1, <1>2, <1>7 DEF Captured, About
  <2>2. n.gen <= page'.gen
    <3>1. page'.gen = n.gen /\ n.gen \in Nat
        BY <1>1, <1>7, <1>9
    <3> QED BY <3>1
  <2>3. OfTheView(n)' /\ Thens(n)'
      BY <1>7, <1>9 DEF OfTheView, Thens
  <2> QED BY <2>1, <2>2, <2>3 DEF CallOK
<1> QED BY <1>1, <1>7, <1>8, <1>10 DEF Makers

LEMMA ViewsEntered ==
  ASSUME PInv, (\E s \in Sessions : OpenSession(s)) \/ StartNewChat \/ Reload
  PROVE  PInv'
<1>1. /\ PageTypes /\ ServerTypes /\ ServerInv /\ known \in Lists /\ ListOK(known)
      /\ page.gen \in Nat /\ page.gen + 1 \in Nat /\ Null \in Subjects /\ page.session \in Somewhere /\ Null \in Somewhere
    BY PageHas
<1>2. ASSUME NEW s \in Sessions, OpenSession(s) PROVE PInv'
  <2>1. /\ s \in DOMAIN known /\ page' = EmptyView(page.gen + 1, s)
        /\ calls' = calls \union Opening(known, s) /\ known' = known /\ UNCHANGED serverVars
      BY <1>2 DEF OpenSession, EnterSession
  <2>2. ListOK(known)'
      BY <1>1, <2>1, ServerStays DEF ListOK
  <2> QED BY <1>1, <2>1, <2>2, OpeningIs, StepToEmptyView
<1>3. CASE StartNewChat
  <2>1. PICK new : new = {}
      OBVIOUS
  <2>2. /\ page' = EmptyView(page.gen + 1, Null) /\ calls' = calls \union new
        /\ known' = known /\ UNCHANGED serverVars
      BY <1>3, <2>1 DEF StartNewChat, EnterSession
  <2>3. ListOK(known)'
      BY <1>1, <2>2, ServerStays DEF ListOK
  <2> QED BY <1>1, <2>1, <2>2, <2>3, StepToEmptyView
<1>4. CASE Reload
  <2> DEFINE kept == {c \in calls : c.kind = "post" /\ c.at = "asked"}
  <2>1. PICK first : first = Call("list", page.gen + 1, Null, Null)
      OBVIOUS
  <2>2. PICK n : n = [first EXCEPT !.then = "start", !.session = page.session]
      OBVIOUS
  <2>3. /\ page' = EmptyView(page.gen + 1, Null) /\ calls' = kept \union {n}
        /\ known' = << >> /\ UNCHANGED serverVars
      BY <1>4, <2>1, <2>2 DEF Reload, ThenOpen, Refresh
  <2>4. /\ n \in CallRecords /\ n.kind = "list" /\ n.gen = page.gen + 1
        /\ n.list = << >> /\ n.then = "start"
    <3>1. "list" \in Kinds
        BY DEF Kinds
    <3>2. /\ first \in CallRecords /\ first.kind = "list" /\ first.gen = page.gen + 1
          /\ first.list = << >>
        BY <1>1, <2>1, <3>1, NoList, NoEntryIs DEF Call, CallRecords
    <3> QED BY <1>1, <2>2, <3>2 DEF CallRecords
  <2>5. known' \in Lists /\ ListOK(known)' /\ ListOK(n.list)'
      BY <2>3, <2>4, NoList DEF ListOK
  <2>6. CallOK(n)' /\ n.kind \notin Makers
    <3>1. page'.gen = page.gen + 1
        BY <1>1, <2>3, ViewsStartEmpty
    <3> QED BY <1>1, <2>4, <2>5, <3>1
            DEF CallOK, Captured, OfTheView, Thens, About, Makers
  <2>7. kept \in SUBSET calls
      OBVIOUS
  <2> HIDE DEF kept
  <2>8. PICK new : new = {n}
      OBVIOUS
  <2>9. /\ calls' = kept \union new /\ new \in SUBSET CallRecords /\ \A x, y \in new : x = y
        /\ \A x \in new : CallOK(x)' /\ x.kind \notin Makers
      BY <2>3, <2>4, <2>6, <2>8
  <2> QED BY <1>1, <2>3, <2>5, <2>7, <2>9, StepToEmptyView
<1> QED BY <1>2, <1>3, <1>4


-----------------------------------------------------------------------------
(* The steps within a view.                                                  *)

(* What holds the composer, and what follows an import.                      *)
Holds(c) == Live(c) /\ (c.kind \in {"create", "run"} \/ c.then = "submit")
Tends(c) == c.kind = "import" /\ Live(c) /\ c.of = page.importPoll

LEMMA LiveStays == ASSUME SameView, NEW c PROVE Live(c)' <=> Live(c)
<1> QED BY DEF SameView, Live

LEMMA ItemsStay ==
  ASSUME PInv, Steady, SameView, page'.items = page.items,
         \A n \in calls' : \A r \in Runs : Turn(n, r)' => \E d \in calls : Turn(d, r)
  PROVE  ItemsInv'
<1>1. ItemsInv
    BY DEF PInv
<1>2. ASSUME NEW m \in Messages
      PROVE  /\ page'.items[m] <= 1
             /\ Shows(m)' => page'.session # Null /\ SessionOf(m)' = page'.session
  <2>1. Shows(m)' <=> Shows(m)
      BY DEF Shows
  <2> QED BY <1>1, <2>1, MessagesStay DEF ItemsInv, SameView
<1>3. ASSUME NEW r \in Runs
      PROVE  /\ ~(Shows(<<"local", r>>)' /\ Shows(<<"question", r>>)')
             /\ Shows(<<"notice", r>>)' => \A c \in calls' : ~Turn(c, r)'
    BY <1>1 DEF ItemsInv, Shows
<1> QED BY <1>2, <1>3 DEF ItemsInv

LEMMA ComposerStays ==
  ASSUME PInv, SameView, page'.sending => page.sending,
         \A c \in calls : Holds(c) => \E d \in calls' : Holds(d)'
  PROVE  ComposerComesBack'
<1> QED BY DEF PInv, ComposerComesBack, Holds

LEMMA ImportStays ==
  ASSUME PInv, Steady, SameView,
         page'.importJob = page.importJob, page'.importPoll = page.importPoll,
         page'.importNotice = page.importNotice,
         \A j \in ImportJobs : job[j].status # "none" /\ job'[j].status = "working"
                              => job[j].status = "working",
         \A c \in calls : Tends(c) => \E d \in calls' : Tends(d)'
  PROVE  ImportInv'
<1>1. ImportInv /\ ServerInv /\ page.importJob \in ImportJobs \union {Null}
    BY DEF PInv, PageTypes, Pages
<1>2. ASSUME NEW j \in ImportJobs, j = page.importJob
      PROVE  /\ job'[j].session = page.session
             /\ job'[j].status # "none"
             /\ job'[j].status = "working" => page.importPoll = j
  <2>1. job[j].session = page.session /\ job[j].status # "none" /\ Null \notin ImportJobs
      BY <1>1, <1>2, PageAssumption DEF ImportInv
  <2>2. job'[j].status # "none"
      BY <2>1 DEF Steady
  <2>3. job'[j].session = page.session
    <3>1. job[j].session # Null
        BY <1>1, <2>1 DEF ServerInv
    <3> QED BY <2>1, <3>1 DEF Steady
  <2>4. ASSUME job'[j].status = "working" PROVE page.importPoll = j
    <3>1. job[j].status = "working"
        BY <2>1, <2>4
    <3> QED BY <1>1, <1>2, <2>1, <3>1 DEF ImportInv
  <2> QED BY <2>2, <2>3, <2>4
<1>3. page'.importPoll # Null => page'.importNotice \/ \E d \in calls' : Tends(d)'
    BY <1>1 DEF ImportInv, Tends
<1> QED BY <1>1, <1>2, <1>3 DEF ImportInv, SameView, Tends

(* A call that fits in with any other: it makes nothing, tells no end, and   *)
(* opens no view.                                                            *)
Quiet == Kinds \ (Makers \union Asking \union {"open", "import"})
LEMMA QuietFits ==
  ASSUME NEW n, CallOK(n)', n.kind \in Quiet, NEW others
  PROVE  Fits(n, others) /\ \A r : ~Turn(n, r)'
<1> QED BY DEF Fits, Quiet, Makers, Asking, Rivals, Turn, Loads

(* A call goes on as another of its kind.                                    *)
Heir(c, n) ==
  /\ n.kind = c.kind /\ n.gen = c.gen /\ n.of = c.of /\ n.then = c.then /\ n.entry = c.entry
  /\ n.kind = "search" /\ n.at = "asked" => c.at = "asked"

LEMMA CallGoesOn ==
  ASSUME PInv, NEW c \in calls, NEW n \in CallRecords, Heir(c, n), CallOK(n)',
         calls' = (calls \ {c}) \union {n},
         ServerTypes', ServerInv', Steady, SameView, page' \in Pages,
         page'.items = page.items, page'.sending = page.sending,
         page'.importJob = page.importJob, page'.importPoll = page.importPoll,
         page'.importNotice = page.importNotice,
         known' = known, UNCHANGED job,
         \A d \in calls \ {c} : StillToMake(d)
  PROVE  PInv'
<1>1. PICK kept : kept = calls \ {c}
    OBVIOUS
<1>2. PICK new : new = {n}
    OBVIOUS
<1>3. kept \in SUBSET calls /\ new \in SUBSET CallRecords /\ calls' = kept \union new
    BY <1>1, <1>2
<1>4. /\ MakersInv /\ TurnsInv /\ OpenInv
      /\ known' \in Lists /\ ListOK(known)' /\ \A d : Live(d)' <=> Live(d)
  <2>1. known \in Lists /\ ListOK(known) /\ Null \notin Sessions
      BY PageHas
  <2>2. ListOK(known)' <=> \A s \in DOMAIN known : EntryOK(known[s], s)'
      BY DEF ListOK
  <2>3. ListOK(known)'
      BY <2>1, <2>2, ListsStay DEF ListOK
  <2> QED BY <2>1, <2>3, LiveStays DEF PInv
<1>5. ASSUME NEW d \in kept \union new
      PROVE  /\ Rivals(n, d) \/ Rivals(d, n) => n = d
             /\ \A r \in Runs : Turn(n, r)' /\ Turn(d, r)' => n = d
             /\ (Loads(n, d) \/ Loads(d, n))' => n = d
  <2>1. CASE d = n
      BY <2>1
  <2>2. CASE d \in calls /\ d # c
    <3>1. ~Rivals(n, d) /\ ~Rivals(d, n)
        BY <1>4, <2>2 DEF MakersInv, Rivals, Heir
    <3>2. \A r \in Runs : ~(Turn(n, r)' /\ Turn(d, r)')
      <4> SUFFICES ASSUME NEW r \in Runs, Turn(n, r)', Turn(d, r)' PROVE FALSE
          OBVIOUS
      <4>1. Turn(c, r) /\ Turn(d, r)
          BY <1>4 DEF Turn, Heir, Live
      <4> QED BY <1>4, <2>2, <4>1 DEF TurnsInv
    <3>3. ~Loads(n, d)' /\ ~Loads(d, n)'
      <4>1. ~Loads(c, d) /\ ~Loads(d, c)
          BY <1>4, <2>2 DEF OpenInv
      <4> QED BY <1>4, <4>1 DEF Loads, Heir, Live
    <3> QED BY <3>1, <3>2, <3>3
  <2> QED BY <1>1, <1>2, <2>1, <2>2
<1>6. \A x \in new : Fits(x, kept \union new)
  <2>1. n.kind = "open" /\ n.gen = page.gen => page'.importJob = Null
      BY <1>4 DEF OpenInv, Heir, Live
  <2> QED BY <1>2, <1>5, <2>1 DEF Fits
<1>7. PageTypes' /\ ServerInv' /\ CallsInv' /\ MakersInv' /\ TurnsInv' /\ OpenInv'
    BY <1>1, <1>3, <1>4, <1>6, StepInView
<1>8. ItemsInv'
  <2>1. ASSUME NEW x \in calls', NEW r \in Runs, Turn(x, r)'
        PROVE  \E d \in calls : Turn(d, r)
    <3>1. CASE x = n
        BY <1>4, <2>1, <3>1 DEF Turn, Heir, Live
    <3>2. CASE x \in calls
        BY <1>4, <2>1, <3>2 DEF Turn
    <3> QED BY <3>1, <3>2
  <2> QED BY <2>1, ItemsStay
<1>9. ComposerComesBack'
  <2>1. Holds(c) => Holds(n)'
      BY <1>4 DEF Holds, Heir, Live
  <2>2. \A d \in calls : Holds(d) => Holds(d)'
      BY <1>4 DEF Holds
  <2> QED BY <2>1, <2>2, ComposerStays
<1>10. ImportInv'
  <2>1. Tends(c) => Tends(n)'
      BY <1>4 DEF Tends, Heir, Live
  <2>2. \A d \in calls : Tends(d) => Tends(d)'
      BY <1>4 DEF Tends
  <2> QED BY <2>1, <2>2, ImportStays
<1> QED BY <1>7, <1>8, <1>9, <1>10 DEF PInv

(* A call ends, and quiet ones may begin.                                    *)
LEMMA CallEnds ==
  ASSUME PInv, NEW kept \in SUBSET calls, NEW new \in SUBSET CallRecords, calls' = kept \union new,
         \A n \in new : CallOK(n)' /\ n.kind \in Quiet,
         \A c \in calls \ kept : ~Holds(c) /\ ~Tends(c),
         ServerTypes', ServerInv', Steady, SameView, page' \in Pages,
         page'.items = page.items, page'.sending = page.sending,
         page'.importJob = page.importJob, page'.importPoll = page.importPoll,
         page'.importNotice = page.importNotice,
         known' \in Lists, ListOK(known)',
         \A j \in ImportJobs : job[j].status # "none" /\ job'[j].status = "working"
                              => job[j].status = "working",
         \A d \in kept : StillToMake(d)
  PROVE  PInv'
<1>1. \A d : Live(d)' <=> Live(d)
    BY LiveStays
<1>2. \A n \in new : Fits(n, kept \union new) /\ \A r : ~Turn(n, r)'
    BY QuietFits
<1>3. PageTypes' /\ ServerInv' /\ CallsInv' /\ MakersInv' /\ TurnsInv' /\ OpenInv'
    BY <1>2, StepInView
<1>4. ItemsInv'
  <2>1. ASSUME NEW x \in calls', NEW r \in Runs, Turn(x, r)'
        PROVE  \E d \in calls : Turn(d, r)
      BY <1>1, <1>2, <2>1 DEF Turn
  <2> QED BY <2>1, ItemsStay
<1>5. \A d \in kept : Holds(d)' <=> Holds(d)
    BY <1>1 DEF Holds
<1>6. \A d \in kept : Tends(d)' <=> Tends(d)
    BY <1>1 DEF Tends
<1>7. ComposerComesBack'
    BY <1>5, ComposerStays
<1>8. ImportInv'
    BY <1>6, ImportStays
<1> QED BY <1>3, <1>4, <1>7, <1>8 DEF PInv

-----------------------------------------------------------------------------
(* The server's steps.                                                       *)
LEMMA NothingToMake ==
  ASSUME PInv, NEW d \in calls, UNCHANGED <<job, found>>,
         \A r \in Runs : chatRun[r].status # "none" => chatRun'[r].session = chatRun[r].session
  PROVE  StillToMake(d)
<1> QED BY PageHas DEF CallOK, Captured, StillToMake, About

(* A step that leaves the page alone and moves what a run or an import is.    *)
LEMMA OnlyTheServer ==
  ASSUME PInv, UNCHANGED <<page, known, calls>>, ServerTypes', ServerInv', Steady,
         \A d \in calls : StillToMake(d),
         \A j \in ImportJobs : job[j].status # "none" /\ job'[j].status = "working"
                              => job[j].status = "working"
  PROVE  PInv'
<1>1. PICK new : new = {}
    OBVIOUS
<1>2. page \in Pages /\ known \in Lists /\ ListOK(known) /\ Null \notin Sessions
    BY PageHas
<1>3. ListOK(known)'
  <2>1. ListOK(known)' <=> \A s \in DOMAIN known : EntryOK(known[s], s)'
      BY DEF ListOK
  <2> QED BY <1>2, <2>1, ListsStay DEF ListOK
<1>4. SameView
    BY DEF SameView
<1>5. calls \in SUBSET calls /\ new \in SUBSET CallRecords /\ calls' = calls \union new
    BY <1>1
<1>6. /\ \A n \in new : CallOK(n)' /\ n.kind \in Quiet
      /\ \A c \in calls \ calls : ~Holds(c) /\ ~Tends(c)
    BY <1>1
<1>7. /\ page'.items = page.items /\ page'.sending = page.sending
      /\ page'.importJob = page.importJob /\ page'.importPoll = page.importPoll
      /\ page'.importNotice = page.importNotice
      /\ page' \in Pages /\ known' \in Lists
    BY <1>2
<1> QED BY <1>3, <1>4, <1>5, <1>6, <1>7, CallEnds

LEMMA ServerMoves == ASSUME PInv, Server PROVE PInv'
<1>1. ServerTypes /\ ServerInv
    BY PageHas
<1>2. ASSUME NEW r \in Runs, RunOver(r) \/ NewsComes(r) PROVE PInv'
  <2>1. /\ UNCHANGED <<session, job, found, page, known, calls>>
        /\ chatRun[r].status = "active" \/ chatRun[r].news = "pending"
      BY <1>2 DEF RunOver, NewsComes
  <2>2. /\ chatRun' \in [Runs -> [session : Somewhere, override : BOOLEAN,
                              status : Unsent \union {"active", "answered", "failed"},
                              news : {"none", "pending", "told"}]]
        /\ \A q \in Runs : /\ chatRun'[q].session = chatRun[q].session
                           /\ (chatRun'[q].status = "none") <=> (chatRun[q].status = "none")
    <3>1. CASE RunOver(r)
      <4>1. chatRun[r].news \in {"none", "pending", "told"}
          BY <1>1 DEF ServerTypes
      <4>2. PICK status \in {"answered", "failed"}, news \in {"none", "pending", "told"} :
              chatRun' = [chatRun EXCEPT ![r].status = status, ![r].news = news]
        <5>1. CASE \E news \in {"none", "pending"} :
                     chatRun' = [chatRun EXCEPT ![r].status = "answered", ![r].news = news]
            BY <5>1
        <5>2. CASE chatRun' = [chatRun EXCEPT ![r].status = "failed"]
          <6>1. chatRun' = [chatRun EXCEPT ![r].status = "failed", ![r].news = chatRun[r].news]
              BY <1>1, <5>2 DEF ServerTypes
          <6> QED BY <4>1, <6>1
        <5> QED BY <3>1, <5>1, <5>2 DEF RunOver
      <4>3. chatRun[r].status = "active"
          BY <3>1 DEF RunOver
      <4> QED BY <1>1, <4>2, <4>3, ZenonT(60) DEF ServerTypes, Unsent
    <3>2. CASE NewsComes(r)
        BY <1>1, <3>2 DEF NewsComes, ServerTypes
    <3> QED BY <1>2, <3>1, <3>2
  <2>3. ServerTypes' /\ ServerInv' /\ Steady
    <3>1. ServerTypes'
        BY <1>1, <2>1, <2>2 DEF ServerTypes
    <3> QED BY <1>1, <2>1, <2>2, <3>1 DEF ServerInv, Steady
  <2>4. \A d \in calls : StillToMake(d)
      BY <2>1, <2>2, NothingToMake
  <2> QED BY <2>1, <2>3, <2>4, OnlyTheServer
<1>3. ASSUME NEW j \in ImportJobs, ImportEnds(j) PROVE PInv'
  <2>1. /\ UNCHANGED <<session, chatRun, found, page, known, calls>>
        /\ job[j].status = "working"
      BY <1>3 DEF ImportEnds
  <2>2. PICK status \in {"ready", "failed"} : job' = [job EXCEPT ![j].status = status]
      BY <1>3 DEF ImportEnds
  <2>3. /\ job' \in [ImportJobs -> [session : Somewhere,
                                 status : {"none", "working", "ready", "failed"}]]
        /\ \A i \in ImportJobs : /\ job'[i].session = job[i].session
                                 /\ (job'[i].status = "none") <=> (job[i].status = "none")
                                 /\ job'[i].status = "working" => job[i].status = "working"
      BY <1>1, <2>1, <2>2 DEF ServerTypes
  <2>4. ServerTypes' /\ ServerInv' /\ Steady
    <3>1. ServerTypes'
        BY <1>1, <2>1, <2>3 DEF ServerTypes
    <3> QED BY <1>1, <2>1, <2>3, <3>1 DEF ServerInv, Steady
  <2>5. \A d \in calls : StillToMake(d)
      BY <2>1, <2>3, PageHas DEF CallOK, Captured, StillToMake, About
  <2> QED BY <2>1, <2>3, <2>4, <2>5, OnlyTheServer
<1> QED BY <1>2, <1>3 DEF Server

-----------------------------------------------------------------------------
(* The user's steps within a view.                                           *)

(* What is not asked yet is nowhere.                                         *)
LEMMA NotAskedYet ==
  ASSUME PInv, NEW r \in Runs, chatRun[r].status = "none"
  PROVE  /\ chatRun[r].session = Null
         /\ \A d \in calls : ~Turn(d, r) /\ (d.kind = "create" => d.of # r)
         /\ \A m \in Messages : m[1] # "found" /\ m[2] = r => page.items[m] = 0
<1>1. chatRun[r].session = Null /\ r # Null
    BY PageHas, PageAssumption DEF ServerInv, Runs
<1>2. ASSUME NEW d \in calls PROVE ~Turn(d, r) /\ (d.kind = "create" => d.of # r)
  <2>1. Captured(d)
      BY PageHas DEF CallOK
  <2>2. CASE d.kind \in Asking
      BY <1>1, <2>1, <2>2 DEF Captured, About, Asking, Turn
  <2>3. CASE d.kind = "open"
      BY <1>1, <2>1, <2>3 DEF Captured, About, Asking, Turn, EntryOK
  <2>4. CASE d.kind \notin Asking /\ d.kind # "open"
      BY <2>1, <2>4 DEF Captured, About, Asking, Turn
  <2> QED BY <2>2, <2>3, <2>4
<1>3. ASSUME NEW m \in Messages, m[1] # "found", m[2] = r PROVE page.items[m] = 0
  <2>1. SessionOf(m) = Null
      BY <1>1, <1>3 DEF SessionOf
  <2>2. page.items[m] \in Nat
      BY PageHas DEF Pages
  <2> QED BY <2>1, <2>2 DEF PInv, ItemsInv, Shows
<1> QED BY <1>1, <1>2, <1>3

(* A question is typed.                                                      *)
LEMMA TypedIs ==
  ASSUME PInv, NEW r \in Runs, chatRun[r].session = Null, NEW s \in Somewhere, NEW o \in BOOLEAN,
         Typed(r, s, o), UNCHANGED <<session, job, found>>
  PROVE  /\ ServerTypes' /\ ServerInv' /\ Steady
         /\ chatRun'[r].session = s /\ chatRun'[r].status = "typed"
         /\ \A q \in Runs \ {r} : chatRun'[q] = chatRun[q]
<1>1. ServerTypes /\ ServerInv /\ Null \in Somewhere
    BY PageHas
<1>2. PICK e : e = [NoQuestion EXCEPT !.session = s, !.status = "typed", !.override = o]
    OBVIOUS
<1>3. /\ e \in [session : Somewhere, override : BOOLEAN,
                status : Unsent \union {"active", "answered", "failed"},
                news : {"none", "pending", "told"}]
      /\ e.session = s /\ e.status = "typed"
    BY <1>1, <1>2 DEF NoQuestion, Unsent
<1>4. chatRun' = [chatRun EXCEPT ![r] = e]
    BY <1>2 DEF Typed
<1>5. chatRun'[r] = e /\ \A q \in Runs \ {r} : chatRun'[q] = chatRun[q]
    BY <1>1, <1>4 DEF ServerTypes
<1>6. ServerTypes'
    BY <1>1, <1>3, <1>4 DEF ServerTypes
<1>7. ServerInv'
    BY <1>1, <1>3, <1>5 DEF ServerInv
<1>8. Steady
    BY <1>3, <1>5 DEF Steady
<1> QED BY <1>3, <1>5, <1>6, <1>7, <1>8

(* A call begins.                                                            *)
LEMMA CallBegins ==
  ASSUME PInv, NEW n \in CallRecords, CallOK(n)', n.kind \notin {"open", "import"},
         calls' = calls \union {n},
         ServerTypes', ServerInv', Steady, SameView, page' \in Pages,
         page'.importJob = page.importJob, page'.importPoll = page.importPoll,
         page'.importNotice = page.importNotice,
         known' = known, UNCHANGED job,
         \A d \in calls : StillToMake(d) /\ ~Rivals(n, d) /\ ~Rivals(d, n),
         \A r \in Runs : Turn(n, r)' => \A d \in calls : ~Turn(d, r),
         page'.sending => page.sending \/ Holds(n)',
         ItemsInv'
  PROVE  PInv'
<1>1. PICK new : new = {n}
    OBVIOUS
<1>2. calls \in SUBSET calls /\ new \in SUBSET CallRecords /\ calls' = calls \union new
    BY <1>1
<1>3. known' \in Lists /\ ListOK(known)'
  <2>1. known \in Lists /\ ListOK(known) /\ Null \notin Sessions
      BY PageHas
  <2>2. ListOK(known)' <=> \A s \in DOMAIN known : EntryOK(known[s], s)'
      BY DEF ListOK
  <2> QED BY <2>1, <2>2, ListsStay DEF ListOK
<1>4. \A d : Live(d)' <=> Live(d)
    BY LiveStays
<1>5. \A x \in new : Fits(x, calls \union new)
  <2>1. ASSUME NEW d \in calls \union new
        PROVE  /\ Rivals(n, d) \/ Rivals(d, n) => n = d
               /\ \A r \in Runs : Turn(n, r)' /\ Turn(d, r)' => n = d
               /\ (Loads(n, d) \/ Loads(d, n))' => n = d
    <3>1. CASE d = n
        BY <3>1
    <3>2. CASE d \in calls
      <4>1. ~Loads(n, d)' /\ ~Loads(d, n)'
          BY DEF Loads
      <4>2. ASSUME NEW r \in Runs, Turn(n, r)', Turn(d, r)' PROVE FALSE
        <5>1. Turn(d, r)
            BY <1>4, <4>2 DEF Turn
        <5> QED BY <3>2, <4>2, <5>1
      <4> QED BY <3>2, <4>1, <4>2
    <3> QED BY <1>1, <3>1, <3>2
  <2> QED BY <1>1, <2>1 DEF Fits
<1>6. PageTypes' /\ ServerInv' /\ CallsInv' /\ MakersInv' /\ TurnsInv' /\ OpenInv'
    BY <1>2, <1>3, <1>5, StepInView
<1>7. ComposerComesBack'
  <2>1. \A d \in calls : Holds(d) => Holds(d)'
      BY <1>4 DEF Holds
  <2> QED BY <2>1 DEF PInv, ComposerComesBack, Holds
<1>8. ImportInv'
  <2>1. \A d \in calls : Tends(d) => Tends(d)'
      BY <1>4 DEF Tends
  <2> QED BY <2>1, ImportStays
<1> QED BY <1>6, <1>7, <1>8 DEF PInv

(* A question is posted.                                                     *)
LEMMA PostIs ==
  ASSUME NEW gen \in Nat, NEW s \in Somewhere, NEW r \in Runs, NEW why \in {"submit", "override"}
  PROVE  \E n \in CallRecords :
           /\ n = Post(gen, s, r, why) /\ n.kind = "post" /\ n.gen = gen /\ n.session = s
           /\ n.of = r /\ n.then = why
<1>1. r \in Subjects /\ "post" \in Kinds
    BY DEF Subjects, Kinds
<1>2. PICK first : first = Call("post", gen, s, r)
    OBVIOUS
<1>3. first \in CallRecords /\ first.kind = "post" /\ first.gen = gen
      /\ first.session = s /\ first.of = r
    BY <1>1, <1>2, NoList, NoEntryIs DEF Call, CallRecords
<1>4. PICK n : n = [first EXCEPT !.then = why]
    OBVIOUS
<1>5. n \in CallRecords /\ n.kind = "post" /\ n.gen = gen
      /\ n.session = s /\ n.of = r /\ n.then = why
    BY <1>3, <1>4 DEF CallRecords
<1>6. n = Post(gen, s, r, why)
    BY <1>2, <1>4 DEF Post
<1> QED BY <1>5, <1>6

(* A question that is typed for the conversation in view fits in.             *)
LEMMA QuestionFits ==
  ASSUME PInv, NEW r \in Runs, chatRun[r].status = "none", UNCHANGED <<job, found>>, SameView,
         page.session # Null, chatRun'[r].session = page.session,
         \A q \in Runs \ {r} : chatRun'[q] = chatRun[q],
         NEW n \in CallRecords, n.kind = "post", n.gen = page.gen, n.session = page.session,
         n.of = r, n.then \in {"submit", "override"}
  PROVE  /\ CallOK(n)' /\ Live(n)'
         /\ \A d \in calls : StillToMake(d) /\ ~Rivals(n, d) /\ ~Rivals(d, n)
         /\ \A q \in Runs : Turn(n, q)' => q = r
         /\ \A d \in calls : ~Turn(d, r)
<1>1. page.gen \in Nat
    BY PageHas
<1>2. /\ chatRun[r].session = Null
      /\ \A d \in calls : ~Turn(d, r) /\ (d.kind = "create" => d.of # r)
    BY NotAskedYet
<1>3. Live(n)'
    BY DEF Live, SameView
<1>4. CallOK(n)'
  <2>1. n.gen <= page'.gen
      BY <1>1 DEF SameView
  <2>2. Captured(n)'
      BY DEF Captured, About
  <2>3. OfTheView(n)' /\ Thens(n)'
      BY DEF OfTheView, Thens, SameView
  <2> QED BY <2>1, <2>2, <2>3 DEF CallOK
<1>5. ASSUME NEW d \in calls PROVE StillToMake(d) /\ ~Rivals(n, d) /\ ~Rivals(d, n)
  <2>1. Captured(d)
      BY PageHas DEF CallOK
  <2>2. StillToMake(d)
      BY <1>2, <2>1 DEF Captured, StillToMake, About
  <2> QED BY <2>2 DEF Rivals, Makers
<1>6. \A q \in Runs : Turn(n, q)' => q = r
    BY DEF Turn, Asking
<1> QED BY <1>2, <1>3, <1>4, <1>5, <1>6

LEMMA SubmitMoves == ASSUME PInv, NEW r \in Runs, SubmitQuestion(r) PROVE PInv'
<1>1. /\ chatRun[r].status = "none" /\ page.session # Null /\ Typed(r, page.session, FALSE)
      /\ page' = Ask(page, r) /\ UNCHANGED <<session, job, found, known>>
      /\ calls' = calls \union {Post(page.gen, page.session, r, "submit")}
    BY DEF SubmitQuestion, Unasked
<1>2. page \in Pages /\ PageTypes
    BY PageHas
<1>3. PICK n \in CallRecords :
        /\ n = Post(page.gen, page.session, r, "submit") /\ n.kind = "post" /\ n.gen = page.gen
        /\ n.session = page.session /\ n.of = r /\ n.then = "submit"
    BY PageHas, PostIs
<1>4. PICK m \in Messages : m = <<"local", r>>
    BY MessagesAre
<1>5. PICK q : q = AppendItem(page, m)
    OBVIOUS
<1>6. \A x \in Messages : page.items[x] <= 1
    BY DEF PInv, ItemsInv
<1>7. /\ \A x \in Messages : x[1] # "found" /\ x[2] = r => page.items[x] = 0
      /\ page.items[m] = 0
    BY <1>1, <1>4, NotAskedYet
<1>8. /\ q \in Pages /\ q.gen = page.gen /\ q.session = page.session
      /\ q.importPoll = page.importPoll /\ q.importJob = page.importJob
      /\ q.importNotice = page.importNotice
      /\ \A x \in Messages \ {m} : q.items[x] = page.items[x]
      /\ q.items[m] = 1
    BY <1>2, <1>5, <1>6, <1>7, Appended
<1>9. page' = [q EXCEPT !.pending = TRUE, !.sending = TRUE]
    BY <1>1, <1>4, <1>5 DEF Ask
<1>10. /\ page' \in Pages /\ SameView
       /\ page'.importPoll = page.importPoll /\ page'.importJob = page.importJob
       /\ page'.importNotice = page.importNotice
       /\ page'.items = q.items
    BY <1>8, <1>9 DEF Pages, SameView
<1>11. /\ ServerTypes' /\ ServerInv' /\ Steady
       /\ chatRun'[r].session = page.session /\ \A p \in Runs \ {r} : chatRun'[p] = chatRun[p]
  <2>1. chatRun[r].session = Null /\ page.session \in Somewhere
      BY <1>1, NotAskedYet, PageHas
  <2> QED BY <1>1, <2>1, TypedIs
<1>12. /\ CallOK(n)' /\ Live(n)'
       /\ \A d \in calls : StillToMake(d) /\ ~Rivals(n, d) /\ ~Rivals(d, n)
       /\ \A p \in Runs : Turn(n, p)' => p = r
       /\ \A d \in calls : ~Turn(d, r)
    BY <1>1, <1>3, <1>10, <1>11, QuestionFits
<1>13. ItemsInv'
  <2>1. ASSUME NEW x \in Messages
        PROVE  /\ page'.items[x] <= 1
               /\ Shows(x)' => page'.session # Null /\ SessionOf(x)' = page'.session
    <3>1. CASE x = m
        BY <1>1, <1>4, <1>8, <1>10, <1>11, <3>1 DEF SameView, SessionOf
    <3>2. CASE x # m
      <4>1. page'.items[x] = page.items[x]
          BY <1>8, <1>10, <3>2
      <4> QED BY <1>10, <1>11, <4>1, MessagesStay DEF PInv, ItemsInv, SameView, Shows
    <3> QED BY <3>1, <3>2
  <2>2. ASSUME NEW p \in Runs
        PROVE  /\ ~(Shows(<<"local", p>>)' /\ Shows(<<"question", p>>)')
               /\ Shows(<<"notice", p>>)' => \A c \in calls' : ~Turn(c, p)'
    <3>1. PICK local, question, notice \in Messages :
            /\ local = <<"local", p>> /\ question = <<"question", p>>
            /\ notice = <<"notice", p>>
        BY MessagesAre
    <3>2. page'.items[question] = page.items[question] /\ page'.items[notice] = page.items[notice]
        BY <1>4, <1>8, <1>10, <3>1
    <3>3. CASE p = r
      <4>1. page.items[question] = 0 /\ page.items[notice] = 0
          BY <1>7, <3>1, <3>3
      <4> QED BY <3>1, <3>2, <4>1 DEF Shows
    <3>4. CASE p # r
      <4>1. page'.items[local] = page.items[local]
          BY <1>4, <1>8, <1>10, <3>1, <3>4
      <4>2. ~(Shows(<<"local", p>>)' /\ Shows(<<"question", p>>)')
          BY <3>1, <3>2, <4>1 DEF PInv, ItemsInv, Shows
      <4>3. ASSUME Shows(<<"notice", p>>)', NEW c \in calls', Turn(c, p)' PROVE FALSE
        <5>1. Shows(<<"notice", p>>)
            BY <3>1, <3>2, <4>3 DEF Shows
        <5>2. c \in calls
            BY <1>1, <1>3, <1>12, <3>4, <4>3
        <5>3. Turn(c, p)
            BY <1>10, <4>3, LiveStays DEF Turn
        <5> QED BY <5>1, <5>2, <5>3 DEF PInv, ItemsInv
      <4> QED BY <4>2, <4>3
    <3> QED BY <3>3, <3>4
  <2> QED BY <2>1, <2>2 DEF ItemsInv
<1>14. page'.sending => page.sending \/ Holds(n)'
    BY <1>3, <1>12 DEF Holds
<1>15. /\ n.kind \notin {"open", "import"} /\ calls' = calls \union {n} /\ known' = known
       /\ \A p \in Runs : Turn(n, p)' => \A d \in calls : ~Turn(d, p)
    BY <1>1, <1>3, <1>12
<1> QED BY <1>1, <1>10, <1>11, <1>12, <1>13, <1>14, <1>15, CallBegins

LEMMA OverrideMoves ==
  ASSUME PInv, NEW q \in Runs, NEW r \in Runs, AnswerWithReport(q, r)
  PROVE  PInv'
<1>1. /\ page.items[<<"answer", q>>] > 0
      /\ chatRun[r].status = "none" /\ Typed(r, page.session, TRUE)
      /\ UNCHANGED <<session, job, found, known, page>>
      /\ calls' = calls \union {Post(page.gen, page.session, r, "override")}
    BY DEF AnswerWithReport, Unasked, Begins
<1>2. page.session # Null
    BY <1>1, MessagesAre DEF PInv, ItemsInv, Shows
<1>3. PICK n \in CallRecords :
        /\ n = Post(page.gen, page.session, r, "override") /\ n.kind = "post" /\ n.gen = page.gen
        /\ n.session = page.session /\ n.of = r /\ n.then = "override"
    BY PageHas, PostIs
<1>4. SameView /\ page' \in Pages
    BY <1>1, PageHas DEF SameView
<1>5. /\ ServerTypes' /\ ServerInv' /\ Steady
      /\ chatRun'[r].session = page.session /\ \A p \in Runs \ {r} : chatRun'[p] = chatRun[p]
  <2>1. chatRun[r].session = Null /\ page.session \in Somewhere
      BY <1>1, NotAskedYet, PageHas
  <2> QED BY <1>1, <2>1, TypedIs
<1>7. /\ CallOK(n)' /\ Live(n)'
      /\ \A d \in calls : StillToMake(d) /\ ~Rivals(n, d) /\ ~Rivals(d, n)
      /\ \A p \in Runs : Turn(n, p)' => p = r
      /\ \A d \in calls : ~Turn(d, r)
    BY <1>1, <1>2, <1>3, <1>4, <1>5, QuestionFits
<1>6. ItemsInv'
  <2>1. \A m \in Messages : /\ page'.items[m] <= 1
                            /\ Shows(m)' => page'.session # Null /\ SessionOf(m)' = page'.session
      BY <1>1, <1>5, MessagesStay DEF PInv, ItemsInv, Shows
  <2>2. ASSUME NEW p \in Runs
        PROVE  /\ ~(Shows(<<"local", p>>)' /\ Shows(<<"question", p>>)')
               /\ Shows(<<"notice", p>>)' => \A c \in calls' : ~Turn(c, p)'
    <3>1. ~(Shows(<<"local", p>>)' /\ Shows(<<"question", p>>)')
        BY <1>1 DEF PInv, ItemsInv, Shows
    <3>2. ASSUME Shows(<<"notice", p>>)', NEW c \in calls', Turn(c, p)' PROVE FALSE
      <4>1. Shows(<<"notice", p>>)
          BY <1>1, <3>2 DEF Shows
      <4>2. CASE c \in calls
        <5>1. Turn(c, p)
            BY <1>4, <3>2, LiveStays DEF Turn
        <5> QED BY <4>1, <4>2, <5>1 DEF PInv, ItemsInv
      <4>3. CASE c = n
        <5>1. p = r
            BY <1>7, <3>2, <4>3
        <5>2. page.items[<<"notice", p>>] = 0
            BY <1>1, <5>1, NotAskedYet, MessagesAre
        <5> QED BY <4>1, <5>2 DEF Shows
      <4> QED BY <1>1, <1>3, <3>2, <4>2, <4>3
    <3> QED BY <3>1, <3>2
  <2> QED BY <2>1, <2>2 DEF ItemsInv
<1>8. /\ n.kind \notin {"open", "import"} /\ calls' = calls \union {n} /\ known' = known
      /\ \A p \in Runs : Turn(n, p)' => \A d \in calls : ~Turn(d, p)
      /\ page'.importJob = page.importJob /\ page'.importPoll = page.importPoll
      /\ page'.importNotice = page.importNotice
      /\ page'.sending => page.sending
    BY <1>1, <1>3, <1>7
<1> QED BY <1>1, <1>4, <1>5, <1>6, <1>7, <1>8, CallBegins

(* A call that is of no question begins.                                      *)
LEMMA TaskBegins ==
  ASSUME PInv, NEW n \in CallRecords, CallOK(n)', n.kind \in Makers \union {"delete"},
         calls' = calls \union {n},
         ServerTypes', ServerInv', Steady, SameView, page' \in Pages,
         page'.importJob = page.importJob, page'.importPoll = page.importPoll,
         page'.importNotice = page.importNotice,
         page'.items = page.items, known' = known, UNCHANGED job,
         \A d \in calls : StillToMake(d) /\ (d.kind = n.kind /\ d.kind \in Makers => d.of # n.of),
         page'.sending => page.sending \/ Holds(n)'
  PROVE  PInv'
<1>1. n.kind \notin {"open", "import"} /\ \A r : ~Turn(n, r)'
    BY DEF Makers, Turn, Asking
<1>2. \A d \in calls : StillToMake(d) /\ ~Rivals(n, d) /\ ~Rivals(d, n)
    BY DEF Rivals
<1>3. ItemsInv'
  <2>1. ASSUME NEW x \in calls', NEW r \in Runs, Turn(x, r)'
        PROVE  \E d \in calls : Turn(d, r)
    <3>1. x \in calls
        BY <1>1, <2>1
    <3> QED BY <2>1, <3>1, LiveStays DEF Turn
  <2> QED BY <2>1, ItemsStay
<1> QED BY <1>1, <1>2, <1>3, CallBegins

LEMMA SubmitFirstMoves == ASSUME PInv, NEW r \in Runs, SubmitFirst(r) PROVE PInv'
<1>1. /\ chatRun[r].status = "none" /\ page.session = Null /\ Typed(r, Null, FALSE)
      /\ page' = [page EXCEPT !.sending = TRUE] /\ UNCHANGED <<session, job, found, known>>
      /\ calls' = calls \union {[Call("create", page.gen, Null, r) EXCEPT !.then = "submit"]}
    BY DEF SubmitFirst, Unasked
<1>2. /\ page \in Pages /\ page.gen \in Nat /\ Null \in Somewhere /\ r \in Subjects
      /\ "create" \in Kinds
    BY PageHas DEF Subjects, Kinds
<1>3. PICK first : first = Call("create", page.gen, Null, r)
    OBVIOUS
<1>4. PICK n : n = [first EXCEPT !.then = "submit"]
    OBVIOUS
<1>5. /\ n \in CallRecords /\ n.kind = "create" /\ n.at = "asked" /\ n.gen = page.gen
      /\ n.session = Null /\ n.of = r /\ n.then = "submit"
  <2>1. /\ first \in CallRecords /\ first.kind = "create" /\ first.at = "asked"
        /\ first.gen = page.gen /\ first.session = Null /\ first.of = r
      BY <1>2, <1>3, NoList, NoEntryIs DEF Call, CallRecords
  <2> QED BY <1>4, <2>1 DEF CallRecords
<1>6. /\ page' \in Pages /\ SameView
      /\ page'.importPoll = page.importPoll /\ page'.importJob = page.importJob
      /\ page'.importNotice = page.importNotice
      /\ page'.items = page.items
    BY <1>1, <1>2 DEF Pages, SameView
<1>7. /\ chatRun[r].session = Null
      /\ \A d \in calls : d.kind = "create" => d.of # r
    BY <1>1, NotAskedYet
<1>8. /\ ServerTypes' /\ ServerInv' /\ Steady
      /\ chatRun'[r].session = Null /\ chatRun'[r].status = "typed"
      /\ \A p \in Runs \ {r} : chatRun'[p] = chatRun[p]
    BY <1>1, <1>2, <1>7, TypedIs
<1>9. CallOK(n)'
  <2>1. n.gen <= page'.gen
      BY <1>2, <1>5, <1>6 DEF SameView
  <2>2. Captured(n)'
      BY <1>5, <1>8 DEF Captured, About
  <2>3. OfTheView(n)' /\ Thens(n)'
      BY <1>5 DEF OfTheView, Thens
  <2> QED BY <2>1, <2>2, <2>3 DEF CallOK
<1>10. Holds(n)' /\ n.kind \in Makers \union {"delete"}
    BY <1>5, <1>6 DEF Holds, Live, SameView, Makers
<1>11. \A d \in calls : /\ StillToMake(d)
                        /\ d.kind = n.kind /\ d.kind \in Makers => d.of # n.of
  <2> SUFFICES ASSUME NEW d \in calls PROVE StillToMake(d)
      BY <1>5, <1>7
  <2>1. Captured(d)
      BY PageHas DEF CallOK
  <2> QED BY <1>1, <1>7, <1>8, <2>1 DEF Captured, StillToMake, About
<1>12. calls' = calls \union {n}
    BY <1>1, <1>3, <1>4
<1> QED BY <1>1, <1>5, <1>6, <1>8, <1>9, <1>10, <1>11, <1>12, TaskBegins

(* An import, a search or a deletion begins.                                 *)
LEMMA TaskMoves ==
  ASSUME PInv, UNCHANGED <<page, known, serverVars>>,
         NEW kind \in {"confirm", "search", "delete"}, NEW gen \in Nat, gen <= page.gen,
         NEW s \in Somewhere, NEW x \in Subjects,
         calls' = calls \union {Call(kind, gen, s, x)},
         kind = "confirm" => x \in ImportJobs /\ job[x].status = "none",
         kind = "search" => x \in Searches /\ found[x] = Null /\ s = page.session,
         kind # "delete" => \A c \in Creating : c.of # x
  PROVE  PInv'
<1>1. PICK n : n = Call(kind, gen, s, x)
    OBVIOUS
<1>2. /\ n \in CallRecords /\ n.kind = kind /\ n.at = "asked"
      /\ n.gen = gen /\ n.session = s /\ n.of = x /\ n.then = ""
  <2>1. kind \in Kinds
      BY DEF Kinds
  <2> QED BY <1>1, <2>1, NoList, NoEntryIs DEF Call, CallRecords
<1>3. /\ page' \in Pages /\ SameView /\ ServerTypes /\ ServerInv
      /\ page'.importPoll = page.importPoll /\ page'.importJob = page.importJob
      /\ page'.importNotice = page.importNotice
      /\ page'.items = page.items /\ page'.sending => page.sending
    BY PageHas DEF SameView
<1>4. ServerTypes' /\ ServerInv' /\ Steady
    BY <1>3, ServerStays
<1>5. CallOK(n)'
  <2>1. n.gen <= page'.gen
      BY <1>2
  <2>2. Captured(n)'
      BY <1>2 DEF Captured, About, serverVars
  <2>3. OfTheView(n)' /\ Thens(n)'
      BY <1>2 DEF OfTheView, Thens
  <2> QED BY <2>1, <2>2, <2>3 DEF CallOK
<1>6. \A d \in calls : /\ StillToMake(d)
                       /\ d.kind = n.kind /\ d.kind \in Makers => d.of # n.of
  <2> SUFFICES ASSUME NEW d \in calls
               PROVE  /\ StillToMake(d)
                      /\ d.kind = n.kind /\ d.kind \in Makers => d.of # n.of
      OBVIOUS
  <2>1. Captured(d)
      BY PageHas DEF CallOK
  <2>2. StillToMake(d)
      BY <2>1 DEF Captured, StillToMake, About, serverVars
  <2> QED BY <1>2, <2>2 DEF Creating, Makers
<1>7. n.kind \in Makers \union {"delete"} /\ calls' = calls \union {n} /\ UNCHANGED job
    BY <1>1, <1>2 DEF Makers, serverVars
<1> QED BY <1>2, <1>3, <1>4, <1>5, <1>6, <1>7, TaskBegins

LEMMA UserMoves == ASSUME PInv, User PROVE PInv'
<1>1. /\ page.gen \in Nat /\ page.session \in Somewhere /\ known \in Lists /\ Null \in Subjects
      /\ Sessions \subseteq Somewhere /\ ImportJobs \union Searches \subseteq Subjects
    BY PageHas DEF Subjects
<1>2. ASSUME NEW j \in ImportJobs, NEW gen \in 0..MaxViews, StartImport(j, gen) PROVE PInv'
  <2>1. gen \in Nat /\ gen <= page.gen
      BY <1>1, <1>2 DEF StartImport
  <2> QED BY <1>1, <1>2, <2>1, TaskMoves DEF StartImport, Begins
<1>3. ASSUME NEW d \in Searches, Discover(d) PROVE PInv'
    BY <1>1, <1>3, TaskMoves DEF Discover, Begins
<1>4. ASSUME NEW s \in Deletable, Delete(s) PROVE PInv'
  <2>1. s \in Sessions
      BY PageAssumption
  <2> QED BY <1>1, <1>4, <2>1, TaskMoves DEF Delete, Begins
<1> QED BY <1>2, <1>3, <1>4, ViewsEntered, SubmitMoves, SubmitFirstMoves, OverrideMoves DEF User

-----------------------------------------------------------------------------
(* The steps that take a call further.                                       *)

LEMMA StillThere ==
  ASSUME PInv, UNCHANGED <<page, known, serverVars>>
  PROVE  /\ ServerTypes' /\ ServerInv' /\ Steady /\ SameView /\ page' \in Pages
         /\ page'.items = page.items /\ page'.sending = page.sending
         /\ page'.importJob = page.importJob /\ page'.importPoll = page.importPoll
         /\ page'.importNotice = page.importNotice
         /\ known' = known /\ known' \in Lists /\ ListOK(known)' /\ UNCHANGED job
         /\ \A d \in calls : StillToMake(d)
<1>1. ServerTypes /\ ServerInv /\ page \in Pages /\ known \in Lists /\ ListOK(known)
    BY PageHas
<1>2. ServerTypes' /\ ServerInv' /\ Steady /\ ListOK(known)'
    BY <1>1, ServerStays DEF ListOK
<1>3. UNCHANGED job /\ \A d \in calls : StillToMake(d)
    BY NothingToMake DEF serverVars
<1> QED BY <1>1, <1>2, <1>3 DEF SameView

LEMMA CallDropped ==
  ASSUME PInv, NEW c \in calls, calls' = (calls \ {c}) \union {},
         UNCHANGED <<page, known, serverVars>>, ~Holds(c), ~Tends(c)
  PROVE  PInv'
<1>1. PICK kept : kept = calls \ {c}
    OBVIOUS
<1>2. PICK new : new = {}
    OBVIOUS
<1>3. /\ kept \in SUBSET calls /\ new \in SUBSET CallRecords /\ calls' = kept \union new
      /\ \A n \in new : CallOK(n)' /\ n.kind \in Quiet
      /\ \A d \in calls \ kept : ~Holds(d) /\ ~Tends(d)
    BY <1>1, <1>2
<1>4. \A d \in kept : StillToMake(d)
    BY <1>1, StillThere
<1> QED BY <1>3, <1>4, StillThere, CallEnds

(* A call waits, asks again, or has its answer.                              *)
LEMMA CallTurns ==
  ASSUME PInv, NEW c \in calls, c.kind \notin Makers,
         NEW at \in {"asked", "answered", "refused", "waits"},
         NEW n, n = [c EXCEPT !.at = at], calls' = (calls \ {c}) \union {n},
         ServerTypes', ServerInv', Steady, SameView, page' \in Pages,
         page'.items = page.items, page'.sending = page.sending,
         page'.importJob = page.importJob, page'.importPoll = page.importPoll,
         page'.importNotice = page.importNotice,
         known' = known, UNCHANGED job, \A d \in calls : StillToMake(d)
  PROVE  PInv'
<1>1. c \in CallRecords /\ CallOK(c) /\ PageTypes
    BY PageHas
<1>2. /\ n \in CallRecords /\ n.kind = c.kind /\ n.gen = c.gen /\ n.session = c.session
      /\ n.of = c.of /\ n.then = c.then /\ n.entry = c.entry /\ n.messages = c.messages
      /\ n.list = c.list
    BY <1>1 DEF CallRecords
<1>3. CallOK(c)'
    BY <1>1, CallsStay
<1>4. CallOK(n)'
  <2>1. Captured(n)'
      BY <1>2, <1>3 DEF CallOK, Captured, Makers
  <2>2. OfTheView(n)' /\ Thens(n)'
      BY <1>2, <1>3 DEF CallOK, OfTheView, Thens, Live
  <2> QED BY <1>2, <1>3, <2>1, <2>2 DEF CallOK
<1>5. Heir(c, n)
    BY <1>2 DEF Heir, Makers
<1> QED BY <1>2, <1>4, <1>5, CallGoesOn

LEMMA MessagesReadMoves == ASSUME PInv, NEW c \in calls, MessagesRead(c) PROVE PInv'
<1>1. /\ c.kind = "open" /\ c.at = "asked" /\ UNCHANGED <<page, known, serverVars>>
    BY DEF MessagesRead, Replied
<1>2. c \in CallRecords /\ CallOK(c) /\ PageTypes /\ ServerTypes
    BY PageHas
<1>3. CASE calls' = (calls \ {c}) \union {}
  <2>1. ~Holds(c) /\ ~Tends(c)
      BY <1>1, <1>2 DEF Holds, Tends, CallOK, Thens
  <2> QED BY <1>1, <1>3, <2>1, CallDropped
<1>4. CASE calls' = (calls \ {c})
                    \union {[c EXCEPT !.at = "answered", !.messages = StoredOf(c.session)]}
  <2>1. PICK stored : stored = StoredOf(c.session)
      OBVIOUS
  <2>2. PICK n : n = [c EXCEPT !.at = "answered", !.messages = stored]
      OBVIOUS
  <2>3. /\ stored \subseteq Messages
        /\ \A m \in stored : SessionOf(m) = c.session /\ m[1] \notin {"local", "notice"}
      BY <1>2, <2>1, StoredIsOfIt
  <2>4. /\ n \in CallRecords /\ n.kind = "open" /\ n.gen = c.gen /\ n.session = c.session
        /\ n.of = c.of /\ n.then = c.then /\ n.entry = c.entry /\ n.messages = stored
      BY <1>1, <1>2, <2>2, <2>3 DEF CallRecords
  <2>5. /\ CallOK(c)' /\ \A m \in stored : SessionOf(m)' = SessionOf(m)
    <3>1. Steady /\ SameView /\ page' \in Pages /\ StillToMake(c)
        BY <1>1, StillThere
    <3>2. CallOK(c)'
        BY <1>2, <3>1, CallsStay
    <3> QED BY <1>1, <3>2 DEF SessionOf, serverVars
  <2>6. CallOK(n)'
    <3>1. Captured(n)'
        BY <1>1, <2>3, <2>4, <2>5 DEF CallOK, Captured, About
    <3>2. OfTheView(n)' /\ Thens(n)'
        BY <1>1, <2>4, <2>5 DEF CallOK, OfTheView, Thens, Live
    <3> QED BY <2>4, <2>5, <3>1, <3>2 DEF CallOK
  <2>7. Heir(c, n) /\ calls' = (calls \ {c}) \union {n}
      BY <1>1, <1>4, <2>1, <2>2, <2>4 DEF Heir
  <2> QED BY <1>1, <2>4, <2>6, <2>7, StillThere, CallGoesOn
<1> QED BY <1>3, <1>4 DEF MessagesRead, Replied, Replace

LEMMA SessionsReadMoves == ASSUME PInv, NEW c \in calls, SessionsRead(c) PROVE PInv'
<1>1. c.kind = "list" /\ UNCHANGED <<page, known, serverVars>>
    BY DEF SessionsRead, Replied
<1>2. /\ c \in CallRecords /\ CallOK(c) /\ PageTypes /\ ServerTypes /\ ServerInv
      /\ known \in Lists /\ ListOK(known)
    BY PageHas
<1>3. PICK list \in {ListSessions, known} :
        calls' = (calls \ {c}) \union {[c EXCEPT !.at = "answered", !.list = list]}
    BY DEF SessionsRead, Replied, Replace
<1>4. list \in Lists /\ ListOK(list)
    BY <1>2, ListsAreTrue
<1>5. PICK n : n = [c EXCEPT !.at = "answered", !.list = list]
    OBVIOUS
<1>6. /\ n \in CallRecords /\ n.kind = "list" /\ n.gen = c.gen /\ n.session = c.session
      /\ n.of = c.of /\ n.then = c.then /\ n.entry = c.entry /\ n.list = list
    BY <1>1, <1>2, <1>4, <1>5 DEF CallRecords
<1>7. CallOK(c)'
  <2>1. Steady /\ SameView /\ page' \in Pages /\ StillToMake(c)
      BY <1>1, StillThere
  <2> QED BY <1>2, <2>1, CallsStay
<1>8. CallOK(n)'
  <2>1. ListOK(list)'
      BY <1>1, <1>2, <1>4, ServerStays
  <2>2. Captured(n)'
      BY <1>6, <2>1 DEF Captured, About
  <2>3. OfTheView(n)' /\ Thens(n)'
      BY <1>1, <1>6, <1>7 DEF CallOK, OfTheView, Thens, Live
  <2> QED BY <1>6, <1>7, <2>2, <2>3 DEF CallOK
<1>9. Heir(c, n) /\ calls' = (calls \ {c}) \union {n}
    BY <1>1, <1>3, <1>5, <1>6 DEF Heir
<1> QED BY <1>1, <1>6, <1>8, <1>9, StillThere, CallGoesOn

LEMMA SessionCreatedMoves == ASSUME PInv, NEW c \in calls, SessionCreated(c) PROVE PInv'
<1>1. c.kind = "create" /\ UNCHANGED <<chatRun, job, found, page, known>>
    BY DEF SessionCreated, Replied
<1>2. /\ c \in CallRecords /\ CallOK(c) /\ PageTypes /\ ServerTypes /\ ServerInv
      /\ Null \notin Sessions /\ page \in Pages
    BY PageHas, SMTT(60)
<1>3. PICK at \in {"answered", "refused"}, s \in Somewhere :
        /\ calls' = (calls \ {c}) \union {[c EXCEPT !.at = at, !.session = s]}
        /\ at = "answered" => s \in Sessions
        /\ session' \in [Sessions -> {"unused", "open", "deleted"}]
  <2>1. CASE \E s \in Unused : /\ session' = [session EXCEPT ![s] = "open"]
                               /\ Replied(c, {[c EXCEPT !.at = "answered", !.session = s]})
      BY <1>2, <2>1 DEF Unused, Replied, Replace, ServerTypes, Somewhere
  <2>2. CASE UNCHANGED session /\ Replied(c, {[c EXCEPT !.at = "refused"]})
    <3>1. PICK s \in Somewhere : s = c.session
        BY <1>2 DEF CallRecords
    <3>2. [c EXCEPT !.at = "refused"] = [c EXCEPT !.at = "refused", !.session = s]
        BY <1>2, <3>1 DEF CallRecords
    <3> QED BY <1>2, <2>2, <3>2 DEF Replied, Replace, ServerTypes
  <2> QED BY <2>1, <2>2 DEF SessionCreated
<1>4. PICK n : n = [c EXCEPT !.at = at, !.session = s]
    OBVIOUS
<1>5. /\ n \in CallRecords /\ n.kind = "create" /\ n.gen = c.gen /\ n.session = s /\ n.at = at
      /\ n.of = c.of /\ n.then = c.then /\ n.entry = c.entry
    BY <1>1, <1>2, <1>3, <1>4 DEF CallRecords
<1>6. /\ ServerTypes' /\ ServerInv' /\ Steady /\ SameView /\ page' \in Pages
      /\ \A d \in calls : StillToMake(d)
  <2>1. ServerTypes' /\ ServerInv' /\ Steady
      BY <1>1, <1>2, <1>3 DEF ServerTypes, ServerInv, Steady
  <2> QED BY <1>1, <1>2, <2>1, NothingToMake DEF SameView
<1>7. CallOK(n)'
  <2>1. CallOK(c)'
      BY <1>2, <1>6, CallsStay
  <2>2. Captured(n)'
      BY <1>1, <1>2, <1>3, <1>5, <2>1 DEF CallOK, Captured, About
  <2>3. OfTheView(n)' /\ Thens(n)'
      BY <1>1, <1>5, <2>1 DEF CallOK, OfTheView, Thens, Live
  <2> QED BY <1>5, <2>1, <2>2, <2>3 DEF CallOK
<1>8. Heir(c, n) /\ calls' = (calls \ {c}) \union {n}
    BY <1>1, <1>3, <1>4, <1>5 DEF Heir
<1> QED BY <1>1, <1>5, <1>6, <1>7, <1>8, CallGoesOn

LEMMA PostTakenMoves == ASSUME PInv, NEW c \in calls, PostTaken(c) PROVE PInv'
<1>1. c.kind = "post" /\ UNCHANGED <<session, job, found, page, known>>
    BY DEF PostTaken, Replied
<1>2. /\ c \in CallRecords /\ CallOK(c) /\ ServerTypes /\ ServerInv /\ page \in Pages
      /\ Null \notin Sessions
    BY PageHas
<1>3. PICK at \in {"answered", "refused"}, status \in {"active", "refused"} :
        /\ calls' = (calls \ {c}) \union {[c EXCEPT !.at = at]}
        /\ chatRun' = [chatRun EXCEPT ![c.of].status = status]
    BY DEF PostTaken, Replied, Replace
<1>4. /\ c.of \in Runs /\ chatRun[c.of].session # Null
    BY <1>1, <1>2 DEF CallOK, Captured, About
<1>5. /\ chatRun' \in [Runs -> [session : Somewhere, override : BOOLEAN,
                            status : Unsent \union {"active", "answered", "failed"},
                            news : {"none", "pending", "told"}]]
      /\ \A q \in Runs : chatRun'[q].session = chatRun[q].session
      /\ \A q \in Runs : chatRun'[q].status = "none" => chatRun[q].status = "none"
      /\ \A q \in Runs : chatRun[q].status # "none" => chatRun'[q].status # "none"
  <2>1. PICK row : row = chatRun[c.of]
      OBVIOUS
  <2>2. /\ row.session \in Somewhere /\ row.override \in BOOLEAN
        /\ row.status \in Unsent \union {"active", "answered", "failed"}
        /\ row.news \in {"none", "pending", "told"}
        /\ row = [session |-> row.session, override |-> row.override, status |-> row.status,
                  news |-> row.news]
      BY <1>2, <1>4, <2>1 DEF ServerTypes
  <2>3. PICK new : new = [row EXCEPT !.status = status]
      OBVIOUS
  <2>4. /\ new \in [session : Somewhere, override : BOOLEAN,
                   status : Unsent \union {"active", "answered", "failed"},
                   news : {"none", "pending", "told"}]
        /\ new.session = row.session /\ new.status = status
      BY <2>2, <2>3 DEF Unsent
  <2>5. /\ chatRun' = [chatRun EXCEPT ![c.of] = new]
        /\ chatRun \in [Runs -> [session : Somewhere, override : BOOLEAN,
                              status : Unsent \union {"active", "answered", "failed"},
                              news : {"none", "pending", "told"}]]
      BY <1>2, <1>3, <2>1, <2>3 DEF ServerTypes
  <2>6. row.status # "none"
      BY <1>2, <1>4, <2>1 DEF ServerInv
  <2>7. \A q \in Runs : chatRun'[q] = IF q = c.of THEN new ELSE chatRun[q]
      BY <2>5
  <2>8. chatRun' \in [Runs -> [session : Somewhere, override : BOOLEAN,
                            status : Unsent \union {"active", "answered", "failed"},
                            news : {"none", "pending", "told"}]]
      BY <2>4, <2>5
  <2> QED BY <1>3, <2>1, <2>4, <2>6, <2>7, <2>8
<1>6. ServerTypes' /\ ServerInv' /\ Steady
  <2>1. ServerTypes'
      BY <1>1, <1>2, <1>5 DEF ServerTypes
  <2> QED BY <1>1, <1>2, <1>5, <2>1 DEF ServerInv, Steady
<1>7. \A d \in calls : StillToMake(d)
    BY <1>1, <1>5, NothingToMake
<1>8. PICK n : n = [c EXCEPT !.at = at]
    OBVIOUS
<1>9. SameView /\ page' \in Pages /\ c.kind \notin Makers
    BY <1>1, <1>2 DEF SameView, Makers
<1> QED BY <1>1, <1>3, <1>6, <1>7, <1>8, <1>9, CallTurns

LEMMA ServerStill ==
  ASSUME PInv, UNCHANGED serverVars
  PROVE  /\ ServerTypes' /\ ServerInv' /\ Steady /\ UNCHANGED <<session, chatRun, job, found>>
         /\ \A d \in calls : StillToMake(d)
         /\ known' = known => known' \in Lists /\ ListOK(known)'
<1>1. ServerTypes /\ ServerInv /\ known \in Lists /\ ListOK(known)
    BY PageHas
<1>2. ServerTypes' /\ ServerInv' /\ Steady
    BY <1>1, ServerStays
<1>3. UNCHANGED <<session, chatRun, job, found>> /\ \A d \in calls : StillToMake(d)
    BY NothingToMake DEF serverVars
<1>4. ASSUME known' = known PROVE ListOK(known)'
    BY <1>1, <1>4, ServerStays DEF ListOK
<1> QED BY <1>1, <1>2, <1>3, <1>4

LEMMA PollsMove ==
  ASSUME PInv, NEW c \in calls,
         FollowWaits(c) \/ FollowDropped(c) \/ FollowAgain(c) \/ NewsAgain(c)
  PROVE  PInv'
<1>1. page \in Pages
    BY PageHas
<1>2. PICK at \in {"asked", "waits"}, pending \in BOOLEAN :
        /\ c.kind \in {"run", "news"}
        /\ Renders(c, [page EXCEPT !.pending = pending], {[c EXCEPT !.at = at]})
  <2>1. page.pending \in BOOLEAN /\ page = [page EXCEPT !.pending = page.pending]
      BY <1>1 DEF Pages
  <2>2. CASE FollowWaits(c) \/ FollowDropped(c)
      BY <2>2 DEF FollowWaits, FollowDropped, Polls, StillPending
  <2>3. CASE FollowAgain(c)
      BY <2>1, <2>3 DEF FollowAgain
  <2>4. CASE NewsAgain(c)
      BY <2>1, <2>4 DEF NewsAgain, NewsCounts
  <2> QED BY <2>2, <2>3, <2>4
<1>3. PICK n : n = [c EXCEPT !.at = at]
    OBVIOUS
<1>4. /\ page' = [page EXCEPT !.pending = pending] /\ UNCHANGED <<known, serverVars>>
      /\ calls' = (calls \ {c}) \union {n}
    BY <1>2, <1>3 DEF Renders, Replace
<1>5. /\ SameView /\ page' \in Pages
      /\ page'.items = page.items /\ page'.sending = page.sending
      /\ page'.importJob = page.importJob /\ page'.importPoll = page.importPoll
      /\ page'.importNotice = page.importNotice
    BY <1>1, <1>4 DEF SameView, Pages
<1>6. c.kind \notin Makers /\ known' = known
    BY <1>2, <1>4 DEF Makers
<1> QED BY <1>3, <1>4, <1>5, <1>6, ServerStill, CallTurns

LEMMA SessionDeletedMoves == ASSUME PInv, NEW c \in calls, SessionDeleted(c) PROVE PInv'
<1>1. c.kind = "delete" /\ UNCHANGED <<chatRun, job, found, page, known>>
    BY DEF SessionDeleted, Replied
<1>2. /\ c \in CallRecords /\ CallOK(c) /\ ServerTypes /\ ServerInv /\ page \in Pages
    BY PageHas
<1>3. CASE calls' = (calls \ {c}) \union {} /\ UNCHANGED session
  <2>1. ~Holds(c) /\ ~Tends(c)
      BY <1>1, <1>2 DEF Holds, Tends, CallOK, Thens
  <2> QED BY <1>1, <1>3, <2>1, CallDropped DEF serverVars
<1>4. CASE /\ session' = [session EXCEPT ![c.session] = "deleted"]
           /\ calls' = (calls \ {c}) \union {[c EXCEPT !.at = "answered"]}
  <2>1. ServerTypes' /\ ServerInv' /\ Steady
      BY <1>1, <1>2, <1>4 DEF ServerTypes, ServerInv, Steady
  <2>2. /\ \A d \in calls : StillToMake(d)
        /\ SameView /\ page' \in Pages /\ c.kind \notin Makers
      BY <1>1, <1>2, NothingToMake DEF SameView, Makers
  <2>3. PICK n : n = [c EXCEPT !.at = "answered"]
      OBVIOUS
  <2> QED BY <1>1, <1>4, <2>1, <2>2, <2>3, CallTurns
<1> QED BY <1>3, <1>4 DEF SessionDeleted, Replied, Replace

LEMMA ChosenIs == ASSUME NEW s, NEW free \in BOOLEAN PROVE Chosen(s, free) \subseteq Sessions
<1> QED BY DEF Chosen, Open, Unused

LEMMA SearchedMoves == ASSUME PInv, NEW c \in calls, Searched(c) PROVE PInv'
<1>1. c.kind = "search" /\ c.at = "asked" /\ UNCHANGED <<chatRun, job, page, known>>
    BY DEF Searched, Replied
<1>2. /\ c \in CallRecords /\ CallOK(c) /\ PageTypes /\ ServerTypes /\ ServerInv
      /\ page \in Pages /\ Null \notin Sessions /\ Sessions \subseteq Somewhere
    BY PageHas
<1>3. CASE calls' = (calls \ {c}) \union {} /\ UNCHANGED <<session, found>>
  <2>1. ~Holds(c) /\ ~Tends(c)
      BY <1>1, <1>2 DEF Holds, Tends, CallOK, Thens
  <2> QED BY <1>1, <1>3, <2>1, CallDropped DEF serverVars
<1>4. ASSUME NEW s \in Chosen(c.session, TRUE), Makes(s), found' = [found EXCEPT ![c.of] = s],
             calls' = (calls \ {c}) \union {[c EXCEPT !.at = "answered"]}
      PROVE  PInv'
  <2>1. c.of \in Searches /\ found[c.of] = Null
      BY <1>1, <1>2 DEF CallOK, Captured, About
  <2>2. s \in Sessions /\ s # Null /\ s \in Somewhere
      BY <1>2, ChosenIs
  <2>3. ServerTypes' /\ ServerInv' /\ Steady
    <3>1. ServerTypes'
        BY <1>1, <1>2, <1>4, <2>1, <2>2 DEF ServerTypes, Makes
    <3> QED BY <1>1, <1>2, <1>4, <2>1, <3>1 DEF ServerInv, Steady, ServerTypes
  <2>4. \A d \in calls \ {c} : StillToMake(d)
    <3> SUFFICES ASSUME NEW d \in calls \ {c} PROVE StillToMake(d)
        OBVIOUS
    <3>1. Captured(d)
        BY PageHas DEF CallOK
    <3>2. d.kind = "search" /\ d.at = "asked" => d.of # c.of
        BY <1>1 DEF PInv, MakersInv, Rivals, Makers
    <3> QED BY <1>1, <1>2, <1>4, <3>1, <3>2 DEF StillToMake, Captured, About, ServerTypes
  <2>5. PICK n : n = [c EXCEPT !.at = "answered"]
      OBVIOUS
  <2>6. /\ n \in CallRecords /\ n.kind = "search" /\ n.gen = c.gen /\ n.session = c.session
        /\ n.at = "answered" /\ n.of = c.of /\ n.then = c.then /\ n.entry = c.entry
      BY <1>1, <1>2, <2>5 DEF CallRecords
  <2>7. CallOK(n)'
    <3>1. Captured(n)'
        BY <1>2, <1>4, <2>1, <2>2, <2>6 DEF Captured, About, ServerTypes
    <3>2. n.gen <= page'.gen /\ OfTheView(n)' /\ Thens(n)'
        BY <1>1, <1>2, <2>6 DEF CallOK, OfTheView, Thens, Live
    <3> QED BY <3>1, <3>2 DEF CallOK
  <2>8. Heir(c, n) /\ SameView /\ calls' = (calls \ {c}) \union {n}
      BY <1>1, <1>4, <2>5, <2>6 DEF Heir, SameView
  <2> QED BY <1>1, <1>2, <2>3, <2>4, <2>6, <2>7, <2>8, CallGoesOn
<1> QED BY <1>3, <1>4 DEF Searched, Replied, Replace

(* A call for the list.                                                      *)
LEMMA ListFits ==
  ASSUME NEW gen \in Nat, gen <= page'.gen, NEW s \in Somewhere, NEW why \in {"", "target", "found"},
         NEW n, n = [Refresh(gen) EXCEPT !.then = why, !.session = s]
  PROVE  n \in CallRecords /\ CallOK(n)' /\ n.kind \in Quiet
<1>1. PICK first : first = Call("list", gen, Null, Null)
    OBVIOUS
<1>2. Null \in Subjects /\ Null \in Somewhere /\ "list" \in Kinds
    BY DEF Subjects, Somewhere, Kinds
<1>3. /\ first \in CallRecords /\ first.kind = "list" /\ first.gen = gen
      /\ first.list = << >>
    BY <1>1, <1>2, NoList, NoEntryIs DEF Call, CallRecords
<1>4. n = [first EXCEPT !.then = why, !.session = s]
    BY <1>1 DEF Refresh
<1>5. /\ n \in CallRecords /\ n.kind = "list" /\ n.gen = gen /\ n.list = << >> /\ n.then = why
    BY <1>3, <1>4, ZenonT(60) DEF CallRecords
<1>6. ListOK(n.list)'
    BY <1>5, NoList DEF ListOK
<1>7. Captured(n)' /\ OfTheView(n)' /\ Thens(n)'
    BY <1>5, <1>6 DEF Captured, OfTheView, Thens, About
<1> QED BY <1>2, <1>5, <1>7 DEF CallOK, Quiet, Makers, Asking

LEMMA RefreshFits ==
  ASSUME NEW gen \in Nat, gen <= page'.gen, NEW n, n = Refresh(gen)
  PROVE  n \in CallRecords /\ CallOK(n)' /\ n.kind \in Quiet
<1>1. PICK first : first = Call("list", gen, Null, Null)
    OBVIOUS
<1>2. Null \in Subjects /\ Null \in Somewhere /\ "list" \in Kinds
    BY DEF Subjects, Somewhere, Kinds
<1>3. /\ first \in CallRecords /\ first.kind = "list" /\ first.gen = gen
      /\ first.list = << >> /\ first.then = "" /\ first.session = Null
    BY <1>1, <1>2, NoList, NoEntryIs DEF Call, CallRecords
<1>4. n = [first EXCEPT !.then = "", !.session = Null]
    BY <1>1, <1>3 DEF Refresh, CallRecords
<1>5. n = [Refresh(gen) EXCEPT !.then = "", !.session = Null]
    BY <1>1, <1>4 DEF Refresh
<1> QED BY <1>2, <1>5, ListFits

LEMMA ImportTakenMoves == ASSUME PInv, NEW c \in calls, ImportTaken(c) PROVE PInv'
<1>1. c.kind = "confirm" /\ UNCHANGED <<chatRun, found, page, known>>
    BY DEF ImportTaken, Replied
<1>2. /\ c \in CallRecords /\ CallOK(c) /\ PageTypes /\ ServerTypes /\ ServerInv
      /\ page \in Pages /\ Null \notin Sessions /\ Sessions \subseteq Somewhere
      /\ known \in Lists /\ ListOK(known) /\ c.gen \in Nat /\ c.gen <= page.gen
    BY PageHas DEF CallOK, CallRecords
<1>3. ~Holds(c) /\ ~Tends(c)
    BY <1>1, <1>2 DEF Holds, Tends, CallOK, Thens
<1>4. CASE calls' = (calls \ {c}) \union {} /\ UNCHANGED <<session, job>>
    BY <1>1, <1>3, <1>4, CallDropped DEF serverVars
<1>5. ASSUME NEW s \in Chosen(c.session, JobOf(c.session) = Null), Makes(s),
             job' = [job EXCEPT ![c.of] = [session |-> s, status |-> "working"]],
             calls' = (calls \ {c}) \union {ThenOpen(Refresh(c.gen), "target", s)}
      PROVE  PInv'
  <2>1. c.of \in ImportJobs /\ job[c.of].status = "none" /\ job[c.of].session = Null
      BY <1>1, <1>2 DEF CallOK, Captured, About, ServerInv
  <2>2. s \in Sessions /\ s # Null /\ s \in Somewhere
      BY <1>2, ChosenIs
  <2>3. ServerTypes' /\ ServerInv' /\ Steady
    <3>1. ServerTypes'
        BY <1>1, <1>2, <1>5, <2>1, <2>2 DEF ServerTypes, Makes
    <3>2. job'[c.of] = [session |-> s, status |-> "working"]
          /\ \A j \in ImportJobs \ {c.of} : job'[j] = job[j]
        BY <1>2, <1>5, <2>1 DEF ServerTypes
    <3> QED BY <1>1, <1>2, <2>1, <2>2, <3>1, <3>2 DEF ServerInv, Steady
  <2>4. \A d \in calls \ {c} : StillToMake(d)
    <3> SUFFICES ASSUME NEW d \in calls \ {c} PROVE StillToMake(d)
        OBVIOUS
    <3>1. Captured(d)
        BY PageHas DEF CallOK
    <3>2. d.kind = "confirm" => d.of # c.of
        BY <1>1 DEF PInv, MakersInv, Rivals, Makers
    <3> QED BY <1>1, <1>2, <1>5, <3>1, <3>2 DEF StillToMake, Captured, About, ServerTypes
  <2>5. PICK n : n = [Refresh(c.gen) EXCEPT !.then = "target", !.session = s]
      BY SMTT(60)
  <2>6. n \in CallRecords /\ CallOK(n)' /\ n.kind \in Quiet
      BY <1>1, <1>2, <2>2, <2>5, ListFits
  <2>7. PICK kept, new : kept = calls \ {c} /\ new = {n}
      OBVIOUS
  <2>8. /\ kept \in SUBSET calls /\ new \in SUBSET CallRecords /\ calls' = kept \union new
        /\ \A x \in new : CallOK(x)' /\ x.kind \in Quiet
        /\ \A d \in calls \ kept : ~Holds(d) /\ ~Tends(d)
        /\ \A d \in kept : StillToMake(d)
      BY <1>3, <1>5, <2>4, <2>5, <2>6, <2>7 DEF ThenOpen
  <2>9. \A j \in ImportJobs : job[j].status # "none" /\ job'[j].status = "working"
                             => job[j].status = "working"
      BY <1>2, <1>5, <2>1 DEF ServerTypes
  <2>10. known' \in Lists /\ ListOK(known)' /\ SameView /\ page' \in Pages
    <3>1. PICK list : list = known
        OBVIOUS
    <3>2. ListOK(list)'
        BY <1>2, <2>3, <3>1, ListsStay
    <3>3. known' = list
        BY <1>1, <3>1
    <3>4. ListOK(known)'
        BY <3>2, <3>3 DEF ListOK
    <3> QED BY <1>1, <1>2, <3>4 DEF SameView
  <2> QED BY <1>1, <2>3, <2>8, <2>9, <2>10, CallEnds
<1> QED BY <1>4, <1>5 DEF ImportTaken, Replied, Replace

-----------------------------------------------------------------------------
(* The steps that render.                                                    *)

(* What a call may make of the page: it adds messages of the conversation in  *)
(* view, and the notice of its own question only.                            *)
Renderable(p, c) ==
  /\ p \in Pages /\ p.gen = page.gen /\ p.session = page.session
  /\ p.importJob = page.importJob /\ p.importPoll = page.importPoll
  /\ p.importNotice = page.importNotice
  /\ \A m \in Messages :
       \/ p.items[m] = page.items[m]
       \/ /\ p.items[m] = 1 /\ page.session # Null /\ SessionOf(m) = page.session
          /\ m[1] \notin {"local", "question"}
          /\ m[1] = "notice" => Turn(c, m[2])

LEMMA PageRenders == ASSUME PInv, NEW c PROVE Renderable(page, c)
<1> QED BY PageHas DEF Renderable

LEMMA OneMore ==
  ASSUME PInv, NEW c \in calls, NEW p, Renderable(p, c), NEW m \in Messages,
         page.session # Null, SessionOf(m) = page.session, m[1] \notin {"local", "question"},
         m[1] = "notice" => Turn(c, m[2]) /\ p.items[m] = 0
  PROVE  /\ Renderable(AppendItem(p, m), c) /\ AppendItem(p, m).sending = p.sending
         /\ AppendItem(p, m).newsPoll = p.newsPoll
<1>1. \A x \in Messages : page.items[x] <= 1
    BY DEF PInv, ItemsInv
<1>2. p \in Pages /\ \A x \in Messages : p.items[x] <= 1
    BY <1>1 DEF Renderable
<1>3. PICK q : q = AppendItem(p, m)
    OBVIOUS
<1>4. /\ q \in Pages /\ q.gen = p.gen /\ q.session = p.session
      /\ q.sending = p.sending /\ q.newsPoll = p.newsPoll
      /\ q.importPoll = p.importPoll /\ q.importJob = p.importJob
      /\ q.importNotice = p.importNotice
      /\ \A x \in Messages \ {m} : q.items[x] = p.items[x]
      /\ q.items[m] = 1
  <2>1. m[1] \in {"local", "notice"} => p.items[m] = 0
      OBVIOUS
  <2> QED BY <1>2, <1>3, <2>1, Appended
<1>5. Renderable(q, c)
    BY <1>4 DEF Renderable
<1> QED BY <1>3, <1>4, <1>5

LEMMA CallRenders ==
  ASSUME PInv, NEW c \in calls, ~Tends(c),
         NEW p, Renderable(p, c), NEW new \in SUBSET CallRecords, Renders(c, p, new),
         \A n \in new : CallOK(n)' /\ n.kind \in Quiet \union {"run"},
         \A n \in new : n.kind = "run" =>
           /\ p.items = page.items /\ \A r \in Runs : Turn(n, r)' => Turn(c, r)
           /\ \A d \in new : d.kind = "run" => d = n,
         p.sending => (page.sending /\ ~Holds(c)) \/ \E n \in new : Holds(n)'
  PROVE  PInv'
<1>1. /\ page' = p /\ UNCHANGED <<known, serverVars>> /\ calls' = (calls \ {c}) \union new
    BY DEF Renders, Replace
<1>2. /\ SameView /\ page' \in Pages
      /\ page'.importJob = page.importJob /\ page'.importPoll = page.importPoll
      /\ page'.importNotice = page.importNotice
    BY <1>1 DEF Renderable, SameView
<1>3. /\ ServerTypes' /\ ServerInv' /\ Steady /\ UNCHANGED <<chatRun, job, found>>
      /\ known' \in Lists /\ ListOK(known)' /\ \A d \in calls : StillToMake(d)
    BY <1>1, ServerStill
<1>4. PICK kept \in SUBSET calls : kept = calls \ {c}
    OBVIOUS
<1>5. calls' = kept \union new /\ \A d : Live(d)' <=> Live(d)
    BY <1>1, <1>2, <1>4, LiveStays
<1>6. ASSUME NEW n \in new PROVE Fits(n, kept \union new)
  <2>1. CASE n.kind \in Quiet
      BY <2>1, QuietFits
  <2>2. CASE n.kind = "run"
    <3>1. ASSUME NEW d \in kept \union new, NEW r \in Runs, Turn(n, r)', Turn(d, r)'
          PROVE  n = d
      <4>1. CASE d \in kept
        <5>1. Turn(c, r) /\ Turn(d, r)
            BY <1>5, <2>2, <3>1, <4>1 DEF Turn
        <5> QED BY <1>4, <4>1, <5>1 DEF PInv, TurnsInv
      <4>2. CASE d \in new
        <5>1. d.kind = "run"
            BY <3>1, <4>2 DEF Turn, Quiet, Asking
        <5> QED BY <2>2, <4>2, <5>1
      <4> QED BY <3>1, <4>1, <4>2
    <3>2. \A d : ~Rivals(n, d) /\ ~Rivals(d, n) /\ ~Loads(n, d)' /\ ~Loads(d, n)'
        BY <2>2 DEF Rivals, Makers, Loads
    <3> QED BY <2>2, <3>1, <3>2 DEF Fits
  <2> QED BY <2>1, <2>2
<1>7. PageTypes' /\ ServerInv' /\ CallsInv' /\ MakersInv' /\ TurnsInv' /\ OpenInv'
    BY <1>2, <1>3, <1>4, <1>5, <1>6, StepInView
<1>8. ItemsInv'
  <2>1. ASSUME NEW m \in Messages
        PROVE  /\ page'.items[m] <= 1
               /\ Shows(m)' => page'.session # Null /\ SessionOf(m)' = page'.session
    <3>1. SessionOf(m)' = SessionOf(m)
        BY <1>3 DEF SessionOf
    <3> QED BY <1>1, <1>2, <3>1 DEF PInv, ItemsInv, Shows, Renderable, SameView
  <2>2. ASSUME NEW r \in Runs
        PROVE  /\ ~(Shows(<<"local", r>>)' /\ Shows(<<"question", r>>)')
               /\ Shows(<<"notice", r>>)' => \A d \in calls' : ~Turn(d, r)'
    <3>1. PICK local, question, notice \in Messages :
            /\ local = <<"local", r>> /\ question = <<"question", r>>
            /\ notice = <<"notice", r>>
        BY MessagesAre
    <3>2. /\ page'.items[local] = page.items[local]
          /\ page'.items[question] = page.items[question]
        BY <1>1, <3>1 DEF Renderable
    <3>3. ~(Shows(<<"local", r>>)' /\ Shows(<<"question", r>>)')
        BY <3>1, <3>2 DEF PInv, ItemsInv, Shows
    <3>4. ASSUME Shows(<<"notice", r>>)', NEW d \in calls', Turn(d, r)' PROVE FALSE
      <4>1. page'.items[notice] = page.items[notice] \/ Turn(c, r)
          BY <1>1, <3>1 DEF Renderable
      <4>2. CASE page'.items[notice] = page.items[notice]
        <5>1. Shows(<<"notice", r>>)
            BY <3>1, <3>4, <4>2 DEF Shows
        <5>2. \A x \in calls : ~Turn(x, r)
            BY <5>1 DEF PInv, ItemsInv
        <5>3. d \in new
            BY <1>4, <1>5, <3>4, <5>2 DEF Turn
        <5>4. d.kind = "run"
            BY <3>4, <5>3 DEF Turn, Quiet, Asking
        <5> QED BY <3>4, <5>2, <5>3, <5>4
      <4>3. CASE page'.items[notice] # page.items[notice]
        <5>1. Turn(c, r)
            BY <4>1, <4>3
        <5>2. d \notin kept
            BY <1>4, <1>5, <3>4, <5>1 DEF PInv, TurnsInv, Turn
        <5>3. d \in new /\ d.kind = "run"
            BY <1>5, <3>4, <5>2 DEF Turn, Quiet, Asking
        <5> QED BY <1>1, <4>3, <5>3
      <4> QED BY <4>2, <4>3
    <3> QED BY <3>3, <3>4
  <2> QED BY <2>1, <2>2 DEF ItemsInv
<1>9. ComposerComesBack'
  <2>1. \A d \in calls : Holds(d)' <=> Holds(d)
      BY <1>5 DEF Holds
  <2> QED BY <1>1, <2>1 DEF PInv, ComposerComesBack, Holds
<1>10. ImportInv'
  <2>1. \A d \in calls : Tends(d) => d \in calls' /\ Tends(d)'
      BY <1>1, <1>2, <1>5 DEF Tends
  <2> QED BY <1>2, <1>3, <2>1, ImportStays
<1> QED BY <1>7, <1>8, <1>9, <1>10 DEF PInv

LEMMA DropMoves == ASSUME PInv, NEW c \in calls, Drop(c), ~Holds(c), ~Tends(c) PROVE PInv'
<1>1. calls' = (calls \ {c}) \union {} /\ UNCHANGED <<page, known, serverVars>>
    BY DEF Drop, Renders, Replace
<1> QED BY <1>1, CallDropped

(* The end of a question's call.                                             *)
LEMMA Settled ==
  ASSUME PInv, NEW c \in calls, c.kind # "import", NEW p, NEW more \in SUBSET CallRecords,
         Settles(c, p, more),
         Live(c) => /\ Renderable(p, c)
                    /\ \A n \in more : CallOK(n)' /\ n.kind \in Quiet
  PROVE  PInv'
<1>1. ~Tends(c) /\ c.gen \in Nat
    BY PageHas DEF Tends, CallRecords
<1>2. CASE ~Live(c)
    BY <1>1, <1>2, DropMoves DEF Settles, Holds
<1>3. CASE Live(c)
  <2>1. PICK q : q = [p EXCEPT !.sending = FALSE]
      OBVIOUS
  <2>2. Renderable(q, c) /\ q.sending = FALSE
      BY <1>3, <2>1 DEF Renderable, Pages
  <2>3. PICK new : new = more \union IF c.then = "submit" THEN {Refresh(c.gen)} ELSE {}
      OBVIOUS
  <2>4. Renders(c, q, new)
      BY <1>3, <2>1, <2>3 DEF Settles
  <2>5. c.gen <= page'.gen
    <3>1. page'.gen = c.gen
        BY <1>3, <2>2, <2>4 DEF Renders, Renderable, Live
    <3> QED BY <1>1, <3>1
  <2>6. PICK n : n = Refresh(c.gen)
      OBVIOUS
  <2>7. n \in CallRecords /\ CallOK(n)' /\ n.kind \in Quiet
      BY <1>1, <2>5, <2>6, RefreshFits
  <2>8. new \in SUBSET CallRecords /\ \A x \in new : CallOK(x)' /\ x.kind \in Quiet
      BY <1>3, <2>3, <2>6, <2>7
  <2>9. /\ \A x \in new : CallOK(x)' /\ x.kind \in Quiet \union {"run"}
        /\ \A x \in new : x.kind # "run"
      BY <2>8 DEF Quiet, Asking
  <2> QED BY <1>1, <2>2, <2>4, <2>8, <2>9, CallRenders
<1> QED BY <1>2, <1>3

(* A question that failed is told of once.                                   *)
LEMMA NoticeRenders ==
  ASSUME PInv, NEW c \in calls, c.kind \in Asking, Live(c), NEW p, Renderable(p, c),
         p.items = page.items
  PROVE  Renderable(Notice(p, c.of), c) /\ Notice(p, c.of).sending = p.sending
<1>1. Captured(c) /\ OfTheView(c)
    BY PageHas DEF CallOK
<1>2. /\ c.of \in Runs /\ chatRun[c.of].session = page.session /\ page.session # Null
      /\ Turn(c, c.of)
    BY <1>1 DEF Captured, OfTheView, About, Asking, Turn
<1>3. PICK m \in Messages : m = <<"notice", c.of>> /\ SessionOf(m) = page.session
    BY <1>2, MessagesAre
<1>4. page.items[m] = 0
  <2>1. ~Shows(<<"notice", c.of>>)
      BY <1>2 DEF PInv, ItemsInv
  <2>2. page.items[m] \in Nat
      BY PageHas DEF Pages
  <2> QED BY <1>3, <2>1, <2>2 DEF Shows
<1>5. PICK q : q = [p EXCEPT !.pending = FALSE]
    OBVIOUS
<1>6. Renderable(q, c) /\ q.items[m] = 0 /\ q.sending = p.sending
    BY <1>4, <1>5 DEF Renderable, Pages
<1>7. Notice(p, c.of) = AppendItem(q, m)
    BY <1>3, <1>5 DEF Notice
<1>8. m[1] = "notice" /\ m[2] = c.of
    BY <1>3
<1> QED BY <1>2, <1>3, <1>6, <1>7, <1>8, OneMore

LEMMA PostAnsweredMoves == ASSUME PInv, NEW c \in calls, PostAnswered(c) PROVE PInv'
<1>1. c.kind = "post" /\ ~Tends(c) /\ c \in CallRecords /\ CallOK(c)
    BY PageHas DEF PostAnswered, Tends
<1>2. CASE ~Live(c)
    BY <1>1, <1>2, DropMoves DEF PostAnswered, Holds
<1>3. CASE Live(c)
  <2>1. PICK p : p = [FollowRun(page, c.of) EXCEPT !.sending = @ \/ c.then = "override"]
      OBVIOUS
  <2>2. PICK first : first = Call("run", c.gen, c.session, c.of)
      OBVIOUS
  <2>3. PICK n : n = [first EXCEPT !.then = c.then]
      OBVIOUS
  <2>4. Renders(c, p, {n})
      BY <1>3, <2>1, <2>2, <2>3 DEF PostAnswered
  <2>5. c.of \in Runs /\ c.session # Null /\ chatRun[c.of].session = c.session
      BY <1>1 DEF CallOK, Captured, About
  <2>6. Renderable(p, c) /\ p.items = page.items
    <3>1. PICK q : q = FollowRun(page, c.of)
        OBVIOUS
    <3>2. /\ q \in Pages /\ q.gen = page.gen /\ q.session = page.session
          /\ q.importJob = page.importJob /\ q.importPoll = page.importPoll
          /\ q.importNotice = page.importNotice
          /\ q.items = page.items /\ q.sending = page.sending
        BY <2>5, <3>1, PageHas DEF FollowRun, Pages
    <3>3. p = [q EXCEPT !.sending = q.sending \/ c.then = "override"]
        BY <2>1, <3>1
    <3>4. PICK sending \in BOOLEAN : sending = (q.sending \/ c.then = "override")
        OBVIOUS
    <3>5. p = [q EXCEPT !.sending = sending]
        BY <3>3, <3>4
    <3> QED BY <3>2, <3>5 DEF Renderable, Pages
  <2>7. /\ n \in CallRecords /\ n.kind = "run" /\ n.gen = c.gen /\ n.session = c.session
        /\ n.of = c.of /\ n.then = c.then
    <3>1. /\ "run" \in Kinds /\ c.gen \in Nat /\ c.session \in Somewhere /\ c.of \in Subjects
          /\ c.then \in {"submit", "override"}
        BY <1>1 DEF Kinds, CallRecords, CallOK, Thens
    <3>2. /\ first \in CallRecords /\ first.kind = "run" /\ first.gen = c.gen
          /\ first.session = c.session /\ first.of = c.of
        BY <2>2, <3>1, NoList, NoEntryIs DEF Call, CallRecords
    <3> QED BY <2>3, <3>1, <3>2 DEF CallRecords
  <2>8. page' = p /\ page'.gen = c.gen /\ page'.session = page.session /\ chatRun' = chatRun
      BY <1>3, <2>4, <2>6 DEF Renders, Renderable, Live, serverVars
  <2>9. CallOK(n)'
    <3>1. n.gen <= page'.gen
      <4>1. page'.gen = n.gen /\ n.gen \in Nat
          BY <1>1, <2>7, <2>8 DEF CallRecords
      <4> QED BY <4>1
    <3>2. Captured(n)'
        BY <2>5, <2>7, <2>8 DEF Captured, About
    <3>3. OfTheView(n)' /\ Thens(n)'
        BY <1>1, <1>3, <2>7, <2>8 DEF CallOK, OfTheView, Thens, Live
    <3> QED BY <3>1, <3>2, <3>3 DEF CallOK
  <2>10. Holds(n)' /\ \A r \in Runs : Turn(n, r)' => Turn(c, r)
      BY <1>1, <1>3, <2>7, <2>8 DEF Holds, Turn, Live, Asking
  <2>11. PICK new : new = {n}
      OBVIOUS
  <2>12. /\ new \in SUBSET CallRecords /\ Renders(c, p, new)
         /\ \A x \in new : CallOK(x)' /\ x.kind \in Quiet \union {"run"}
         /\ \A x \in new : x.kind = "run" =>
              /\ p.items = page.items /\ \A r \in Runs : Turn(x, r)' => Turn(c, r)
              /\ \A d \in new : d.kind = "run" => d = x
         /\ \E x \in new : Holds(x)'
      BY <2>4, <2>6, <2>7, <2>9, <2>10, <2>11
  <2> QED BY <1>1, <2>6, <2>12, CallRenders
<1> QED BY <1>2, <1>3

LEMMA PostRefusedMoves == ASSUME PInv, NEW c \in calls, PostRefused(c) PROVE PInv'
<1>1. c.kind \in {"post", "create"} /\ ~Tends(c) /\ CallOK(c)
    BY PageHas DEF PostRefused, Tends
<1>2. CASE c.then = "override"
  <2>1. ~Holds(c)
      BY <1>1, <1>2 DEF Holds, CallOK, Thens
  <2> QED BY <1>1, <1>2, <2>1, DropMoves DEF PostRefused
<1>3. CASE c.then # "override"
  <2>1. PICK p, more : p = (IF c.kind = "create" THEN page ELSE Notice(page, c.of)) /\ more = {}
      OBVIOUS
  <2>2. Settles(c, p, more) /\ more \in SUBSET CallRecords
      BY <1>3, <2>1 DEF PostRefused
  <2>3. Live(c) => Renderable(p, c) /\ \A n \in more : CallOK(n)' /\ n.kind \in Quiet
      BY <1>1, <2>1, NoticeRenders, PageRenders DEF Asking
  <2> QED BY <1>1, <2>2, <2>3, Settled
<1> QED BY <1>2, <1>3

LEMMA FollowStopsMoves == ASSUME PInv, NEW c \in calls, FollowStops(c) PROVE PInv'
<1>1. PICK more : more = {}
    OBVIOUS
<1>2. c.kind # "import" /\ Settles(c, page, more) /\ more \in SUBSET CallRecords
    BY <1>1 DEF FollowStops
<1> QED BY <1>1, <1>2, PageRenders, Settled

LEMMA FollowFailsMoves == ASSUME PInv, NEW c \in calls, FollowFails(c) PROVE PInv'
<1>1. PICK p, more : p = Notice(page, c.of) /\ more = {}
    OBVIOUS
<1>2. c.kind = "run" /\ Live(c) /\ Settles(c, p, more) /\ more \in SUBSET CallRecords
    BY <1>1 DEF FollowFails, Polls
<1>3. Renderable(p, c)
    BY <1>1, <1>2, PageRenders, NoticeRenders DEF Asking
<1> QED BY <1>1, <1>2, <1>3, Settled

(* A poll for news fits in with any call.                                    *)
LEMMA NewsFits ==
  ASSUME NEW gen \in Nat, gen = page'.gen, NEW s \in Somewhere, s # Null, s = page'.session,
         NEW r \in Runs, chatRun'[r].session = s,
         NEW n, n = [Call("news", gen, s, r) EXCEPT !.at = "waits"]
  PROVE  n \in CallRecords /\ CallOK(n)' /\ n.kind \in Quiet
<1>1. PICK first : first = Call("news", gen, s, r)
    OBVIOUS
<1>2. r \in Subjects /\ "news" \in Kinds
    BY DEF Subjects, Kinds
<1>3. /\ first \in CallRecords /\ first.kind = "news" /\ first.gen = gen /\ first.session = s
      /\ first.of = r /\ first.then = ""
    BY <1>1, <1>2, NoList, NoEntryIs DEF Call, CallRecords
<1>4. /\ n \in CallRecords /\ n.kind = "news" /\ n.gen = gen /\ n.session = s /\ n.of = r
      /\ n.then = ""
    BY <1>1, <1>3 DEF CallRecords
<1>5. n.gen <= page'.gen
  <2>1. page'.gen = n.gen /\ n.gen \in Nat
      BY <1>4
  <2> QED BY <2>1
<1>6. Captured(n)' /\ OfTheView(n)' /\ Thens(n)'
    BY <1>4 DEF Captured, About, OfTheView, Thens
<1> QED BY <1>2, <1>4, <1>5, <1>6 DEF CallOK, Quiet, Makers, Asking

LEMMA NewsFollowed ==
  ASSUME NEW c, NEW p, Renderable(p, c), NEW r \in Runs
  PROVE  Renderable(FollowNews(p, r), c) /\ FollowNews(p, r).items = p.items
         /\ FollowNews(p, r).sending = p.sending
<1> QED BY DEF FollowNews, Renderable, Pages

LEMMA FollowEndsMoves == ASSUME PInv, NEW c \in calls, FollowEnds(c) PROVE PInv'
<1>1. /\ c.kind = "run" /\ Live(c) /\ c \in CallRecords /\ CallOK(c)
      /\ page \in Pages /\ page.gen \in Nat /\ page.session \in Somewhere /\ Null \notin Runs
    BY PageHas, PageAssumption DEF FollowEnds, Polls, Runs
<1>2. /\ c.of \in Runs /\ chatRun[c.of].session = page.session /\ page.session # Null
      /\ c.session = page.session /\ c.gen = page.gen
    BY <1>1 DEF CallOK, Captured, OfTheView, About, Live
<1>3. PICK over : over = [page EXCEPT !.pending = FALSE, !.runPoll = Null]
    OBVIOUS
<1>4. Renderable(over, c) /\ over.items = page.items
    BY <1>1, <1>3, PageRenders DEF Renderable, Pages
<1>5. PICK answer, news \in Messages :
        /\ answer = <<"answer", c.of>> /\ SessionOf(answer) = page.session
        /\ news = <<"news", c.of>> /\ SessionOf(news) = page.session
    BY <1>2, MessagesAre
<1>6. PICK told : told = IF chatRun[c.of].status = "answered" THEN AppendItem(over, <<"answer", c.of>>)
                         ELSE Notice(over, c.of)
    OBVIOUS
<1>7. Renderable(told, c)
  <2>1. CASE chatRun[c.of].status = "answered"
    <3>1. told = AppendItem(over, answer)
        BY <1>5, <1>6, <2>1
    <3>2. answer[1] \notin {"local", "question", "notice"}
        BY <1>5
    <3> QED BY <1>2, <1>4, <1>5, <3>1, <3>2, OneMore
  <2>2. CASE chatRun[c.of].status # "answered"
      BY <1>1, <1>4, <1>6, <2>2, NoticeRenders DEF Asking
  <2> QED BY <2>1, <2>2
<1>8. PICK none : none = {}
    OBVIOUS
<1>9. \/ Settles(c, AppendItem(told, news), none)
      \/ Settles(c, FollowNews(told, c.of), NewsCalls(told, c.of))
      \/ Settles(c, told, none)
    BY <1>3, <1>5, <1>6, <1>8 DEF FollowEnds
<1>10. CASE Settles(c, AppendItem(told, news), none)
  <2>1. news[1] \notin {"local", "question", "notice"}
      BY <1>5
  <2>2. Renderable(AppendItem(told, news), c)
      BY <1>2, <1>5, <1>7, <2>1, OneMore
  <2> QED BY <1>1, <1>8, <1>10, <2>2, Settled
<1>11. CASE Settles(c, told, none)
    BY <1>1, <1>7, <1>8, <1>11, Settled
<1>12. CASE Settles(c, FollowNews(told, c.of), NewsCalls(told, c.of))
  <2>1. PICK q : q = FollowNews(told, c.of)
      OBVIOUS
  <2>2. Renderable(q, c)
      BY <1>2, <1>7, <2>1, NewsFollowed
  <2>3. page' = [q EXCEPT !.sending = FALSE] /\ UNCHANGED chatRun
      BY <1>1, <1>12, <2>1 DEF Settles, Renders, serverVars
  <2>4. page'.gen = page.gen /\ page'.session = page.session
      BY <2>2, <2>3 DEF Renderable, Pages
  <2>5. PICK n : n = [Call("news", page.gen, page.session, c.of) EXCEPT !.at = "waits"]
      OBVIOUS
  <2>6. n \in CallRecords /\ CallOK(n)' /\ n.kind \in Quiet
      BY <1>1, <1>2, <2>3, <2>4, <2>5, NewsFits
  <2>7. NewsCalls(told, c.of) \subseteq {n}
      BY <1>7, <2>5 DEF NewsCalls, Renderable
  <2>8. PICK more : more = NewsCalls(told, c.of)
      OBVIOUS
  <2>9. /\ Settles(c, q, more) /\ more \in SUBSET CallRecords
        /\ \A x \in more : CallOK(x)' /\ x.kind \in Quiet
      BY <1>12, <2>1, <2>6, <2>7, <2>8
  <2> QED BY <1>1, <2>2, <2>9, Settled
<1> QED BY <1>9, <1>10, <1>11, <1>12

LEMMA NewsEnds ==
  ASSUME PInv, NEW c \in calls, c.kind = "news", NEW p, Renderable(p, c), p.sending = page.sending,
         NewsOver(c, p)
  PROVE  PInv'
<1>1. ~Tends(c) /\ ~Holds(c)
    BY PageHas DEF Tends, Holds, CallOK, Thens
<1>2. PICK q, new : /\ new = {}
                    /\ q = IF p.newsPoll # c.of THEN p
                           ELSE [p EXCEPT !.newsPoll = Null, !.newsPending = @ /\ ~Live(c)]
    OBVIOUS
<1>3. Renderable(q, c) /\ q.sending = page.sending
  <2>1. PICK pending \in BOOLEAN : pending = (p.newsPending /\ ~Live(c))
      OBVIOUS
  <2>2. CASE p.newsPoll # c.of
      BY <1>2, <2>2
  <2>3. CASE p.newsPoll = c.of
    <3>1. q = [p EXCEPT !.newsPoll = Null, !.newsPending = pending]
        BY <1>2, <2>1, <2>3
    <3> QED BY <3>1 DEF Renderable, Pages
  <2> QED BY <2>2, <2>3
<1>4. Renders(c, q, new) /\ new \in SUBSET CallRecords
  <2>1. Renders(c, q, {})
      BY <1>2, Zenon DEF NewsOver
  <2> QED BY <1>2, <2>1
<1>5. \A n \in new : FALSE
    BY <1>2
<1>6. q.sending => (page.sending /\ ~Holds(c)) \/ \E n \in new : Holds(n)'
    BY <1>1, <1>3
<1> QED BY <1>1, <1>3, <1>4, <1>5, <1>6, CallRenders

LEMMA NewsMoves ==
  ASSUME PInv, NEW c \in calls, NewsStops(c) \/ NewsShown(c) \/ NewsGivenUp(c)
  PROVE  PInv'
<1>1. CASE NewsStops(c) \/ NewsGivenUp(c)
  <2>1. c.kind = "news" /\ NewsOver(c, page)
      BY <1>1 DEF NewsStops, NewsGivenUp, NewsCounts
  <2> QED BY <2>1, PageRenders, NewsEnds
<1>2. CASE NewsShown(c)
  <2>1. c.kind = "news" /\ Live(c) /\ CallOK(c)
      BY <1>2, PageHas DEF NewsShown, NewsCounts
  <2>2. c.of \in Runs /\ chatRun[c.of].session = page.session /\ page.session # Null
      BY <2>1 DEF CallOK, Captured, OfTheView, About
  <2>3. PICK m \in Messages : m = <<"news", c.of>> /\ SessionOf(m) = page.session
      BY <2>2, MessagesAre
  <2>4. m[1] \notin {"local", "question", "notice"}
      BY <2>3
  <2>5. PICK p : p = AppendItem(page, m)
      OBVIOUS
  <2>6. Renderable(p, c) /\ p.sending = page.sending
      BY <2>2, <2>3, <2>4, <2>5, PageRenders, OneMore
  <2>7. NewsOver(c, p)
      BY <1>2, <2>3, <2>5 DEF NewsShown
  <2> QED BY <2>1, <2>6, <2>7, NewsEnds
<1> QED BY <1>1, <1>2

LEMMA SearchShownMoves == ASSUME PInv, NEW c \in calls, SearchShown(c) PROVE PInv'
<1>1. /\ c.kind = "search" /\ c.at = "answered" /\ c \in CallRecords /\ CallOK(c)
      /\ c.gen \in Nat /\ ServerTypes
    BY PageHas DEF SearchShown, CallRecords
<1>2. ~Tends(c) /\ ~Holds(c)
    BY <1>1 DEF Tends, Holds, CallOK, Thens
<1>3. c.of \in Searches /\ found[c.of] # Null /\ found[c.of] \in Somewhere
    BY <1>1 DEF CallOK, Captured, About, ServerTypes
<1>4. CASE ~Live(c)
    BY <1>2, <1>4, DropMoves DEF SearchShown
<1>5. CASE Live(c) /\ c.session = found[c.of]
  <2>1. PICK m \in Messages : m = <<"found", c.of>>
      BY <1>3 DEF Messages
  <2>2. m[1] = "found" /\ SessionOf(m) = page.session /\ page.session # Null
      BY <1>1, <1>3, <1>5, <2>1 DEF SessionOf, CallOK, OfTheView
  <2>3. PICK p, new : p = AppendItem(page, m) /\ new = {}
      OBVIOUS
  <2>4. Renderable(p, c) /\ p.sending = page.sending
      BY <2>2, <2>3, PageRenders, OneMore
  <2>5. Renders(c, p, new) /\ new \in SUBSET CallRecords
      BY <1>5, <2>1, <2>3 DEF SearchShown
  <2> QED BY <1>2, <2>3, <2>4, <2>5, CallRenders
<1>6. CASE Live(c) /\ c.session # found[c.of]
  <2>1. PICK n : n = [Refresh(c.gen) EXCEPT !.then = "found", !.session = found[c.of]]
      OBVIOUS
  <2>2. PICK new : new = {n}
      OBVIOUS
  <2>3. Renders(c, page, new)
      BY <1>6, <2>1, <2>2 DEF SearchShown, ThenOpen
  <2>4. c.gen <= page'.gen
    <3>1. page'.gen = c.gen
        BY <1>6, <2>3, SMTT(60) DEF Renders, Live
    <3> QED BY <1>1, <3>1
  <2>5. n \in CallRecords /\ CallOK(n)' /\ n.kind \in Quiet
      BY <1>1, <1>3, <2>1, <2>4, ListFits
  <2>6. /\ new \in SUBSET CallRecords
        /\ \A x \in new : CallOK(x)' /\ x.kind \in Quiet \union {"run"} /\ x.kind # "run"
      BY <2>2, <2>5 DEF Quiet, Asking
  <2> QED BY <1>2, <2>3, <2>6, PageRenders, CallRenders
<1> QED BY <1>4, <1>5, <1>6

(* A poll of an import renders, and goes on or ends.                         *)
LEMMA ImportRenders ==
  ASSUME PInv, NEW c \in calls, c.kind = "import", Live(c),
         NEW i \in ImportJobs \union {Null}, NEW poll \in ImportJobs \union {Null},
         NEW notice \in BOOLEAN,
         page' = [page EXCEPT !.importJob = i, !.importPoll = poll, !.importNotice = notice],
         UNCHANGED <<known, serverVars>>,
         NEW kept \in SUBSET calls, NEW new \in SUBSET {Refresh(c.gen)}, calls' = kept \union new,
         \A d \in calls : d # c => d \in kept,
         ImportInv'
  PROVE  PInv'
<1>1. c \in CallRecords /\ CallOK(c) /\ page \in Pages /\ c.gen \in Nat
    BY PageHas DEF CallRecords
<1>2. ~Holds(c)
    BY <1>1 DEF Holds, CallOK, Thens
<1>3. SameView /\ page' \in Pages /\ page'.items = page.items /\ page'.sending = page.sending
    BY <1>1 DEF SameView, Pages
<1>4. /\ ServerTypes' /\ ServerInv' /\ Steady /\ UNCHANGED <<chatRun, job, found>>
      /\ known' \in Lists /\ ListOK(known)' /\ \A d \in calls : StillToMake(d)
    BY ServerStill
<1>5. PICK n : n = Refresh(c.gen)
    OBVIOUS
<1>6. n \in CallRecords /\ CallOK(n)' /\ n.kind \in Quiet
  <2>1. c.gen <= page'.gen
    <3>1. page'.gen = c.gen
        BY <1>3 DEF SameView, Live
    <3> QED BY <1>1, <3>1
  <2> QED BY <1>1, <1>5, <2>1, RefreshFits
<1>7. new \in SUBSET CallRecords /\ \A x \in new : Fits(x, kept \union new) /\ \A r : ~Turn(x, r)'
    BY <1>5, <1>6, QuietFits
<1>8. \A d \in kept : ~(d.kind = "open" /\ Live(d))
  <2> SUFFICES ASSUME NEW d \in kept, d.kind = "open", Live(d) PROVE FALSE
      OBVIOUS
  <2>1. Loads(d, c) /\ d \in calls
      BY DEF Loads
  <2> QED BY <2>1 DEF PInv, OpenInv
<1>9. PageTypes' /\ ServerInv' /\ CallsInv' /\ MakersInv' /\ TurnsInv' /\ OpenInv'
    BY <1>3, <1>4, <1>5, <1>6, <1>7, <1>8, StepInView
<1>10. \A d : Live(d)' <=> Live(d)
    BY <1>3, LiveStays
<1>11. ItemsInv'
  <2>1. ASSUME NEW x \in calls', NEW r \in Runs, Turn(x, r)' PROVE \E d \in calls : Turn(d, r)
    <3>1. x \in calls
        BY <1>7, <2>1
    <3> QED BY <1>10, <2>1, <3>1 DEF Turn
  <2> QED BY <1>3, <1>4, <2>1, ItemsStay
<1>12. ComposerComesBack'
  <2>1. ASSUME NEW d \in calls, Holds(d) PROVE d \in calls' /\ Holds(d)'
      BY <1>2, <1>10, <2>1 DEF Holds
  <2> QED BY <1>3, <2>1, ComposerStays
<1> QED BY <1>9, <1>11, <1>12 DEF PInv

LEMMA ImportPolledMoves == ASSUME PInv, NEW c \in calls, ImportPolled(c) PROVE PInv'
<1>1. /\ c.kind = "import" /\ c \in CallRecords /\ CallOK(c) /\ ServerTypes /\ ServerInv
      /\ page \in Pages /\ c.gen \in Nat
    BY PageHas DEF ImportPolled, CallRecords
<1>2. ~Holds(c)
    BY <1>1 DEF Holds, CallOK, Thens
<1>3. CASE ~(Live(c) /\ page.importPoll = c.of)
    BY <1>2, <1>3, DropMoves DEF ImportPolled, Tends
<1>4. CASE ImportLost(c)
  <2>1. calls' = (calls \ {c}) \union {c} /\ UNCHANGED <<page, known, serverVars>>
      BY <1>4 DEF ImportLost, Renders, Replace
  <2>2. PICK at \in {"asked", "answered", "refused", "waits"} : at = c.at
      BY <1>1 DEF CallRecords
  <2>3. PICK n : n = [c EXCEPT !.at = at]
      OBVIOUS
  <2>4. n = c
      BY <1>1, <2>2, <2>3 DEF CallRecords
  <2>5. c.kind \notin Makers /\ calls' = (calls \ {c}) \union {n}
      BY <1>1, <2>1, <2>4 DEF Makers
  <2> QED BY <2>1, <2>3, <2>5, StillThere, CallTurns
<1>5. CASE Live(c) /\ page.importPoll = c.of /\ ImportFails(c)
  <2>1. PICK i, poll, notice, kept :
          /\ i = page.importJob /\ poll = page.importPoll /\ notice = TRUE /\ kept = calls \ {c}
      OBVIOUS
  <2>2. i \in ImportJobs \union {Null} /\ poll \in ImportJobs \union {Null} /\ notice \in BOOLEAN
      BY <1>1, <2>1 DEF Pages
  <2>3. /\ page' = [page EXCEPT !.importNotice = TRUE] /\ UNCHANGED <<known, serverVars>>
        /\ calls' = kept \union {} /\ kept \in SUBSET calls /\ \A d \in calls : d # c => d \in kept
      BY <1>5, <2>1 DEF ImportFails, Renders, Replace
  <2>4. page' = [page EXCEPT !.importJob = i, !.importPoll = poll, !.importNotice = notice]
      BY <1>1, <2>1, <2>3 DEF Pages
  <2>5. /\ page'.importJob = page.importJob /\ page'.importNotice
        /\ page'.session = page.session /\ UNCHANGED job
      BY <1>1, <2>3 DEF Pages, serverVars
  <2>6. ImportInv'
    <3>1. ImportInv /\ (page.importJob = page.importPoll \/ page'.importJob = page.importJob)
        BY <2>5 DEF PInv
    <3>2. page'.importPoll = page.importPoll
        BY <1>1, <2>3 DEF Pages
    <3> QED BY <2>5, <3>1, <3>2 DEF ImportInv
  <2> HIDE DEF ImportInv
  <2>7. PICK new \in SUBSET {Refresh(c.gen)} : new = {}
      OBVIOUS
  <2>8. calls' = kept \union new
      BY <2>3, <2>7
  <2> QED BY <1>1, <1>5, <2>2, <2>3, <2>4, <2>6, <2>8, ImportRenders
<1>6. CASE Live(c) /\ page.importPoll = c.of /\ ImportAnswered(c)
  <2>1. PICK i, poll, notice :
          /\ i = c.of /\ notice = page.importNotice
          /\ poll = IF job[c.of].status = "working" THEN page.importPoll ELSE Null
      OBVIOUS
  <2>2. c.of \in ImportJobs /\ c.session # Null /\ job[c.of].session = c.session
        /\ c.session = page.session
      BY <1>1, <1>6 DEF CallOK, Captured, OfTheView, About
  <2>3. i \in ImportJobs \union {Null} /\ poll \in ImportJobs \union {Null} /\ notice \in BOOLEAN
      BY <1>1, <2>1, <2>2 DEF Pages
  <2>4. /\ page' = [page EXCEPT !.importJob = i, !.importPoll = poll]
        /\ UNCHANGED <<known, serverVars>>
      BY <1>6, <2>1 DEF ImportAnswered, Renders
  <2>5. /\ page' = [page EXCEPT !.importJob = i, !.importPoll = poll, !.importNotice = notice]
        /\ page'.importJob = c.of /\ page'.importPoll = poll /\ page'.session = page.session
        /\ page'.gen = page.gen /\ UNCHANGED job
      BY <1>1, <2>1, <2>4 DEF Pages, serverVars
  <2>6. PICK n : n = Refresh(c.gen)
      OBVIOUS
  <2>7. PICK kept \in SUBSET calls, new \in SUBSET {n} :
          /\ calls' = kept \union new
          /\ \A d \in calls : d # c \/ job[c.of].status = "working" => d \in kept
    <3>1. CASE job[c.of].status = "working"
      <4>1. calls' = calls \union {}
          BY <1>6, <3>1 DEF ImportAnswered, Renders, Replace
      <4> QED BY <4>1
    <3>2. CASE job[c.of].status = "ready"
      <4>1. calls' = (calls \ {c}) \union {n}
          BY <1>6, <2>6, <3>2 DEF ImportAnswered, Renders, Replace
      <4>2. PICK others \in SUBSET calls : others = calls \ {c}
          OBVIOUS
      <4> QED BY <3>2, <4>1, <4>2
    <3>3. CASE job[c.of].status \notin {"working", "ready"}
      <4>1. calls' = (calls \ {c}) \union {}
          BY <1>6, <3>3 DEF ImportAnswered, Renders, Replace
      <4>2. PICK others \in SUBSET calls : others = calls \ {c}
          OBVIOUS
      <4> QED BY <3>3, <4>1, <4>2
    <3> QED BY <3>1, <3>2, <3>3
  <2>8. ImportInv'
    <3>1. job'[c.of].session = page'.session /\ job'[c.of].status # "none"
        BY <1>1, <2>2, <2>5 DEF ServerInv
    <3>2. ASSUME job[c.of].status = "working"
          PROVE  page'.importPoll = c.of /\ c \in calls' /\ Live(c)'
        BY <1>6, <2>1, <2>5, <2>7, <3>2 DEF Live
    <3>3. job[c.of].status # "working" => page'.importPoll = Null
        BY <2>1, <2>5
    <3>4. page'.importJob = c.of /\ job' = job
        BY <2>5
    <3>5. job'[c.of].status = "working" => page'.importPoll = page'.importJob
        BY <3>2, <3>4
    <3>6. page'.importPoll # Null =>
            \E d \in calls' : d.kind = "import" /\ Live(d)' /\ d.of = page'.importPoll
        BY <1>1, <3>2, <3>3
    <3> QED BY <3>1, <3>4, <3>5, <3>6 DEF ImportInv
  <2>9. new \in SUBSET {Refresh(c.gen)} /\ \A d \in calls : d # c => d \in kept
      BY <2>6, <2>7
  <2>10. page' = [page EXCEPT !.importJob = i, !.importPoll = poll, !.importNotice = notice]
      BY <2>5
  <2>11. UNCHANGED <<known, serverVars>> /\ c.kind = "import" /\ Live(c) /\ kept \in SUBSET calls
      BY <1>1, <1>6, <2>4, <2>7
  <2>12. calls' = kept \union new
      BY <2>7
  <2> QED BY <2>3, <2>8, <2>9, <2>10, <2>11, <2>12, ImportRenders
<1> QED BY <1>3, <1>4, <1>5, <1>6 DEF ImportPolled

LEMMA SessionsShownMoves == ASSUME PInv, NEW c \in calls, SessionsShown(c) PROVE PInv'
<1>1. /\ c.kind = "list" /\ c \in CallRecords /\ CallOK(c) /\ PageTypes /\ ServerTypes /\ ServerInv
      /\ page.gen \in Nat
    BY PageHas DEF SessionsShown
<1>2. c.list \in Lists /\ ListOK(c.list)
    BY <1>1 DEF CallRecords, CallOK, Captured, About
<1>3. known' = c.list /\ UNCHANGED serverVars
    BY DEF SessionsShown
<1>4. known' \in Lists /\ ListOK(known)'
    BY <1>1, <1>2, <1>3, ServerStays DEF ListOK
<1>5. ~Tends(c) /\ ~Holds(c)
    BY <1>1 DEF Tends, Holds, CallOK, Thens
<1>6. PICK kept \in SUBSET calls : kept = calls \ {c}
    OBVIOUS
<1>7. CASE /\ c.session \in DOMAIN c.list /\ page' = EnterSession(page, c.session)
           /\ Replace(c, Opening(c.list, c.session))
  <2>1. PICK new : new = Opening(c.list, c.session)
      OBVIOUS
  <2>2. page' = EmptyView(page.gen + 1, c.session) /\ calls' = kept \union new
      BY <1>6, <1>7, <2>1 DEF EnterSession, Replace
  <2>3. /\ new \in SUBSET CallRecords /\ \A m, n \in new : m = n
        /\ \A n \in new : CallOK(n)' /\ n.kind \notin Makers
        /\ c.session \in Somewhere
      BY <1>2, <1>3, <1>7, <2>1, <2>2, OpeningIs
  <2> QED BY <1>3, <1>4, <2>2, <2>3, StepToEmptyView
<1>8. CASE Replace(c, {}) /\ UNCHANGED page
  <2>1. PICK new : new = {}
      OBVIOUS
  <2>2. /\ calls' = kept \union new /\ new \in SUBSET CallRecords
        /\ \A n \in new : CallOK(n)' /\ n.kind \in Quiet
        /\ \A d \in calls \ kept : ~Holds(d) /\ ~Tends(d)
      BY <1>5, <1>6, <1>8, <2>1 DEF Replace
  <2>3. /\ SameView /\ page' \in Pages
        /\ page'.items = page.items /\ page'.sending = page.sending
        /\ page'.importJob = page.importJob /\ page'.importPoll = page.importPoll
        /\ page'.importNotice = page.importNotice
      BY <1>8, PageHas DEF SameView
  <2>4. /\ ServerTypes' /\ ServerInv' /\ Steady /\ UNCHANGED job
        /\ \A d \in kept : StillToMake(d)
      BY <1>3, ServerStill
  <2> QED BY <1>4, <2>2, <2>3, <2>4, CallEnds
<1> QED BY <1>7, <1>8 DEF SessionsShown

LEMMA DeletionShownMoves == ASSUME PInv, NEW c \in calls, DeletionShown(c) PROVE PInv'
<1>1. /\ c.kind = "delete" /\ CallOK(c) /\ PageTypes /\ ServerTypes /\ ServerInv
      /\ known \in Lists /\ ListOK(known) /\ page.gen \in Nat /\ Null \in Somewhere
    BY PageHas DEF DeletionShown
<1>2. /\ known' = [s \in DOMAIN known \ {c.session} |-> known[s]] /\ UNCHANGED serverVars
      /\ page' = (IF page.session = c.session THEN EnterSession(page, Null) ELSE page)
    BY DEF DeletionShown
<1>3. known' \in Lists /\ ListOK(known)'
  <2>1. PICK S \in SUBSET Sessions : S = DOMAIN known \ {c.session}
      BY <1>1, ListHas
  <2>2. PICK list : list = [s \in S |-> known[s]]
      OBVIOUS
  <2>3. \A s \in S : s \in DOMAIN known /\ known[s] \in Entries /\ EntryOK(known[s], s)
      BY <1>1, <2>1, ListHas DEF ListOK
  <2>4. list \in [S -> Entries]
      BY <2>2, <2>3
  <2>5. list \in Lists
      BY <2>4 DEF Lists
  <2>6. ListOK(list)
      BY <2>2, <2>3 DEF ListOK
  <2>7. ListOK(list)'
      BY <1>1, <1>2, <2>6, ServerStays
  <2>8. known' = list
      BY <1>2, <2>1, <2>2
  <2>9. ListOK(known)'
      BY <2>7, <2>8 DEF ListOK
  <2> QED BY <2>5, <2>8, <2>9
<1>4. ~Tends(c) /\ ~Holds(c)
    BY <1>1 DEF Tends, Holds, CallOK, Thens
<1>5. PICK kept, new : kept = calls \ {c} /\ new = {}
    OBVIOUS
<1>6. kept \in SUBSET calls /\ calls' = kept \union new /\ new \in SUBSET CallRecords
    BY <1>5 DEF DeletionShown, Replace
<1>7. CASE page.session = c.session
  <2>1. page' = EmptyView(page.gen + 1, Null)
      BY <1>2, <1>7 DEF EnterSession
  <2> QED BY <1>1, <1>2, <1>3, <1>5, <1>6, <2>1, StepToEmptyView
<1>8. CASE page.session # c.session
  <2>1. page' = page
      BY <1>2, <1>8
  <2>2. /\ SameView /\ page' \in Pages
        /\ page'.items = page.items /\ page'.sending = page.sending
        /\ page'.importJob = page.importJob /\ page'.importPoll = page.importPoll
        /\ page'.importNotice = page.importNotice
      BY <2>1, PageHas DEF SameView
  <2>3. /\ ServerTypes' /\ ServerInv' /\ Steady /\ UNCHANGED job
        /\ \A d \in kept : StillToMake(d)
      BY <1>2, <1>6, ServerStill
  <2>4. \A d \in calls \ kept : ~Holds(d) /\ ~Tends(d)
      BY <1>4, <1>5
  <2> QED BY <1>3, <1>5, <1>6, <2>2, <2>3, <2>4, CallEnds
<1> QED BY <1>7, <1>8

LEMMA FirstQuestionMoves == ASSUME PInv, NEW c \in calls, FirstQuestion(c) PROVE PInv'
<1>1. /\ c.kind = "create" /\ c.at = "answered" /\ c \in CallRecords /\ CallOK(c)
      /\ PageTypes /\ page.gen \in Nat /\ page.gen + 1 \in Nat /\ known \in Lists /\ ListOK(known)
      /\ Null \notin Sessions
    BY PageHas DEF FirstQuestion
<1>2. /\ c.of \in Runs /\ chatRun[c.of].session = Null /\ c.session # Null /\ c.session \in Sessions
    BY <1>1 DEF CallOK, Captured, About, CallRecords, Somewhere
<1>3. CASE ~Live(c)
  <2>1. ~Tends(c) /\ ~Holds(c)
      BY <1>3 DEF Tends, Holds
  <2> QED BY <1>3, <2>1, DropMoves DEF FirstQuestion
<1>4. CASE Live(c)
  <2>1. /\ known' = [s \in DOMAIN known \union {c.session} |->
                       IF s = c.session THEN NoEntry ELSE known[s]]
        /\ page' = Ask(EmptyView(page.gen + 1, c.session), c.of)
        /\ Typed(c.of, c.session, FALSE) /\ UNCHANGED <<session, job, found>>
        /\ calls' = (calls \ {c}) \union {Post(page.gen + 1, c.session, c.of, "submit")}
      BY <1>4 DEF FirstQuestion, EnterSession, Replace
  <2>2. /\ ServerTypes' /\ ServerInv' /\ Steady
        /\ chatRun'[c.of].session = c.session /\ \A q \in Runs \ {c.of} : chatRun'[q] = chatRun[q]
      BY <1>2, <2>1, TypedIs DEF Somewhere
  <2>3. known' \in Lists /\ ListOK(known)'
    <3>1. PICK S \in SUBSET Sessions : S = DOMAIN known \union {c.session}
        BY <1>1, <1>2, ListHas
    <3>2. PICK list : list = [s \in S |-> IF s = c.session THEN NoEntry ELSE known[s]]
        OBVIOUS
    <3>3. \A s \in S : s # c.session => known[s] \in Entries /\ EntryOK(known[s], s)
        BY <1>1, <3>1, ListHas DEF ListOK
    <3>4. list \in [S -> Entries]
        BY <3>2, <3>3, NoEntryIs
    <3>5. list \in Lists
        BY <3>4 DEF Lists
    <3>6. ListOK(list)
        BY <3>2, <3>3, NoEntryIs DEF ListOK
    <3>7. ListOK(list)'
        BY <1>1, <2>2, <3>5, <3>6, ListsStay
    <3>8. known' = list
        BY <2>1, <3>1, <3>2
    <3>9. ListOK(known)'
        BY <3>7, <3>8 DEF ListOK
    <3> QED BY <3>5, <3>8, <3>9
  <2>4. PICK n \in CallRecords :
          /\ n = Post(page.gen + 1, c.session, c.of, "submit") /\ n.kind = "post"
          /\ n.gen = page.gen + 1 /\ n.session = c.session /\ n.of = c.of /\ n.then = "submit"
      BY <1>1, <1>2, PostIs DEF Somewhere
  <2>5. PICK e : e = EmptyView(page.gen + 1, c.session)
      OBVIOUS
  <2>6. /\ e \in Pages /\ e.gen = page.gen + 1 /\ e.session = c.session
        /\ \A m \in Messages : e.items[m] = 0
        /\ e.importJob = Null /\ e.importPoll = Null
      BY <1>1, <1>2, <2>5, ViewsStartEmpty DEF Somewhere
  <2>7. PICK local \in Messages : local = <<"local", c.of>>
      BY <1>2, MessagesAre
  <2>8. PICK q : q = AppendItem(e, local)
      OBVIOUS
  <2>9. /\ q \in Pages /\ q.gen = page.gen + 1 /\ q.session = c.session
        /\ q.importJob = Null /\ q.importPoll = Null
        /\ \A m \in Messages \ {local} : q.items[m] = 0
        /\ q.items[local] = 1
      BY <2>6, <2>8, Appended
  <2>10. page' = [q EXCEPT !.pending = TRUE, !.sending = TRUE]
      BY <2>1, <2>5, <2>7, <2>8 DEF Ask
  <2>11. /\ page' \in Pages /\ page'.gen = page.gen + 1 /\ page'.session = c.session
         /\ page'.importJob = Null /\ page'.importPoll = Null /\ page'.items = q.items
      BY <2>9, <2>10 DEF Pages
  <2>12. CallOK(n)' /\ Live(n)'
    <3>1. page'.gen = n.gen /\ n.gen \in Nat
        BY <1>1, <2>4, <2>11
    <3>2. n.gen <= page'.gen
        BY <3>1
    <3>3. Captured(n)' /\ OfTheView(n)' /\ Thens(n)'
        BY <1>2, <2>2, <2>4, <2>11 DEF Captured, OfTheView, Thens, About
    <3> QED BY <3>1, <3>2, <3>3 DEF CallOK, Live
  <2>13. ItemsInv'
    <3>1. ASSUME NEW m \in Messages
          PROVE  /\ page'.items[m] <= 1
                 /\ Shows(m)' => page'.session # Null /\ SessionOf(m)' = page'.session
      <4>1. CASE m = local
          BY <1>2, <2>2, <2>7, <2>9, <2>11, <4>1 DEF SessionOf
      <4>2. CASE m # local
          BY <2>9, <2>11, <4>2 DEF Shows
      <4> QED BY <4>1, <4>2
    <3>2. ASSUME NEW r \in Runs PROVE ~Shows(<<"question", r>>)' /\ ~Shows(<<"notice", r>>)'
      <4>1. PICK question, notice \in Messages :
              question = <<"question", r>> /\ notice = <<"notice", r>>
          BY MessagesAre
      <4> QED BY <2>7, <2>9, <2>11, <4>1 DEF Shows
    <3> QED BY <3>1, <3>2 DEF ItemsInv
  <2>14. PICK kept, new : kept = calls \ {c} /\ new = {n}
      OBVIOUS
  <2>15. /\ kept \in SUBSET calls /\ new \in SUBSET CallRecords /\ calls' = kept \union new
         /\ \A x, y \in new : x = y
         /\ \A x \in new : CallOK(x)' /\ x.kind \notin Makers
      BY <2>1, <2>4, <2>12, <2>14 DEF Makers
  <2>16. ComposerComesBack'
    <3>1. n \in calls' /\ n.then = "submit" /\ Live(n)'
        BY <2>4, <2>12, <2>14, <2>15
    <3> QED BY <3>1 DEF ComposerComesBack
  <2>17. \A d \in kept : StillToMake(d)
    <3> SUFFICES ASSUME NEW d \in calls \ {c} PROVE StillToMake(d)
        BY <2>14
    <3>1. Captured(d)
        BY PageHas DEF CallOK
    <3>2. d.kind = "create" => d.of # c.of
        BY <1>1 DEF PInv, MakersInv, Rivals, Makers
    <3> QED BY <2>1, <2>2, <3>1, <3>2 DEF StillToMake, Captured, About
  <2>18. NextView
      BY <2>11 DEF NextView
  <2> QED BY <2>2, <2>3, <2>11, <2>13, <2>15, <2>16, <2>17, <2>18, StepToView
<1> QED BY <1>3, <1>4

(* A conversation is shown as it was stored, and what is open of it is        *)
(* followed.                                                                 *)
LEMMA MessagesShownMoves == ASSUME PInv, NEW c \in calls, MessagesShown(c) PROVE PInv'
<1>1. /\ c.kind = "open" /\ c \in CallRecords /\ CallOK(c) /\ page \in Pages
      /\ c.gen \in Nat /\ c.session \in Somewhere /\ c.entry \in Entries
      /\ Null \notin Runs /\ Null \notin ImportJobs
    BY PageHas, PageAssumption DEF MessagesShown, CallRecords, Runs
<1>2. ~Holds(c) /\ ~Tends(c)
    BY <1>1 DEF Holds, Tends, CallOK, Thens
<1>3. CASE ~Live(c)
    BY <1>2, <1>3, DropMoves DEF MessagesShown
<1>4. CASE Live(c)
  <2> DEFINE e == c.entry
             stored == [m \in Messages |-> IF m \in c.messages THEN 1 ELSE 0]
             loaded == [page EXCEPT !.items = stored,
                                    !.importPoll = IF e.job = Null THEN @ ELSE e.job]
             resumed == IF e.run = Null THEN loaded
                        ELSE [FollowRun(loaded, e.run) EXCEPT !.sending = TRUE]
             shown == IF e.news = Null THEN resumed ELSE FollowNews(resumed, e.news)
             runs == {[Call("run", c.gen, c.session, r) EXCEPT !.then = "resume"] :
                        r \in {e.run} \ {Null}}
             news == UNION {NewsCalls(resumed, r) : r \in {e.news} \ {Null}}
             imports == {Call("import", c.gen, c.session, j) : j \in {e.job} \ {Null}}
             begun == runs \union news \union imports
  <2>1. Renders(c, shown, begun)
      BY <1>4 DEF MessagesShown
  <2> HIDE DEF e, stored, loaded, resumed, shown, runs, news, imports, begun
  <2>2. PICK p, new : p = shown /\ new = begun
      OBVIOUS
  <2>7. Renders(c, p, new)
      BY <2>1, <2>2
  <2>8. /\ e \in Entries /\ EntryOK(e, c.session) /\ c.session # Null
        /\ c.session = page.session /\ c.gen = page.gen
        /\ \A m \in c.messages : SessionOf(m) = c.session /\ m[1] \notin {"local", "notice"}
        /\ page.importJob = Null
      BY <1>1, <1>4 DEF e, CallOK, Captured, OfTheView, About, Live, PInv, OpenInv
  <2>9. /\ p \in Pages /\ p.gen = page.gen /\ p.session = page.session /\ p.items = stored
        /\ p.importJob = Null /\ (p.sending => page.sending \/ e.run # Null)
        /\ p.importPoll = (IF e.job = Null THEN page.importPoll ELSE e.job)
        /\ p.importNotice = page.importNotice
        /\ resumed.gen = page.gen /\ resumed.session = page.session
    <3>1. stored \in [Messages -> Nat]
        BY DEF stored
    <3>2. PICK poll \in ImportJobs \union {Null} : poll = IF e.job = Null THEN page.importPoll ELSE e.job
        BY <1>1, <2>8 DEF Pages, Entries
    <3>3. loaded = [page EXCEPT !.items = stored, !.importPoll = poll]
        BY <3>2 DEF loaded
    <3>4. /\ loaded \in Pages /\ loaded.gen = page.gen /\ loaded.session = page.session
          /\ loaded.items = stored /\ loaded.importJob = Null /\ loaded.sending = page.sending
          /\ loaded.importPoll = poll /\ loaded.importNotice = page.importNotice
        BY <1>1, <2>8, <3>1, <3>3 DEF Pages
    <3>5. /\ resumed \in Pages /\ resumed.gen = page.gen /\ resumed.session = page.session
          /\ resumed.items = stored /\ resumed.importJob = Null
          /\ resumed.importPoll = poll /\ resumed.importNotice = page.importNotice
          /\ (resumed.sending => page.sending \/ e.run # Null)
      <4>1. CASE e.run = Null
          BY <3>4, <4>1 DEF resumed
      <4>2. CASE e.run # Null
        <5>1. resumed = [loaded EXCEPT !.runPoll = e.run, !.pending = TRUE, !.sending = TRUE]
            BY <4>2 DEF resumed, FollowRun
        <5> QED BY <2>8, <3>4, <4>2, <5>1 DEF Pages, Entries
      <4> QED BY <4>1, <4>2
    <3>6. CASE e.news = Null
        BY <2>2, <3>2, <3>5, <3>6 DEF shown
    <3>7. CASE e.news # Null
        BY <2>2, <2>8, <3>2, <3>5, <3>7, ZenonT(60) DEF shown, FollowNews, Pages, Entries
    <3> QED BY <3>6, <3>7
  <2>10. /\ page' = p /\ UNCHANGED <<known, serverVars>> /\ calls' = (calls \ {c}) \union new
         /\ SameView /\ page' \in Pages
      BY <2>7, <2>9 DEF Renders, Replace, SameView
  <2>11. /\ ServerTypes' /\ ServerInv' /\ Steady /\ UNCHANGED <<chatRun, job, found>>
         /\ known' \in Lists /\ ListOK(known)' /\ \A d \in calls : StillToMake(d)
      BY <2>10, ServerStill
  <2>12. PICK rc, nc, ic :
           /\ rc = [Call("run", c.gen, c.session, e.run) EXCEPT !.then = "resume"]
           /\ nc = [Call("news", resumed.gen, resumed.session, e.news) EXCEPT !.at = "waits"]
           /\ ic = Call("import", c.gen, c.session, e.job)
      OBVIOUS
  <2>13. /\ \A x \in new : \/ e.run # Null /\ x = rc
                           \/ e.news # Null /\ x = nc
                           \/ e.job # Null /\ x = ic
         /\ e.run # Null => rc \in new
         /\ e.job # Null => ic \in new
    <3>1. \A x : x \in runs <=> e.run # Null /\ x = rc
        BY <2>12 DEF runs
    <3>2. \A x \in news : e.news # Null /\ x = nc
      <4>1. NewsCalls(resumed, e.news) \subseteq {nc}
          BY <2>12 DEF NewsCalls
      <4> QED BY <4>1 DEF news
    <3>3. \A x : x \in imports <=> e.job # Null /\ x = ic
        BY <2>12 DEF imports
    <3> QED BY <2>2, <3>1, <3>2, <3>3 DEF begun
  <2>14. e.run # Null =>
           /\ rc \in CallRecords /\ rc.kind = "run" /\ rc.gen = c.gen /\ rc.session = c.session
           /\ rc.of = e.run /\ rc.then = "resume"
    <3> SUFFICES ASSUME e.run # Null
                 PROVE  /\ rc \in CallRecords /\ rc.kind = "run" /\ rc.gen = c.gen
                        /\ rc.session = c.session /\ rc.of = e.run /\ rc.then = "resume"
        OBVIOUS
    <3>1. PICK first : first = Call("run", c.gen, c.session, e.run)
        OBVIOUS
    <3>2. e.run \in Subjects /\ "run" \in Kinds
        BY <2>8 DEF Subjects, Kinds, Entries
    <3>3. /\ first \in CallRecords /\ first.kind = "run" /\ first.gen = c.gen
          /\ first.session = c.session /\ first.of = e.run
        BY <1>1, <3>1, <3>2, NoList, NoEntryIs DEF Call, CallRecords
    <3> QED BY <2>12, <3>1, <3>3 DEF CallRecords
  <2>15. e.job # Null =>
           /\ ic \in CallRecords /\ ic.kind = "import" /\ ic.gen = c.gen /\ ic.session = c.session
           /\ ic.of = e.job /\ ic.then = ""
    <3> SUFFICES ASSUME e.job # Null
                 PROVE  /\ ic \in CallRecords /\ ic.kind = "import" /\ ic.gen = c.gen
                        /\ ic.session = c.session /\ ic.of = e.job /\ ic.then = ""
        OBVIOUS
    <3>1. e.job \in Subjects /\ "import" \in Kinds
        BY <2>8 DEF Subjects, Kinds, Entries
    <3> QED BY <1>1, <2>12, <3>1, NoList, NoEntryIs DEF Call, CallRecords
  <2>16. page'.gen = page.gen /\ page'.session = page.session /\ page.gen \in Nat
      BY <1>1, <2>8, <2>10 DEF SameView
  <2>17. e.news # Null => nc \in CallRecords /\ CallOK(nc)' /\ nc.kind \in Quiet
    <3> SUFFICES ASSUME e.news # Null PROVE nc \in CallRecords /\ CallOK(nc)' /\ nc.kind \in Quiet
        OBVIOUS
    <3>1. /\ resumed.gen \in Nat /\ resumed.gen = page'.gen
          /\ resumed.session \in Somewhere /\ resumed.session # Null
          /\ resumed.session = page'.session
        BY <1>1, <2>8, <2>9, <2>16
    <3>2. e.news \in Runs /\ chatRun'[e.news].session = resumed.session
        BY <2>8, <2>9, <2>11 DEF Entries, EntryOK
    <3> QED BY <2>12, <3>1, <3>2, NewsFits
  <2>18. e.run # Null => CallOK(rc)'
    <3> SUFFICES ASSUME e.run # Null PROVE CallOK(rc)'
        OBVIOUS
    <3>1. rc.gen <= page'.gen
      <4>1. page'.gen = rc.gen /\ rc.gen \in Nat
          BY <1>1, <2>8, <2>14, <2>16
      <4> QED BY <4>1
    <3>2. Captured(rc)' /\ OfTheView(rc)' /\ Thens(rc)'
        BY <2>8, <2>11, <2>14, <2>16 DEF Captured, OfTheView, Thens, About, Entries, EntryOK
    <3> QED BY <3>1, <3>2 DEF CallOK
  <2>19. e.job # Null => CallOK(ic)'
    <3> SUFFICES ASSUME e.job # Null PROVE CallOK(ic)'
        OBVIOUS
    <3>1. ic.gen <= page'.gen
      <4>1. page'.gen = ic.gen /\ ic.gen \in Nat
          BY <1>1, <2>8, <2>15, <2>16
      <4> QED BY <4>1
    <3>2. Captured(ic)' /\ OfTheView(ic)' /\ Thens(ic)'
        BY <2>8, <2>11, <2>15, <2>16 DEF Captured, OfTheView, Thens, About, Entries, EntryOK
    <3> QED BY <3>1, <3>2 DEF CallOK
  <2>20. PICK kept : kept = calls \ {c}
      OBVIOUS
  <2>21. /\ kept \in SUBSET calls /\ new \in SUBSET CallRecords /\ calls' = kept \union new
         /\ \A d : Live(d)' <=> Live(d)
      BY <2>10, <2>13, <2>14, <2>15, <2>17, <2>20, LiveStays
  <2>22. \A x \in new : x.kind \in Quiet \union {"run", "import"} /\ (x.kind = "run" => x = rc)
      BY <2>13, <2>14, <2>15, <2>17 DEF Quiet, Asking
  <2>23. /\ Turn(c, e.run) /\ (e.run # Null => \A r : Turn(rc, r)' => r = e.run)
         /\ \A x \in new : \A r : Turn(x, r)' => x = rc /\ r = e.run
    <3>1. Turn(c, e.run)
        BY <1>1, <1>4 DEF e, Turn
    <3>2. e.run # Null => \A r : Turn(rc, r)' => r = e.run
        BY <2>14 DEF Turn
    <3>3. ASSUME NEW x \in new, NEW r, Turn(x, r)' PROVE x = rc /\ r = e.run
      <4>1. x.kind = "run"
          BY <2>22, <3>3 DEF Turn, Quiet, Asking
      <4>2. e.run # Null
          BY <2>13, <2>15, <2>17, <4>1 DEF Quiet, Asking
      <4> QED BY <2>22, <3>2, <3>3, <4>1, <4>2
    <3> QED BY <3>1, <3>2, <3>3
  <2>24. ASSUME NEW x \in new PROVE Fits(x, kept \union new)
    <3>1. CallOK(x)' /\ x.kind \in Quiet \union {"run", "import"}
        BY <2>13, <2>17, <2>18, <2>19, <2>22
    <3>2. ASSUME NEW d \in kept \union new PROVE ~Rivals(x, d) /\ ~Rivals(d, x)
        BY <3>1 DEF Rivals, Quiet, Makers
    <3>3. ASSUME NEW d \in kept \union new, NEW r \in Runs, Turn(x, r)', Turn(d, r)'
          PROVE  x = d
      <4>1. x = rc /\ r = e.run
          BY <2>23, <3>3
      <4>2. d \notin kept
        <5>1. ~(d \in calls /\ d # c /\ Turn(d, r))
            BY <2>23, <3>3, <4>1 DEF PInv, TurnsInv
        <5>2. Turn(d, r) <=> Turn(d, r)'
            BY <2>21 DEF Turn
        <5> QED BY <2>20, <3>3, <5>1, <5>2
      <4> QED BY <2>23, <3>3, <4>1, <4>2
    <3>4. ASSUME NEW d \in kept \union new PROVE ~Loads(x, d)' /\ ~Loads(d, x)'
      <4>1. ~Loads(x, d)'
          BY <3>1 DEF Loads, Quiet
      <4>2. ASSUME Loads(d, x)' PROVE FALSE
        <5>1. d.kind = "open" /\ Live(d)
            BY <2>21, <4>2 DEF Loads
        <5>2. d \in kept
            BY <2>22, <5>1 DEF Quiet
        <5>3. Loads(d, c) /\ d \in calls /\ d # c
            BY <1>1, <1>4, <2>20, <5>1, <5>2 DEF Loads
        <5> QED BY <5>3 DEF PInv, OpenInv
      <4> QED BY <4>1, <4>2
    <3>5. x.kind # "open"
        BY <3>1 DEF Quiet
    <3> QED BY <3>1, <3>2, <3>3, <3>4, <3>5 DEF Fits
  <2>25. page'.importJob = page.importJob
      BY <2>8, <2>9, <2>10
  <2>26. PageTypes' /\ ServerInv' /\ CallsInv' /\ MakersInv' /\ TurnsInv' /\ OpenInv'
      BY <2>10, <2>11, <2>21, <2>24, <2>25, StepInView
  <2>27. ItemsInv'
    <3>1. ASSUME NEW m \in Messages
          PROVE  /\ page'.items[m] <= 1
                 /\ Shows(m)' => /\ page'.session # Null /\ SessionOf(m)' = page'.session
                                 /\ m[1] \notin {"local", "notice"}
      <4>1. page'.items[m] = IF m \in c.messages THEN 1 ELSE 0
          BY <2>9, <2>10 DEF stored
      <4>2. SessionOf(m)' = SessionOf(m)
          BY <2>11 DEF SessionOf
      <4>3. CASE m \in c.messages
          BY <2>8, <2>16, <4>1, <4>2, <4>3
      <4>4. CASE m \notin c.messages
        <5>1. page'.items[m] = 0
            BY <4>1, <4>4
        <5> QED BY <5>1 DEF Shows
      <4> QED BY <4>3, <4>4
    <3>2. ASSUME NEW r \in Runs PROVE ~Shows(<<"local", r>>)' /\ ~Shows(<<"notice", r>>)'
      <4>1. PICK local, notice \in Messages : local = <<"local", r>> /\ notice = <<"notice", r>>
          BY MessagesAre
      <4>2. local[1] = "local" /\ notice[1] = "notice"
          BY <4>1
      <4> QED BY <3>1, <4>1, <4>2
    <3> QED BY <3>1, <3>2 DEF ItemsInv
  <2>28. ComposerComesBack'
    <3> SUFFICES ASSUME page'.sending PROVE \E d \in calls' : Holds(d)'
        BY DEF ComposerComesBack, Holds
    <3>1. CASE e.run # Null
      <4>1. rc \in calls' /\ rc.kind = "run" /\ Live(rc)'
          BY <2>8, <2>13, <2>14, <2>16, <2>21, <3>1 DEF Live
      <4> QED BY <4>1 DEF Holds
    <3>2. CASE e.run = Null
      <4>1. PICK d \in calls : Holds(d)
          BY <2>9, <2>10, <3>2 DEF PInv, ComposerComesBack, Holds
      <4>2. d \in calls' /\ Holds(d)'
          BY <1>2, <2>20, <2>21, <4>1 DEF Holds
      <4> QED BY <4>2
    <3> QED BY <3>1, <3>2
  <2>29. ImportInv'
    <3>1. page'.importJob = Null
        BY <2>8, <2>25
    <3>2. ASSUME e.job = Null, page'.importPoll # Null, ~page'.importNotice
          PROVE  \E d \in calls' : Tends(d)'
      <4>1. page'.importPoll = page.importPoll /\ page'.importNotice = page.importNotice
          BY <2>9, <2>10, <3>2
      <4>2. PICK d \in calls : Tends(d)
          BY <3>2, <4>1 DEF PInv, ImportInv, Tends
      <4>3. d \in calls' /\ Tends(d)'
          BY <1>2, <2>20, <2>21, <4>1, <4>2 DEF Tends
      <4> QED BY <4>3
    <3>3. ASSUME e.job # Null PROVE ic \in calls' /\ Tends(ic)'
        BY <2>8, <2>9, <2>10, <2>13, <2>15, <2>16, <2>21, <3>3 DEF Tends, Live
    <3> QED BY <3>1, <3>2, <3>3 DEF ImportInv, Tends
  <2> QED BY <2>26, <2>27, <2>28, <2>29 DEF PInv
<1> QED BY <1>3, <1>4

-----------------------------------------------------------------------------
(* The page.                                                                 *)
LEMMA PageStarts == ASSUME PageInit PROVE PInv
<1>1. PICK wanted \in Old \union {Null} :
        calls = {[Refresh(0) EXCEPT !.then = "start", !.session = wanted]}
    BY DEF PageInit, ThenOpen
<1>2. PICK first : first = Call("list", 0, Null, Null)
    OBVIOUS
<1>3. PICK n : n = [first EXCEPT !.then = "start", !.session = wanted]
    OBVIOUS
<1>4. /\ wanted \in Somewhere /\ Null \in Somewhere /\ Null \in Subjects /\ "list" \in Kinds
    BY PageAssumption DEF Somewhere, Subjects, Kinds
<1>5. /\ first \in CallRecords /\ first.kind = "list" /\ first.gen = 0
      /\ first.list = << >>
    BY <1>2, <1>4, NoList, NoEntryIs DEF Call, CallRecords
<1>6. /\ n \in CallRecords /\ n.kind = "list" /\ n.gen = 0 /\ n.list = << >> /\ n.then = "start"
    BY <1>3, <1>4, <1>5 DEF CallRecords
<1>7. calls = {n}
    BY <1>1, <1>2, <1>3 DEF Refresh
<1>8. /\ page \in Pages /\ page.gen = 0 /\ page.importJob = Null /\ page.importPoll = Null
      /\ page.sending = FALSE
      /\ \A m \in Messages : page.items[m] = 0
  <2>1. page = EmptyView(0, Null)
      BY DEF PageInit
  <2> QED BY <1>4, <2>1 DEF EmptyView, Pages
<1>9. PageTypes /\ ServerInv
  <2>1. session \in [Sessions -> {"unused", "open", "deleted"}]
      BY DEF PageInit
  <2>2. chatRun \in [Runs -> [session : Somewhere, override : BOOLEAN,
                         status : Unsent \union {"active", "answered", "failed"},
                         news : {"none", "pending", "told"}]]
        /\ \A r \in Runs : chatRun[r].session = Null
      BY <1>4 DEF PageInit, NoQuestion, Unsent
  <2>3. job \in [ImportJobs -> [session : Somewhere, status : {"none", "working", "ready", "failed"}]]
        /\ \A j \in ImportJobs : job[j].session = Null /\ job[j].status = "none"
      BY <1>4 DEF PageInit
  <2>4. found \in [Searches -> Somewhere]
      BY <1>4 DEF PageInit
  <2>5. known \in Lists
      BY NoList DEF PageInit
  <2> QED BY <1>6, <1>7, <1>8, <2>1, <2>2, <2>3, <2>4, <2>5
          DEF PageTypes, ServerTypes, ServerInv
<1>10. CallsInv
  <2>1. ListOK(known) /\ ListOK(n.list)
      BY <1>6, NoList DEF ListOK, PageInit
  <2>2. CallOK(n)
      BY <1>6, <1>8, <2>1 DEF CallOK, Captured, OfTheView, Thens, About
  <2> QED BY <1>7, <2>1, <2>2 DEF CallsInv
<1>11. MakersInv /\ TurnsInv /\ OpenInv
    BY <1>6, <1>7 DEF MakersInv, TurnsInv, OpenInv, Loads
<1>12. ItemsInv
  <2>1. \A m \in Messages : page.items[m] <= 1 /\ ~Shows(m)
      BY <1>8 DEF Shows
  <2> QED BY <2>1, MessagesAre DEF ItemsInv
<1>13. ImportInv /\ ComposerComesBack
    BY <1>8 DEF ImportInv, ComposerComesBack
<1> QED BY <1>9, <1>10, <1>11, <1>12, <1>13 DEF PInv

LEMMA PageMoves == ASSUME PInv, [PageNext]_pageVars PROVE PInv'
<1>1. CASE User
    BY <1>1, UserMoves
<1>2. CASE Server
    BY <1>2, ServerMoves
<1>3. ASSUME NEW c \in calls, Proceeds(c) PROVE PInv'
  <2>1. CASE \/ MessagesRead(c) \/ MessagesShown(c) \/ SessionsRead(c) \/ SessionsShown(c)
             \/ SessionCreated(c) \/ FirstQuestion(c)
      BY <2>1, MessagesReadMoves, MessagesShownMoves, SessionsReadMoves, SessionsShownMoves,
         SessionCreatedMoves, FirstQuestionMoves
  <2>2. CASE PostTaken(c) \/ PostAnswered(c) \/ PostRefused(c)
      BY <2>2, PostTakenMoves, PostAnsweredMoves, PostRefusedMoves
  <2>3. CASE \/ FollowWaits(c) \/ FollowDropped(c) \/ FollowAgain(c) \/ NewsAgain(c)
             \/ FollowStops(c) \/ FollowFails(c) \/ FollowEnds(c)
      BY <2>3, PollsMove, FollowStopsMoves, FollowFailsMoves, FollowEndsMoves
  <2>4. CASE \/ NewsStops(c) \/ NewsShown(c) \/ NewsGivenUp(c)
             \/ ImportTaken(c) \/ ImportPolled(c)
      BY <2>4, NewsMoves, ImportTakenMoves, ImportPolledMoves
  <2>5. CASE Searched(c) \/ SearchShown(c) \/ SessionDeleted(c) \/ DeletionShown(c)
      BY <2>5, SearchedMoves, SearchShownMoves, SessionDeletedMoves, DeletionShownMoves
  <2> QED BY <1>3, <2>1, <2>2, <2>3, <2>4, <2>5 DEF Proceeds
<1>4. CASE UNCHANGED pageVars
  <2>1. PICK new : new = {}
      OBVIOUS
  <2>2. UNCHANGED <<page, known, calls, serverVars>>
      BY <1>4 DEF pageVars
  <2> QED BY <2>2, StillThere, OnlyTheServer DEF serverVars
<1> QED BY <1>1, <1>2, <1>3, <1>4 DEF PageNext

(* What the page shows is what the code's loops compare against, in every     *)
(* reachable state.                                                          *)
THEOREM PageInvariant == PageSpec => []PInv
<1>1. PageInit => PInv
    BY PageStarts
<1>2. PInv /\ [PageNext]_pageVars => PInv'
    BY PageMoves
<1> QED BY <1>1, <1>2, PTL DEF PageSpec

(* The page, its calls and the server as it sees it keep their types.         *)
THEOREM TypeCorrect == PageSpec => []PageTypeOK
<1>1. PInv => PageTypeOK
  <2> SUFFICES ASSUME PInv PROVE PageTypeOK
      OBVIOUS
  <2>1. page \in Pages /\ known \in Lists /\ calls \subseteq CallRecords /\ ServerTypes
      BY DEF PInv, PageTypes
  <2>2. page.items \in [Messages -> 0..2]
    <3>1. page.items \in [Messages -> Nat]
        BY <2>1 DEF Pages
    <3>2. \A m \in Messages : page.items[m] \in 0..2
        BY <3>1 DEF PInv, ItemsInv
    <3> QED BY <3>1, <3>2
  <2>3. DOMAIN known \subseteq Sessions
      BY <2>1 DEF Lists
  <2>4. ASSUME NEW c \in calls PROVE c.gen \in 0..page.gen /\ c.session \in Sessions \union {Null}
    <3>1. c.gen \in Nat /\ c.session \in Somewhere /\ page.gen \in Nat
        BY <2>1 DEF CallRecords, Pages
    <3>2. c.gen <= page.gen
        BY DEF PInv, CallsInv, CallOK
    <3> QED BY <3>1, <3>2 DEF Somewhere
  <2>5. page \in [gen : Nat, session : Sessions \union {Null}, items : [Messages -> 0..2],
                  pending : BOOLEAN, sending : BOOLEAN, newsPending : BOOLEAN,
                  runPoll : Runs \union {Null}, newsPoll : Runs \union {Null},
                  importPoll : ImportJobs \union {Null}, importJob : ImportJobs \union {Null},
                  importNotice : BOOLEAN]
      BY <2>1, <2>2 DEF Pages, Somewhere
  <2> QED BY <2>1, <2>3, <2>4, <2>5 DEF PageTypeOK, ServerTypes, Somewhere
<1> QED BY <1>1, PageInvariant, PTL

(* No call renders into a conversation the user switched to meanwhile.        *)
THEOREM ItemsStayInTheirView == PageSpec => []ItemsBelongToTheView
<1>1. PInv => ItemsBelongToTheView
    BY DEF PInv, ItemsInv, ItemsBelongToTheView
<1> QED BY <1>1, PageInvariant, PTL

(* Nothing is shown twice, whichever calls bring it, and no question beside   *)
(* what the server stored of it.                                             *)
THEOREM NothingIsShownTwice == PageSpec => []ShownOnce
<1>1. PInv => ShownOnce
    BY DEF PInv, ItemsInv, ShownOnce
<1> QED BY <1>1, PageInvariant, PTL

(* While the composer is locked, a call of the view is under way that gives   *)
(* it back.                                                                  *)
THEOREM ComposerIsHeld == PageSpec => []ComposerComesBack
<1>1. PInv => ComposerComesBack
    BY DEF PInv
<1> QED BY <1>1, PageInvariant, PTL

(* The card of an import is of the conversation in view, and the import the   *)
(* view follows has a poll under way, or the page told that it has not.       *)
THEOREM WorkingImportIsPolled == PageSpec => []ImportIsFollowed
<1>1. PInv => ImportIsFollowed
    BY DEF PInv, ImportInv, ImportIsFollowed
<1> QED BY <1>1, PageInvariant, PTL
=============================================================================
