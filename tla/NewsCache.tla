------------------------------ MODULE NewsCache ------------------------------
(***************************************************************************)
(* The company news a deployment keeps of one ticker: refreshes read the    *)
(* source's list page by page (news/collect/vietstock.py), store its        *)
(* entries and record the span they cover in one database that several      *)
(* processes write (news/collect/cache.py); searches answer from it.        *)
(*                                                                         *)
(* Articles are numbered as they are published: article i at time 2 * i,    *)
(* which no other article has; what the code does in between is at 2 * i + 1. *)
(***************************************************************************)
EXTENDS Integers, FiniteSets

CONSTANTS
  Processes,    \* each has a provider and a refresh thread
  Windows,      \* the days a search may start its window at (since)
  PageSize,     \* LISTING_PAGE_SIZE
  MaxPages,     \* max_listing_pages
  MaxArticles   \* bound: articles the source publishes

ASSUME NewsAssumption ==
  Windows \subseteq Nat /\ PageSize \in Nat \ {0} /\ MaxPages \in Nat \ {0} /\ MaxArticles \in Nat

Refreshes == Processes \X Windows   \* _pending: one refresh for a window at a time
Epoch == 0
NoCoverage == [from |-> 0, until |-> -1]

VARIABLES
  published,  \* articles at the source
  listed,     \* web_evidence: the articles with a row
  coverage,   \* web_coverage of the ticker
  refresh     \* the pending refresh of a window: list_news, put_listing, record_coverage

newsCacheVars == <<published, listed, coverage, refresh>>

Now == 2 * published + 1
PublishedAt(i) == 2 * i
Times == 0..2 * MaxArticles + 1
Spans == [from : Times, until : Times \union {-1}]

NewsTypeOK ==
  /\ published \in 0..MaxArticles
  /\ listed \subseteq 1..published
  /\ coverage \in Spans
  /\ \A r \in Refreshes :
       /\ refresh[r].at \in {"idle", "listing", "put", "read", "record"}
       /\ refresh[r].seen \subseteq 1..published
       /\ refresh[r].page \in 1..MaxPages + 1 /\ refresh[r].rows \in Nat
       /\ refresh[r].from \in Times /\ refresh[r].asOf \in Times
       /\ refresh[r].known \in Spans

NoRefresh == [at |-> "idle", seen |-> {}, page |-> 1, rows |-> 0, from |-> 0,
              asOf |-> 0, known |-> NoCoverage]

NewsInit ==
  /\ published = 0 /\ listed = {} /\ coverage = NoCoverage
  /\ refresh = [r \in Refreshes |-> NoRefresh]

Publish ==
  /\ published < MaxArticles
  /\ published' = published + 1
  /\ UNCHANGED <<listed, coverage, refresh>>

-----------------------------------------------------------------------------
(* A refresh. *)

Oldest(rec) == IF rec.seen = {} THEN rec.asOf
               ELSE PublishedAt(CHOOSE i \in rec.seen : \A j \in rec.seen : i <= j)

(* The newest first: what is published meanwhile moves rows to a later page. *)
Page(n) == {i \in 1..published : published - n * PageSize < i
                                 /\ i <= published - (n - 1) * PageSize}

Listing(r) == refresh[r].at = "listing"
UpdateRefresh(r, rec) == refresh' = [refresh EXCEPT ![r] = rec]
StopListing(rec, from) == [rec EXCEPT !.at = "put", !.from = from]

(* A full page, and whether the list ends with it: at the source's own count *)
(* of rows, at the start of the window, or at the last page allowed.         *)
ReadPage(r) ==
  /\ Listing(r) /\ refresh[r].page <= MaxPages
  /\ LET page == Page(refresh[r].page)
         rec == [refresh[r] EXCEPT !.seen = @ \union page,
                                   !.rows = @ + Cardinality(page), !.page = @ + 1]
         reached == rec.seen # {} /\ Oldest(rec) <= r[2]
     IN /\ page # {}
        /\ UpdateRefresh(r, CASE rec.rows >= published -> StopListing(rec, Epoch)
                              [] rec.rows < published /\ reached -> StopListing(rec, r[2])
                              [] OTHER -> rec)
  /\ UNCHANGED <<published, listed, coverage>>

(* An empty page (there is none, or the source holds back), the deadline and *)
(* the page limit end the list where it is.                                  *)
Interrupted(r) ==
  /\ Listing(r)
  /\ UpdateRefresh(r, StopListing(refresh[r], Oldest(refresh[r])))
  /\ UNCHANGED <<published, listed, coverage>>

(* An error of the source ends the refresh with nothing stored.              *)
RefreshFails(r) ==
  /\ Listing(r)
  /\ UpdateRefresh(r, NoRefresh)
  /\ UNCHANGED <<published, listed, coverage>>

(* put_listing asks which entries are new and writes those.  Whether a row   *)
(* has the text of its page is left out here.                                *)
PutListing(r) ==
  /\ refresh[r].at = "put"
  /\ listed' = listed \union refresh[r].seen
  /\ UpdateRefresh(r, [refresh[r] EXCEPT !.at = "read"])
  /\ UNCHANGED <<published, coverage>>

(* record_coverage reads the row before its transaction begins.              *)
ReadCoverage(r) ==
  /\ refresh[r].at = "read"
  /\ UpdateRefresh(r, [refresh[r] EXCEPT !.at = "record", !.known = coverage])
  /\ UNCHANGED <<published, listed, coverage>>

(* (mutated form: any older span is kept.)                                   *)
Joined_OverGap(old, from, asOf) ==
  [from |-> IF old # NoCoverage /\ old.from < from THEN old.from ELSE from, until |-> asOf]

(* A span joins the one it reaches; over a gap the older one is dropped.     *)
Joined(old, from, asOf) ==
  [from |-> IF old # NoCoverage /\ from <= old.until /\ old.from < from THEN old.from ELSE from,
   until |-> asOf]

RecordCoverage(r) ==
  /\ refresh[r].at = "record"
  /\ coverage' = Joined(refresh[r].known, refresh[r].from, refresh[r].asOf)
  /\ UpdateRefresh(r, NoRefresh)
  /\ UNCHANGED <<published, listed>>

-----------------------------------------------------------------------------
(* Searches.  One reads the span, then the rows; it only writes by the        *)
(* refresh it starts when the span does not cover its window.                *)

Within(i, from, until) == from <= PublishedAt(i) /\ PublishedAt(i) <= until

(* A window up to now or to an earlier day; newer news than the span may be  *)
(* within the freshness allowance.                                           *)
Covered(since, until, recent) ==
  coverage # NoCoverage /\ coverage.from <= since /\ (until <= coverage.until \/ recent)

(* _search_window and _schedule: one refresh of a window is pending at a     *)
(* time in a process; the searches that wait for it do so for a limited time. *)
Search(r, until) ==
  /\ r[2] <= until /\ until <= Now
  /\ refresh[r].at = "idle"
  /\ \E recent, force \in BOOLEAN : ~Covered(r[2], until, recent) \/ force
  /\ UpdateRefresh(r, [NoRefresh EXCEPT !.at = "listing", !.asOf = Now])
  /\ UNCHANGED <<published, listed, coverage>>

RefreshStep(r) ==
  ReadPage(r) \/ Interrupted(r) \/ RefreshFails(r)
  \/ PutListing(r) \/ ReadCoverage(r) \/ RecordCoverage(r)

NewsNext ==
  \/ Publish
  \/ \E r \in Refreshes : RefreshStep(r)
  \/ \E r \in Refreshes, until \in Windows \union {Now} : Search(r, until)

NewsSpec == NewsInit /\ [][NewsNext]_newsCacheVars

-----------------------------------------------------------------------------
(* Properties. *)

(* The span the database claims to cover is covered: every article of it has *)
(* a row, whatever was published while the list was read, wherever a list    *)
(* was cut short, and however refreshes of several processes interleave.     *)
CoverageIsListed ==
  \A i \in 1..published : Within(i, coverage.from, coverage.until) => i \in listed
=============================================================================
