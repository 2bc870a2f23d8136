------------------------------ MODULE Discovery ------------------------------
(***************************************************************************)
(* Searches for reports of one account (api/discovery.py): requests of the   *)
(* page, each with an idempotency key, in threads of the API, and questions  *)
(* the chat worker takes as a search.  A request whose connection dropped    *)
(* goes on in its thread while the page sends it again; a process may end    *)
(* and leave its lock to the others.                                         *)
(***************************************************************************)
EXTENDS Naturals, FiniteSets, Sequences

CONSTANTS
  Requests,       \* threads of the API, one per request received
  SearchRuns,     \* runs the chat worker takes as searches
  RequestKeys,    \* idempotency keys; a request is sent again with its own
  Conversations,
  SearchBound,    \* bound: searches made
  NoneOf

ASSUME DiscoveryAssumption ==
  /\ SearchBound \in Nat /\ NoneOf \notin Conversations \union RequestKeys
  /\ Requests \intersect SearchRuns = {}

Searchers == Requests \union SearchRuns

VARIABLES
  asker,    \* what a searcher is at, for which key, in which conversation
  holder,   \* the account's discovery lock
  created,  \* the conversations the account has had
  deleted,  \* those it has deleted
  replies,  \* discovery_requests: the result of a key
  shown,    \* the conversation and the search each result card is of
  searches  \* searches of the source made, with the key of each

discoveryVars == <<asker, holder, created, deleted, replies, shown, searches>>

Existing == created \ deleted
Fresh == [at |-> "none", key |-> NoneOf, into |-> NoneOf, named |-> FALSE, search |-> 0]
NotStored == [search |-> 0, into |-> NoneOf]

DiscoveryTypeOK ==
  /\ asker \in [Searchers ->
       [at : {"none", "lock", "create", "search", "store", "answered",
              "busy", "refused", "failed"},
        key : RequestKeys \union {NoneOf}, into : Conversations \union {NoneOf}, named : BOOLEAN,
        search : 0..SearchBound]]
  /\ holder \in Searchers \union {NoneOf}
  /\ created \subseteq Conversations /\ deleted \subseteq created
  /\ replies \in [RequestKeys ->
                    [search : 0..SearchBound, into : Conversations \union {NoneOf}]]
  /\ shown \subseteq [search : 1..SearchBound, into : Conversations]
  /\ Len(searches) <= SearchBound
  /\ \A n \in DOMAIN searches : searches[n] \in RequestKeys \union {NoneOf}

DiscoveryInit ==
  /\ asker = [q \in Searchers |-> Fresh]
  /\ holder = NoneOf
  /\ \E c \in Conversations : created = {c}
  /\ deleted = {}
  /\ replies = [k \in RequestKeys |-> NotStored]
  /\ shown = {} /\ searches = << >>

Moves(q, a) == asker' = [asker EXCEPT ![q] = a]
Goes(q, at) == Moves(q, [asker[q] EXCEPT !.at = at])
Frees(q) == holder' = IF holder = q THEN NoneOf ELSE holder

(* The key is looked up, then the conversation.  A stored result is sent      *)
(* again, to a request for the same search; both without the lock.           *)
Receive(q, k, c) ==
  /\ asker[q].at = "none"
  /\ IF replies[k] # NotStored
     THEN \/ Moves(q, [Fresh EXCEPT !.at = "answered", !.key = k, !.into = replies[k].into,
                              !.search = replies[k].search])
          \/ Moves(q, [Fresh EXCEPT !.at = "refused", !.key = k])
     ELSE Moves(q, [Fresh EXCEPT !.at = IF c \in Existing \union {NoneOf} THEN "lock" ELSE "refused",
                                 !.key = k, !.into = c, !.named = c # NoneOf])
  /\ UNCHANGED <<holder, created, deleted, replies, shown, searches>>

(* The worker searches for the conversation of its run.                      *)
TakeQuestion(q, c) ==
  /\ asker[q].at = "none" /\ c \in Existing
  /\ Moves(q, [Fresh EXCEPT !.at = "lock", !.into = c, !.named = TRUE])
  /\ UNCHANGED <<holder, created, deleted, replies, shown, searches>>

LockIsFree(q) == holder = NoneOf

(* A request that finds the lock taken is turned away; the worker answers    *)
(* with a card that says so.                                                 *)
TryLock(q) ==
  /\ asker[q].at = "lock"
  /\ IF LockIsFree(q) THEN Goes(q, IF asker[q].named THEN "search" ELSE "create") /\ holder' = q
     ELSE Goes(q, "busy") /\ UNCHANGED holder
  /\ UNCHANGED <<created, deleted, replies, shown, searches>>

CreateConversation(q) ==
  /\ asker[q].at = "create"
  /\ \E c \in Conversations \ created :
       /\ created' = created \union {c}
       /\ Moves(q, [asker[q] EXCEPT !.at = "search", !.into = c])
  /\ UNCHANGED <<holder, deleted, replies, shown, searches>>

(* Whatever the source says, candidates, a question back or an error, is one *)
(* card.  The worker leaves the lock with the answer, a request keeps it     *)
(* until the card is stored.                                                 *)
SearchSource(q) ==
  /\ asker[q].at = "search" /\ Len(searches) < SearchBound
  /\ searches' = Append(searches, asker[q].key)
  /\ Moves(q, [asker[q] EXCEPT !.at = "store", !.search = Len(searches) + 1])
  /\ IF q \in SearchRuns THEN Frees(q) ELSE UNCHANGED holder
  /\ UNCHANGED <<created, deleted, replies, shown>>

(* (mutated form: the key is not unique.)                                    *)
KeyIsFree_Any(k) == TRUE
KeyIsFree(k) == k # NoneOf => replies[k] = NotStored

(* The card and the key in one transaction, which a used key or a deleted    *)
(* conversation undoes; the worker's card goes with its run.                 *)
Store(q) ==
  LET a == asker[q]
      record == [search |-> a.search, into |-> a.into]
  IN /\ a.at = "store"
     /\ Frees(q)
     /\ IF a.into \in Existing /\ KeyIsFree(a.key)
        THEN /\ shown' = shown \union {record}
             /\ replies' = IF a.key = NoneOf THEN replies ELSE [replies EXCEPT ![a.key] = record]
             /\ Goes(q, "answered")
        ELSE Goes(q, "failed") /\ UNCHANGED <<shown, replies>>
     /\ UNCHANGED <<created, deleted, searches>>

(* An error nobody expected, or the end of the process.                      *)
Fails(q) ==
  /\ asker[q].at \in {"lock", "create", "search", "store"}
  /\ Goes(q, "failed") /\ Frees(q)
  /\ UNCHANGED <<created, deleted, replies, shown, searches>>

(* The user deletes a conversation, with its messages and its keys.          *)
DeleteConversation(c) ==
  /\ c \in Existing /\ deleted' = deleted \union {c}
  /\ shown' = {m \in shown : m.into # c}
  /\ replies' = [k \in RequestKeys |-> IF replies[k].into = c THEN NotStored ELSE replies[k]]
  /\ UNCHANGED <<asker, holder, created, searches>>

DiscoveryNext ==
  \/ \E q \in Requests, k \in RequestKeys, c \in created \union {NoneOf} : Receive(q, k, c)
  \/ \E q \in SearchRuns, c \in created : TakeQuestion(q, c)
  \/ \E q \in Searchers :
       TryLock(q) \/ CreateConversation(q) \/ SearchSource(q) \/ Store(q) \/ Fails(q)
  \/ \E c \in created : DeleteConversation(c)

DiscoverySpec == DiscoveryInit /\ [][DiscoveryNext]_discoveryVars

-----------------------------------------------------------------------------
(* Properties. *)

(* However often a request is sent and whoever else searches: an answer is    *)
(* a card that was stored, for a search made with the key of its request; a   *)
(* key has one card, also where it was searched for twice; and a request that *)
(* failed, after its search or before, has left none.                        *)
OneCardPerRequest ==
  /\ \A q \in Requests : asker[q].at = "answered" /\ asker[q].into \in Existing =>
       /\ [search |-> asker[q].search, into |-> asker[q].into] \in shown
       /\ searches[asker[q].search] = asker[q].key
  /\ \A m, n \in shown :
       searches[m.search] # NoneOf /\ searches[m.search] = searches[n.search] => m = n
  /\ \A q \in Requests : asker[q].at = "failed" => \A m \in shown : m.search # asker[q].search

(* web/lib/api.ts: a request sent again after a dropped connection has the    *)
(* key of the first, "so the server returns the original run or import        *)
(* instead of doing the work (or charging) twice".  A search sent again while *)
(* the first is stored is made again: its key was looked up before the lock.  *)
NotSearchedAgain ==
  \A q \in Requests : asker[q].at = "search" => replies[asker[q].key] = NotStored
=============================================================================
