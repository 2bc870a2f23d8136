---------------------------- MODULE EvidenceCache ----------------------------
(***************************************************************************)
(* What a process keeps of its searches: the runtime evidence cache        *)
(* (agents/tools/evidence.py), the evidence stage that fills it through a   *)
(* pool of chains (workflow/evidence.py), and the agents' tool calls, which *)
(* run in parallel threads and share one backend call for one key           *)
(* (agents/tools/tool_runner.py).  An entry is the key it is stored under.  *)
(***************************************************************************)
EXTENDS Integers, FiniteSets, Sequences, SequencesExt

CONSTANTS
  Callers,      \* the threads of a superstep that run tool calls, one an agent
  Keys,         \* evidence_cache_key
  CacheLimit,   \* _RUNTIME_CACHE_MAX_ITEMS
  MaxToolCalls, \* bound: tool calls in the life of the process
  MaxStages     \* bound: evidence stages in the life of the process

ASSUME CacheAssumption ==
  IsFiniteSet(Keys) /\ CacheLimit \in Nat \ {0} /\ MaxToolCalls \in Nat /\ MaxStages \in Nat

VARIABLES
  cache,    \* _RUNTIME_EVIDENCE_CACHE: its keys, the least recently used first
  flight,   \* _INFLIGHT_CACHE_CALLS: the future of a key, or 0
  futures,  \* every future made: pending, or what its owner made of it
  call,     \* the tool call of an agent: its program point, key and future
  kept,     \* evidence_cache of the question's state
  fresh,    \* what an agent's calls of this superstep add to it
  stage,    \* build_evidence_pack: its phase and its chains
  asked     \* stages and tool calls so far

cacheVars == <<cache, flight, futures, call, kept, fresh, stage, asked>>

Cached == ToSet(cache)

CacheTypeOK ==
  /\ Cached \subseteq Keys /\ Len(cache) = Cardinality(Cached) /\ Len(cache) <= CacheLimit
  /\ futures \in Seq({"pending", "item", "error"})
  /\ flight \in [Keys -> 0..Len(futures)]
  /\ call \in [Callers -> [at : {"idle", "missed", "waiting", "owner", "fetching", "stored",
                                  "closing"},
                            key : Keys, future : 0..Len(futures)]]
  /\ kept \subseteq Keys /\ fresh \in [Callers -> SUBSET Keys]
  /\ stage.phase \in {"idle", "primary", "notes", "agents"}
  /\ stage.chain \in [Keys -> {"none", "hit", "run", "found", "broken"}]
  /\ asked \in [stages : 0..MaxStages, calls : 0..MaxToolCalls]

NoChains == [phase |-> "idle", chain |-> [k \in Keys |-> "none"]]

CacheInit ==
  /\ cache = << >> /\ futures = << >> /\ flight = [k \in Keys |-> 0]
  /\ call = [a \in Callers |-> [at |-> "idle", key |-> CHOOSE k \in Keys : TRUE, future |-> 0]]
  /\ kept = {} /\ fresh = [a \in Callers |-> {}]
  /\ stage = NoChains /\ asked = [stages |-> 0, calls |-> 0]

(* move_to_end, and a store that drops the oldest over the limit.            *)
Touched(c, k) == IF k \in ToSet(c) THEN Append(RemoveFirst(c, k), k) ELSE c
Stored(c, k) ==
  LET with == Append(RemoveFirst(c, k), k)
  IN IF Len(with) > CacheLimit THEN Tail(with) ELSE with

-----------------------------------------------------------------------------
(* The evidence stage.  No agent is at work while it runs.                   *)

(* Every requirement of the plan is looked up on the question's thread       *)
(* before any chain starts, each key once.                                   *)
StartChains(phase, plan, known, before) ==
  /\ stage' = [phase |-> phase,
               chain |-> [k \in Keys |-> IF k \notin plan THEN "none"
                                         ELSE IF k \in known \union ToSet(before) THEN "hit"
                                         ELSE "run"]]
  /\ \E order \in SetToSeqs(plan \ known) : cache' = FoldLeft(Touched, before, order)

AgentsRest == \A a \in Callers : call[a].at = "idle"
Merged == kept \union UNION {fresh[a] : a \in Callers}

(* A question starts with an empty state, a follow-up round with what it has. *)
BuildEvidencePack(plan, known) ==
  /\ stage.phase \in {"idle", "agents"} /\ AgentsRest
  /\ known # {} => stage.phase = "agents" /\ known = Merged
  /\ asked.stages < MaxStages
  /\ asked' = [asked EXCEPT !.stages = @ + 1]
  /\ kept' = known /\ fresh' = [a \in Callers |-> {}]
  /\ StartChains("primary", plan, known, cache)
  /\ UNCHANGED <<flight, futures, call>>

(* A chain in the pool searches, and once more when nothing matched, even    *)
(* after a hit; a hit that matches adds nothing; a search may raise.         *)
Chain(k) ==
  /\ stage.chain[k] \in {"hit", "run"}
  /\ \E end \in {"found", "broken"} \union (IF stage.chain[k] = "hit" THEN {"none"} ELSE {}) :
       stage' = [stage EXCEPT !.chain[k] = end]
  /\ UNCHANGED <<cache, flight, futures, call, kept, fresh, asked>>

ChainsEnded(phase) ==
  stage.phase = phase /\ \A k \in Keys : stage.chain[k] \notin {"hit", "run"}
Ended(how) == {k \in Keys : stage.chain[k] = how}

(* The question's thread takes the results in plan order.  If a chain raised *)
(* the question fails, and this stage leaves nothing.                        *)
FailChains ==
  /\ \E phase \in {"primary", "notes"} : ChainsEnded(phase)
  /\ Ended("broken") # {}
  /\ stage' = NoChains
  /\ UNCHANGED <<cache, flight, futures, call, kept, fresh, asked>>

(* The notes the primary results refer to are searched after a barrier, but  *)
(* no key twice.                                                             *)
MergePrimary(notes) ==
  /\ ChainsEnded("primary") /\ Ended("broken") = {}
  /\ notes \subseteq {k \in Keys : stage.chain[k] = "none"}
  /\ kept' = kept \union Ended("found")
  /\ \E order \in SetToSeqs(Ended("found")) :
       StartChains("notes", notes, kept', FoldLeft(Stored, cache, order))
  /\ UNCHANGED <<flight, futures, call, fresh, asked>>

MergeNotes ==
  /\ ChainsEnded("notes") /\ Ended("broken") = {}
  /\ kept' = kept \union Ended("found")
  /\ \E order \in SetToSeqs(Ended("found")) : cache' = FoldLeft(Stored, cache, order)
  /\ stage' = [NoChains EXCEPT !.phase = "agents"]
  /\ UNCHANGED <<flight, futures, call, fresh, asked>>

-----------------------------------------------------------------------------
(* A tool call of an agent, _call_tool_for_agent_once.                       *)

(* Its state is that of the superstep's start and what its own calls added;  *)
(* a hit there or in the process cache ends the call.                        *)
LookUp(a, k) ==
  /\ stage.phase = "agents" /\ call[a].at = "idle" /\ asked.calls < MaxToolCalls
  /\ asked' = [asked EXCEPT !.calls = @ + 1]
  /\ IF k \in kept \union fresh[a] THEN UNCHANGED <<cache, call>>
     ELSE IF k \in Cached THEN cache' = Touched(cache, k) /\ UNCHANGED call
     ELSE /\ call' = [call EXCEPT ![a] = [at |-> "missed", key |-> k, future |-> 0]]
          /\ UNCHANGED cache
  /\ UNCHANGED <<flight, futures, kept, fresh, stage>>

(* _claim_inflight_cache_call: who finds a flight waits for its future.      *)
Claim(a) ==
  /\ call[a].at = "missed"
  /\ IF flight[call[a].key] # 0
       THEN /\ call' = [call EXCEPT ![a].at = "waiting", ![a].future = flight[call[a].key]]
            /\ UNCHANGED <<flight, futures>>
       ELSE /\ futures' = Append(futures, "pending")
            /\ flight' = [flight EXCEPT ![call[a].key] = Len(futures')]
            /\ call' = [call EXCEPT ![a].at = "owner", ![a].future = Len(futures')]
  /\ UNCHANGED <<cache, kept, fresh, stage, asked>>

Resolve(a, end) == futures' = [futures EXCEPT ![call[a].future] = end]
GoTo(a, at) == call' = [call EXCEPT ![a].at = at]

(* (mutated form: the owner goes straight to the backend.)                   *)
Recheck_Skipped(a) ==
  /\ call[a].at = "owner"
  /\ GoTo(a, "fetching")
  /\ UNCHANGED <<cache, flight, futures, kept, fresh, stage, asked>>

(* Between the miss and the claim another flight may have stored and left.   *)
Recheck(a) ==
  /\ call[a].at = "owner"
  /\ IF call[a].key \in Cached
       THEN cache' = Touched(cache, call[a].key) /\ Resolve(a, "item") /\ GoTo(a, "closing")
       ELSE GoTo(a, "fetching") /\ UNCHANGED <<cache, futures>>
  /\ UNCHANGED <<flight, kept, fresh, stage, asked>>

(* The backend answers: the entry is stored before the future is resolved.   *)
Fetch(a) ==
  /\ call[a].at = "fetching"
  /\ cache' = Stored(cache, call[a].key)
  /\ fresh' = [fresh EXCEPT ![a] = @ \union {call[a].key}]
  /\ GoTo(a, "stored")
  /\ UNCHANGED <<flight, futures, kept, stage, asked>>

Answer(a) ==
  /\ call[a].at = "stored"
  /\ Resolve(a, "item") /\ GoTo(a, "closing")
  /\ UNCHANGED <<cache, flight, kept, fresh, stage, asked>>

(* (mutated form: an error leaves the flight as it is.)                      *)
FetchFails_Forgotten(a) ==
  /\ call[a].at = "fetching"
  /\ GoTo(a, "idle")
  /\ UNCHANGED <<cache, flight, futures, kept, fresh, stage, asked>>

FetchFails(a) ==
  /\ call[a].at = "fetching"
  /\ Resolve(a, "error") /\ GoTo(a, "closing")
  /\ UNCHANGED <<cache, flight, kept, fresh, stage, asked>>

(* The owner removes the flight if it is still its own.                      *)
Close(a) ==
  /\ call[a].at = "closing" /\ GoTo(a, "idle")
  /\ flight' = [flight EXCEPT ![call[a].key] = IF @ = call[a].future THEN 0 ELSE @]
  /\ UNCHANGED <<cache, futures, kept, fresh, stage, asked>>

(* result() has no timeout.                                                  *)
Coalesce(a) ==
  /\ call[a].at = "waiting" /\ futures[call[a].future] # "pending"
  /\ GoTo(a, "idle")
  /\ UNCHANGED <<cache, flight, futures, kept, fresh, stage, asked>>

(* The agents' writes are merged when the superstep ends.                    *)
SuperstepEnds ==
  /\ stage.phase = "agents" /\ AgentsRest /\ Merged # kept
  /\ kept' = Merged /\ fresh' = [a \in Callers |-> {}]
  /\ UNCHANGED <<cache, flight, futures, call, stage, asked>>

Thread(a) ==
  Claim(a) \/ Recheck(a) \/ Fetch(a) \/ Answer(a) \/ FetchFails(a) \/ Close(a) \/ Coalesce(a)

CacheNext ==
  \/ \E plan \in SUBSET Keys, known \in {{}, Merged} : BuildEvidencePack(plan, known)
  \/ \E k \in Keys : Chain(k)
  \/ FailChains
  \/ \E notes \in SUBSET Keys : MergePrimary(notes)
  \/ MergeNotes
  \/ \E a \in Callers, k \in Keys : LookUp(a, k)
  \/ \E a \in Callers : Thread(a)
  \/ SuperstepEnds

CacheSpec == CacheInit /\ [][CacheNext]_cacheVars

-----------------------------------------------------------------------------
(* Properties. *)

(* One search serves all, although lookup, claim and store are separate      *)
(* steps of threads: while a call is at the backend, the process holds no    *)
(* entry for its key and no other call is at the backend for it; and a call  *)
(* that waits for another's search waits for one that somebody makes, or has *)
(* an end to take from it.                                                   *)
SearchIsShared ==
  /\ \A a \in Callers : call[a].at = "fetching" =>
       /\ call[a].key \notin Cached
       /\ \A b \in Callers \ {a} : call[b].at = "fetching" => call[b].key # call[a].key
  /\ \A a \in Callers :
       (call[a].at = "waiting" /\ futures[call[a].future] = "pending") =>
         \E b \in Callers : /\ call[b].at \in {"owner", "fetching", "stored"}
                            /\ call[b].future = call[a].future
=============================================================================
