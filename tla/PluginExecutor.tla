---------------------------- MODULE PluginExecutor ----------------------------
(***************************************************************************)
(* How a Studio plugin session executes deliveries: handleRequestOnce of   *)
(* studio-plugin/src/modules/Communication.ts.  A delivery of a request    *)
(* that runs is ignored, one of a request that ran is answered from a      *)
(* bounded cache, and any other starts a handler thread.                   *)
(*                                                                         *)
(* The module is open: deliveries of any request may come in any order and *)
(* number.  StudioBridge.tla connects it to the bridge.                    *)
(***************************************************************************)
EXTENDS Integers, Sequences, SequencesExt

CONSTANTS
  Sessions,     \* plugin sessions, each with its own memory
  Requests,     \* request ids
  Fences,       \* what a delivery carries besides the request
  NoFence,      \* the mark of a request that is not running
  CacheLimit,   \* COMPLETED_REQUEST_LIMIT (500 in the code)
  MaxRuns       \* bound on the executions of one request by one session

ASSUME PluginAssumption ==
  /\ CacheLimit \in Nat \ {0}
  /\ MaxRuns \in Nat \ {0}

VARIABLES
  alive,    \* sessions whose Studio process lives
  running,  \* activeRequests, with the fence the handler thread closed over
  cache,    \* completedRequests in completedRequestOrder, oldest first
  ran,      \* history: how often each session started the work of a request
  log       \* history: every completion of a session, oldest first

pluginVars == <<alive, running, cache, ran, log>>

Init ==
  /\ alive = Sessions
  /\ running = [s \in Sessions |-> [r \in Requests |-> NoFence]]
  /\ cache = [s \in Sessions |-> <<>>]
  /\ ran = [s \in Sessions |-> [r \in Requests |-> 0]]
  /\ log = [s \in Sessions |-> <<>>]

\* Fault: only the newest result is looked at.
CachedLast(s, r) == cache[s] # <<>> /\ Last(cache[s]).req = r

Cached(s, r)  == \E i \in DOMAIN cache[s] : cache[s][i].req = r
Running(s, r) == running[s][r] # NoFence

\* A delivery that is neither cached nor active: the thread is spawned.
Start(s, r, f) ==
  /\ s \in alive
  /\ ~Cached(s, r)
  /\ ~Running(s, r)
  /\ ran[s][r] < MaxRuns
  /\ running' = [running EXCEPT ![s][r] = f]
  /\ ran' = [ran EXCEPT ![s][r] = @ + 1]
  /\ UNCHANGED <<alive, cache, log>>

\* Faults: a full cache is emptied; the entry is keyed by the wrong field.
RememberedAfterClear(s, r, f) ==
  Append(IF Len(cache[s]) >= CacheLimit THEN <<>> ELSE cache[s],
         [req |-> r, attempt |-> f.attempt])
RememberedByAttempt(s, r, f) == Append(cache[s], [req |-> f.attempt, attempt |-> r])

\* The cache after r completed under fence f: the oldest entry makes room.
Remembered(s, r, f) ==
  Append(IF Len(cache[s]) >= CacheLimit THEN Tail(cache[s]) ELSE cache[s],
         [req |-> r, attempt |-> f.attempt])

\* The handler returned, or raised: both are a response.
Complete(s, r) ==
  /\ s \in alive
  /\ Running(s, r)
  /\ running' = [running EXCEPT ![s][r] = NoFence]
  /\ cache' = [cache EXCEPT ![s] = Remembered(s, r, running[s][r])]
  /\ log' = [log EXCEPT ![s] = Append(@, r)]
  /\ UNCHANGED <<alive, ran>>

\* Studio closes or crashes.  The next load of the plugin is another session.
Crash(s) ==
  /\ s \in alive
  /\ alive' = alive \ {s}
  /\ running' = [running EXCEPT ![s] = [r \in Requests |-> NoFence]]
  /\ cache' = [cache EXCEPT ![s] = <<>>]
  /\ UNCHANGED <<ran, log>>

Next ==
  \E s \in Sessions :
    \/ \E r \in Requests : Complete(s, r) \/ \E f \in Fences : Start(s, r, f)
    \/ Crash(s)

Spec == Init /\ [][Next]_pluginVars
-----------------------------------------------------------------------------
\* What the plugin remembers of a request: the delivery it was started with.
Results == [req : Requests, attempt : {f.attempt : f \in Fences}]

TypeOK ==
  /\ alive \subseteq Sessions
  /\ running \in [Sessions -> [Requests -> Fences \cup {NoFence}]]
  /\ cache \in [Sessions -> Seq(Results)]
  /\ ran \in [Sessions -> [Requests -> 0..MaxRuns]]
  /\ log \in [Sessions -> Seq(Requests)]

\* The cache and its eviction order hold exactly the last CacheLimit
\* completions, each once: an id that is evicted and run again must not leave a
\* second entry that later evicts the fresh result.
CacheIsRecentLog ==
  \A s \in alive :
    LET from == IF Len(log[s]) > CacheLimit THEN Len(log[s]) - CacheLimit + 1 ELSE 1
    IN  [i \in DOMAIN cache[s] |-> cache[s][i].req] = SubSeq(log[s], from, Len(log[s]))

\* "A repeated ID returns the cached result instead of running a mutation twice"
\* (docs/architecture.md), for as long as CacheLimit others have not completed
\* since: no request both runs and has a cached result, or runs again while it
\* is among the last completions.
NoRerunWithinWindow ==
  \A s \in alive : \A r \in Requests :
    Running(s, r) =>
      \A i \in DOMAIN log[s] : log[s][i] = r => i <= Len(log[s]) - CacheLimit

\* A request that comes again is answered from the cache while it is among the last
\* completions, in whichever order they ran: "A repeated ID returns the cached
\* result instead of running a mutation twice" (docs/architecture.md).
RepeatsAreAnswered == CacheIsRecentLog /\ NoRerunWithinWindow
=============================================================================
