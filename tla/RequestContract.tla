--------------------------- MODULE RequestContract ---------------------------
(***************************************************************************)
(* What the bridge promises the caller of a tool, one request at a time    *)
(* and with no word about queues, leases, sessions or frames.  The states  *)
(* condense RequestState of packages/core/src/bridge-service.ts.           *)
(*                                                                         *)
(*  - a request is answered at most once, and "ok" only after Studio did   *)
(*    the work;                                                            *)
(*  - an unknown outcome may later turn out to be ok, and nothing else     *)
(*    about an answered request changes while the server lives;            *)
(*  - only a mutation can end unknown, unless the server restarted;        *)
(*  - Studio does the work of a mutation at most once.                     *)
(***************************************************************************)
EXTENDS Integers

CONSTANTS
  Requests,
  Mutations,   \* requests whose work must not be repeated
  Executions   \* identities of the occasions on which Studio does work

VARIABLES
  outcome,   \* what the caller of each request was told
  work,      \* the executions of each request so far
  life       \* how often the server restarted

contractVars == <<outcome, work, life>>

Outcomes == {"unsent", "waiting", "ok", "error", "unknown", "forgotten"}

Init ==
  /\ outcome = [r \in Requests |-> "unsent"]
  /\ work = [r \in Requests |-> {}]
  /\ life = 0

\* The outcomes a request may pass to in one step of a living server.
Answers(r) ==
  {outcome[r]} \cup
  CASE outcome[r] = "unsent"  -> {"waiting"}
    [] outcome[r] = "waiting" -> {"error"}
                                   \cup (IF work[r] # {} THEN {"ok"} ELSE {})
                                   \cup (IF r \in Mutations THEN {"unknown"} ELSE {})
    [] outcome[r] = "unknown" -> IF work[r] # {} THEN {"ok"} ELSE {}
    [] OTHER -> {}

\* One event may answer several callers: a disconnect, a shutdown.
Answer ==
  /\ outcome' \in [Requests -> Outcomes]
  /\ \A r \in Requests : outcome'[r] \in Answers(r)
  /\ UNCHANGED <<work, life>>

\* Studio starts the work of r, if the caller still waits or not.
Work(r) ==
  /\ outcome[r] # "unsent"
  /\ r \in Mutations => work[r] = {}
  /\ \E x \in Executions \ work[r] : work' = [work EXCEPT ![r] = @ \cup {x}]
  /\ UNCHANGED <<outcome, life>>

\* A restart forgets what was sent.
Restart ==
  /\ life' = life + 1
  /\ outcome' = [r \in Requests |->
                   IF outcome[r] = "unsent" THEN "unsent" ELSE "forgotten"]
  /\ UNCHANGED work

Next == Answer \/ Restart \/ \E r \in Requests : Work(r)

Spec == Init /\ [][Next]_contractVars
=============================================================================
