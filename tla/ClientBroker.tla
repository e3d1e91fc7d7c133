----------------------------- MODULE ClientBroker -----------------------------
(***************************************************************************)
(* How the clients of a play session reach the MCP server:                 *)
(* studio-plugin/src/modules/ClientBroker.ts in the play-server DataModel. *)
(* A client may not use HTTP, so the server side registers a proxy for     *)
(* each player, polls in its name and calls the client.                    *)
(*                                                                         *)
(* Every HTTP call and the call of the client yield; a step is the code    *)
(* between two yields, or the MCP server at the other end.  A player is a  *)
(* value of Players that joins and leaves once.                            *)
(***************************************************************************)
EXTENDS Naturals

CONSTANTS
  Players,      \* players; each is given one proxy, known by the same name
  MaxRestarts   \* bound on the restarts of the MCP server

ASSUME BrokerAssumption == MaxRestarts \in Nat

VARIABLES
  playing,      \* whether the play session runs
  player,       \* where each player is: "away", "here" or "left"
  proxies,      \* proxyByPlayer: players that have an entry
  loop,         \* the thread of each player: registerProxy, then pollProxy
  leaving,      \* players whose POST /disconnect is on its way
  known,        \* players whose proxy the MCP server has registered
  restarts      \* restarts so far

brokerVars == <<playing, player, proxies, loop, leaving, known, restarts>>
-----------------------------------------------------------------------------
\* "asked" is a poll at the server; "told ..." its answer on the way back.
Loops == {"none", "registering", "idle", "asked", "told known", "told unknown",
          "told request", "in client", "registering again"}

BrokerInit ==
  /\ playing = TRUE
  /\ player = [p \in Players |-> "away"]
  /\ proxies = {}
  /\ loop = [p \in Players |-> "none"]
  /\ leaving = {}
  /\ known = {}
  /\ restarts = 0

Goes(p, at) == loop' = [loop EXCEPT ![p] = at]
-----------------------------------------------------------------------------
(* registerProxy and PlayerRemoving *)

Join(p) ==
  /\ playing /\ player[p] = "away"
  /\ player' = [player EXCEPT ![p] = "here"]
  /\ Goes(p, "registering")
  /\ UNCHANGED <<playing, proxies, leaving, known, restarts>>

\* POST /ready was answered.  The player may have left by now: the entry is made
\* all the same, and the loop that is spawned ends at once.
Registered(p) ==
  /\ loop[p] = "registering"
  /\ known' = known \cup {p}
  /\ proxies' = proxies \cup {p}
  /\ Goes(p, "idle")
  /\ UNCHANGED <<playing, player, leaving, restarts>>

\* POST /ready failed, perhaps after the server had registered the proxy.
\* Nobody tries again for this player.
RegisterFails(p) ==
  /\ loop[p] = "registering"
  /\ known' \in {known, known \cup {p}}
  /\ Goes(p, "none")
  /\ UNCHANGED <<playing, player, proxies, leaving, restarts>>

\* PlayerRemoving: unregisterProxy up to its /disconnect.
Leave(p) ==
  /\ player[p] = "here"
  /\ player' = [player EXCEPT ![p] = "left"]
  /\ proxies' = proxies \ {p}
  /\ leaving' = IF p \in proxies THEN leaving \cup {p} ELSE leaving
  /\ UNCHANGED <<playing, loop, known, restarts>>

\* BindToClose and the end of the DataModel with all its threads; a /ready that
\* is under way may still arrive.
CloseGame ==
  /\ playing
  /\ playing' = FALSE
  /\ player' = [p \in Players |-> IF player[p] = "here" THEN "left" ELSE player[p]]
  /\ leaving' = leaving \cup proxies
  /\ proxies' = {}
  /\ loop' = [p \in Players |-> "none"]
  /\ \E late \in SUBSET {p \in Players : loop[p] \in {"registering", "registering again"}} :
       known' = known \cup late
  /\ UNCHANGED restarts

\* POST /disconnect arrives, or is lost.
Disconnected(p) ==
  /\ p \in leaving
  /\ leaving' = leaving \ {p}
  /\ known' \in {known, known \ {p}}
  /\ UNCHANGED <<playing, player, proxies, loop, restarts>>
-----------------------------------------------------------------------------
(* pollProxy *)

\* Fault: the loop ends when the server does not know the proxy.
PollsOnWhileKnown(p) == player[p] = "here" /\ p \in proxies /\ p \in known
\* The test at the head of the loop.
PollsOn(p) == player[p] = "here" /\ p \in proxies

PollAgain(p) ==
  /\ loop[p] = "idle"
  /\ Goes(p, IF PollsOn(p) THEN "asked" ELSE "none")
  /\ UNCHANGED <<playing, player, proxies, leaving, known, restarts>>

\* The server answers GET /poll: with a request only for a proxy it knows.
PollAnswered(p) ==
  /\ loop[p] = "asked"
  /\ \E at \in IF p \in known THEN {"told known", "told request"} ELSE {"told unknown"} : Goes(p, at)
  /\ UNCHANGED <<playing, player, proxies, leaving, known, restarts>>

PollFails(p) ==
  /\ loop[p] = "asked"
  /\ Goes(p, "idle")
  /\ UNCHANGED <<playing, player, proxies, leaving, known, restarts>>

\* 401 or knownInstance = false: reRegisterProxy, whether or not the player is
\* still here.
ToldUnknown == "registering again"

PollHandled(p) ==
  /\ \/ loop[p] = "told known" /\ Goes(p, "idle")
     \/ loop[p] = "told unknown" /\ Goes(p, ToldUnknown)
     \/ loop[p] = "told request" /\ Goes(p, "in client")
  /\ UNCHANGED <<playing, player, proxies, leaving, known, restarts>>

\* InvokeClient returned, or raised because the client left; the response is sent.
ClientReturns(p) ==
  /\ loop[p] = "in client"
  /\ Goes(p, "idle")
  /\ UNCHANGED <<playing, player, proxies, leaving, known, restarts>>

\* reRegisterProxy: its /ready got through, or it was throttled, or failed like
\* the first one may.
RegisteredAgain(p) ==
  /\ loop[p] = "registering again"
  /\ known' = known \cup {p}
  /\ Goes(p, "idle")
  /\ UNCHANGED <<playing, player, proxies, leaving, restarts>>

RegisterAgainFails(p) ==
  /\ loop[p] = "registering again"
  /\ known' \in {known, known \cup {p}}
  /\ Goes(p, "idle")
  /\ UNCHANGED <<playing, player, proxies, leaving, restarts>>
-----------------------------------------------------------------------------
(* The MCP server *)

\* No poll for MCP_STALE_INSTANCE_MS: the loop is gone, or waits for its client.
Silent(p) == loop[p] \in {"none", "in client"}

Forget(p) ==
  /\ p \in known /\ Silent(p)
  /\ known' = known \ {p}
  /\ UNCHANGED <<playing, player, proxies, loop, leaving, restarts>>

RestartMcp ==
  /\ restarts < MaxRestarts
  /\ restarts' = restarts + 1
  /\ known' = {}
  /\ UNCHANGED <<playing, player, proxies, loop, leaving>>
-----------------------------------------------------------------------------
LoopStep(p) ==
  \/ PollAgain(p) \/ PollAnswered(p) \/ PollHandled(p) \/ ClientReturns(p) \/ RegisteredAgain(p)

BrokerNext ==
  \/ \E p \in Players :
       \/ Join(p) \/ Registered(p) \/ RegisterFails(p) \/ Leave(p) \/ Disconnected(p)
       \/ LoopStep(p) \/ PollFails(p) \/ RegisterAgainFails(p) \/ Forget(p)
  \/ CloseGame \/ RestartMcp

BrokerSpec == BrokerInit /\ [][BrokerNext]_brokerVars

\* Threads go on, a poll and a /ready that are tried again and again get through
\* once (SF), and the server's cleanup timer runs.
BrokerFairness ==
  \A p \in Players :
    /\ WF_brokerVars(Registered(p) \/ RegisterFails(p))
    /\ WF_brokerVars(PollAgain(p)) /\ WF_brokerVars(PollHandled(p))
    /\ WF_brokerVars(ClientReturns(p)) /\ WF_brokerVars(Forget(p))
    /\ SF_brokerVars(PollAnswered(p)) /\ SF_brokerVars(RegisteredAgain(p))
-----------------------------------------------------------------------------
\* The broker's table, threads and messages are well-formed.
BrokerTypeOK ==
  /\ playing \in BOOLEAN
  /\ player \in [Players -> {"away", "here", "left"}]
  /\ proxies \subseteq Players
  /\ loop \in [Players -> Loops]
  /\ leaving \subseteq Players
  /\ known \subseteq Players
  /\ restarts \in 0..MaxRestarts

\* The table says who is polled for: a player that has an entry and is here has
\* a loop, and one that is here without an entry never has one.
EntryMeansLoop ==
  \A p \in Players : player[p] = "here" =>
    (p \in proxies <=> loop[p] \notin {"none", "registering"})

\* A client that was registered once is found again: after a restart of the MCP
\* server, or after it was given up while its client was busy, it is registered
\* anew as long as the player stays.
ProxyComesBack ==
  \A p \in Players :
    (p \in proxies /\ player[p] = "here") ~> (p \in known \/ player[p] = "left")

\* A player that left leaves no peer behind: not even one that was registered
\* again by a poll that crossed the disconnect, or whose /ready was under way.
GhostsVanish ==
  \A p \in Players : (player[p] = "left") ~> (p \notin known)
=============================================================================
