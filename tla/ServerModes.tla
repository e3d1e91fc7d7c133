----------------------------- MODULE ServerModes -----------------------------
(***************************************************************************)
(* Several MCP servers beside one Studio: run of packages/core/src/        *)
(* server.ts, the bridge of a secondary server (proxy-bridge-service.ts)   *)
(* and the route /proxy of http-server.ts.                                 *)
(*                                                                         *)
(* The server that holds the base port is the primary; the others forward  *)
(* their calls to whoever holds it, and one of them promotes itself when   *)
(* the port is free.  The queue of a primary is reduced to what a call     *)
(* from another process can tell apart; BridgeService.tla has the rest.    *)
(***************************************************************************)
EXTENDS Naturals

CONSTANTS
  Servers,       \* server processes, each started once
  NoServer,      \* nobody
  Calls,         \* tool calls, each one bridge request
  Mutating,      \* the calls whose endpoint is a mutation
  PluginStreams, \* whether the plugin keeps a WebSocket open, or polls
  Killable,      \* servers that may die without a shutdown
  Episodic       \* servers that run playtest episodes

ASSUME ModesAssumption ==
  /\ NoServer \notin Servers
  /\ Mutating \subseteq Calls
  /\ PluginStreams \in BOOLEAN
  /\ Killable \cup Episodic \subseteq Servers

VARIABLES
  mode,     \* the life of each server
  forwards, \* servers whose bridge is a ProxyBridgeService
  tools,    \* how often each server replaced its RobloxStudioTools
  port,     \* who listens on the base port
  plugin,   \* the server whose plugin routes Studio is connected to
  entry,    \* what the bridge that took a call knows of it, and which one; whether its
            \* lease ever lapsed
  caller,   \* what the server that made the call knows of it
  studio,   \* calls that Studio has received, and those it has run
  episodes  \* servers that stored an episode, and those that pushed one

modeVars == <<mode, forwards, tools, port, plugin, entry, caller, studio, episodes>>
-----------------------------------------------------------------------------
Modes    == {"off", "on", "stopping", "closing", "gone"}
Outcomes == {"ok", "failed", "timeout", "unknown", "lost"}
Stages   == {"none", "queued", "delivered", "started", "settled"}
Active   == {"queued", "delivered", "started"}

Running(s) == mode[s] \notin {"off", "gone"}
Asleep     == [by |-> NoServer, forwarded |-> FALSE, out |-> "none"]

\* Calls that wait in the queue of s, and those of them another process waits for.
PendingAt(s) == {c \in Calls : entry[c].at = s /\ entry[c].stage \in Active}
Waiting(c)   == caller[c].out = "waiting"
OpenHttp(s)  == {c \in PendingAt(s) : Waiting(c) /\ caller[c].forwarded}

\* The callers of the calls in C that still listen are told out.
Told(C, out) ==
  [c \in Calls |-> IF c \in C /\ Waiting(c) THEN [caller[c] EXCEPT !.out = out] ELSE caller[c]]
Settled(C) ==
  [c \in Calls |-> IF c \in C THEN [entry[c] EXCEPT !.stage = "settled"] ELSE entry[c]]

ModesInit ==
  /\ mode = [s \in Servers |-> "off"]
  /\ forwards = {}
  /\ tools = [s \in Servers |-> 0]
  /\ port = NoServer
  /\ plugin = NoServer
  /\ entry = [c \in Calls |-> [at |-> NoServer, stage |-> "none", lapsed |-> FALSE]]
  /\ caller = [c \in Calls |-> Asleep]
  /\ studio = [got |-> {}, ran |-> {}]
  /\ episodes = [stored |-> {}, pushed |-> {}]
-----------------------------------------------------------------------------
(* run: the first bind, and promotion *)

StartPrimary(s) ==
  /\ mode[s] = "off" /\ port = NoServer
  /\ mode' = [mode EXCEPT ![s] = "on"]
  /\ port' = s
  /\ UNCHANGED <<forwards, tools, plugin, entry, caller, studio, episodes>>

\* EADDRINUSE: another bridge, and tools of its own.
StartProxy(s) ==
  /\ mode[s] = "off" /\ port # NoServer
  /\ mode' = [mode EXCEPT ![s] = "on"]
  /\ forwards' = forwards \cup {s}
  /\ tools' = [tools EXCEPT ![s] = @ + 1]
  /\ UNCHANGED <<port, plugin, entry, caller, studio, episodes>>

\* Fault: the candidate takes its place before the bind has succeeded.
CanBindAlways(s) == TRUE

CanBind(s) == port = NoServer

\* A tick of the promotion timer that binds: bridge and tools are replaced by
\* empty ones; the calls in flight stay with the old ones.
Promote(s) ==
  /\ mode[s] = "on" /\ s \in forwards
  /\ CanBind(s)
  /\ port' = s
  /\ forwards' = forwards \ {s}
  /\ tools' = [tools EXCEPT ![s] = @ + 1]
  /\ UNCHANGED <<mode, plugin, entry, caller, studio, episodes>>
-----------------------------------------------------------------------------
(* Calls *)

\* sendRequest of a primary.
CallOwn(s, c) ==
  /\ mode[s] \in {"on", "stopping"} /\ s \notin forwards
  /\ caller[c] = Asleep
  /\ entry' = [entry EXCEPT ![c] = [at |-> s, stage |-> "queued", lapsed |-> FALSE]]
  /\ caller' = [caller EXCEPT ![c] = [by |-> s, forwarded |-> FALSE, out |-> "waiting"]]
  /\ UNCHANGED <<mode, forwards, tools, port, plugin, studio, episodes>>

\* sendRequest of a proxy: POST /proxy to whoever holds the port, or a refused
\* connection.
CallForwarded(s, c) ==
  /\ mode[s] \in {"on", "stopping"} /\ s \in forwards
  /\ caller[c] = Asleep
  /\ entry' = IF port = NoServer THEN entry
              ELSE [entry EXCEPT ![c] = [at |-> port, stage |-> "queued", lapsed |-> FALSE]]
  /\ caller' = [caller EXCEPT ![c] =
                  [by |-> s, forwarded |-> TRUE,
                   out |-> IF port = NoServer THEN "lost" ELSE "waiting"]]
  /\ UNCHANGED <<mode, forwards, tools, port, plugin, studio, episodes>>

\* A poll needs a server that accepts it; an open stream lives on.
Reaches(s) == s # NoServer /\ Running(s) /\ (PluginStreams \/ port = s)

\* getPendingRequest: the leases in L, whose calls were not acknowledged, have
\* lapsed; those calls are queued again and the plugin takes one of the queue.
Lapsable == {c \in Calls : entry[c].stage = "delivered" /\ entry[c].at = plugin}
Dispatch(c, L) ==
  /\ entry[c].stage = "queued" \/ c \in L
  /\ entry[c].at = plugin /\ Reaches(plugin)
  /\ entry' = [x \in Calls |->
                 [entry[x] EXCEPT !.stage = IF x = c THEN "delivered" ELSE IF x \in L THEN "queued" ELSE @,
                                  !.lapsed = @ \/ x \in L]]
  /\ studio' = [studio EXCEPT !.got = @ \cup {c}]
  /\ UNCHANGED <<mode, forwards, tools, port, plugin, caller, episodes>>

\* The plugin's /ack, from a thread of its own.
Acknowledged(c) ==
  /\ c \in studio.got
  /\ entry[c].stage = "delivered" /\ entry[c].at = plugin
  /\ Reaches(plugin)
  /\ entry' = [entry EXCEPT ![c].stage = "started"]
  /\ UNCHANGED <<mode, forwards, tools, port, plugin, caller, studio, episodes>>

\* The handler runs whatever has become of the call; its answer settles the call
\* if the server that took it still waits.
RunInStudio(c) ==
  /\ c \in studio.got /\ c \notin studio.ran
  /\ studio' = [studio EXCEPT !.ran = @ \cup {c}]
  /\ UNCHANGED <<mode, forwards, tools, port, plugin, entry, caller, episodes>>

Answer(c) ==
  /\ c \in studio.ran
  /\ entry[c].stage \in {"delivered", "started"} /\ entry[c].at = plugin
  /\ Reaches(plugin)
  /\ entry' = Settled({c})
  /\ caller' = Told({c}, "ok")
  /\ UNCHANGED <<mode, forwards, tools, port, plugin, studio, episodes>>

\* Fault: a call that times out is always a plain failure.
ExpiryPlain(c) == "timeout"

\* expireRequest: what the primary says when its timer fires.
Expiry(c) ==
  IF c \in Mutating /\ entry[c].stage \in {"delivered", "started"} THEN "unknown" ELSE "timeout"

\* Fault: the timer is cleared when the plugin takes the call.
TimedQueued(c) == entry[c].stage = "queued"

Timed(c) == entry[c].stage \in Active

PrimaryTimer(c) ==
  /\ Timed(c)
  /\ Running(entry[c].at)
  /\ entry' = Settled({c})
  /\ caller' = Told({c}, Expiry(c))
  /\ UNCHANGED <<mode, forwards, tools, port, plugin, studio, episodes>>

\* AbortError: the primary is not told, and its entry lives on.
Aborted(c) == IF c \in Mutating THEN "unknown" ELSE "timeout"

ProxyTimer(c) ==
  /\ Waiting(c) /\ caller[c].forwarded
  /\ caller' = Told({c}, Aborted(c))
  /\ UNCHANGED <<mode, forwards, tools, port, plugin, entry, studio, episodes>>
-----------------------------------------------------------------------------
(* Episodes *)

\* run_playtest_episode stores an episode in the tools of now; the listener that
\* pushes resources/updated was added to the tools of the constructor.
StoreEpisode(s) ==
  /\ mode[s] = "on" /\ s \in Episodic
  /\ episodes' = [stored |-> episodes.stored \cup {s},
                  pushed |-> IF tools[s] = 0 THEN episodes.pushed \cup {s} ELSE episodes.pushed]
  /\ UNCHANGED <<mode, forwards, tools, port, plugin, entry, caller, studio>>
-----------------------------------------------------------------------------
(* Shutdown and death *)

\* clearAllPendingRequests, which for a proxy does nothing.
Shutdown(s) ==
  LET dropped == IF s \in forwards THEN {} ELSE PendingAt(s) IN
  /\ mode[s] = "on"
  /\ mode' = [mode EXCEPT ![s] = "stopping"]
  /\ entry' = Settled(dropped)
  /\ caller' = Told(dropped, "failed")
  /\ UNCHANGED <<forwards, tools, port, plugin, studio, episodes>>

\* handle.close: nobody new is accepted, and everybody who is connected stays.
StopListening(s) ==
  /\ mode[s] = "stopping"
  /\ mode' = [mode EXCEPT ![s] = "closing"]
  /\ port' = IF port = s THEN NoServer ELSE port
  /\ UNCHANGED <<forwards, tools, plugin, entry, caller, studio, episodes>>

\* Connections that keep the handle from being closed: requests without an
\* answer, and the stream of the plugin, which only the "close" event ends.
HeldOpen(s) == OpenHttp(s) # {} \/ (PluginStreams /\ plugin = s)

\* What is left of a server that ends: a fetch to it fails with a network error.
Gone(s) ==
  /\ mode' = [mode EXCEPT ![s] = "gone"]
  /\ port' = IF port = s THEN NoServer ELSE port
  /\ plugin' = IF plugin = s THEN NoServer ELSE plugin
  /\ entry' = Settled(PendingAt(s))
  /\ caller' = [c \in Calls |->
       IF Waiting(c) /\ (c \in PendingAt(s) \/ caller[c].by = s)
       THEN [caller[c] EXCEPT !.out = "lost"] ELSE caller[c]]
  /\ UNCHANGED <<forwards, tools, studio, episodes>>

Exits(s) == mode[s] = "closing" /\ ~HeldOpen(s) /\ Gone(s)

Killed(s) == s \in Killable /\ Running(s) /\ Gone(s)

\* The plugin finds a server: at once when it polls, and only after its stream
\* ended when it has one.
PluginConnects ==
  /\ port # NoServer /\ plugin # port
  /\ PluginStreams => plugin = NoServer
  /\ plugin' = port
  /\ UNCHANGED <<mode, forwards, tools, port, entry, caller, studio, episodes>>
-----------------------------------------------------------------------------
ModesNext ==
  \/ \E s \in Servers :
       \/ StartPrimary(s) \/ StartProxy(s) \/ Promote(s) \/ StoreEpisode(s)
       \/ Shutdown(s) \/ StopListening(s) \/ Exits(s) \/ Killed(s)
       \/ \E c \in Calls : CallOwn(s, c) \/ CallForwarded(s, c)
  \/ \E c \in Calls :
       \/ \E L \in SUBSET Lapsable : Dispatch(c, L)
       \/ Acknowledged(c) \/ RunInStudio(c) \/ Answer(c) \/ PrimaryTimer(c) \/ ProxyTimer(c)
  \/ PluginConnects

ModesSpec == ModesInit /\ [][ModesNext]_modeVars

\* Timers fire, a shutdown goes on, and the plugin keeps looking for a server.
ModesFairness ==
  /\ \A s \in Servers : WF_modeVars(Promote(s)) /\ WF_modeVars(StopListening(s))
                        /\ WF_modeVars(Exits(s))
  /\ \A c \in Calls : WF_modeVars(PrimaryTimer(c)) /\ WF_modeVars(ProxyTimer(c))
  /\ WF_modeVars(PluginConnects)
-----------------------------------------------------------------------------
\* The servers, the port and the calls have the values the code gives them.
ModesTypeOK ==
  /\ mode \in [Servers -> Modes]
  /\ forwards \subseteq Servers
  /\ tools \in [Servers -> 0..2]
  /\ {port, plugin} \subseteq Servers \cup {NoServer}
  /\ entry \in [Calls -> [at : Servers \cup {NoServer}, stage : Stages, lapsed : BOOLEAN]]
  /\ caller \in [Calls -> [by : Servers \cup {NoServer}, forwarded : BOOLEAN,
                           out : {"none", "waiting"} \cup Outcomes]]
  /\ studio \in [got : SUBSET Calls, ran : SUBSET Calls]
  /\ episodes \in [stored : SUBSET Servers, pushed : SUBSET Servers]

\* "The plugin only polls basePort": a server that serves its own queue holds the
\* base port as long as it accepts anything, so no queue is without a consumer.
OneQueueServed ==
  \A s \in Servers : mode[s] \in {"on", "stopping"} /\ s \notin forwards => port = s

\* A lapsed lease is the only way to a plain timeout of a mutation that Studio has:
\* neither the two timers nor proxies, promotions and deaths of servers are another.
TimedOutRanAfterLapse ==
  \A c \in Mutating : caller[c].out = "timeout" /\ c \in studio.got => entry[c].lapsed

\* Nobody hangs: a call that was made is answered, or its server ends.
CallsAnswered == \A c \in Calls : Waiting(c) ~> ~Waiting(c)

\* When the primary is gone and a proxy lives on, the base port is taken again.
PortTakenOver ==
  (port = NoServer /\ \E s \in Servers : mode[s] = "on" /\ s \in forwards)
    ~> (port # NoServer \/ \A s \in Servers : mode[s] # "on")

\* "Shutdown ... closes promotion timers and HTTP handles, and then exits"
\* (CHANGELOG.md).
ShutdownExits == \A s \in Servers : (mode[s] = "stopping") ~> (mode[s] = "gone")

\* "when run_playtest_episode stores a new one we push resources/updated so the
\* agent can react without polling" (server.ts).
EpisodesPushed == episodes.stored \subseteq episodes.pushed
=============================================================================
