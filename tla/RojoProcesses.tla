---------------------------- MODULE RojoProcesses ----------------------------
(***************************************************************************)
(* The managed `rojo serve` processes of the MCP server: the class         *)
(* RojoProcessManager of packages/core/src/rojo/process-manager.ts.        *)
(*                                                                         *)
(* start and stop are asynchronous and shared by every tool call of the    *)
(* server; a step of this module is the code between two awaits, with the  *)
(* microtasks that run before the next event.  A child process is a value  *)
(* of Children, used once.  Time is not modelled: a timer may fire as soon *)
(* as it is set.                                                           *)
(***************************************************************************)
EXTENDS FiniteSets

CONSTANTS
  Projects,      \* canonical project files
  Ports,         \* loopback ports a serve may ask for
  Children,      \* child processes that can be spawned
  NoChild,       \* "undefined" as a child
  SignalDeaths,  \* whether a child may die of a signal nobody here sent
  LateExits      \* whether an exit may be seen 500 ms after SIGKILL or later

ASSUME RojoAssumption ==
  /\ NoChild \notin Children
  /\ SignalDeaths \in BOOLEAN
  /\ LateExits \in BOOLEAN

VARIABLES
  tracked,    \* processes: the child kept for each project
  starting,   \* starts: the startOnce in progress for each project
  child,      \* the children: project, port, status and life
  exitCode,   \* children whose exitCode Node knows: not those a signal ended
  bound,      \* children that took their port
  stops,      \* the calls of stop that wait; alike ones are one
  sweep       \* stopAll: its phase and the children it could not see

rojoVars == <<tracked, starting, child, exitCode, bound, stops, sweep>>
-----------------------------------------------------------------------------
StartPhases == {"none", "checking", "checked", "waiting", "settling",
                "terminating", "killing"}
StopPhases  == {"awaiting", "terminating", "killing"}
Statuses    == {"unborn", "starting", "running", "exited", "stopped"}
Lives       == {"unborn", "alive", "exiting", "killed", "gone"}

Unborn  == [project |-> NoChild, port |-> NoChild, status |-> "unborn", life |-> "unborn"]
NoStart == [phase |-> "none", port |-> NoChild, child |-> NoChild]

Starts == [phase : StartPhases, port : Ports \cup {NoChild}, child : Children \cup {NoChild}]
Stopping == [by : {"stop", "stopAll"}, phase : StopPhases, project : Projects,
             child : Children \cup {NoChild}]

Alive(c) == child[c].life = "alive"

PortFree(n) == \A c \in bound : Alive(c) => child[c].port # n

RojoInit ==
  /\ tracked = [p \in Projects |-> NoChild]
  /\ starting = [p \in Projects |-> NoStart]
  /\ child = [c \in Children |-> Unborn]
  /\ exitCode = {}
  /\ bound = {}
  /\ stops = {}
  /\ sweep = [phase |-> "none", missed |-> {}]
-----------------------------------------------------------------------------
(* start *)

\* start joins a start in progress, and startOnce returns the child that is
\* starting or running; neither changes anything.
MayStart(p) ==
  /\ starting[p] = NoStart
  /\ tracked[p] # NoChild => child[tracked[p]].status \notin {"starting", "running"}

\* startOnce up to assertPortAvailable: a child that ended is forgotten.
Start(p, at) ==
  /\ MayStart(p)
  /\ tracked' = [tracked EXCEPT ![p] = NoChild]
  /\ starting' = [starting EXCEPT ![p] = [NoStart EXCEPT !.phase = "checking", !.port = at]]
  /\ UNCHANGED <<child, exitCode, bound, stops, sweep>>

PortChecked(p) ==
  /\ starting[p].phase = "checking"
  /\ PortFree(starting[p].port)
  /\ starting' = [starting EXCEPT ![p].phase = "checked"]
  /\ UNCHANGED <<tracked, child, exitCode, bound, stops, sweep>>

\* The calls of stop that wait for the start of p.
Awaiting(p) == {k \in stops : k.phase = "awaiting" /\ k.project = p}

\* The port is taken or there is no usable Rojo.  A stop that waited finds
\* no child and returns.
StartRefused(p) ==
  /\ starting[p].phase \in {"checking", "checked"}
  /\ starting' = [starting EXCEPT ![p] = NoStart]
  /\ stops' = stops \ Awaiting(p)
  /\ UNCHANGED <<tracked, child, exitCode, bound, sweep>>

\* A spawn that fails emits "error" before anything else happens, and has no
\* exit code, like a child that a signal killed.
Spawn(p, c) ==
  /\ starting[p].phase = "checked"
  /\ child[c] = Unborn
  /\ \E end \in {<<"starting", "alive">>, <<"exited", "gone">>} :
       child' = [child EXCEPT ![c] = [project |-> p, port |-> starting[p].port,
                                      status |-> end[1], life |-> end[2]]]
  /\ tracked' = [tracked EXCEPT ![p] = c]
  /\ starting' = [starting EXCEPT ![p].phase = "waiting", ![p].child = c]
  /\ UNCHANGED <<exitCode, bound, stops, sweep>>

\* readServerInfo was answered, by whichever Rojo holds the port: the child may
\* have ended since it was asked.
Answered(p) ==
  /\ starting[p].phase = "waiting"
  /\ ~PortFree(starting[p].port)
  /\ starting' = [starting EXCEPT ![p].phase = "settling"]
  /\ UNCHANGED <<tracked, child, exitCode, bound, stops, sweep>>

\* Fault: the status is not read again after the await.
OutlivedByCode(c) == c \notin exitCode

\* The child outlived OWNERSHIP_SETTLE_MS.  Nobody asks who owns the port: the
\* child may have it, be on its way to it or be on its way to EADDRINUSE.
Outlived(c) == child[c].status = "starting" /\ c \notin exitCode

\* start returns "running"; a stop that waited goes on and sends SIGTERM.
StartReady(p) ==
  LET c == starting[p].child IN
  /\ starting[p].phase = "settling"
  /\ Outlived(c)
  /\ child' = [child EXCEPT ![c].status = "running"]
  /\ starting' = [starting EXCEPT ![p] = NoStart]
  /\ stops' = (stops \ Awaiting(p)) \cup
              {[k EXCEPT !.phase = "terminating", !.child = c] : k \in Awaiting(p)}
  /\ UNCHANGED <<tracked, exitCode, bound, sweep>>

\* A start that failed ends: it drops whatever its project has.
StartDropped(p) ==
  /\ tracked' = [tracked EXCEPT ![p] = NoChild]
  /\ starting' = [starting EXCEPT ![p] = NoStart]
  /\ stops' = stops \ Awaiting(p)

\* The loop ended without readiness, because the child exited, another Rojo
\* answered or the deadline passed: terminateChild, which returns at once for
\* a child with an exit code.
StartFails(p) ==
  /\ starting[p].phase \in {"waiting", "settling"}
  /\ IF starting[p].child \in exitCode
     THEN StartDropped(p)
     ELSE /\ starting' = [starting EXCEPT ![p].phase = "terminating"]
          /\ UNCHANGED <<tracked, stops>>
  /\ UNCHANGED <<child, exitCode, bound, sweep>>
-----------------------------------------------------------------------------
(* stop and stopAll *)

\* Fault: stop does not wait for a start in progress.
StartOfIgnored(p) == NoStart
StartOf(p) == starting[p]

\* stop, for the projects in P, up to its first await.  A child with an exit
\* code is marked and forgotten at once.
BeginStop(P, by) ==
  LET waiting == {p \in P : StartOf(p) # NoStart}
      found   == {p \in P \ waiting : tracked[p] # NoChild}
      gone    == {p \in found : tracked[p] \in exitCode}
  IN
  /\ stops' = stops
       \cup {[by |-> by, phase |-> "awaiting", project |-> p, child |-> NoChild] : p \in waiting}
       \cup {[by |-> by, phase |-> "terminating", project |-> p, child |-> tracked[p]] :
               p \in found \ gone}
  /\ tracked' = [p \in Projects |-> IF p \in gone THEN NoChild ELSE tracked[p]]
  /\ child' = [c \in Children |-> IF c \in {tracked[p] : p \in gone}
                                  THEN [child[c] EXCEPT !.status = "stopped"] ELSE child[c]]

Stop(p) ==
  /\ BeginStop({p}, "stop")
  /\ UNCHANGED <<starting, exitCode, bound, sweep>>

\* Fault: only children known to be running are stopped.
SweptRunning == {p \in Projects : tracked[p] # NoChild /\ child[tracked[p]].status = "running"}

Swept == {p \in Projects : tracked[p] # NoChild}

\* stopAll, at shutdown.  The children still unborn are those it cannot see.
StopAll ==
  /\ sweep.phase = "none"
  /\ BeginStop(Swept, "stopAll")
  /\ sweep' = [phase |-> "sweeping", missed |-> {c \in Children : child[c] = Unborn}]
  /\ UNCHANGED <<starting, exitCode, bound>>

StopAllReturns ==
  /\ sweep.phase = "sweeping"
  /\ \A k \in stops : k.by # "stopAll"
  /\ sweep' = [sweep EXCEPT !.phase = "over"]
  /\ UNCHANGED <<tracked, starting, child, exitCode, bound, stops>>
-----------------------------------------------------------------------------
(* terminateChild, and the ends of children *)

Terminators(c) == {k \in stops : k.child = c}

Condemned(c) ==
  Terminators(c) # {} \/ \E p \in Projects :
    starting[p].child = c /\ starting[p].phase \in {"terminating", "killing"}

\* The grace of 2000 ms is over: SIGKILL.
Kill(c) == child' = [child EXCEPT ![c].life = IF Alive(c) THEN "killed" ELSE @]

StopKills(k) ==
  /\ k.phase = "terminating"
  /\ stops' = (stops \ {k}) \cup {[k EXCEPT !.phase = "killing"]}
  /\ Kill(k.child)
  /\ UNCHANGED <<tracked, starting, exitCode, bound, sweep>>

StartKills(p) ==
  /\ starting[p].phase = "terminating"
  /\ starting' = [starting EXCEPT ![p].phase = "killing"]
  /\ Kill(starting[p].child)
  /\ UNCHANGED <<tracked, exitCode, bound, stops, sweep>>

\* No exit was seen within the last 500 ms either, so that of a child without
\* exit code was seen before: stop and start go on.
NoExitSeen(c) == LateExits \/ child[c].life = "gone"

StopGivesUp(k) ==
  /\ k.phase = "killing"
  /\ NoExitSeen(k.child)
  /\ stops' = stops \ {k}
  /\ tracked' = [tracked EXCEPT ![k.project] = NoChild]
  /\ child' = [child EXCEPT ![k.child].status = "stopped"]
  /\ UNCHANGED <<starting, exitCode, bound, sweep>>

StartGivesUp(p) ==
  /\ starting[p].phase = "killing"
  /\ NoExitSeen(starting[p].child)
  /\ StartDropped(p)
  /\ UNCHANGED <<child, exitCode, bound, sweep>>

\* The child takes its port.
Bind(c) ==
  /\ Alive(c) /\ c \notin bound /\ PortFree(child[c].port)
  /\ bound' = bound \cup {c}
  /\ UNCHANGED <<tracked, starting, child, exitCode, stops, sweep>>

\* The child ends by itself (EADDRINUSE, a crash), or by a signal.
Ends(c) ==
  /\ Alive(c)
  /\ \E life \in {"exiting"} \cup (IF SignalDeaths \/ Condemned(c) THEN {"killed"} ELSE {}) :
       child' = [child EXCEPT ![c].life = life]
  /\ UNCHANGED <<tracked, starting, exitCode, bound, stops, sweep>>

\* The "exit" event: the listeners of startOnce and of every terminateChild
\* that waits for c run, and with them the rest of those calls.
Exit(c) ==
  LET dropping == {p \in Projects : starting[p].child = c
                                    /\ starting[p].phase \in {"terminating", "killing"}}
      gone     == {k.project : k \in Terminators(c)} \cup dropping
  IN
  /\ child[c].life \in {"exiting", "killed"}
  /\ exitCode' = IF child[c].life = "exiting" THEN exitCode \cup {c} ELSE exitCode
  /\ child' = [child EXCEPT ![c].life = "gone",
                            ![c].status = IF Terminators(c) # {} THEN "stopped" ELSE "exited"]
  /\ tracked' = [p \in Projects |-> IF p \in gone THEN NoChild ELSE tracked[p]]
  /\ starting' = [p \in Projects |-> IF p \in dropping THEN NoStart ELSE starting[p]]
  /\ stops' = stops \ (Terminators(c) \cup UNION {Awaiting(p) : p \in dropping})
  /\ UNCHANGED <<bound, sweep>>
-----------------------------------------------------------------------------
StartSteps(p) ==
  \/ PortChecked(p) \/ StartRefused(p) \/ \E c \in Children : Spawn(p, c)
  \/ Answered(p) \/ StartReady(p) \/ StartFails(p) \/ StartKills(p) \/ StartGivesUp(p)

StopStep(k) == k \in stops /\ (StopKills(k) \/ StopGivesUp(k))

RojoNext ==
  \/ \E p \in Projects :
       \/ StartSteps(p) \/ Stop(p) \/ \E at \in Ports : Start(p, at)
  \/ StopAll \/ StopAllReturns \/ \E k \in stops : StopStep(k)
  \/ \E c \in Children : Bind(c) \/ Ends(c) \/ Exit(c)

RojoSpec == RojoInit /\ [][RojoNext]_rojoVars

\* Every await of start and stop is on a timer or on a request with a timeout,
\* and the end of a child is reported to Node.
RojoFairness ==
  /\ \A p \in Projects :
       WF_rojoVars(StartRefused(p) \/ StartFails(p) \/ StartKills(p) \/ StartGivesUp(p))
  /\ \A k \in Stopping : WF_rojoVars(StopStep(k))
  /\ WF_rojoVars(StopAllReturns)
  /\ \A c \in Children : WF_rojoVars(Exit(c))
-----------------------------------------------------------------------------
\* The manager's maps and the states of its calls are well-formed.
RojoTypeOK ==
  /\ tracked \in [Projects -> Children \cup {NoChild}]
  /\ starting \in [Projects -> Starts]
  /\ child \in [Children -> [project : Projects \cup {NoChild}, port : Ports \cup {NoChild},
                             status : Statuses, life : Lives]]
  /\ exitCode \subseteq Children
  /\ bound \subseteq Children
  /\ stops \subseteq Stopping
  /\ sweep \in [phase : {"none", "sweeping", "over"}, missed : SUBSET Children]

\* A child that runs is in the hands of the manager: it is the one kept for its
\* project, so that status, logs, stop and stopAll reach it.
NoOrphan == \A c \in Children : Alive(c) => tracked[child[c].project] = c

\* "Start one managed loopback-only rojo serve process for the selected
\* canonical project" (docs/tools-reference.md): no interleaving of starts and
\* stops leaves a project with two.
OneServePerProject ==
  \A c, d \in Children :
    Alive(c) /\ Alive(d) /\ child[c].project = child[d].project => c = d

\* "readiness must not overwrite that": whatever start and stop wait for, a
\* child seen to exit is never reported running afterwards.
ExitIsFinal ==
  [][\A c \in Children :
       child[c].status \in {"exited", "stopped"} =>
         child'[c].status \in {"exited", "stopped"}]_rojoVars

\* When stopAll returns, all that it could see has ended; what still runs was
\* spawned by a start that had not come to its spawn.
SweepLeavesOnlyUnseen ==
  sweep.phase = "over" => \A c \in Children : Alive(c) => c \in sweep.missed

\* No call hangs: a start and the stops that wait for it or for a child that
\* ignores SIGTERM all end.
CallsReturn ==
  /\ \A p \in Projects : (starting[p] # NoStart) ~> (starting[p] = NoStart)
  /\ (sweep.phase = "sweeping") ~> (sweep.phase = "over")
=============================================================================
