---------------------------- MODULE ManagedStudios ----------------------------
(***************************************************************************)
(* manage_instance: Studio processes the server launches, finds among the  *)
(* others, attaches to a connected plugin and closes                       *)
(* (core/src/studio-instance-manager.ts, manageInstance of                 *)
(* core/src/tools/index.ts), with the records on disk that outlive the     *)
(* server (core/src/managed-instance-registry.ts; its lock is              *)
(* RegistryLock).                                                          *)
(*                                                                         *)
(* The Studio a launch of a baseplate spawns bears the name of the launch. *)
(* The server knows processes only from a listing, which is empty when the *)
(* command that makes it fails.  A step is the code between two awaits;    *)
(* the registry calls in it are synchronous.  A process id is not used     *)
(* again, and the computer is not started again.                           *)
(***************************************************************************)
EXTENDS Naturals, FiniteSets

CONSTANTS
  Launches,     \* calls that launch a baseplate, and the Studios they spawn
  Manual,       \* Studios a person opens
  NoStudio,     \* no Studio
  InstanceOf,   \* the instance id each Studio's plugin registers with
  NoInstance,   \* no instance id
  TitleOf,      \* the place name each Studio has in the title of its window
  Platform,     \* what the server runs on
  MaxCrashes    \* bound on the crashes of the server

Studios == Launches \cup Manual

ASSUME StudiosAssumption ==
  /\ NoStudio \notin Studios /\ Launches \cap Manual = {} /\ IsFiniteSet(Studios)
  /\ DOMAIN InstanceOf = Studios /\ \A x \in Studios : InstanceOf[x] # NoInstance
  /\ Platform \in {"windows", "wsl", "macOS", "linux"} /\ MaxCrashes \in Nat

VARIABLES
  process,      \* "none", "running" or "exited"
  plugged,      \* Studios whose plugin is registered at the bridge
  launch,       \* where each launch call is
  before,       \* the processes listed when it began
  earlier,      \* the plugins registered too early to be that of its Studio
  memo,         \* its record in memory: [native, named, closed]
  managed,      \* managedByInstanceId: id |-> launch
  pending,      \* launches without an instance id
  registry,     \* records on disk: launch |-> [native, named, closed]
  files,        \* place files of baseplates that exist
  crashes,
  mixed,        \* for the properties: launches that looked for their Studio while
                \* others appeared, or with a wrong idea of those that were there
  unseen        \* and those whose process ran when a listing lacked it

studiosVars == <<process, plugged, launch, before, earlier, memo, managed,
                 pending, registry, files, crashes, mixed, unseen>>

InstanceNames == {InstanceOf[x] : x \in Studios}
Fresh == [native |-> NoStudio, named |-> NoInstance, closed |-> FALSE]

StudiosInit ==
  /\ process = [x \in Studios |-> "none"]
  /\ plugged = {}
  /\ launch = [l \in Launches |-> "none"]
  /\ before = [l \in Launches |-> {}]
  /\ earlier = [l \in Launches |-> {}]
  /\ memo = [l \in Launches |-> Fresh]
  /\ managed = [i \in {} |-> NoStudio]
  /\ pending = {}
  /\ registry = [l \in {} |-> Fresh]
  /\ files = {}
  /\ crashes = 0
  /\ mixed = {} /\ unseen = {}

RunningStudios == {x \in Studios : process[x] = "running"}
UnderWay == {l \in Launches : launch[l] \in {"detecting", "waiting"}}
Put(f, k, v) == [x \in DOMAIN f \cup {k} |-> IF x = k THEN v ELSE f[x]]
Without1(f, k) == [x \in DOMAIN f \ {k} |-> f[x]]
-----------------------------------------------------------------------------
(* The list of processes, and the registry *)

\* listStudioProcesses: nothing on plain Linux, and nothing when the command fails.
Listings == {IF Platform = "linux" THEN {} ELSE RunningStudios, {}}

\* The process a record stands for: the one detected, else the one spawned.
Pid(l, r) == IF r.native # NoStudio THEN r.native ELSE l

\* findProcessById: a process spawned from WSL has an id of Linux, which no listing
\* has; blind holds the launches whose lookup met a failed listing.
Found(l, r, blind) ==
  /\ process[Pid(l, r)] = "running" /\ l \notin blind
  /\ Platform # "linux" /\ (Platform = "wsl" => r.native # NoStudio)

\* Fault: a record without an instance id counts as lost.
LostUnnamed(l, blind) == ~registry[l].closed /\ registry[l].named = NoInstance
\* An open record whose process is not found.
Lost(l, blind) == ~registry[l].closed /\ ~Found(l, registry[l], blind)

\* Open records whose process runs and is not found.
Overlooked(blind) ==
  {l \in DOMAIN registry : /\ ~registry[l].closed /\ ~Found(l, registry[l], blind)
                           /\ process[Pid(l, registry[l])] = "running"}

\* sweepUnlocked: closed and lost records go, and the files of the lost ones.
SweptRegistry(blind) ==
  [l \in {x \in DOMAIN registry : ~registry[x].closed /\ ~Lost(x, blind)} |-> registry[l]]
FilesSwept(blind) == files \ {l \in DOMAIN registry : Lost(l, blind)}

Sweep(blind) ==
  /\ registry' = SweptRegistry(blind)
  /\ files' = FilesSwept(blind)
  /\ unseen' = unseen \cup Overlooked(blind)

\* get: a record in memory or an open one on disk has this instance id.
IsManaged(i, blind) ==
  i \in DOMAIN managed \/ \E l \in DOMAIN SweptRegistry(blind) : SweptRegistry(blind)[l].named = i

\* status and list.
Status(blind) ==
  /\ Sweep(blind)
  /\ UNCHANGED <<process, plugged, launch, before, earlier, memo, managed, pending, crashes, mixed>>
-----------------------------------------------------------------------------
(* launch, and the part of manageInstance that waits for the plugin *)

\* The Studio and its record; a plugin that registered within the second before
\* counts as a later one.
BeginLaunch(l, blind) ==
  /\ launch[l] = "none"
  /\ launch' = [launch EXCEPT ![l] = "detecting"]
  /\ \E listed \in Listings, recent \in SUBSET plugged :
       /\ before' = [before EXCEPT ![l] = listed]
       /\ earlier' = [earlier EXCEPT ![l] = plugged \ recent]
       /\ mixed' = mixed \cup UnderWay
                         \cup (IF listed # RunningStudios \/ recent # {} THEN {l} ELSE {})
  /\ process' = [process EXCEPT ![l] = "running"]
  /\ pending' = pending \cup {l}
  /\ registry' = Put(SweptRegistry(blind), l, Fresh)
  /\ files' = FilesSwept(blind) \cup {l}
  /\ unseen' = unseen \cup Overlooked(blind)
  /\ UNCHANGED <<plugged, memo, managed, crashes>>

\* The first process that was not there before.
Created(l) == IF Platform = "linux" THEN {} ELSE RunningStudios \ before[l]

\* None within five seconds: on macOS and Linux the one spawned is taken.
Undetected(l) == IF Platform \in {"macOS", "linux"} THEN l ELSE NoStudio

Detect(l) ==
  /\ launch[l] = "detecting"
  /\ launch' = [launch EXCEPT ![l] = "waiting"]
  /\ \E x \in Created(l) \cup {Undetected(l)} :
       IF x = NoStudio
       THEN UNCHANGED <<memo, registry>>
       ELSE /\ memo' = [memo EXCEPT ![l].native = x]
            /\ registry' = Put(registry, l, [memo[l] EXCEPT !.native = x])
  /\ before' = [before EXCEPT ![l] = {}]
  /\ UNCHANGED <<process, plugged, earlier, managed, pending, files, crashes, mixed, unseen>>

\* Fault: plugins registered before the launch are taken.
CandidatesAny(l, blind) == {x \in plugged : ~IsManaged(InstanceOf[x], blind)}
\* Edit plugins registered since the launch that no record has.
Candidates(l, blind) == {x \in plugged \ earlier[l] : ~IsManaged(InstanceOf[x], blind)}

\* attachInstanceId
Attach(l, x, blind) ==
  /\ launch[l] = "waiting" /\ x \in Candidates(l, blind)
  /\ launch' = [launch EXCEPT ![l] = "attached"]
  /\ memo' = [memo EXCEPT ![l].named = InstanceOf[x]]
  /\ managed' = Put(managed, InstanceOf[x], l)
  /\ pending' = pending \ {l}
  /\ registry' = [k \in DOMAIN SweptRegistry(blind) |->
                    IF k = l THEN [registry[k] EXCEPT !.named = InstanceOf[x]] ELSE registry[k]]
  /\ files' = FilesSwept(blind)
  /\ unseen' = unseen \cup Overlooked(blind)
  /\ earlier' = [earlier EXCEPT ![l] = {}]
  /\ UNCHANGED <<process, plugged, before, crashes, mixed>>

\* The wait ends without a plugin: connected: false.
GiveUp(l) ==
  /\ launch[l] = "waiting"
  /\ launch' = [launch EXCEPT ![l] = "unattached"]
  /\ earlier' = [earlier EXCEPT ![l] = {}]
  /\ UNCHANGED <<process, plugged, before, memo, managed, pending, registry, files, crashes,
                 mixed, unseen>>
-----------------------------------------------------------------------------
(* close *)

InMemory(l) == l \in pending \/ \E i \in DOMAIN managed : managed[i] = l

\* close(record): the process named by the record is stopped if it is found; the
\* file, the memory and the open record of the launch go in either case.
CloseRecord(l, r, blind) ==
  /\ process' = IF Found(l, r, blind) THEN [process EXCEPT ![Pid(l, r)] = "exited"] ELSE process
  /\ unseen' = IF ~Found(l, r, blind) /\ process[Pid(l, r)] = "running"
               THEN unseen \cup {l} ELSE unseen
  /\ files' = files \ {l}
  /\ memo' = IF InMemory(l) THEN [memo EXCEPT ![l].closed = TRUE] ELSE memo
  /\ managed' = IF r.named \in DOMAIN managed THEN Without1(managed, r.named) ELSE managed
  /\ pending' = pending \ {l}
  /\ registry' = IF l \in DOMAIN registry THEN Put(registry, l, [registry[l] EXCEPT !.closed = TRUE])
                 ELSE registry

OnDisk(i) == {l \in DOMAIN registry : registry[l].named = i}

\* closeByInstanceId; a record closed before is only cleared away.
CloseManaged(i, blind) ==
  /\ \/ i \in DOMAIN managed /\ CloseRecord(managed[i], memo[managed[i]], blind)
     \/ /\ i \notin DOMAIN managed
        /\ \E l \in OnDisk(i) :
             IF registry[l].closed
             THEN /\ registry' = Without1(registry, l)
                  /\ files' = files \ {l}
                  /\ UNCHANGED <<process, memo, managed, pending, unseen>>
             ELSE CloseRecord(l, registry[l], blind)
  /\ UNCHANGED <<plugged, launch, before, earlier, crashes, mixed>>

\* The processes whose window has the place name of x; on macOS titles are not listed.
Titled(x, listed) ==
  IF Platform = "macOS" THEN {} ELSE {y \in listed : TitleOf[y] = TitleOf[x]}

\* Fault: of several windows with the name one is taken.
FoundByWindowAny(x, listed) == IF Cardinality(listed) = 1 THEN listed ELSE Titled(x, listed)
\* findProcessForConnectedInstance: the only process listed, whichever it is, or the
\* only one with the name.
FoundByWindow(x, listed) ==
  IF Cardinality(listed) = 1 THEN listed
  ELSE {y \in Titled(x, listed) : Titled(x, listed) = {y}}

\* closeConnectedInstance, for an instance that no record has.
CloseConnected(x, blind) ==
  /\ x \in plugged
  /\ InstanceOf[x] \notin DOMAIN managed /\ OnDisk(InstanceOf[x]) = {}
  /\ \E listed \in Listings : \E y \in FoundByWindow(x, listed) :
       process' = [process EXCEPT ![y] = "exited"]
  /\ Sweep(blind)
  /\ UNCHANGED <<plugged, launch, before, earlier, memo, managed, pending, crashes, mixed>>

\* close without an instance id: the only managed instance there is.
CloseOnly(blind) ==
  LET active == {managed[i] : i \in DOMAIN managed} \cup pending \cup DOMAIN SweptRegistry(blind) IN
  /\ \E l \in active :
       /\ active = {l}
       /\ CloseRecord(l, IF InMemory(l) THEN memo[l] ELSE registry[l], blind)
  /\ UNCHANGED <<plugged, launch, before, earlier, crashes, mixed>>
-----------------------------------------------------------------------------
(* Studios, people and the server *)

OpenByHand(x) ==
  /\ x \in Manual /\ process[x] = "none"
  /\ process' = [process EXCEPT ![x] = "running"]
  /\ mixed' = mixed \cup UnderWay
  /\ UNCHANGED <<plugged, launch, before, earlier, memo, managed, pending, registry, files, crashes,
                 unseen>>

PlugIn(x) ==
  /\ x \in RunningStudios \ plugged
  /\ plugged' = plugged \cup {x}
  /\ mixed' = mixed \cup (UnderWay \ {x})
  /\ UNCHANGED <<process, launch, before, earlier, memo, managed, pending, registry, files, crashes,
                 unseen>>

\* The plugin's registration is reaped, some time after its Studio ended.
Unplug(x) ==
  /\ x \in plugged \ RunningStudios
  /\ plugged' = plugged \ {x}
  /\ UNCHANGED <<process, launch, before, earlier, memo, managed, pending, registry, files, crashes,
                 mixed, unseen>>

CloseByHand(x) ==
  /\ x \in RunningStudios
  /\ process' = [process EXCEPT ![x] = "exited"]
  /\ UNCHANGED <<plugged, launch, before, earlier, memo, managed, pending, registry, files, crashes,
                 mixed, unseen>>

\* The server dies and another starts: what is in memory is gone; the plugins
\* that still run come back later.
ServerCrash ==
  /\ crashes < MaxCrashes
  /\ crashes' = crashes + 1
  /\ managed' = [i \in {} |-> NoStudio] /\ pending' = {}
  /\ launch' = [l \in Launches |-> IF l \in UnderWay THEN "lost" ELSE launch[l]]
  /\ before' = [l \in Launches |-> {}] /\ earlier' = [l \in Launches |-> {}]
  /\ memo' = [l \in Launches |-> Fresh]
  /\ plugged' = {}
  /\ UNCHANGED <<process, registry, files, mixed, unseen>>

Handled(blind) ==
  \/ Status(blind) \/ CloseOnly(blind)
  \/ \E l \in Launches : BeginLaunch(l, blind)
  \/ \E l \in Launches, x \in Studios : Attach(l, x, blind)
  \/ \E i \in InstanceNames : CloseManaged(i, blind)
  \/ \E x \in Studios : CloseConnected(x, blind)

StudiosNext ==
  \/ \E blind \in SUBSET Launches : Handled(blind)
  \/ \E l \in Launches : Detect(l) \/ GiveUp(l)
  \/ \E x \in Studios : OpenByHand(x) \/ PlugIn(x) \/ Unplug(x) \/ CloseByHand(x)
  \/ ServerCrash

StudiosSpec == StudiosInit /\ [][StudiosNext]_studiosVars
-----------------------------------------------------------------------------
\* Type correctness.
StudiosTypeOK ==
  /\ process \in [Studios -> {"none", "running", "exited"}]
  /\ plugged \subseteq Studios
  /\ launch \in [Launches -> {"none", "detecting", "waiting", "attached", "unattached", "lost"}]
  /\ before \in [Launches -> SUBSET Studios] /\ earlier \in [Launches -> SUBSET Studios]
  /\ memo \in [Launches -> [native : Studios \cup {NoStudio}, named : InstanceNames \cup {NoInstance},
                            closed : BOOLEAN]]
  /\ DOMAIN managed \subseteq InstanceNames /\ \A i \in DOMAIN managed : managed[i] \in Launches
  /\ pending \subseteq Launches /\ files \subseteq Launches
  /\ DOMAIN registry \subseteq Launches
  /\ \A l \in DOMAIN registry :
       registry[l] \in [native : Studios \cup {NoStudio}, named : InstanceNames \cup {NoInstance},
                        closed : BOOLEAN]
  /\ crashes \in 0..MaxCrashes
  /\ mixed \subseteq Launches /\ unseen \subseteq Launches

\* What a close by instance id goes by.
Bearing(i) == {l \in Launches : (i \in DOMAIN managed /\ managed[i] = l) \/ l \in OnDisk(i)}

\* "action=close can close an MCP-managed instance or an explicitly connected edit
\* instance by instance_id" (docs/tools-reference.md), and no other: closing by a
\* record ends only the Studio named, unless other Studios appeared while the launch
\* looked for its own, and closing by the window does so as long as that Studio runs.
CloseEndsNamed ==
  [][\A blind \in SUBSET Launches :
       /\ \A i \in InstanceNames : CloseManaged(i, blind) /\ Bearing(i) \cap mixed = {} =>
            \A y \in Studios : process[y] # process'[y] => InstanceOf[y] = i
       /\ \A x \in RunningStudios : CloseConnected(x, blind) =>
            \A y \in Studios : process[y] # process'[y] => y = x]_studiosVars

\* The same of every close.
ClosesOnlyNamed ==
  [][\A blind \in SUBSET Launches :
       /\ \A i \in InstanceNames : CloseManaged(i, blind) =>
            \A y \in Studios : process[y] # process'[y] => InstanceOf[y] = i
       /\ \A x \in Studios : CloseConnected(x, blind) =>
            \A y \in Studios : process[y] # process'[y] => y = x]_studiosVars

\* A Studio the server launched has an open record until it ends, so that a
\* server that starts after a crash can still find and close it, and its place file
\* is there as long.
Kept(x) ==
  /\ x \in DOMAIN registry /\ ~registry[x].closed /\ Pid(x, registry[x]) = x
  /\ x \in files

\* That is so unless other Studios appeared while it was looked for, or a listing
\* lacked its process: nothing else, no crash, failed wait or sweep, loses it.
StudiosAreKept == \A x \in RunningStudios \cap Launches : x \notin mixed \cup unseen => Kept(x)

\* The same of every Studio the server launched.
LaunchedIsKept == \A x \in RunningStudios \cap Launches : Kept(x)
=============================================================================
