# Bloxforge in TLA+

Bloxforge lets a coding agent drive Roblox Studio. An MCP server (Node,
`packages/core`) accepts tool calls and turns them into *requests* for a
DataModel; a Studio plugin (`studio-plugin`, roblox-ts) polls the server for
them, runs them and posts the results. Around this the server manages Studio
and Rojo processes, writes scripts to disk and backs them up, and several
servers share one Studio. This directory specifies that system from its source,
checks it with TLC on small instances and proves its main safety properties
with TLAPS.

## 1. The system

| part | code | state | operations |
|---|---|---|---|
| request bridge | `bridge-service.ts` | registered plugin sessions and their tokens, the queue `pendingRequests`, the table `requestStatuses` | `sendRequest`, `getPendingRequest`, acknowledge/resolve/reject with a fence, `reconcilePluginReceipts`, `cancelRequest`, timers, `registerInstance`, `unregisterInstance`, `clearAllPendingRequests` |
| request journal | `request-journal.ts` | a snapshot file | `save` at the end of every handler, `load` in the constructor |
| routes and stream | `http-server.ts` | one WebSocket per session, tokens | `/ready`, `/poll`, `/ack`, `/response`, `/reconcile`, `/disconnect`, `/stream`, and for clients `/mcp`, `/proxy`, `/cancel` |
| plugin | `Communication.ts` | active requests, the last 500 results, connection and token | poll loop on Heartbeat, `handleRequestOnce`, `sendReady`, the watcher of the place id |
| identity and routing | `bridge-service.ts` 512-1005 | aliases, client numbers | registration, migration of requests, `resolveTarget` |
| server life cycle, proxy bridge | `server.ts`, `proxy-bridge-service.ts` | primary or proxy; calls under way | bind, fall back, promote, forward, time out, shut down |
| client broker | `ClientBroker.ts` | one proxy and one loop per player | register, poll, call the client, deregister |
| play-test control | `TestHandlers.ts`, `StopPlayMonitor.ts` | a plugin setting as mailbox, a flag | start, stop, the monitor |
| plugin jobs, log ring | `JobRegistry.ts`, `JobHandlers.ts`, `RuntimeLogBuffer.ts` | two bounded tables | start, cancel, finish, prune; append, drop, page |
| Studio processes | `managed-instance-registry.ts`, `studio-instance-manager.ts`, `manageInstance` in `tools/index.ts` | a shared file under a lock; child processes | launch, attach, close, sweep |
| Rojo processes | `rojo/process-manager.ts` | three maps of children and calls | start, stop, stopAll |
| project reconciliation | `toolchain/project-reconcile.ts` | lease and journal files | inspect, plan, apply |
| mutation plans | `builders/mutation-plan.ts` | the place, an undo list | check, edit, roll back, receipt |
| script sync and backups | `tools/sync-tools.ts`, `tools/script-tools.ts`, `safety/*.ts` | files and a baseline; a bounded map of sources | pull; set, back up, restore |
| project history, stages, sessions | `journal/*.ts`, `stage/`, `sync/`, `session-recorder.ts` | append-only logs, phases | append, classify, confirm |
| tools, builders, toolchain, clients | `tools/`, `builders/`, `integrations/`, `ui/`, ... | none worth speaking of | formatting, code generation, I/O |

`PROJECT.json` lists every part with its status.

A tool call reaches `sendRequest`, which queues a request and persists the
journal. The plugin's next `GET /poll` takes the oldest eligible request under
a 10-second lease. The plugin starts a thread for it, posts `/ack` from another
thread, and posts `/response` when the handler ends. A lost reply is repaired by
the lease: an unacknowledged request goes back to the queue when a later poll
finds its lease lapsed, and the plugin answers a repeated id from its cache.
Timers, `/cancel`, `/disconnect`, a silent plugin, a takeover by a newer edit
session, shutdown and a crash of either side end a request early. The plugin
polls one port only: a second server forwards its calls to the one that holds
that port, and takes the port over when it is free.

**What is hard.** JavaScript and Luau run each handler without interruption, so
the races are between handlers and, inside one, between its awaits: frames and
timers in every order, late frames of an older delivery or session, two maps
updated by each handler, a slot count kept implicitly by the queue, a start that
awaits while a stop sweeps, a text that is read, backed up and overwritten in
three steps. Between processes there are only files, a port and a mailbox, with
crashes between any two operations on them. "hazards" in `PROJECT.json` names
each with its line and the properties aimed at it.

**What makes it right.** A settled status stays settled, a late frame never
passes for a current one, one mutation and `ReadLimit` reads of a target are in
flight, what is reported completed was run, and a mutation is a plain timeout only
if it was in a queue. One server has the queue; one Studio gets a request; one run
of a server works on a project. No process, record, job or line of log is lost from
sight. A pull takes no text it did not look at without a copy, and a receipt says
what state it left. Whoever waits is answered. Several of these hold only up to a
limit of the code; section 6 has the limits, each with its counterexample.

## 2. Modules

| module | models |
|---|---|
| `BridgeService` | the bridge and its journal under an arbitrary environment: frames with any fence, receipts of any content, streams that close at any time |
| `PluginExecutor` | the plugin sessions' execution of deliveries: active set, bounded result cache, crash |
| `StudioBridge` | the composition: extends `BridgeService`, instantiates `PluginExecutor`, adds tokens, `/ready` replies, poll replies and frames in transit |
| `RequestContract` | what a caller may rely on: one answer per request, "ok" only after Studio did the work, a mutation's work at most once |
| `InstanceRouting` | ids that change, aliases, client numbers, `/ready` posts that overtake each other, requests on their way to an old id |
| `ServerModes` | primary, proxy, promotion and shutdown of several servers, and a forwarded call with its two timers |
| `ClientBroker` | the play server's proxies for its clients |
| `PlayControl` | start and stop of play sessions through the mailbox |
| `RegistryLock` | the lock directory of the registry and an update under it |
| `ManagedStudios` | launch, attachment, closing and sweeps of Studio processes with their records on disk |
| `RojoProcesses` | the manager of `rojo serve` children |
| `ProjectReconcile` | runs that mend a project under a lease file |
| `PluginJobs`, `LogBuffer` | the plugin's two bounded tables, with the callers that page through the log |
| `MutationPlan` | the emitted program: preconditions, edits, undo, receipt, and the receipt's undo list run as a plan |
| `ScriptSync` | a pull of scripts to files, page by page, with people editing both sides |
| `ScriptBackups` | `set_script_source` and `restore_script_backup` |
| `BridgeServiceProofs`, `StudioBridgeProofs` | theorems about the bridge and about the whole path to the plugin (section 4) |
| `LeaseProofs` | theorems about `RegistryLock` and `ProjectReconcile` |
| `InstanceProofs` | theorems about `InstanceRouting`, `ManagedStudios`, `ClientBroker`, `PlayControl` |
| `ServerProofs` | theorems about `ServerModes` and `RojoProcesses`, and what puts the eight modules of `MCServerSide` together |
| `EditProofs` | theorems about `ScriptSync` and `MutationPlan` |
| `ToolsProofs` | theorems about `PluginExecutor`, `PluginJobs`, `ScriptBackups`, `LogBuffer`, and what puts the six modules of `MCToolsSide` together |
| `InductionLemmas` | induction over the numbers for the modules above |
| `MCBridgeService`, `MCStudioBridge` | values of the constants for TLC |
| `MCServerSide`, `MCToolsSide` | small instances of eight and of six of the modules, side by side |

`StudioBridge` is shown to implement both `BridgeService` (`RefinesBridge`, the
same variables) and `RequestContract` (`KeepsContract`, by the mapping of `Told`
and the history variable `ran`).

`MCServerSide` and `MCToolsSide` extend modules that share no state. Their
variable `component` is chosen in the first state and never changes: a behaviour
is one of a single module, while the variables of the others keep a fixed first
value. The state space is the sum, not the product, of those of the modules, so
one run says of each module exactly what a run of its own would, and a fairness
conjunct of a module that stands still is void because none of its fair actions
is enabled in that first value. Setting `Components` to one name runs one module
alone.

The other modules meet `BridgeService` at narrow places, and are not composed
with it: `ServerModes` keeps of a queue only what a call from another process can
tell apart (queued, delivered, settled, and whether Studio got it);
`InstanceRouting` keeps of a request its target; `ManagedStudios` takes the
result of `resolveTarget` and the list of connected plugins as inputs.

### The bridge and the plugin

`requestStatuses` is `state` (the `RequestState`, "none" while absent) and
`fence` (`serverEpoch`, `assignedPluginSessionId`, `deliveryAttempt`,
`leaseToken`). `pendingRequests` is `pending` with `arrival` (timestamp),
`holder` (`assignedPluginSessionId`; the code sets `inFlight` together with it)
and `attempt`. `registered` is the key set of `instances`; `epoch` numbers the
servers, whose `serverEpoch` is a UUID. `journal` is the file. Lease tokens are
UUIDs drawn per delivery, so the delivery's number stands for the token and 0
for an absent one. A *target* is an (instanceId, role) pair after aliases.

In the plugin, `running` is `activeRequests` with the fence its thread closed
over, `cache` is `completedRequests` in `completedRequestOrder`. `ran` and `log`
are history variables. `held` are the sessions whose token the server honours,
`replies` the `/ready` replies on their way, `inbox` the poll reply on its way
to a session, `net` the frames on their way to the server.

Each action is one handler with everything it calls, `persistJournal` included
(`Persist`). Worth knowing:

- `Deliver(s, L, r)` is `getPendingRequest`. Time is not modelled: any set `L`
  of unacknowledged leases may have lapsed. The code also requeues lapsed leases
  in a poll that then delivers nothing; `LapseLeadsToDelivery` shows there is no
  such poll, which is why the action always delivers.
- `Release` (streams) refuses the transition of a started request but takes its
  slot away, as the code does.
- `Cancel` removes the request before the transition is tried.
- `DropOrphans` is the loop of `unregisterInstance`. In a takeover the old
  session is dropped before the new one is entered, so the place has no handler
  in between and everything queued for it fails.
- `Restart` is the next process: with `LoadJournal` the constructor given a
  journal, without it the server of `server.ts`, which constructs
  `BridgeService('')` and only enables writing.
- `HandleRequestOnce` covers the three branches of the function; the
  acknowledgement is a frame of its own and the handler does not wait for it.
- Frames are delivered in any order and may stay in `net` for ever (loss).
  The plugin sends each once. A frame sent without the current token is
  dropped at once: it would be answered 401.

### Around the bridge

In all of these a step is the code between two awaits or yields, with the
microtasks and synchronous calls that run before the next event. In `RegistryLock`,
`ProjectReconcile` and `ScriptSync` other processes use the same files, and a step is
between two operations on them: the check of a file is a step of its own, and so is
the copy to the backups that goes with it, and its replacement is another. (Two
exceptions: a run that answers reads its lease and removes it in one step, and the
files a plan compares are walked in one.) Timers may fire as soon as they are set.

- `InstanceRouting`: `instances` of the bridge is the registration table with
  instance id, role and session; `aliases` its map of former ids. A *cast* fixes
  which Studios there are: kind, document, and how often ids may change or posts
  go astray. `ReadyArrives` is the whole of `registerInstance`: alias, migration,
  refusal of duplicates, takeover. `adrift` is a history variable of the requests
  that were moved with a Studio of another role or sent after their target went.
- `ServerModes`: `mode` per server, `port` its holder, `entry` the queue entry of a
  call at the server that serves it with whether its lease ever lapsed, `caller` what
  the tool call was told. `Lapse` puts a delivered call back into the queue while
  Studio may be running it. `PrimaryTimer` and `ProxyTimer` are the two clocks of a
  forwarded call.
- `ClientBroker`: `proxies` is the broker's table, `loop` the state of a player's
  polling thread, `known` what the MCP server knows. The server forgets a
  proxy that does not poll; the loop learns of it by the answer to a poll.
- `PlayControl`: `mailbox` is the setting of the place; the monitor, the caller of
  `stop_playtest` and a session that ends by itself all touch it. `ReloadEdit`
  restarts the edit plugin, which forgets the flag and its threads.
- `RegistryLock`: `lock` is the directory with its maker and whether it looks stale.
  Finding it stale and removing it are two steps, as in the code.
- `ManagedStudios`: records are rows of the file; `ServerCrash` loses the memory
  of the server and not the file. What the server knows of processes is a *listing*,
  as `listStudioProcesses` makes it, which is empty when its command fails or on plain
  Linux: every handler that looks up processes takes a set `blind` of lookups that
  failed. On WSL the pid that `spawn` returned is a Linux one and never listed, so that
  only a pid the launch detected is found. A connected Studio is closed by its record or by its window
  (`FoundByWindow`, where `TitleOf` says which titles are alike). `mixed` and `unseen` are
  history: launches that looked for their Studio while others appeared, and Studios
  that ran when a listing lacked them.
- `RojoProcesses`: `tracked` and `starting` are the manager's maps of entries and of
  starts under way, `stops` the calls of `stop`, `sweep` that of `stopAll`; `child` has
  the entry's status and the operating system's view of the process side by side.
  `SignalDeaths` and `LateExits` add faults outside the program: a child killed by
  someone else, an exit event that outlives the 500 ms after SIGKILL.
  Readiness is what the code takes for it: somebody answers on the port, and the
  child is still there 400 ms later. Whose answer it was is not looked at.
- `ProjectReconcile`: `project` has the facts the inspection reports; a run records
  the attempt it is in, its plan, what it completed and the changes of people it has
  seen. A lease is created empty and written in the next step, and an empty one is
  one that cannot be read (`whole`). `HostOf` says which server a run belongs to, whose
  pid is in the lease and whose event loop it shares with its other runs.
- `MutationPlan`: an edit writes one field: the name, an attribute or a tag. Attributes
  may be `Rich` (a value JSON does not carry), of which the undo list has `AsText`; of
  an attribute that was false it has nothing (`oldValue`).
- `ScriptSync`: `studio`, `files` and `baseline` are the three texts that are
  compared; an entry of the baseline has the text's hash, the one last sent to
  Studio, and the path. The first page fixes the scripts and the paths that the
  hashes are looked up by; the text and the path of the file are those of the moment
  a script is read, and scripts move in between. `checked` is the file that has been
  looked at and is to be replaced. `Races` lets people edit between any two steps of
  the apply and of its undo.
- `ScriptBackups`: `kept` is the map in its insertion order, in which a path that is
  backed up again keeps its place, bounded by `backupLimit`; a `Long` source reads as its
  `Beginning`. The read, the backup and the write of a call are three steps; between
  them other calls, people and the tools that keep no backup change the script
  (`EditSource`). A read fails with a warning or, when the plugin answers with an error,
  without.

Operators with a comment beginning "Fault" are not part of the model: they are
the mutated forms PROJECT.json names, each a plausible slip in the code, and TLC
finds the property violated when one replaces the original.

## 3. Runs

| run | instance | shows |
|---|---|---|
| `bridge_journal` | 1 mutation, 1 read, 2 edit sessions, 2 deliveries, 1 restart from the journal | a request in flight is under the fence of its last delivery; settled outcomes stay; a restart from the journal keeps every status |
| `bridge_streams` | 2 mutations, 1 read, 2 streaming sessions | one mutation in flight, and a lapse always with a delivery, when slots are released by streams |
| `bridge_targets` | 2 edit reads, 2 edit sessions, a server target with a read-only plugin | slots follow sessions over two targets and refused registrations; the read limit |
| `studio_journal` | 2 mutations, 2 sessions, 2 deliveries, restart from the journal | end to end with all frames in flight: what is completed was run, and only the delivery in force completes |
| `studio_contract` | 1 mutation, 2 sessions, 3 deliveries, restart without the journal | the system refines the open bridge and keeps the caller's contract; a mutation runs at most once |
| `studio_live` | 2 mutations, 1 session, 3 deliveries | every request completes |
| `server_side` | the eight modules beside the bridge, one at a time | 15 properties: processes, modes, lock, leases, ids, Studios, proxies and play sessions keep their books |
| `server_live` | seven of them, smaller, with fairness; exits of children may come late | nothing waits for ever (`AllAnswer`) |
| `tools_side` | executor, jobs, log, plans, pull, backups, one at a time | 10 properties: results, jobs and lines are kept as promised, receipts and undo lists say what they left, a pull takes only what it looked at, a backup is of its call |
| `restart_loses_queue`, `backup_is_truncated`, `rollback_plan_misorders` | | three statements of the documentation the code does not keep (section 6) |

**Bounds of the bridge.** `MaxAttempts` bounds deliveries of one request,
`MaxEpoch` restarts, `MaxRuns` executions of one request by one session,
`CacheLimit` the result cache (500 in the code), `ReadLimit` reads (4 in the
code). Two deliveries are the least that distinguish a late frame from a current
one; two sessions make a takeover; two requests compete for a slot, two reads
overflow a limit of one, and a third request lets a lease lapse in a poll that
delivers another; one restart separates two epochs. The limits themselves are
parameters, and the theorems below hold for all of them.

**Bounds beside the bridge** (`server_side`). Two projects and two Rojo children
on one port make a start race a stop, a sweep and a child of the other project.
Two servers, one of which may be killed, and two calls, one a mutation, make a
promotion with calls under way. Two writers, of which one may die in the lock,
make three updates. Two runs of one server, which may be killed and come back under
another pid, apply once each while people change the project once. `Pairs` are the
five casts of two Studios that can disturb each other: places of their own, an edit
session with its play server, two play servers, two clients, two copies of one
document; one of them moves to another id or loses a post. One launch with two Studios
opened by hand, one title for all windows, listings that may fail
and one crash of the server make an ambiguous attachment and a window that is not
the one meant, on WSL, where the pid of `spawn` is of no use (`MCServerStudios.cfg` has
two launches, which take longer). Two players and one
restart make a broker that forgets and is forgotten. Two requests to stop over
three sessions, the user playing too, make a late answer for an older session.
The larger casts and the second project are left out of `server_live`, whose
questions concern one waiting party at a time; managed Studios have no liveness
of their own there.

**Bounds of the tools** (`tools_side`). A cache and a job table of two with three
and five entries overflow; log lines of 0, 1, 2 and 5 bytes against rings of 4
bytes and 3 lines include the empty line, the one that fits only alone, and the
one that never fits. Plans have three edits over three kinds of field of one instance and two
names, one of which nothing bears: two edits meet one field, one renames what the
next goes by, one misses its target, and an attribute is a rich value or false. Two
scripts that move between two paths and a third outside, and two texts, one too large
for the page it is on, with two changes in Studio and one on disk, make every row of
the three-way comparison, a page that comes late and an edit at every point of the
apply and the undo. Two setters and a restorer over two paths with one backup kept,
beside edits from outside, make an eviction and an edit between a read and a write.

Symmetry is used only in runs without liveness, over sessions, requests, launches,
Studios, scripts or paths of the same kind. `CHECK_DEADLOCK FALSE` appears where the bounds stop
the system: all requests answered, all sessions crashed, all children spent.

**Assumed of the environment.** Nobody but the manager signals its Rojo children
(`SignalDeaths` is FALSE), and in `server_side`, though not in `server_live`, an exit event
follows SIGKILL within its 500 ms (`LateExits`; `MCServerRojo.cfg` has what happens
otherwise). `Slow` is empty: no writer holds the lock for `LOCK_STALE_MS`.
`PluginStreams` is FALSE, as the plugin of this repository opens no stream. All runs of
`ProjectReconcile` in `server_side` are of one server (`OneHost`; two servers are in
`MCServerLease.cfg`). Each of these is a constant, and section 6 says what happens
without it. Nothing is assumed of the listings of processes, of the values of a plan,
of the moment of an edit or of what a failed call answers: where a property does not
hold of all of them, it names the exception itself, and section 6 has the
configuration that checks it without.

**Fairness.** In `studio_live`, weak fairness of the plugin's actions is justified
by its Heartbeat loop, which polls and re-registers for as long as Studio runs,
and by the scheduler that runs spawned threads; weak fairness of frame arrival by
HTTP on the loopback interface (a response the server never gets, or one the
plugin cannot encode, leaves a started request to its timer). Poll replies may be
lost until the bound on deliveries leaves one, and that one is kept back until the
handler has ended: otherwise the bound, not the code, would decide the outcome.
Timers, cancellations, disconnects and crashes are left out of that specification
because each of them ends a request by itself.

In `server_live`:

- Rojo: every await of `start` and `stop` is on a timer or on a request with a
  timeout, and Node reports the end of a child.
- Servers: the timers of a call and of a promotion fire, a shutdown goes on, the
  plugin keeps looking for a server. Nothing is assumed of Studio's answers.
- Lock and reconciliation: a process that does not die goes on; what is
  abandoned grows old; every command of an apply has a timeout.
- Routing: posts are answered and the plugin's heartbeat repeats them.
- Broker: threads go on and the server's cleanup timer runs. Strong fairness only
  for a poll and a `/ready` that are tried again and again: they get through once.
- Play: a caller of `stop_playtest` polls until its deadline. Nothing is assumed of
  the monitor.

## 4. What is proved

All theorems hold for every value of the constants that satisfies the modules'
assumptions.

**`BridgeServiceProofs`**: `TypeCorrect`, `QueueAgreesWithStatus`, `OneHandler`,
`LeasesAreServed`, `MutualExclusion`, `ReadsAreLimited`, `LapsesDeliver`
(invariants); `OutcomesAreFinal`, `LeasesAreFresh`, and `RestartsKeepStatus` under
`LoadJournal` (action properties); `LeasesAreCurrent` where no session streams.

None of the invariants is inductive alone. `LiveInv` adds `Idle` (a request out
of the queue holds no slot: otherwise a new request could be born with one),
`UnsentUnknown` (ids are fresh) and `Room` (the bound on deliveries). `Restart`
replaces the live state by the journal, so `JournalSound` says the file always
holds a state the bridge could have been in; `PersistSound` shows that a sound
server writes a sound journal, and each action's lemma ends with what it
persisted. `MutualExclusion` rests on `Deliver`: whoever holds a slot after a
poll either held one that did not lapse, and was counted, or was just delivered.

For the reads, `SlotInv` adds that who holds a request supports it. `ReadSlots`
says how the set of reads in flight changes when requests leave it and one enters;
the rest is cardinality of finite sets, for which `BridgeAssumption` has
`Requests` finite. `LapsesDeliver` uses `SlotInv` in turn: what lapsed for a session
that polls is something it supports and frees the slot it needs, so the set of
eligible requests is not empty, and a non-empty set of requests has an oldest
(`OldestExists`, by well-founded induction on the natural numbers).

For the action properties, `NextAdvances` shows that every step except a restart
moves states along the table of `transitionRequestStatus` (`LegalStep`), changes
a fence only to an unleased one or to one numbered by its delivery (`FenceStep`),
and leaves the journal current (`Recorded`). `HInv` adds `JournalCurrent` and
`FenceBehind`, from which a restart changes nothing else. `LInv` adds
`LeaseIsCurrent` itself; a stream that closes on a started request breaks it,
hence the assumption.

**`StudioBridgeProofs`**, of the whole system: `SystemRefinesBridge` (every step of
plugin, transport and server is a step of the open bridge or leaves it alone),
`SystemInherits` (its consequence for mutual exclusion, final outcomes and fresh
leases), `SystemTypes`, `SessionsQuoteTheirOwn`, `SpeakersAreRegistered`,
`CurrentDeliveryCompletes` (a waiting request is completed only by the response to
the delivery in force) and `CompletedRequestsRan`.

The refinement needs `SystemInv`, because the open bridge takes only frames that
name a session and a delivery within the bounds; `SystemInv` in turn needs the
bridge's own invariant, which is why `SystemKeeps` first refines the step and
then applies `NextKeeps`. `CurrentDeliveryCompletes` joins both sides: the bridge
says that the fence in force belongs to holder and attempt (`LInv`, by refinement),
the wire says that a frame quotes its own session's fence (`FencesAreOwn`).
`CompletedRequestsRan` follows the work through the plugin and back: `WorkRan` says
that threads, cached results, responses and receipts are all of work that was
begun by their session (`WorkKept`); `SortedByCompletion` sorts the steps into those
that complete nothing new and the two that do, on a response or on a receipt; and
both complete only what is fenced by the frame's own session (`CompletionsRan`).

`MutationsRunOnce` and `SystemKeepsContract` are about a server that does not read its
journal (section 6 has what happens to one that does), for as long as no session has
completed more requests than its cache holds (`NothingEvicted`; the cache remembers
500, and a redelivery comes seconds after the delivery). `RunnerInv` says that one
session at most is involved in a request, by an inbox, a thread, a result or work it
began, and that its registration holds the target as long as the request waits: a
takeover drops what waits, so the next session never sees it. `RanOnce` says that
within one session each execution is running or in the log, once. From the two, a
mutation is begun once; `SystemKeepsContract` sorts the steps of the system into those
of `RequestContract`.

**`LeaseProofs`**. Of the registry's lock: `LockTypes`, `LockIsExclusive`,
`UpdatesAreKept`. The two last are under `Reliable`: nobody sleeps in the lock, and
nobody dies in it or there are at most two processes. `Exclusion` says that whoever is
in the lock made the directory, that a stale one has a dead maker, and that who is
about to remove one is the last who could; `RecordsKept` that a record read under the lock is
still the one on disk. Of the lease of a project: `ReconcileTypes` for any servers, and,
when all runs are of one server (`OneServer`), `NoTwoReconcilers` in every state and
`PlansAreFresh` along every behaviour, for any number of runs, applies, kills and
changes. `OneTurn` says that the server is in one of its runs only between a look at
the project and the next step, and `LeaseIsOwn` that who made the lease and works has it,
and that any other lease names an earlier life of the server. So whoever removes a
lease, empty or not, found that nobody works (`DropperIsAlone`). `PlanIsFresh` says that
the plan at hand is what the project needs unless people have changed it since. With
a second server a lease can be removed while it is empty, and who removes one may
remove the next (section 6).

**`InstanceProofs`**. Of routing: `RoutingTypes`, `TargetsAreUnique`, `WaitingIsRead`, for
any sessions, ids and casts. The inductive invariant `RoutingInv` has, beside the two
properties, that a registration bears the kind of its session (`RolesAreKinds`); that
a client number is left for a client that registers is cardinality
(`UnusedRoleExists`). Of managed Studios: `StudiosTypes`, `LaunchedAreKept`,
`ClosesEndNamed`, without a hypothesis on constants; the properties themselves leave
out what was `mixed` or `unseen`. `StudiosInv` says of a launch that is not mixed that it
reads as its own only the process it spawned, that nothing else starts meanwhile, and
that what an instance id names is the launch whose Studio has it, and of one that no
listing lacked besides that it is open in memory and on file while it runs
(`RunningIsOpen`); it holds through a crash of the server, which keeps the file and loses
the memory. A window is taken for a Studio's if it is the only one with its title, and
also if it is the only one at all, whichever it is: so a close of a connected Studio
ends that one or none as long as it runs, and the property says that much.
Of the broker: `BrokerTypes`,
`EntriesHaveLoops`; `AwayIsUnknown` is what induction adds. Of play control: `PlayTypes`,
`StopsAreTruthful`. `MailIsFresh` is the heart: a request in the mailbox has ended
nothing yet, and a result of success was earned.

**`ServerProofs`**. Of the modes: `ModesTypes`, `QueueIsServed`, `TimeoutsAreTrue`. A
mutation reported as a plain timeout was in a queue: either Studio never got it, or its
lease lapsed and it was queued again while it ran. `GotWasDelivered`, `UnmadeIsNowhere`
and `TimedOutIsSettled` say so of the queue, the caller and Studio together, across the
death and promotion of servers. Of the Rojo manager, assuming `Orderly`
(`~SignalDeaths /\ ~LateExits`): `RojoTypes`, `ChildrenAreKept`, `ServesAreSingle`,
`SweepIsComplete`, `ExitsStand`. `RojoInv` ties the manager's maps to the processes: a start under way and the entry
name the same child, an entry at rest runs unless its exit is known, a stop acts on
the running child of its project, a child killed before it was given up on never bound
its port. `SweepHasStops` is the clause for `stopAll`: whoever ran when it looked is in
the hands of one of its stops, so none of them is left when the last has returned.

**`ToolsProofs`**, of the four bounded memories, for any bound:

- executor: `ExecutorTypes`, `RepeatsFindTheirAnswer`. The cache of a living session is
  the end of its log (`CacheIsTail`), through every eviction;
- jobs: `JobTypes`, `OutcomesAreKept` and, of each job that is made, `TableStaysBounded`.
  The history names each job once and what it forgets are its oldest ends;
- backups: `BackupTypes`, `BackupsAreOfTheirCalls`. `ReadsAreOfTheCall` says that what the
  script holds until the backup is taken, and what a call has read, are among the
  texts of that call, whoever edits in between; and the backup of a path names the
  call that made it;
- log: `LogTypes`, `NoLineIsMissed`. `NumbersAreInOrder` says that the ring is a run of
  consecutive numbers that ends before `nextSeq`, and that the reader has only numbers
  up to its cursor. The oldest entries that must go are a prefix, and the sizes that
  remain are what the running count says (`SizesFacts`, `SuffixSizes`).

**`EditProofs`**. Of a pull: `SyncTypesAreKept`, `FailedPullsRestore`, `EditsAreKept`, and
`BaselinesAreAgreed` where a path has one class (`OneClass`; section 6 has two).
`JobsAreApart` (no two jobs of a plan or of its undo list share a file),
`TodoIsPlanned` and `UndoIsReady` (an undo step finds the files as its job left them,
and files no undo step touches are as the pull found them) make the undo list go back
all the way, wherever the apply failed. These are `PullInv`, which for `EditsAreKept` has
three clauses about the files nobody changed since the pull last looked: they are as the
plan saw them (`PlanStands`), so is a file that was checked, with its copy in the backups
(`CheckStands`), and what an undo step finds is what its job left (`JobsStand`). `ReadInv`
is about the pages: what they say was there (`HistoriesAreKept`), an unchanged page is of
a hash the baseline has for that path (`HashesAreKnown`), and the path a script is known
by is its own unless it was moved since the first page (`PathsAreKept`).

Of a plan of edits: `PlanTypesAreKept`, `ReceiptsAreTruthful` and `ReceiptsUndoPlans`, for any
values and plans. The properties say "up to what the undo list makes of values"
(`AsSerialized`: a rich value comes back as text, false not at all) and leave out plans
that hand a name on; that much is what the code gives, and the documents promise more
(section 6). `UndoLeadsBack`
says that there are places, one for each entry of the undo list, of which the first is
the one before the plan, the last the present one, and each entry leads from one to
the one before it: so every restore takes a step back along them, and a rollback
without failures ends where the plan began. For the undo list run forwards as a plan
that is not enough: `UndoHasOldValues` says that a field that has changed has an entry
and, if no field is written twice, that the entries have the values of before; after k
of them every field has its old value or is still to come (`Returning`).

**Side by side**. `ServerSideParts` and `ToolsSideParts` show that a behaviour of the
instances TLC runs is one of each of their modules, so what is proved of a module holds
there; `ServerSideTypes` and `ToolsSideTypes` put the type invariants together.

**Induction and recursion.** The library's induction theorems take operators, which
the provers cannot instantiate. `InductionLemmas` has induction over a *set* of numbers
instead, from the well-foundedness of < on the naturals: a set of numbers that has any
has a least (`LeastNatural`), so a set that has 0 and the successor of each of its members
below n has every number up to n (`UpTo`). From it `RecursionExists` says that a first
value and a step for each number define a function; the recursive functions of
`LogBuffer` (`SizesOf`, `Passing`) and `MutationPlan` (`PlacesOf`) are its instances.

**Assumptions on constants.** The proofs rest on the ASSUMEs of the modules, which TLC
evaluates. Where they say more than the type of a constant: sets of requests, jobs,
sessions, paths and classes are finite (they are tables of a program); a backup limit
is not 0 (100 unless configured); a value of a rich type is neither a name nor a
Boolean, and the values that stand for nothing are no values.

Theorems about properties that are not among the runs' (`PendingIffActive`,
`OneSessionPerTarget`, `HInv`, `LeaseNeverReissued`, `FencesAreOwn`,
`AuthorisedAreRegistered`, `LockExcludes`, `OneServePerProject`, `TableIsBounded` and the
single type invariants) were checked by TLC too before they were proved; the proofs
now stand for them.

## 5. What is only model-checked

Every invariant and every action property of a passing run is a theorem. Some are
theorems under a hypothesis on the constants or the history, and each of these is
named above: `Reliable`, `OneServer`, `Orderly`, `OneClass`, no streams, no journal that is
read, nothing evicted. Beyond them the property fails (section 6 has the configuration
or the way it happens), except for `NothingEvicted`: a mutation whose result was evicted
would have to be delivered again, and the runs do not reach that.

Other properties carry their exception in themselves: `~shifted`, `late` and `raced` in
`ScriptSync`, `mixed` and `unseen` in `ManagedStudios`, `lapsed` in `ServerModes`,
`AsSerialized` and `RenamesAreFresh` in `MutationPlan`. Each exception is a fact about the
behaviour that the model records, not a restriction of what may happen. Section 6 has
configurations of the same properties without them, which are violated; only `raced` has
none, since files that people edited meanwhile are of course not as they were.

Liveness (`EventuallyCompleted`, `AllAnswer`) is out of the provers' reach, as is
ENABLED, and stays with TLC.

## 6. Where code and documentation differ

Three have a run with a counterexample and an entry under "findings":

1. A restarted server does not read its journal (`server.ts:131,340`).
2. The backup of a long script holds its beginning only (`script-tools.ts:103`).
3. A receipt's undo list, run as a plan, runs in the wrong order
   (`mutation-plan.ts:106`). `ReceiptUndoesAnyPlan` is also broken by a rich value,
   which comes back as text, by an attribute that was false, and by names that are
   handed on.

The others have a configuration that ends in the counterexample, to be run by
`tlc -config <cfg> <module>` with the `MC` module of its prefix (`MCBridgeShutdown` with `MCBridgeService`,
`MCStudio...` with `MCStudioBridge`, `MCServer...` with `MCServerSide`, `MCTools...` with
`MCToolsSide`). Where one has two properties, `-continue` goes on to the second:

| configuration | property | what happens |
|---|---|---|
| `MCBridgeShutdown` | `ShutdownKeepsUnknown` | shutdown settles started mutations as failed (`bridge-service.ts:1282`); `docs/troubleshooting.md:246` says they become unknown |
| `MCStudioCancel` | `CancelledNeverRan` | a request is cancelled "before execution" (`docs/tools-reference.md:2533`) while the plugin executes it (`bridge-service.ts:1302`) |
| `MCStudioReplay` | `MutationRunsOnce` | a requeued mutation counts as not started in the journal (`bridge-service.ts:1085`), so a server that does read it replays work that may have run (`docs/architecture.md:288`) |
| `MCStudioTimeout` | `TimedOutNeverRan` | a mutation whose lease lapsed is queued again while it runs, and its timer then reports a plain timeout (`bridge-service.ts:1085`, `:494`); `CHANGELOG.md:2457` says timed-out delivered commands are reported as unknown |
| `MCToolsClean` | `RollbackIsClean` | a rollback reported as complete has put back the text of a rich value, or lost an attribute that was false (`mutation-plan.ts:43`, comment at `:153`) |
| `MCToolsSwap` | `RollbackIsClean` | the same with names alone: of three edits two hand a name on and the restore finds the wrong instance |
| `MCToolsLate` | `BaselineIsAlwaysAgreed` | a script that moves between the first page and its own comes back as unchanged under its old path, and its new file counts as in sync (`ScriptHandlers.ts:220`, `sync-tools.ts:358`) |
| `MCToolsLate` | `PullKeepsEveryEdit` | an edit between the check of a file and its replacement, before an undo step or at the new name of a renamed file is lost without a copy (`sync-tools.ts:445`, `:498`) |
| `MCToolsStale` | `OverwriteIsKept` | an edit between the read for the backup and the write is in no backup (`script-tools.ts:103`; `docs/tools-reference.md:331`) |
| `MCToolsStale` | `SkippedIsWarned` | a read that the plugin answers with an error leaves no backup and no warning (`script-tools.ts:104`, comment at `:95`) |
| `MCToolsRename` | `RefusedForAChange` | a pull that renames a file and writes another script under its old name refuses itself: after the rename at `sync-tools.ts:433` the check of `:447` blames a change on disk that nobody made |
| `MCServerRojo` | `OneServePerProject` | a stop of a child that was killed by a signal from outside waits for an exit event that has been (`process-manager.ts:139`), and then deletes the entry of the child started meanwhile (`:313`); the next start makes a second one (`docs/tools-reference.md:2786`) |
| `MCServerEpisodes` | `EpisodesPushed` | the fallback to a proxy and the promotion replace the tools and with them the episode store, whose listener was attached to the first one only (`server.ts:179`, `:352`, `:384`; comment `:168`) |
| `MCServerStream` | `ShutdownExits` | an open stream keeps `close` waiting and the process alive (`server.ts:496`, `http-server.ts:1199`; `CHANGELOG.md:2477`) |
| `MCServerLease` | `OneReconciler` | of two servers one reads the lease of the other while it is still empty, takes it for a broken one and removes it (`project-reconcile.ts:185`; comment at `:163`) |
| `MCServerNamed` | `NamedIdIsChosen` | a call that names the id of a registered Studio is sent to another one that the id is an alias of (`bridge-service.ts:552`, `:954`; `docs/tools-reference.md:17`) |
| `MCServerOwner` | `OwnerSettles` | two edit sessions of one place, both open, take it from each other for ever (comment at `bridge-service.ts:633`) |
| `MCServerCrowd` | `ClosesOnlyNamed` | closing a connected Studio whose process has ended closes the only other one there is (`studio-instance-manager.ts:578`); and a launch takes the first new process or plugin for its own, so closing it may end another (`docs/tools-reference.md:1034`) |
| `MCServerCrowd` | `LaunchedIsKept` | a listing of processes that fails, or comes back empty as on Linux, makes the sweep drop the record and the place file of a Studio that runs (`studio-instance-manager.ts:263`, `managed-instance-registry.ts:296`); so does a pid of WSL's |

`MCServerStudios` is no counterexample: it checks the properties of managed Studios with
two launches, which takes longer than one.

Also met, without a run:

- A mutation that timed out at the server gives up its slot while its handler runs
  on, so two may run in one DataModel although the documentation allows one.
- The documentation says that the plugin prefers the WebSocket stream (it polls),
  that it acknowledges *before* running the handler (it does so concurrently), and
  that a full queue returns BUSY (no code path does).
- Readiness of a Rojo server is an answer on its port and 400 ms of its child's life;
  that the answer was its child's is not checked, as `docs/known-limitations.md:218`
  says. `ExitIsFinal` is what remains: the child was alive.
- Of two Studios of one place file, which register under one id, a launch may report
  that no plugin connected though its own has.
- Three processes can break the lock of the registry: the second of two that judged a
  dead holder's file stale removes the fresh one of the first. The lease of a
  reconciliation goes the same way with runs of two servers.
- `migratePendingRequests` moves the requests of every role of an id with the one
  session that moves; those wait for their timeout (`adrift`). Aliases are added and
  requests moved before a duplicate is refused, contrary to the comment at
  `bridge-service.ts:593`. A post overtaken by a newer one leaves a registration
  under the old id until the session is swept.
- A player whose first `/ready` fails is never tried again; a proxy that was
  forgotten is.
- A proxy reports its own abort as unknown, but a network error after the primary
  took the call as a plain error.
- A failed write of a *new* file adds a failure of the rollback that is none: the undo
  entry is there before the file is (`sync-tools.ts:451`, `:498-507`).
- A resumed reconciliation under the same run id and plan skips the steps of its
  journal even if the project lost them since.
- A pull does not look again at the name a file is renamed to. With two classes of
  script at one path it may call a row in sync that is not
  (`docs/tools-reference.md:2970`).
- Backups are keyed by path, whichever place it is in; the oldest *first* backup is
  evicted, however recent its last; a restore is not backed up itself.

## 7. Not modelled

- Of the bridge: the retention of old statuses, write failures of the journal, the
  cancellation flag of started requests, diagnostics.
- Of the plugin: back-off between polls, its UI, version banners.
- Of managed Studios: the wait for a connection, the rule for published places, the
  boot id (a record of an earlier boot is one whose process does not run) and the
  reuse of process ids.
- `sync_push`, multiplayer sessions, the legacy port.
- The Roblox engine, which has no source here: what a handler does to the place is
  the modules' environment.
- The parts listed as not modelled in `PROJECT.json`, most of the source by lines: tool
  schemas and the adapters that format one request each, builders of Luau text, pure
  comparisons of trees and reports, code generation, file discovery and clients of
  external services. They keep no state that two callers share, or are a
  translation of data with no step in between; a model of them would be their text
  again. The tests of the repository reach them.

## 8. What could follow

The defensive "unknown" branch of `finishJob` cannot be reached and is kept for the
sake of the code. Worth doing next: `InstanceRouting` composed with `BridgeService`,
so that slots and aliases meet; the retention of statuses; of the proofs,
the distance between a delivery and its repetition instead of `NothingEvicted`, and the
lock of the registry for more than two processes, as far as it holds.
