---------------------------- MODULE BridgeService ----------------------------
(***************************************************************************)
(* The request bridge of the MCP server: the class BridgeService of        *)
(* packages/core/src/bridge-service.ts with the journal it writes          *)
(* (request-journal.ts).  Tool calls queue requests for a target           *)
(* DataModel; plugin sessions registered for that target take them under a *)
(* lease, acknowledge them and answer them; timers, cancellations,         *)
(* disconnects and restarts settle the rest.                               *)
(*                                                                         *)
(* JavaScript runs a handler to completion, so each handler is one action. *)
(* The module is open: acknowledgements, responses and receipts arrive     *)
(* with any fence whatever.  StudioBridge.tla closes it with the plugin    *)
(* and the transport.                                                      *)
(*                                                                         *)
(* A target stands for an (instanceId, role) pair after alias resolution.  *)
(***************************************************************************)
EXTENDS Integers, FiniteSets

CONSTANTS
  Requests,       \* request ids (randomUUID: never reused)
  Sessions,       \* plugin session ids, one per load of the plugin
  Targets,        \* (instanceId, role) pairs
  EditTargets,    \* the targets whose role is "edit"
  TargetOf,       \* the target each session registers for
  RequestTarget,  \* the target each request is addressed to
  Mutations,      \* requests whose endpoint the manifest classes as mutation
  Inspectors,     \* sessions of the read-only plugin variant
  Streaming,      \* sessions connected by the /stream WebSocket
  NoSession,      \* "undefined" as a session
  ReadLimit,      \* concurrent reads per target (4 in the code)
  LoadJournal,    \* whether a restarted server reads its journal
  MaxAttempts,    \* bound on the deliveries of one request
  MaxEpoch        \* bound on server restarts

ASSUME BridgeAssumption ==
  /\ IsFiniteSet(Requests)
  /\ EditTargets \subseteq Targets
  /\ TargetOf \in [Sessions -> Targets]
  /\ RequestTarget \in [Requests -> Targets]
  /\ Mutations \subseteq Requests
  /\ Inspectors \subseteq Sessions
  /\ Streaming \subseteq Sessions
  /\ NoSession \notin Sessions
  /\ ReadLimit \in Nat \ {0}
  /\ LoadJournal \in BOOLEAN
  /\ MaxAttempts \in Nat \ {0}
  /\ MaxEpoch \in Nat

VARIABLES
  serving,     \* isMCPServerActive: FALSE once shutdown began
  epoch,       \* serverEpoch, numbered instead of drawn
  registered,  \* the keys of instances
  clock,       \* number of requests sent so far, the timestamp of the next
  pending,     \* the keys of pendingRequests
  arrival,     \* timestamp of each request, 0 while it was never sent
  holder,      \* assignedPluginSessionId of a pending request
  attempt,     \* deliveryAttempt of a pending request
  state,       \* requestStatuses: the state of each request
  fence,       \* requestStatuses: what a late frame is compared with
  journal      \* the snapshot on disk

registryVars == <<serving, epoch, registered>>
queueVars    == <<clock, pending, arrival, holder, attempt>>
statusVars   == <<state, fence>>
bridgeVars   == <<registryVars, queueVars, statusVars, journal>>
-----------------------------------------------------------------------------
Active   == {"queued", "delivered", "started"}
Leased   == {"delivered", "started"}
Terminal == {"completed", "failed", "timed_out", "cancelled", "outcome_unknown"}
States   == {"none"} \cup Active \cup Terminal

\* The lease token is a UUID drawn at each delivery.  Deliveries of one
\* request are numbered by deliveryAttempt, so the number of the delivery
\* that drew the token stands for it and 0 for "undefined".
Fences  == [epoch : 0..MaxEpoch, session : Sessions \cup {NoSession},
            attempt : 0..MaxAttempts, lease : 0..MaxAttempts]
NoFence == [epoch |-> 0, session |-> NoSession, attempt |-> 0, lease |-> 0]

\* The table of transitionRequestStatus; an id without a status may take any.
Allowed ==
  [ none            |-> States \ {"none"},
    queued          |-> {"delivered", "failed", "timed_out", "cancelled"},
    delivered       |-> {"queued", "started"} \cup Terminal,
    started         |-> Terminal \ {"cancelled"},
    completed       |-> {},
    failed          |-> {},
    timed_out       |-> {},
    cancelled       |-> {},
    outcome_unknown |-> {"completed", "failed"} ]

\* Fault: a late answer overrides a timeout or a cancellation.
LegalLate(from, to) ==
  \/ to \in Allowed[from]
  \/ from \in {"timed_out", "cancelled"} /\ to = "completed"

Legal(from, to) == to \in Allowed[from]

\* The state a request has after a transition to "to" was asked for.
Moved(r, to) == IF Legal(state[r], to) THEN to ELSE state[r]

Supports(s, r) == s \in Inspectors => r \notin Mutations

Handled(r, sessions) == \E s \in sessions : TargetOf[s] = RequestTarget[r]

\* Fault: the snapshot is written before the change it should record.
PersistFirst ==
  journal' = [state |-> state, fence |-> fence, pending |-> pending,
              attempt |-> attempt]

\* persistJournal, called last by every handler that changes a request.
Persist ==
  journal' = [state |-> state', fence |-> fence', pending |-> pending',
              attempt |-> attempt']

Init ==
  /\ serving = TRUE
  /\ epoch = 0
  /\ registered = {}
  /\ clock = 0
  /\ pending = {}
  /\ arrival = [r \in Requests |-> 0]
  /\ holder = [r \in Requests |-> NoSession]
  /\ attempt = [r \in Requests |-> 0]
  /\ state = [r \in Requests |-> "none"]
  /\ fence = [r \in Requests |-> NoFence]
  /\ journal = [state |-> state, fence |-> fence, pending |-> pending,
                attempt |-> attempt]
-----------------------------------------------------------------------------
(* Queueing and delivery *)

\* sendRequest: an endpoint the target's plugin variant cannot serve throws.
SendRequest(r) ==
  /\ arrival[r] = 0
  /\ \A s \in registered : TargetOf[s] = RequestTarget[r] => Supports(s, r)
  /\ clock' = clock + 1
  /\ arrival' = [arrival EXCEPT ![r] = clock + 1]
  /\ pending' = pending \cup {r}
  /\ state' = [state EXCEPT ![r] = Moved(r, "queued")]
  /\ fence' = [fence EXCEPT ![r].epoch = epoch]
  /\ UNCHANGED <<registryVars, holder, attempt>>
  /\ Persist

Mine(s) == {r \in pending : RequestTarget[r] = TargetOf[s]}

\* Fault: leases never lapse.
LapsableNever(s) == {}

\* Leases that may be 10 seconds old.  Time is not modelled: any unacknowledged
\* lease may have lapsed by the next poll.
Lapsable(s) ==
  {r \in Mine(s) : /\ holder[r] # NoSession
                   /\ state[r] = "delivered"
                   /\ attempt[r] < MaxAttempts}

\* Fault: a lapsed lease keeps its slot.
InFlightBeforeLapse(s, L) == {r \in Mine(s) : holder[r] # NoSession}

\* Requests of the target still in flight once the leases in L lapsed.
InFlight(s, L) == {r \in Mine(s) : holder[r] # NoSession} \ L

\* Faults: mutations are counted as reads are; the limit on reads is off by one.
EligibleByCount(s, L) ==
  {r \in Mine(s) \ InFlight(s, L) :
     Supports(s, r) /\ Cardinality(InFlight(s, L)) <= ReadLimit}
EligibleOneTooMany(s, L) ==
  {r \in Mine(s) \ InFlight(s, L) :
     /\ Supports(s, r)
     /\ r \in Mutations => InFlight(s, L) \cap Mutations = {}
     /\ r \notin Mutations =>
          Cardinality(InFlight(s, L) \ Mutations) <= ReadLimit}

Eligible(s, L) ==
  {r \in Mine(s) \ InFlight(s, L) :
     /\ Supports(s, r)
     /\ r \in Mutations => InFlight(s, L) \cap Mutations = {}
     /\ r \notin Mutations =>
          Cardinality(InFlight(s, L) \ Mutations) < ReadLimit}

Oldest(R) == {r \in R : \A q \in R : arrival[r] <= arrival[q]}

\* Faults: a delivery counts twice; the count starts over with each lease.
NextFenceSkipping(s, r) == [epoch |-> epoch, session |-> s,
                            attempt |-> attempt[r] + 2, lease |-> attempt[r] + 1]
NextFenceRestarting(s, r) == [epoch |-> epoch, session |-> s,
                              attempt |-> 1, lease |-> attempt[r] + 1]

\* The fence handed to the plugin with a delivery.
NextFence(s, r) == [epoch |-> epoch, session |-> s,
                    attempt |-> attempt[r] + 1, lease |-> attempt[r] + 1]

\* Fault: a requeued request keeps the lease it had.
RequeuedWithLease(r) == [fence[r] EXCEPT !.session = NoSession]

\* A requeued request loses its lease and its session.
Requeued(r) == [epoch |-> fence[r].epoch, session |-> NoSession,
                attempt |-> fence[r].attempt, lease |-> 0]

\* getPendingRequestForSession: the leases in L lapse and r is delivered to s.
Deliver(s, L, r) ==
  LET resting == IF r \in L THEN "queued" ELSE state[r] IN
  /\ s \in registered
  /\ L \subseteq Lapsable(s)
  /\ r \in Oldest(Eligible(s, L))
  /\ holder' = [q \in Requests |-> IF q = r THEN s
                                   ELSE IF q \in L THEN NoSession ELSE holder[q]]
  /\ attempt' = [attempt EXCEPT ![r] = @ + 1]
  /\ state' = [q \in Requests |->
                 IF q = r
                 THEN IF Legal(resting, "delivered") THEN "delivered" ELSE resting
                 ELSE IF q \in L THEN "queued" ELSE state[q]]
  /\ fence' = [q \in Requests |->
                 IF q = r
                 THEN IF Legal(resting, "delivered") THEN NextFence(s, r) ELSE fence[q]
                 ELSE IF q \in L THEN Requeued(q) ELSE fence[q]]
  /\ UNCHANGED <<registryVars, clock, pending, arrival>>
  /\ Persist

\* releasePendingRequest and releasePendingRequestsForSession: the requests in
\* R lose their session.  A started request refuses the transition, so it
\* keeps its state and fence.
Release(R) ==
  LET requeued == {r \in R : Legal(state[r], "queued")} IN
  /\ holder' = [r \in Requests |-> IF r \in R THEN NoSession ELSE holder[r]]
  /\ state' = [r \in Requests |-> IF r \in requeued THEN "queued" ELSE state[r]]
  /\ fence' = [r \in Requests |-> IF r \in requeued THEN Requeued(r) ELSE fence[r]]
  /\ UNCHANGED <<registryVars, clock, pending, arrival, attempt>>
  /\ Persist

\* The stream of s closed, or a newer stream superseded it.
StreamClosed(s) ==
  LET held == {r \in pending : holder[r] = s} IN
  /\ s \in registered \cap Streaming
  /\ held # {}
  /\ \A r \in held : attempt[r] < MaxAttempts
  /\ Release(held)

\* socket.send of a delivery to s failed.
SendFailed(s, r) ==
  /\ s \in registered \cap Streaming
  /\ r \in pending
  /\ attempt[r] < MaxAttempts
  /\ Release({r})
-----------------------------------------------------------------------------
(* Frames from the plugin *)

\* Fault: any delivery to the session will do.
FenceMatchesSession(r, f) == state[r] # "none" /\ fence[r].session = f.session

\* The test shared by the three fenced handlers.
FenceMatches(r, f) == state[r] # "none" /\ fence[r] = f

\* acknowledgeFencedRequest
Acknowledge(r, f) ==
  /\ FenceMatches(r, f)
  /\ state[r] = "delivered"
  /\ state' = [state EXCEPT ![r] = "started"]
  /\ UNCHANGED <<registryVars, queueVars, fence>>
  /\ Persist

\* The requests in R leave the queue; the status transitions are the caller's.
Dequeue(R) ==
  /\ pending' = pending \ R
  /\ holder' = [r \in Requests |-> IF r \in R THEN NoSession ELSE holder[r]]
  /\ UNCHANGED <<clock, arrival, attempt>>

\* resolveFencedRequest (to = "completed") and rejectFencedRequest ("failed").
\* The status decides; the caller is answered if it still waits.
Finish(r, f, to) ==
  /\ FenceMatches(r, f)
  /\ Legal(state[r], to)
  /\ state' = [state EXCEPT ![r] = to]
  /\ Dequeue({r})
  /\ UNCHANGED <<registryVars, fence>>
  /\ Persist

Resolve(r, f) == Finish(r, f, "completed")

Reject(r, f) == Finish(r, f, "failed")

\* Fault: the receipt of another request is taken for that of r.
ProvenByAttempt(s, receipts) ==
  {r \in Requests : /\ state[r] = "outcome_unknown"
                    /\ fence[r].session = s
                    /\ \E q \in DOMAIN receipts : receipts[q] = fence[r].attempt}

\* The receipts that prove the outcome of a request session s was given.
Proven(s, receipts) ==
  {r \in Requests : /\ state[r] = "outcome_unknown"
                    /\ fence[r].session = s
                    /\ RequestTarget[r] = TargetOf[s]
                    /\ r \in DOMAIN receipts
                    /\ receipts[r] \in {0, fence[r].attempt}}

\* reconcilePluginReceipts: receipts maps the ids the plugin completed to the
\* delivery attempt under which it started them, 0 if the receipt names none.
Reconcile(s, e, receipts) ==
  /\ e = epoch
  /\ s \in registered
  /\ Proven(s, receipts) # {}
  /\ state' = [r \in Requests |->
                 IF r \in Proven(s, receipts) THEN "completed" ELSE state[r]]
  /\ UNCHANGED <<registryVars, queueVars, fence>>
  /\ Persist
-----------------------------------------------------------------------------
(* Giving up on requests *)

\* Fault: reads are not told from mutations.
InterruptedAny(r, otherwise) ==
  IF state[r] \in Leased THEN "outcome_unknown" ELSE otherwise

\* What an interrupted request becomes: work that may have run is unknown.
Interrupted(r, otherwise) ==
  IF state[r] \in Leased /\ r \in Mutations THEN "outcome_unknown" ELSE otherwise

\* expireRequest, from the timer of the request or from cleanupOldRequests.
Expire(r) ==
  /\ r \in pending
  /\ state[r] # "none"
  /\ state' = [state EXCEPT ![r] = Moved(r, Interrupted(r, "timed_out"))]
  /\ Dequeue({r})
  /\ UNCHANGED <<registryVars, fence>>
  /\ Persist

\* Fault: the queue is emptied before the started state is looked at.
CancelStarted(r) ==
  /\ r \in pending
  /\ state' = [state EXCEPT ![r] = Moved(r, "cancelled")]
  /\ Dequeue({r})
  /\ UNCHANGED <<registryVars, fence>>
  /\ IF Legal(state[r], "cancelled") THEN Persist ELSE UNCHANGED journal

\* cancelRequest: the request leaves the queue before the transition is tried.
Cancel(r) ==
  /\ r \in pending
  /\ state[r] # "started"
  /\ state' = [state EXCEPT ![r] = Moved(r, "cancelled")]
  /\ Dequeue({r})
  /\ UNCHANGED <<registryVars, fence>>
  /\ IF Legal(state[r], "cancelled") THEN Persist ELSE UNCHANGED journal

\* Faults: the successor of s counts as a handler, and then delivered work is
\* left to it or queued work is.
OrphanedIfStarted(s, rest) ==
  {r \in pending : \/ ~Handled(r, registered')
                   \/ holder[r] = s /\ state[r] = "started"}
OrphanedAfterTakeover(s, rest) ==
  {r \in pending : \/ ~Handled(r, registered')
                   \/ holder[r] = s /\ state[r] \in Leased}

\* The requests that do not survive the loss of s, when the sessions in rest
\* remain.  Those of any target without a handler go, whoever left.
Orphaned(s, rest) ==
  {r \in pending : \/ ~Handled(r, rest)
                   \/ holder[r] = s /\ state[r] \in Leased}

DropOrphans(s, rest) ==
  LET lost == Orphaned(s, rest) IN
  /\ state' = [r \in Requests |->
                 IF r \in lost THEN Moved(r, Interrupted(r, "failed")) ELSE state[r]]
  /\ Dequeue(lost)
  /\ UNCHANGED <<serving, epoch, fence>>
  /\ Persist

\* unregisterInstance, on /disconnect or when s was silent for too long.
Unregister(s) ==
  /\ s \in registered
  /\ registered' = registered \ {s}
  /\ DropOrphans(s, registered \ {s})

\* Fault: the duplicate is not found.
RivalsMissed(s) == {}

Rivals(s) == {x \in registered \ {s} : TargetOf[x] = TargetOf[s]}

\* registerInstance.  A duplicate is refused, except that the newest edit
\* session takes its place over; it is entered after the old one is dropped.
Register(s) ==
  \/ /\ Rivals(s) = {}
     /\ registered' = registered \cup {s}
     /\ UNCHANGED <<serving, epoch, queueVars, statusVars, journal>>
  \/ /\ TargetOf[s] \in EditTargets
     /\ \E old \in Rivals(s) :
          /\ registered' = (registered \ {old}) \cup {s}
          /\ DropOrphans(old, registered \ {old})
-----------------------------------------------------------------------------
(* Shutdown and restart *)

\* shutdown: clearAllPendingRequests settles every caller.
ClearAll ==
  /\ serving
  /\ serving' = FALSE
  /\ state' = [r \in Requests |-> IF r \in pending THEN Moved(r, "failed") ELSE state[r]]
  /\ Dequeue(pending)
  /\ UNCHANGED <<epoch, registered, fence>>
  /\ Persist

\* The process ends and a new one starts.  The constructor restores queued
\* requests from the journal it is given and treats delivered and started ones
\* as lost; a server that never loads it starts empty.
Restart ==
  /\ epoch < MaxEpoch
  /\ epoch' = epoch + 1
  /\ serving' = TRUE
  /\ registered' = {}
  /\ holder' = [r \in Requests |-> NoSession]
  /\ IF LoadJournal
     THEN /\ pending' = {r \in journal.pending : journal.state[r] = "queued"}
          /\ attempt' = journal.attempt
          /\ state' = [r \in Requests |-> IF journal.state[r] \in Leased
                                          THEN "outcome_unknown" ELSE journal.state[r]]
          /\ fence' = journal.fence
     ELSE /\ pending' = {}
          /\ attempt' = [r \in Requests |-> 0]
          /\ state' = [r \in Requests |-> "none"]
          /\ fence' = [r \in Requests |-> NoFence]
  /\ UNCHANGED <<clock, arrival, journal>>
-----------------------------------------------------------------------------
\* Fences a frame can carry: the session is the authenticated sender.
FrameFences == {f \in Fences : f.session # NoSession}

Receipts == UNION {[R -> 0..MaxAttempts] : R \in SUBSET Requests}

Next ==
  \/ \E r \in Requests :
       \/ SendRequest(r) \/ Expire(r) \/ Cancel(r)
       \/ \E f \in FrameFences : Acknowledge(r, f) \/ Resolve(r, f) \/ Reject(r, f)
  \/ \E s \in Sessions :
       \/ \E L \in SUBSET Lapsable(s), r \in Requests : Deliver(s, L, r)
       \/ StreamClosed(s) \/ \E r \in Requests : SendFailed(s, r)
       \/ \E receipts \in Receipts, e \in 0..MaxEpoch : Reconcile(s, e, receipts)
       \/ Unregister(s) \/ Register(s)
  \/ ClearAll \/ Restart

Spec == Init /\ [][Next]_bridgeVars
-----------------------------------------------------------------------------
LiveTypeOK ==
  /\ serving \in BOOLEAN
  /\ epoch \in 0..MaxEpoch
  /\ registered \subseteq Sessions
  /\ clock \in Nat
  /\ pending \subseteq Requests
  /\ arrival \in [Requests -> Nat]
  /\ holder \in [Requests -> Sessions \cup {NoSession}]
  /\ attempt \in [Requests -> 0..MaxAttempts]
  /\ state \in [Requests -> States]
  /\ fence \in [Requests -> Fences]

Snapshots ==
  [state : [Requests -> States], fence : [Requests -> Fences],
   pending : SUBSET Requests, attempt : [Requests -> 0..MaxAttempts]]

\* Every handler keeps the bridge and its journal well-formed.
TypeOK == LiveTypeOK /\ journal \in Snapshots

\* The queue and the status table, two maps every handler updates separately,
\* agree: a request waits exactly while its status is active.  If they parted,
\* a caller would hang without a timer or a settled request be delivered.
PendingIffActive == pending = {r \in Requests : state[r] \in Active}

\* Takeover, refusal and re-registration leave at most one live session for a
\* target, so a request never has two plugins to run it.
OneSessionPerTarget ==
  \A s, x \in registered : TargetOf[s] = TargetOf[x] => s = x

\* A request in flight is leased to a live session of its own target: a
\* disconnect or takeover never leaves a slot with nobody to answer it.
LeaseHeldByHandler ==
  \A r \in pending : holder[r] # NoSession =>
    /\ holder[r] \in registered
    /\ TargetOf[holder[r]] = RequestTarget[r]
    /\ state[r] \in Leased

\* A request that waits in the queue has no lease; any other has the lease, and
\* the fence, of its last delivery.
LeasedAsQueued(r) ==
  IF state[r] = "queued" \/ holder[r] = NoSession
  THEN /\ state[r] = "queued" /\ holder[r] = NoSession
       /\ fence[r].session = NoSession /\ fence[r].lease = 0
  ELSE fence[r] = [epoch |-> epoch, session |-> holder[r],
                   attempt |-> attempt[r], lease |-> attempt[r]]

\* Without streams the converse holds too: what was delivered or started keeps
\* its slot, and the fence in force is the one of its last delivery.
LeaseIsCurrent == \A r \in pending : LeasedAsQueued(r)

\* "Each target DataModel allows one mutation" (docs/architecture.md): lapsed
\* leases, takeovers and releases never put a second one in flight.
OneMutationInFlight ==
  \A r, q \in pending \cap Mutations :
    /\ RequestTarget[r] = RequestTarget[q]
    /\ holder[r] # NoSession
    /\ holder[q] # NoSession
    => r = q

\* "... and four concurrent reads": ReadLimit per target, whatever the order
\* in which leases lapse and reads are delivered again.
ReadsWithinLimit ==
  \A t \in Targets :
    Cardinality({r \in pending \ Mutations :
                   RequestTarget[r] = t /\ holder[r] # NoSession}) <= ReadLimit

\* A poll in which a lease lapses always delivers something.  This is why the
\* requeueing, which getPendingRequest persists only together with a delivery,
\* is never lost.
LapseLeadsToDelivery ==
  \A s \in registered : \A L \in SUBSET Lapsable(s) :
    L # {} => Oldest(Eligible(s, L)) # {}

\* No delivery ever reissues a fence: within one life of the status table the
\* attempt under a fresh lease exceeds every earlier one, so a late frame cannot
\* pass for a frame of the new attempt.
LeaseNeverReissued ==
  [][\A r \in Requests :
       state'[r] # "none" =>
         /\ fence'[r].attempt >= fence[r].attempt
         /\ fence'[r].lease \notin {0, fence[r].lease} =>
              fence'[r].attempt > fence[r].attempt]_bridgeVars

\* A caller is told one thing: a settled status never changes again, except that
\* an unknown outcome may become known.  Restarts from the journal included.
OutcomeIsFinal ==
  [][\A r \in Requests :
       state[r] \in Terminal =>
         \/ state'[r] = state[r]
         \/ state[r] = "outcome_unknown" /\ state'[r] \in {"completed", "failed"}
         \/ epoch' # epoch /\ ~LoadJournal]_bridgeVars

\* "A local mode-0600 journal restores queued work after process restart;
\* delivered or started work is restored as `outcome_unknown`" and answered
\* work as answered (docs/architecture.md): a crash between any two handlers
\* loses nothing the server knew.
RestartKeepsStatus ==
  [][epoch' # epoch =>
       \A r \in Requests :
         state'[r] = IF state[r] \in Leased THEN "outcome_unknown" ELSE state[r]
    ]_bridgeVars

\* "delivered or started work becomes `outcome_unknown`" (docs/troubleshooting.md):
\* a server that is told to stop does not call such a mutation failed.
ShutdownKeepsUnknown ==
  [][serving /\ ~serving' =>
       \A r \in Mutations :
         state[r] \in Leased => state'[r] \in Leased \cup {"outcome_unknown"}
    ]_bridgeVars
-----------------------------------------------------------------------------
(* What the invariants above rest on *)

\* A request that is not waiting occupies no slot.
Idle == \A r \in Requests \ pending : holder[r] = NoSession

\* Nothing is known of a request before it is sent.
UnsentUnknown ==
  \A r \in Requests : arrival[r] = 0 => state[r] = "none" /\ attempt[r] = 0

\* The bound on deliveries leaves room for what can still be delivered.
Room == \A r \in pending : holder[r] = NoSession => attempt[r] < MaxAttempts

\* What the file says is a state the bridge could have been in.
JournalSound ==
  /\ journal \in Snapshots
  /\ journal.pending = {r \in Requests : journal.state[r] \in Active}
  /\ \A r \in Requests :
       journal.state[r] = "queued" => journal.attempt[r] < MaxAttempts
  /\ \A r \in Requests :
       arrival[r] = 0 => journal.state[r] = "none" /\ journal.attempt[r] = 0

LiveInv ==
  /\ LiveTypeOK
  /\ PendingIffActive
  /\ Idle
  /\ UnsentUnknown
  /\ Room
  /\ OneSessionPerTarget
  /\ LeaseHeldByHandler
  /\ OneMutationInFlight

\* The inductive invariant behind TypeOK, PendingIffActive, OneSessionPerTarget,
\* LeaseHeldByHandler and OneMutationInFlight.
IInv == LiveInv /\ JournalSound

\* A restart finds on disk what the server knew when it ended, except that it
\* turns what was delivered or started into an unknown outcome.
JournalCurrent ==
  LoadJournal =>
    /\ journal.fence = fence /\ journal.attempt = attempt
    /\ \A r \in Requests :
         state[r] \in {journal.state[r]} \cup
           (IF journal.state[r] \in Leased THEN {"outcome_unknown"} ELSE {})

\* No fence in force is ahead of the count of deliveries.
FenceBehind == \A r \in Requests : fence[r].attempt <= attempt[r]

\* The inductive invariant behind the action properties.
HInv == IInv /\ JournalCurrent /\ FenceBehind

\* A request that was never sent has no lease.
UnsentUnleased ==
  \A r \in Requests : arrival[r] = 0 =>
    fence[r].session = NoSession /\ fence[r].lease = 0

\* The inductive invariant behind LeaseIsCurrent, where there are no streams.
LInv == HInv /\ UnsentUnleased /\ LeaseIsCurrent
=============================================================================
