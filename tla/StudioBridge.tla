----------------------------- MODULE StudioBridge -----------------------------
(***************************************************************************)
(* The bridge closed with the plugin sessions and the HTTP transport       *)
(* between them: /ready, /poll, /ack, /response, /reconcile and            *)
(* /disconnect of packages/core/src/http-server.ts against                 *)
(* studio-plugin/src/modules/Communication.ts.                             *)
(*                                                                         *)
(* Frames of the plugin travel in "net" in any order and may never arrive; *)
(* the plugin sends each once.  A poll reply travels in "inbox", one per   *)
(* session because a session has one poll outstanding.  The plugin of this *)
(* code base opens no stream, so Streaming is empty here.                  *)
(***************************************************************************)
EXTENDS BridgeService, Sequences

CONSTANTS CacheLimit, MaxRuns, NoDelivery

VARIABLES
  alive, running, cache, ran, log,   \* the plugin sessions: PluginExecutor
  held,     \* sessions whose token is the one the server honours
  replies,  \* sessions with a successful /ready reply on its way
  inbox,    \* the poll reply on its way to each session
  net       \* frames on their way to the server

Plugin == INSTANCE PluginExecutor

pluginVars == <<alive, running, cache, ran, log>>
wireVars   == <<held, replies, inbox, net>>
vars       == <<bridgeVars, pluginVars, wireVars>>

ASSUME NoStreams == Streaming = {}

ASSUME PluginLimits == CacheLimit \in Nat \ {0} /\ MaxRuns \in Nat \ {0}

Delivery(s, r) == [req |-> r, fence |-> NextFence(s, r)]

\* Fault: the response does not say which delivery it answers.
ResponseUnfenced(s, r, f) ==
  [kind |-> "response", session |-> s, req |-> r, fence |-> NoFence]

Ack(s, r, f)      == [kind |-> "ack", session |-> s, req |-> r, fence |-> f]
Response(s, r, f) == [kind |-> "response", session |-> s, req |-> r, fence |-> f]

\* The receipts of /reconcile: every cached result with its delivery attempt.
Receipt(s, r) == (CHOOSE i \in DOMAIN cache[s] : cache[s][i].req = r)
ReceiptsOf(s) ==
  [r \in {q \in Requests : Plugin!Cached(s, q)} |-> cache[s][Receipt(s, r)].attempt]

\* A frame sent without the current token is answered 401 and changes nothing.
Send(s, m) == net' = IF s \in held THEN net \cup {m} ELSE net

SystemInit ==
  /\ Init
  /\ Plugin!Init
  /\ held = {}
  /\ replies = {}
  /\ inbox = [s \in Sessions |-> NoDelivery]
  /\ net = {}
-----------------------------------------------------------------------------
(* Registration *)

\* Fault: what was sent under the old token is still honoured.
RevokeLate(gone) == held' = held \ gone /\ net' = net

\* The tokens of the sessions in gone were revoked: what they hold, what was
\* granted to them and what they sent under the old token is void.
Revoke(gone) ==
  /\ held' = held \ gone
  /\ net' = {m \in net : m.session \notin gone}

\* POST /ready: the session registers and its token is rotated.
Ready(s) ==
  /\ s \in alive
  /\ Register(s)
  /\ Revoke((registered \ registered') \cup {s})
  /\ replies' = (replies \cap registered') \cup {s}
  /\ UNCHANGED <<pluginVars, inbox>>

\* The /ready reply arrives: the plugin takes the token and posts its receipts.
ReadyReply(s) ==
  /\ s \in replies \cap alive
  /\ replies' = replies \ {s}
  /\ held' = held \cup {s}
  /\ net' = IF cache[s] = <<>> THEN net
            ELSE net \cup {[kind |-> "reconcile", session |-> s, epoch |-> epoch,
                            receipts |-> ReceiptsOf(s)]}
  /\ UNCHANGED <<bridgeVars, pluginVars, inbox>>

\* Fault: the instance is deleted and its requests are forgotten.
DisconnectOnly(s) ==
  /\ s \in registered
  /\ registered' = registered \ {s}
  /\ Revoke({s})
  /\ replies' = replies \ {s}
  /\ UNCHANGED <<serving, epoch, queueVars, statusVars, journal, pluginVars, inbox>>

\* POST /disconnect, or the reaping of a session that stopped polling.
Disconnect(s) ==
  /\ Unregister(s)
  /\ Revoke({s})
  /\ replies' = replies \ {s}
  /\ UNCHANGED <<pluginVars, inbox>>

PluginCrash(s) ==
  /\ Plugin!Crash(s)
  /\ inbox' = [inbox EXCEPT ![s] = NoDelivery]
  /\ UNCHANGED <<bridgeVars, held, replies, net>>
-----------------------------------------------------------------------------
(* Delivery and execution *)

\* GET /poll: refused without the token, and with 503 during shutdown.
PollWith(s, L) ==
  /\ s \in alive \cap held
  /\ serving
  /\ inbox[s] = NoDelivery
  /\ \E r \in Requests :
       /\ Deliver(s, L, r)
       /\ inbox' = [inbox EXCEPT ![s] = Delivery(s, r)]
  /\ UNCHANGED <<pluginVars, held, replies, net>>

Poll(s) == \E L \in SUBSET Lapsable(s) : PollWith(s, L)

\* The reply to the poll is lost; the plugin's request fails and it polls again.
LoseReply(s) ==
  /\ inbox[s] # NoDelivery
  /\ inbox' = [inbox EXCEPT ![s] = NoDelivery]
  /\ UNCHANGED <<bridgeVars, pluginVars, held, replies, net>>

\* handleRequestOnce.  The acknowledgement is sent by a thread of its own and
\* the handler does not wait for it.
HandleRequestOnce(s) ==
  LET d == inbox[s] IN
  /\ d # NoDelivery
  /\ s \in alive
  /\ inbox' = [inbox EXCEPT ![s] = NoDelivery]
  /\ \/ /\ Plugin!Cached(s, d.req)
        /\ Send(s, Response(s, d.req, d.fence))
        /\ UNCHANGED pluginVars
     \/ /\ ~Plugin!Cached(s, d.req)
        /\ Plugin!Running(s, d.req)
        /\ UNCHANGED <<pluginVars, net>>
     \/ /\ Plugin!Start(s, d.req, d.fence)
        /\ Send(s, Ack(s, d.req, d.fence))
  /\ UNCHANGED <<bridgeVars, held, replies>>

\* The handler ends; its response carries the fence it was started with.
HandlerDone(s, r) ==
  /\ Plugin!Complete(s, r)
  /\ Send(s, Response(s, r, running[s][r]))
  /\ UNCHANGED <<bridgeVars, held, replies, inbox>>
-----------------------------------------------------------------------------
(* Frames reaching the server.  A stale one is answered 409. *)

Take(m) == net' = net \ {m} /\ UNCHANGED <<pluginVars, held, replies, inbox>>

ReceiveAck(m) ==
  /\ m.kind = "ack"
  /\ Take(m)
  /\ IF FenceMatches(m.req, m.fence) /\ state[m.req] = "delivered"
     THEN Acknowledge(m.req, m.fence)
     ELSE UNCHANGED bridgeVars

ReceiveResponse(m) ==
  /\ m.kind = "response"
  /\ Take(m)
  /\ IF FenceMatches(m.req, m.fence) /\ Legal(state[m.req], "completed")
     THEN Resolve(m.req, m.fence)
     ELSE UNCHANGED bridgeVars

ReceiveReconcile(m) ==
  /\ m.kind = "reconcile"
  /\ Take(m)
  /\ IF m.epoch = epoch /\ Proven(m.session, m.receipts) # {}
     THEN Reconcile(m.session, m.epoch, m.receipts)
     ELSE UNCHANGED bridgeVars
-----------------------------------------------------------------------------
(* The server on its own *)

ServerStep ==
  /\ \/ \E r \in Requests : SendRequest(r) \/ Expire(r) \/ Cancel(r)
     \/ ClearAll
  /\ UNCHANGED <<pluginVars, wireVars>>

\* Connections and tokens live in the process that ends.
ServerRestart ==
  /\ Restart
  /\ Revoke(Sessions)
  /\ replies' = {}
  /\ UNCHANGED <<pluginVars, inbox>>

SystemNext ==
  \/ \E s \in Sessions :
       \/ Ready(s) \/ ReadyReply(s) \/ Disconnect(s) \/ PluginCrash(s)
       \/ Poll(s) \/ LoseReply(s) \/ HandleRequestOnce(s)
       \/ \E r \in Requests : HandlerDone(s, r)
  \/ \E m \in net : ReceiveAck(m) \/ ReceiveResponse(m) \/ ReceiveReconcile(m)
  \/ ServerStep \/ ServerRestart

SystemSpec == SystemInit /\ [][SystemNext]_vars
-----------------------------------------------------------------------------
Frames ==
  [kind : {"ack", "response"}, session : Sessions, req : Requests,
   fence : FrameFences]
    \cup [kind : {"reconcile"}, session : Sessions, epoch : 0..MaxEpoch,
          receipts : Receipts]

SystemTypeOK ==
  /\ TypeOK
  /\ Plugin!TypeOK
  /\ held \subseteq Sessions
  /\ replies \subseteq Sessions
  /\ inbox \in [Sessions -> {NoDelivery} \cup [req : Requests, fence : FrameFences]]
  /\ net \subseteq Frames

\* The fences of deliveries to s.
Deliveries(s) == {f \in Fences : f.session = s /\ f.attempt > 0}

\* Whatever is redelivered, replaced or answered late, a session only ever
\* holds and quotes the fence of a delivery made to it.
FencesAreOwn ==
  /\ \A s \in Sessions :
       /\ inbox[s] # NoDelivery => inbox[s].fence \in Deliveries(s)
       /\ \A r \in Requests :
            Plugin!Running(s, r) => running[s][r] \in Deliveries(s)
       /\ \A i \in DOMAIN cache[s] : cache[s][i].attempt > 0
  /\ \A m \in net : m.kind # "reconcile" => m.fence \in Deliveries(m.session)

\* Whoever can still speak to the server is registered with it: tokens and the
\* frames sent under them die with the registration they came from.  /ack and
\* /response rely on this: for a session they do not find they skip the fence.
AuthorisedAreRegistered ==
  /\ held \cup replies \subseteq registered
  /\ \A m \in net : m.session \in registered

\* A request reported completed was run by the very session its last lease
\* named, whatever was lost, late, redelivered or reconciled on the way.
CompletedWasRun ==
  \A r \in Requests :
    state[r] = "completed" => /\ fence[r].session \in Sessions
                              /\ ran[fence[r].session][r] >= 1

\* "A repeated ID returns the cached result instead of running a mutation
\* twice": over all sessions of a target, takeovers included, the work of a
\* mutation starts at most once.
MutationRunsOnce ==
  \A r \in Mutations : \A s, x \in Sessions :
    ran[s][r] > 0 /\ ran[x][r] > 0 => s = x /\ ran[s][r] = 1

\* Only the delivery in force settles a waiting request: the accepted response
\* is the one of the latest attempt, from the session that holds it.
OnlyCurrentDeliveryCompletes ==
  [][\A r \in pending :
       state'[r] = "completed" /\ state[r] # "completed" =>
         \E m \in net : /\ m.kind = "response" /\ m.req = r
                        /\ m.session = holder[r]
                        /\ m.fence.attempt = attempt[r]
                        /\ m.fence.epoch = epoch]_vars

\* "timed-out delivered commands ... report outcome_unknown ... instead of silently
\* inviting unsafe mutation retries" (CHANGELOG.md): a mutation that timed out for
\* certain was not begun.
TimedOutNeverRan ==
  \A r \in Mutations : state[r] = "timed_out" => \A s \in Sessions : ran[s][r] = 0

\* "Request cancelled before execution" (bridge-service.ts, cancelRequest).
CancelledNeverRan ==
  \A r \in Requests : state[r] = "cancelled" => \A s \in Sessions : ran[s][r] = 0
-----------------------------------------------------------------------------
\* The inductive invariant behind RefinesBridge.
SystemInv == IInv /\ SystemTypeOK /\ FencesAreOwn /\ AuthorisedAreRegistered
-----------------------------------------------------------------------------
\* What the caller of r has been told.
Told(r) ==
  CASE arrival[r] = 0                                   -> "unsent"
    [] arrival[r] # 0 /\ state[r] = "none"              -> "forgotten"
    [] state[r] \in Active                              -> "waiting"
    [] state[r] = "completed"                           -> "ok"
    [] state[r] = "outcome_unknown"                     -> "unknown"
    [] state[r] \in {"failed", "timed_out", "cancelled"} -> "error"

Contract ==
  INSTANCE RequestContract WITH
    Executions <- Sessions \X (1..MaxRuns),
    outcome <- [r \in Requests |-> Told(r)],
    work <- [r \in Requests |->
               {x \in Sessions \X (1..MaxRuns) : x[2] <= ran[x[1]][r]}],
    life <- epoch

\* The whole system keeps the contract, for servers that start without their
\* journal as the ones of server.ts do.
KeepsContract == Contract!Spec

\* ... and every step of it is a step of the open bridge or leaves it alone, so
\* what is shown of BridgeService for arbitrary frames holds here.
RefinesBridge == Spec
-----------------------------------------------------------------------------
(* Progress when nothing is given up: no timer fires, nobody cancels,       *)
(* disconnects, crashes or restarts, but poll replies may be lost.          *)

\* The bound on deliveries must not decide the outcome: the last delivery it
\* leaves is not lost, and is not spent while the handler is still running.
CalmPoll(s) ==
  \E L \in SUBSET Lapsable(s) :
    /\ \A r \in L : attempt[r] + 1 = MaxAttempts => ~Plugin!Running(s, r)
    /\ PollWith(s, L)

CalmLoss(s) ==
  /\ inbox[s] # NoDelivery
  /\ attempt[inbox[s].req] < MaxAttempts
  /\ LoseReply(s)

CalmNext ==
  \/ \E s \in Sessions :
       \/ s \notin registered /\ Ready(s)
       \/ ReadyReply(s) \/ CalmPoll(s) \/ CalmLoss(s) \/ HandleRequestOnce(s)
       \/ \E r \in Requests : HandlerDone(s, r)
  \/ \E m \in net : ReceiveAck(m) \/ ReceiveResponse(m)
  \/ \E r \in Requests : SendRequest(r) /\ UNCHANGED <<pluginVars, wireVars>>

\* The plugin's poll loop runs on Heartbeat and its threads are scheduled; the
\* server handles what reaches it.
CalmFairness ==
  /\ \A s \in Sessions :
       /\ WF_vars(s \notin registered /\ Ready(s))
       /\ WF_vars(ReadyReply(s))
       /\ WF_vars(CalmPoll(s))
       /\ WF_vars(HandleRequestOnce(s))
       /\ \A r \in Requests : WF_vars(HandlerDone(s, r))
  /\ WF_vars(\E m \in net : ReceiveAck(m) \/ ReceiveResponse(m))

CalmSpec == SystemInit /\ [][CalmNext]_vars /\ CalmFairness

\* Leases, redelivery and the result cache together carry every request to its
\* response without the help of a timeout, although replies are lost, leases
\* lapse under running handlers and answers come too late to be accepted.
EventuallyCompleted ==
  \A r \in Requests : r \in pending ~> state[r] = "completed"
=============================================================================
