-------------------------- MODULE StudioBridgeProofs --------------------------
(***************************************************************************)
(* The whole system implements the open bridge, so the theorems of         *)
(* BridgeServiceProofs hold of it, for every set of requests and sessions  *)
(* and every bound; and what the transport adds.                           *)
(*                                                                         *)
(* SystemInv says what can be in a frame.  It is needed because the open   *)
(* bridge accepts only frames that name a session; in turn it needs the    *)
(* bridge's invariant, which bounds the delivery a fence can carry.        *)
(***************************************************************************)
EXTENDS StudioBridge, BridgeServiceProofs

\* A fence of a delivery may be in a frame.
LEMMA DeliveriesAreFrames ==
  ASSUME NEW s \in Sessions
  PROVE  Deliveries(s) \subseteq FrameFences
BY BridgeAssumption DEF Deliveries, FrameFences

\* A poll makes a delivery to the session that polls.
LEMMA PollDelivers ==
  ASSUME LiveInv, NEW s \in Sessions, NEW L \in SUBSET Lapsable(s), NEW r \in Requests,
         Deliver(s, L, r)
  PROVE  NextFence(s, r) \in Deliveries(s)
<1>1. attempt[r] \in 0..MaxAttempts /\ epoch \in 0..MaxEpoch
  BY DEF LiveInv, LiveTypeOK
<1>2. attempt[r] < MaxAttempts
  BY DEF Deliver, Oldest, Eligible, InFlight, Mine, Lapsable, LiveInv, Room
<1> QED  BY <1>1, <1>2, BridgeAssumption DEF NextFence, Deliveries, Fences

\* What a frame consists of.
LEMMA FrameTypes ==
  ASSUME SystemInv, NEW m \in net
  PROVE  /\ m.session \in Sessions
         /\ m.kind = "reconcile" => m.epoch \in 0..MaxEpoch /\ m.receipts \in Receipts
         /\ m.kind # "reconcile" => m.req \in Requests /\ m.fence \in FrameFences
BY DEF SystemInv, SystemTypeOK, Frames
-----------------------------------------------------------------------------
(* Every step is a step of the bridge or leaves it alone *)

\* The steps of the bridge other than Resolve that the system takes.
OtherStep ==
  \/ \E r \in Requests :
       SendRequest(r) \/ Expire(r) \/ Cancel(r) \/ \E f \in FrameFences : Acknowledge(r, f)
  \/ \E s \in Sessions :
       \/ \E L \in SUBSET Lapsable(s), r \in Requests : Deliver(s, L, r)
       \/ \E receipts \in Receipts, e \in 0..MaxEpoch : Reconcile(s, e, receipts)
       \/ Unregister(s) \/ Register(s)
  \/ ClearAll \/ Restart

\* What a step of the system is for the bridge.
LEMMA StepSorts ==
  ASSUME SystemInv, SystemNext
  PROVE  \/ OtherStep \/ UNCHANGED bridgeVars
         \/ \E m \in net : ReceiveResponse(m) /\ Resolve(m.req, m.fence)
<1>1. ASSUME NEW s \in Sessions, Ready(s) \/ Disconnect(s) \/ Poll(s) PROVE OtherStep
  BY <1>1 DEF Ready, Disconnect, Poll, PollWith, OtherStep
<1>2. ASSUME NEW s \in Sessions,
             \/ ReadyReply(s) \/ PluginCrash(s) \/ LoseReply(s)
             \/ HandleRequestOnce(s) \/ \E r \in Requests : HandlerDone(s, r)
      PROVE  UNCHANGED bridgeVars
  BY <1>2 DEF ReadyReply, PluginCrash, LoseReply, HandleRequestOnce, HandlerDone
<1>3. ASSUME NEW m \in net, ReceiveAck(m) \/ ReceiveReconcile(m)
      PROVE  OtherStep \/ UNCHANGED bridgeVars
  BY <1>3, FrameTypes DEF ReceiveAck, ReceiveReconcile, OtherStep
<1>4. ASSUME NEW m \in net, ReceiveResponse(m)
      PROVE  Resolve(m.req, m.fence) \/ UNCHANGED bridgeVars
  BY <1>4 DEF ReceiveResponse
<1>5. ASSUME ServerStep \/ ServerRestart PROVE OtherStep
  BY <1>5 DEF ServerStep, ServerRestart, OtherStep
<1> QED  BY <1>1, <1>2, <1>3, <1>4, <1>5 DEF SystemNext

\* Hence it is a step of the bridge or leaves it alone.
LEMMA StepRefines ==
  ASSUME SystemInv, [SystemNext]_vars
  PROVE  [Next]_bridgeVars
<1>1. CASE OtherStep
  BY <1>1 DEF OtherStep, Next
<1>2. ASSUME NEW m \in net, ReceiveResponse(m), Resolve(m.req, m.fence) PROVE Next
  BY <1>2, FrameTypes DEF ReceiveResponse, Next
<1>3. CASE UNCHANGED vars
  BY <1>3 DEF vars
<1> QED  BY <1>1, <1>2, <1>3, StepSorts
-----------------------------------------------------------------------------
(* What is in frames, threads and caches *)

\* The parts of SystemInv that are not the bridge's.
WireTypes ==
  /\ held \subseteq Sessions
  /\ replies \subseteq Sessions
  /\ inbox \in [Sessions -> {NoDelivery} \cup [req : Requests, fence : FrameFences]]
  /\ net \subseteq Frames

PluginFences ==
  \A s \in Sessions :
    /\ \A r \in Requests : Plugin!Running(s, r) => running[s][r] \in Deliveries(s)
    /\ \A i \in DOMAIN cache[s] : cache[s][i].attempt > 0

InboxFences ==
  \A s \in Sessions : inbox[s] # NoDelivery => inbox[s].fence \in Deliveries(s)

FrameOwn(m) == m.kind # "reconcile" => m.fence \in Deliveries(m.session)

WireInv ==
  /\ Plugin!TypeOK /\ PluginFences
  /\ WireTypes /\ InboxFences /\ \A m \in net : FrameOwn(m)
  /\ AuthorisedAreRegistered

LEMMA InvParts == SystemInv <=> IInv /\ WireInv
<1>1. IInv => TypeOK
  BY DEF IInv, LiveInv, JournalSound, TypeOK
<1> QED
  BY <1>1 DEF SystemInv, SystemTypeOK, FencesAreOwn, WireInv, WireTypes, PluginFences,
              InboxFences, FrameOwn

\* A plugin that does nothing keeps its part.
LEMMA PluginIdle ==
  ASSUME WireInv, UNCHANGED pluginVars
  PROVE  Plugin!TypeOK' /\ PluginFences'
BY DEF WireInv, pluginVars, Plugin!TypeOK, PluginFences, Plugin!Running

\* Nothing new is under way.
LEMMA NothingSent ==
  ASSUME WireInv, net' \subseteq net, inbox' = inbox
  PROVE  /\ net' \subseteq Frames /\ \A m \in net' : FrameOwn(m)
         /\ inbox' \in [Sessions -> {NoDelivery} \cup [req : Requests, fence : FrameFences]]
         /\ InboxFences'
BY DEF WireInv, WireTypes, InboxFences

\* A poll reply that is taken or lost.
LEMMA InboxEmptied ==
  ASSUME WireInv, NEW s \in Sessions, inbox' = [inbox EXCEPT ![s] = NoDelivery]
  PROVE  /\ inbox' \in [Sessions -> {NoDelivery} \cup [req : Requests, fence : FrameFences]]
         /\ InboxFences'
BY DEF WireInv, WireTypes, InboxFences

\* One frame is sent under the token.
LEMMA FrameSent ==
  ASSUME WireInv, NEW s \in Sessions, NEW m \in Frames, FrameOwn(m), m.session = s,
         UNCHANGED <<registered, held, replies>>, Send(s, m)
  PROVE  /\ net' \subseteq Frames /\ \A x \in net' : FrameOwn(x)
         /\ AuthorisedAreRegistered'
BY DEF WireInv, WireTypes, Send, AuthorisedAreRegistered

\* Frames and tokens that are left belong to sessions that are.
LEMMA StillAuthorised ==
  ASSUME AuthorisedAreRegistered, held' \subseteq held, replies' \subseteq replies,
         net' \subseteq net, registered' = registered
  PROVE  AuthorisedAreRegistered'
BY DEF AuthorisedAreRegistered
-----------------------------------------------------------------------------
(* One lemma per action *)

\* /ready rotates the token; a session it replaces loses its own.
LEMMA ReadyKeeps ==
  ASSUME WireInv, NEW s \in Sessions, Ready(s)
  PROVE  WireInv'
<1>1. s \in registered'
  BY DEF Ready, Register
<1>2. /\ held' = held \ ((registered \ registered') \cup {s})
      /\ net' = {m \in net : m.session \notin (registered \ registered') \cup {s}}
      /\ replies' = (replies \cap registered') \cup {s}
      /\ UNCHANGED <<pluginVars, inbox>>
  BY DEF Ready, Revoke
<1>3. AuthorisedAreRegistered'
  BY <1>1, <1>2 DEF WireInv, AuthorisedAreRegistered
<1> QED
  BY <1>2, <1>3, PluginIdle, NothingSent DEF WireInv, WireTypes

\* Receipts name requests and the deliveries that started them.
LEMMA ReceiptsTyped ==
  ASSUME WireInv, NEW s \in Sessions
  PROVE  ReceiptsOf(s) \in Receipts
<1> DEFINE R == {q \in Requests : Plugin!Cached(s, q)}
<1>1. ASSUME NEW r \in R PROVE cache[s][Receipt(s, r)].attempt \in 0..MaxAttempts
  <2>1. \E i \in DOMAIN cache[s] : cache[s][i].req = r
    BY DEF Plugin!Cached
  <2>2. Receipt(s, r) \in DOMAIN cache[s]
    BY <2>1 DEF Receipt
  <2>3. cache[s] \in Seq(Plugin!Results)
    BY DEF WireInv, Plugin!TypeOK
  <2>4. cache[s][Receipt(s, r)] \in Plugin!Results
    BY <2>2, <2>3, ElementOfSeq, LenProperties
  <2> QED  BY <2>4 DEF Plugin!Results, Fences
<1>2. ReceiptsOf(s) \in [R -> 0..MaxAttempts]
  BY <1>1 DEF ReceiptsOf
<1> QED  BY <1>2 DEF Receipts

\* The plugin takes its token and posts its receipts.
LEMMA ReadyReplyKeeps ==
  ASSUME WireInv, epoch \in 0..MaxEpoch, NEW s \in Sessions, ReadyReply(s)
  PROVE  WireInv'
<1> DEFINE m == [kind |-> "reconcile", session |-> s, epoch |-> epoch,
                 receipts |-> ReceiptsOf(s)]
<1>1. /\ s \in replies /\ replies' = replies \ {s} /\ held' = held \cup {s}
      /\ net' = net \/ net' = net \cup {m}
      /\ registered' = registered
      /\ UNCHANGED <<pluginVars, inbox>>
  BY DEF ReadyReply, bridgeVars, registryVars
<1>2. m \in Frames
  BY ReceiptsTyped DEF Frames
<1>3. s \in registered
  BY <1>1 DEF WireInv, AuthorisedAreRegistered
<1>4. AuthorisedAreRegistered'
  BY <1>1, <1>3 DEF WireInv, AuthorisedAreRegistered
<1>5. net' \subseteq Frames /\ \A x \in net' : FrameOwn(x)
  BY <1>1, <1>2 DEF WireInv, WireTypes, FrameOwn
<1>6. WireTypes' /\ InboxFences'
  BY <1>1, <1>5 DEF WireInv, WireTypes, InboxFences
<1> QED  BY <1>1, <1>4, <1>5, <1>6, PluginIdle DEF WireInv

\* /disconnect voids what the session holds and sent.
LEMMA DisconnectKeeps ==
  ASSUME WireInv, NEW s \in Sessions, Disconnect(s)
  PROVE  WireInv'
<1>1. /\ registered' = registered \ {s}
      /\ held' = held \ {s} /\ replies' = replies \ {s}
      /\ net' = {m \in net : m.session \notin {s}}
      /\ UNCHANGED <<pluginVars, inbox>>
  BY DEF Disconnect, Unregister, Revoke
<1>2. AuthorisedAreRegistered'
  BY <1>1 DEF WireInv, AuthorisedAreRegistered
<1> QED  BY <1>1, <1>2, PluginIdle, NothingSent DEF WireInv, WireTypes

\* A crash forgets threads and results.
LEMMA CrashKeeps ==
  ASSUME WireInv, NEW s \in Sessions, PluginCrash(s)
  PROVE  WireInv'
<1>1. /\ running' = [running EXCEPT ![s] = [r \in Requests |-> NoFence]]
      /\ cache' = [cache EXCEPT ![s] = <<>>]
      /\ alive' = alive \ {s}
      /\ UNCHANGED <<ran, log, held, replies, net, registered>>
      /\ inbox' = [inbox EXCEPT ![s] = NoDelivery]
  BY DEF PluginCrash, Plugin!Crash, bridgeVars, registryVars
<1>2. Plugin!TypeOK'
  BY <1>1, EmptySeq DEF WireInv, Plugin!TypeOK
<1>3. PluginFences'
  BY <1>1 DEF WireInv, Plugin!TypeOK, PluginFences, Plugin!Running
<1>4. AuthorisedAreRegistered'
  BY <1>1 DEF WireInv, AuthorisedAreRegistered
<1> QED  BY <1>1, <1>2, <1>3, <1>4, InboxEmptied DEF WireInv, WireTypes

\* The reply to a poll carries a delivery to the session that polled.
LEMMA PollKeeps ==
  ASSUME WireInv, LiveInv, NEW s \in Sessions, Poll(s)
  PROVE  WireInv'
<1>1. PICK L \in SUBSET Lapsable(s), r \in Requests :
        /\ Deliver(s, L, r)
        /\ inbox' = [inbox EXCEPT ![s] = Delivery(s, r)]
  BY DEF Poll, PollWith
<1>2. UNCHANGED <<pluginVars, held, replies, net, registered>>
  BY <1>1 DEF Poll, PollWith, Deliver, registryVars
<1>3. NextFence(s, r) \in Deliveries(s) \cap FrameFences
  BY <1>1, PollDelivers, DeliveriesAreFrames
<1>4. InboxFences' /\ WireTypes'
  BY <1>1, <1>2, <1>3 DEF WireInv, WireTypes, InboxFences, Delivery
<1>5. AuthorisedAreRegistered'
  BY <1>2 DEF WireInv, AuthorisedAreRegistered
<1> QED  BY <1>2, <1>4, <1>5, PluginIdle DEF WireInv, WireTypes

\* A poll reply may be lost.
LEMMA LoseReplyKeeps ==
  ASSUME WireInv, NEW s \in Sessions, LoseReply(s)
  PROVE  WireInv'
<1>1. /\ UNCHANGED <<pluginVars, held, replies, net, registered>>
      /\ inbox' = [inbox EXCEPT ![s] = NoDelivery]
  BY DEF LoseReply, bridgeVars, registryVars
<1>2. AuthorisedAreRegistered'
  BY <1>1 DEF WireInv, AuthorisedAreRegistered
<1> QED  BY <1>1, <1>2, PluginIdle, InboxEmptied DEF WireInv, WireTypes

\* An acknowledgement and a response of s under a fence of its own are frames.
LEMMA OwnFrames ==
  ASSUME NEW s \in Sessions, NEW r \in Requests, NEW f \in Deliveries(s)
  PROVE  /\ Ack(s, r, f) \in Frames /\ FrameOwn(Ack(s, r, f))
         /\ Response(s, r, f) \in Frames /\ FrameOwn(Response(s, r, f))
         /\ Ack(s, r, f).session = s /\ Response(s, r, f).session = s
BY DeliveriesAreFrames DEF Ack, Response, Frames, FrameOwn

\* A delivery is answered from the cache, ignored, or starts a thread.
LEMMA HandleRequestOnceKeeps ==
  ASSUME WireInv, NEW s \in Sessions, HandleRequestOnce(s)
  PROVE  WireInv'
<1> DEFINE d == inbox[s]
<1>1. /\ UNCHANGED <<held, replies, registered>>
      /\ inbox' = [inbox EXCEPT ![s] = NoDelivery]
  BY DEF HandleRequestOnce, bridgeVars, registryVars
<1>2. d.req \in Requests /\ d.fence \in Deliveries(s)
  BY DEF HandleRequestOnce, WireInv, WireTypes, InboxFences
<1>3. CASE UNCHANGED pluginVars /\ Send(s, Response(s, d.req, d.fence))
  <2>1. /\ net' \subseteq Frames /\ \A x \in net' : FrameOwn(x)
        /\ AuthorisedAreRegistered'
    BY <1>1, <1>2, <1>3, OwnFrames, FrameSent
  <2> QED  BY <1>1, <1>3, <2>1, PluginIdle, InboxEmptied DEF WireInv, WireTypes
<1>4. CASE UNCHANGED <<pluginVars, net>>
  <2>1. AuthorisedAreRegistered'
    BY <1>1, <1>4 DEF WireInv, AuthorisedAreRegistered
  <2> QED  BY <1>1, <1>4, <2>1, PluginIdle, InboxEmptied DEF WireInv, WireTypes
<1>5. CASE Plugin!Start(s, d.req, d.fence) /\ Send(s, Ack(s, d.req, d.fence))
  <2>1. /\ net' \subseteq Frames /\ \A x \in net' : FrameOwn(x)
        /\ AuthorisedAreRegistered'
    BY <1>1, <1>2, <1>5, OwnFrames, FrameSent
  <2>2. /\ running' = [running EXCEPT ![s][d.req] = d.fence]
        /\ ran' = [ran EXCEPT ![s][d.req] = @ + 1] /\ ran[s][d.req] < MaxRuns
        /\ UNCHANGED <<alive, cache, log>>
    BY <1>5 DEF Plugin!Start
  <2>3. Plugin!TypeOK'
    <3>1. d.fence \in Fences
      BY <1>2 DEF Deliveries
    <3>2. running' \in [Sessions -> [Requests -> Fences \cup {NoFence}]]
      BY <1>2, <2>2, <3>1 DEF WireInv, Plugin!TypeOK
    <3>3. ran' \in [Sessions -> [Requests -> 0..MaxRuns]]
      <4>1. ran[s][d.req] \in 0..MaxRuns
        BY <1>2 DEF WireInv, Plugin!TypeOK
      <4>2. ran[s][d.req] + 1 \in 0..MaxRuns
        BY <2>2, <4>1, PluginLimits
      <4> QED  BY <1>2, <2>2, <4>2 DEF WireInv, Plugin!TypeOK
    <3> QED  BY <2>2, <3>2, <3>3 DEF WireInv, Plugin!TypeOK
  <2>4. PluginFences'
    BY <1>2, <2>2 DEF WireInv, Plugin!TypeOK, PluginFences, Plugin!Running
  <2> QED  BY <1>1, <2>1, <2>3, <2>4, InboxEmptied DEF WireInv, WireTypes
<1> QED  BY <1>3, <1>4, <1>5 DEF HandleRequestOnce

\* The cache after a completion.
LEMMA RememberedTyped ==
  ASSUME WireInv, NEW s \in Sessions, NEW r \in Requests, NEW f \in Deliveries(s)
  PROVE  /\ Plugin!Remembered(s, r, f) \in Seq(Plugin!Results)
         /\ \A i \in DOMAIN Plugin!Remembered(s, r, f) :
              Plugin!Remembered(s, r, f)[i].attempt > 0
<1> DEFINE old == cache[s]
           new == [req |-> r, attempt |-> f.attempt]
           rest == IF Len(old) >= CacheLimit THEN Tail(old) ELSE old
<1>1. old \in Seq(Plugin!Results) /\ \A i \in 1..Len(old) : old[i].attempt > 0
  BY LenProperties DEF WireInv, Plugin!TypeOK, PluginFences
<1>2. new \in Plugin!Results /\ new.attempt > 0
  BY DEF Deliveries, Plugin!Results
<1>3. rest \in Seq(Plugin!Results) /\ \A i \in 1..Len(rest) : rest[i].attempt > 0
  <2>1. CASE Len(old) >= CacheLimit
    <3>1. Len(old) \in Nat /\ Len(old) > 0
      BY <1>1, <2>1, PluginLimits, LenProperties
    <3>2. old # <<>>
      BY <3>1
    <3>3. /\ Tail(old) \in Seq(Plugin!Results) /\ Len(Tail(old)) = Len(old) - 1
          /\ \A i \in 1..Len(Tail(old)) : Tail(old)[i] = old[i + 1]
      BY <1>1, <3>2, HeadTailProperties
    <3> QED  BY <1>1, <2>1, <3>1, <3>3
  <2> QED  BY <1>1, <2>1
<1> HIDE DEF rest, new
<1>4. /\ Append(rest, new) \in Seq(Plugin!Results)
      /\ \A i \in 1..Len(Append(rest, new)) : Append(rest, new)[i].attempt > 0
  BY <1>2, <1>3, AppendProperties, LenProperties
<1>5. Plugin!Remembered(s, r, f) = Append(rest, new)
  BY DEF Plugin!Remembered, rest, new
<1> QED  BY <1>4, <1>5, LenProperties

\* A thread ends, is remembered and answers under its own fence.
LEMMA HandlerDoneKeeps ==
  ASSUME WireInv, NEW s \in Sessions, NEW r \in Requests, HandlerDone(s, r)
  PROVE  WireInv'
<1>1. /\ UNCHANGED <<held, replies, inbox, registered>>
      /\ Send(s, Response(s, r, running[s][r]))
  BY DEF HandlerDone, bridgeVars, registryVars
<1>2. /\ Plugin!Running(s, r)
      /\ running' = [running EXCEPT ![s][r] = NoFence]
      /\ cache' = [cache EXCEPT ![s] = Plugin!Remembered(s, r, running[s][r])]
      /\ log' = [log EXCEPT ![s] = Append(@, r)]
      /\ UNCHANGED <<alive, ran>>
  BY DEF HandlerDone, Plugin!Complete
<1>3. running[s][r] \in Deliveries(s)
  BY <1>2 DEF WireInv, PluginFences
<1>4. /\ net' \subseteq Frames /\ \A x \in net' : FrameOwn(x)
      /\ AuthorisedAreRegistered'
  BY <1>1, <1>3, OwnFrames, FrameSent
<1>5. Plugin!TypeOK'
  <2>1. running' \in [Sessions -> [Requests -> Fences \cup {NoFence}]]
    BY <1>2 DEF WireInv, Plugin!TypeOK
  <2>2. cache' \in [Sessions -> Seq(Plugin!Results)]
    BY <1>2, <1>3, RememberedTyped DEF WireInv, Plugin!TypeOK
  <2>3. log' \in [Sessions -> Seq(Requests)]
    BY <1>2, AppendProperties DEF WireInv, Plugin!TypeOK
  <2> QED  BY <1>2, <2>1, <2>2, <2>3 DEF WireInv, Plugin!TypeOK
<1>6. PluginFences'
  BY <1>2, <1>3, RememberedTyped DEF WireInv, Plugin!TypeOK, PluginFences, Plugin!Running
<1>7. InboxFences' /\ WireTypes'
  BY <1>1, <1>4 DEF WireInv, WireTypes, InboxFences
<1> QED  BY <1>4, <1>5, <1>6, <1>7 DEF WireInv

\* Taking a frame leaves the rest as it was.
LEMMA TakeKeeps ==
  ASSUME WireInv, NEW m \in net, Take(m), registered' = registered
  PROVE  WireInv'
<1>1. net' \subseteq net /\ UNCHANGED <<pluginVars, held, replies, inbox>>
  BY DEF Take
<1>2. AuthorisedAreRegistered'
  BY <1>1, StillAuthorised DEF WireInv
<1> QED  BY <1>1, <1>2, PluginIdle, NothingSent DEF WireInv, WireTypes

\* A frame that reaches the server.
LEMMA ReceiveKeeps ==
  ASSUME WireInv, NEW m \in net,
         ReceiveAck(m) \/ ReceiveResponse(m) \/ ReceiveReconcile(m)
  PROVE  WireInv'
<1>1. Take(m)
  BY DEF ReceiveAck, ReceiveResponse, ReceiveReconcile
<1>2. registered' = registered
  BY DEF ReceiveAck, ReceiveResponse, ReceiveReconcile, Acknowledge, Resolve, Finish,
         Reconcile, bridgeVars, registryVars
<1> QED  BY <1>1, <1>2, TakeKeeps

\* The server on its own does not touch registrations or frames.
LEMMA ServerStepKeeps ==
  ASSUME WireInv, ServerStep
  PROVE  WireInv'
<1>1. UNCHANGED <<pluginVars, wireVars>>
  BY DEF ServerStep
<1>2. registered' = registered
  BY DEF ServerStep, SendRequest, Expire, Cancel, ClearAll, registryVars
<1>3. UNCHANGED <<held, replies, inbox, net>>
  BY <1>1 DEF wireVars
<1>4. AuthorisedAreRegistered'
  BY <1>2, <1>3, StillAuthorised DEF WireInv
<1> QED  BY <1>1, <1>3, <1>4, PluginIdle, NothingSent DEF WireInv, WireTypes

\* A restart voids every token and every frame.
LEMMA ServerRestartKeeps ==
  ASSUME WireInv, ServerRestart
  PROVE  WireInv'
<1>1. /\ held' = held \ Sessions /\ net' = {m \in net : m.session \notin Sessions}
      /\ replies' = {} /\ UNCHANGED <<pluginVars, inbox>>
  BY DEF ServerRestart, Revoke
<1>2. held' = {} /\ net' = {}
  BY <1>1 DEF WireInv, WireTypes, Frames
<1>3. AuthorisedAreRegistered'
  BY <1>1, <1>2 DEF AuthorisedAreRegistered
<1> QED  BY <1>1, <1>3, PluginIdle, NothingSent DEF WireInv, WireTypes
-----------------------------------------------------------------------------
\* SystemInv holds at the start.
LEMMA SystemInitSound == SystemInit => SystemInv
<1> SUFFICES ASSUME SystemInit PROVE SystemInv
  OBVIOUS
<1>1. IInv
  BY InitSound DEF SystemInit
<1>2. Plugin!TypeOK /\ PluginFences
  BY PluginLimits, EmptySeq
     DEF SystemInit, Plugin!Init, Plugin!TypeOK, PluginFences, Plugin!Running
<1>3. WireTypes /\ InboxFences /\ (\A m \in net : FrameOwn(m)) /\ AuthorisedAreRegistered
  BY DEF SystemInit, WireTypes, InboxFences, AuthorisedAreRegistered
<1> QED  BY <1>1, <1>2, <1>3, InvParts DEF WireInv

\* SystemInv is inductive.
LEMMA SystemKeeps ==
  ASSUME SystemInv, [SystemNext]_vars
  PROVE  SystemInv'
<1>1. IInv /\ WireInv
  BY InvParts
<1>2. IInv'
  BY <1>1, StepRefines, NextKeeps
<1>3. LiveInv /\ epoch \in 0..MaxEpoch
  BY <1>1 DEF IInv, LiveInv, LiveTypeOK
<1>4. WireInv'
  <2>1. ASSUME NEW s \in Sessions, NEW r \in Requests, HandlerDone(s, r) PROVE WireInv'
    BY <1>1, <2>1, HandlerDoneKeeps
  <2>2. ASSUME NEW s \in Sessions,
               \/ Ready(s) \/ ReadyReply(s) \/ Disconnect(s) \/ PluginCrash(s)
               \/ Poll(s) \/ LoseReply(s) \/ HandleRequestOnce(s)
        PROVE  WireInv'
    BY <1>1, <1>3, <2>2, ReadyKeeps, ReadyReplyKeeps, DisconnectKeeps, CrashKeeps,
       PollKeeps, LoseReplyKeeps, HandleRequestOnceKeeps
  <2>3. ASSUME NEW m \in net,
               ReceiveAck(m) \/ ReceiveResponse(m) \/ ReceiveReconcile(m)
        PROVE  WireInv'
    BY <1>1, <2>3, ReceiveKeeps
  <2>4. ASSUME ServerStep \/ ServerRestart PROVE WireInv'
    BY <1>1, <2>4, ServerStepKeeps, ServerRestartKeeps
  <2>5. ASSUME UNCHANGED vars PROVE WireInv'
    <3>1. /\ UNCHANGED <<pluginVars, held, replies, inbox, net>>
          /\ registered' = registered
      BY <2>5 DEF vars, wireVars, bridgeVars, registryVars
    <3>2. AuthorisedAreRegistered'
      BY <1>1, <3>1, StillAuthorised DEF WireInv
    <3> QED  BY <1>1, <3>1, <3>2, PluginIdle, NothingSent DEF WireInv, WireTypes
  <2> QED  BY <2>1, <2>2, <2>3, <2>4, <2>5 DEF SystemNext
<1>5. IInv' /\ WireInv' => SystemInv'
  <2>1. IInv' => TypeOK'
    BY DEF IInv, LiveInv, JournalSound, TypeOK
  <2> QED
    BY <2>1 DEF SystemInv, SystemTypeOK, FencesAreOwn, WireInv, WireTypes, PluginFences,
                InboxFences, FrameOwn
<1> QED  BY <1>2, <1>4, <1>5

\* Frames, threads and caches keep their types, quote only deliveries made to
\* their session, and die with its registration.
THEOREM SystemInvariance == SystemSpec => []SystemInv
<1>1. SystemInit => SystemInv
  BY SystemInitSound
<1>2. SystemInv /\ [SystemNext]_vars => SystemInv'
  BY SystemKeeps
<1> QED  BY <1>1, <1>2, PTL DEF SystemSpec

\* The plugin, its cache and the transport implement the environment the bridge
\* was specified with.
THEOREM SystemRefinesBridge == SystemSpec => RefinesBridge
<1>1. SystemInit => Init
  BY DEF SystemInit
<1>2. SystemInv /\ [SystemNext]_vars => [Next]_bridgeVars
  BY StepRefines
<1> QED  BY <1>1, <1>2, SystemInvariance, PTL DEF SystemSpec, RefinesBridge, Spec

\* The types of the whole system.
THEOREM SystemTypes == SystemSpec => []SystemTypeOK
<1>1. SystemInv => SystemTypeOK
  BY DEF SystemInv
<1> QED  BY <1>1, SystemInvariance, PTL

\* No session quotes a delivery that was not made to it.
THEOREM SessionsQuoteTheirOwn == SystemSpec => []FencesAreOwn
<1>1. SystemInv => FencesAreOwn
  BY DEF SystemInv
<1> QED  BY <1>1, SystemInvariance, PTL

\* Tokens and frames die with the registration they came from.
THEOREM SpeakersAreRegistered == SystemSpec => []AuthorisedAreRegistered
<1>1. SystemInv => AuthorisedAreRegistered
  BY DEF SystemInv
<1> QED  BY <1>1, SystemInvariance, PTL

\* What is proved of the open bridge holds of the system: mutual exclusion,
\* final outcomes and fresh leases.
THEOREM SystemInherits ==
  SystemSpec => []OneMutationInFlight /\ OutcomeIsFinal /\ LeaseNeverReissued
<1>1. SystemSpec => Spec
  BY SystemRefinesBridge DEF RefinesBridge
<1> QED  BY <1>1, MutualExclusion, OutcomesAreFinal, LeasesAreFresh
-----------------------------------------------------------------------------
(* Only the delivery in force completes a request *)

\* No waiting request becomes completed.
NoneCompletes == \A r \in pending : state[r] # "completed" => state'[r] # "completed"

\* Nothing but Resolve completes a waiting request.
LEMMA OthersDoNotComplete ==
  ASSUME LInv, OtherStep
  PROVE  NoneCompletes
<1> USE DEF LInv, HInv, IInv, LiveInv
<1>1. ASSUME NEW r \in Requests, SendRequest(r) \/ Expire(r) \/ Cancel(r)
      PROVE  NoneCompletes
  BY <1>1 DEF SendRequest, Expire, Cancel, Interrupted, Moved, NoneCompletes, LiveTypeOK
<1>2. ASSUME NEW r \in Requests, NEW f \in FrameFences, Acknowledge(r, f)
      PROVE  NoneCompletes
  BY <1>2 DEF Acknowledge, NoneCompletes, LiveTypeOK
<1>3. ASSUME NEW s \in Sessions, NEW L, NEW r \in Requests, Deliver(s, L, r)
      PROVE  NoneCompletes
  <2>1. \A q \in Requests : state'[q] \in {"delivered", "queued", state[q]}
    BY <1>3 DEF Deliver
  <2> QED  BY <2>1 DEF NoneCompletes, LiveTypeOK
<1>4. ASSUME NEW s, NEW receipts, NEW e, Reconcile(s, e, receipts) PROVE NoneCompletes
  BY <1>4 DEF Reconcile, Proven, NoneCompletes, PendingIffActive, Active
<1>5. ASSUME NEW s, NEW rest, DropOrphans(s, rest) PROVE NoneCompletes
  BY <1>5 DEF DropOrphans, Interrupted, Moved, NoneCompletes, LiveTypeOK
<1>6. ASSUME NEW s \in Sessions, Register(s) \/ Unregister(s) PROVE NoneCompletes
  <2>1. CASE UNCHANGED <<serving, epoch, queueVars, statusVars, journal>>
    BY <2>1 DEF statusVars, NoneCompletes
  <2> QED  BY <1>5, <1>6, <2>1 DEF Register, Unregister
<1>7. CASE ClearAll
  BY <1>7 DEF ClearAll, Moved, NoneCompletes, LiveTypeOK
<1>8. CASE Restart
  <2>1. CASE LoadJournal
    BY <1>8, <2>1, RestartFromJournal DEF NoneCompletes, LiveTypeOK
  <2>2. CASE ~LoadJournal
    BY <1>8, <2>2 DEF Restart, NoneCompletes, LiveTypeOK
  <2> QED  BY <2>1, <2>2
<1> QED
  BY <1>1, <1>2, <1>3, <1>4, <1>6, <1>7, <1>8 DEF OtherStep

\* The accepted response is the one of the lease in force.
LEMMA AcceptedIsCurrent ==
  ASSUME SystemInv, LInv, NEW m \in net, m.kind = "response",
         m.req \in pending, Resolve(m.req, m.fence)
  PROVE  /\ m.session = holder[m.req]
         /\ m.fence.attempt = attempt[m.req] /\ m.fence.epoch = epoch
<1>1. m.fence = fence[m.req] /\ Legal(state[m.req], "completed")
  BY DEF Resolve, Finish, FenceMatches
<1>2. state[m.req] # "queued"
  BY <1>1, LegalTable
<1>3. fence[m.req] = [epoch |-> epoch, session |-> holder[m.req],
                      attempt |-> attempt[m.req], lease |-> attempt[m.req]]
  BY <1>2 DEF LInv, LeaseIsCurrent, LeasedAsQueued
<1>4. m.fence.session = m.session
  BY DEF SystemInv, FencesAreOwn, Deliveries
<1> QED  BY <1>1, <1>3, <1>4

\* Of all the frames of all deliveries of a request, late, lost or repeated,
\* only the response to the delivery in force completes it while it waits.
THEOREM CurrentDeliveryCompletes == SystemSpec => OnlyCurrentDeliveryCompletes
<1> DEFINE Step ==
      \A r \in pending :
        state'[r] = "completed" /\ state[r] # "completed" =>
          \E m \in net : /\ m.kind = "response" /\ m.req = r
                         /\ m.session = holder[r]
                         /\ m.fence.attempt = attempt[r]
                         /\ m.fence.epoch = epoch
<1>1. SystemSpec => Spec
  BY SystemRefinesBridge DEF RefinesBridge
<1>2. SystemSpec => []LInv
  <2>1. Streaming = {}
    BY NoStreams
  <2>2. Spec => []LInv
    BY <2>1, LeaseInvariance
  <2> QED  BY <1>1, <2>2
<1>3. SystemInv /\ LInv /\ [SystemNext]_vars => [Step]_vars
  <2> SUFFICES ASSUME SystemInv, LInv, SystemNext PROVE Step
    OBVIOUS
  <2>1. ASSUME NEW m \in net, ReceiveResponse(m), Resolve(m.req, m.fence) PROVE Step
    <3>1. m.kind = "response" /\ m.req \in Requests
      BY <2>1, FrameTypes DEF ReceiveResponse
    <3>2. state' = [state EXCEPT ![m.req] = "completed"]
      BY <2>1 DEF Resolve, Finish
    <3>3. \A r \in pending : r # m.req => state'[r] = state[r]
      BY <3>2 DEF LInv, HInv, IInv, LiveInv, LiveTypeOK
    <3> QED  BY <2>1, <3>1, <3>3, AcceptedIsCurrent
  <2>2. CASE OtherStep
    BY <2>2, OthersDoNotComplete DEF NoneCompletes
  <2>3. CASE UNCHANGED bridgeVars
    BY <2>3 DEF bridgeVars, statusVars
  <2> QED  BY <2>1, <2>2, <2>3, StepSorts
<1> QED  BY <1>2, <1>3, SystemInvariance, PTL DEF SystemSpec, OnlyCurrentDeliveryCompletes
-----------------------------------------------------------------------------
(* What is reported completed was run *)

HasRun(s, r) == ran[s][r] >= 1

\* Threads, caches, responses and receipts are of work that was begun.
ThreadsRan == \A s \in Sessions, r \in Requests : Plugin!Running(s, r) => HasRun(s, r)
CachesRan  == \A s \in Sessions : \A i \in DOMAIN cache[s] : HasRun(s, cache[s][i].req)
FrameRan(m) ==
  /\ m.kind = "response" => HasRun(m.session, m.req)
  /\ m.kind = "reconcile" => \A r \in DOMAIN m.receipts : HasRun(m.session, r)
FramesRan  == \A m \in net : FrameRan(m)

WorkRan == ThreadsRan /\ CachesRan /\ FramesRan

\* What was begun was begun.
Grows == \A s \in Sessions, r \in Requests : HasRun(s, r) => HasRun(s, r)'

\* A plugin that does nothing, and frames that are delivered or lost.
LEMMA IdleKeepsWork ==
  ASSUME WorkRan, UNCHANGED pluginVars, net' \subseteq net
  PROVE  WorkRan' /\ Grows
BY DEF WorkRan, ThreadsRan, CachesRan, FramesRan, FrameRan, HasRun, Grows, pluginVars,
       Plugin!Running

\* The receipts are of what is in the cache.
LEMMA ReceiptsRan ==
  ASSUME WireInv, WorkRan, NEW s \in Sessions, ReadyReply(s)
  PROVE  WorkRan' /\ Grows
<1> DEFINE m == [kind |-> "reconcile", session |-> s, epoch |-> epoch,
                 receipts |-> ReceiptsOf(s)]
<1>1. UNCHANGED pluginVars /\ net' \subseteq net \cup {m}
  BY DEF ReadyReply
<1>2. DOMAIN ReceiptsOf(s) = {q \in Requests : Plugin!Cached(s, q)}
  BY DEF ReceiptsOf
<1>3. \A r \in DOMAIN m.receipts : HasRun(m.session, r)
  BY <1>2 DEF WorkRan, CachesRan, Plugin!Cached
<1>4. m.kind = "reconcile"
  OBVIOUS
<1> HIDE DEF m
<1>5. FrameRan(m)
  BY <1>3, <1>4 DEF FrameRan
<1> QED
  BY <1>1, <1>5 DEF WorkRan, ThreadsRan, CachesRan, FramesRan, FrameRan, HasRun, Grows,
     pluginVars, Plugin!Running

\* A crash forgets what was begun, not that it was.
LEMMA CrashKeepsWork ==
  ASSUME WireInv, WorkRan, NEW s \in Sessions, PluginCrash(s)
  PROVE  WorkRan' /\ Grows
<1>1. /\ running' = [running EXCEPT ![s] = [r \in Requests |-> NoFence]]
      /\ cache' = [cache EXCEPT ![s] = <<>>] /\ UNCHANGED <<ran, net>>
  BY DEF PluginCrash, Plugin!Crash
<1>2. ThreadsRan' /\ FramesRan' /\ Grows
  BY <1>1 DEF WireInv, Plugin!TypeOK, WorkRan, ThreadsRan, FramesRan, FrameRan, HasRun, Grows,
     Plugin!Running
<1>3. CachesRan'
  <2>1. \A x \in Sessions : cache'[x] = IF x = s THEN <<>> ELSE cache[x]
    BY <1>1 DEF WireInv, Plugin!TypeOK
  <2>2. \A i : i \notin DOMAIN <<>>
    OBVIOUS
  <2> QED  BY <1>1, <2>1, <2>2 DEF WorkRan, CachesRan, HasRun
<1> QED  BY <1>2, <1>3 DEF WorkRan

\* A delivery is answered from the cache, or begins the work.
LEMMA HandlingKeepsWork ==
  ASSUME WireInv, WorkRan, NEW s \in Sessions, HandleRequestOnce(s)
  PROVE  WorkRan' /\ Grows
<1>0. PICK q, f : q = inbox[s].req /\ f = inbox[s].fence
  OBVIOUS
<1>1. q \in Requests
  BY <1>0 DEF HandleRequestOnce, WireInv, WireTypes
<1>2. CASE /\ Plugin!Cached(s, q) /\ UNCHANGED pluginVars
           /\ Send(s, Response(s, q, f))
  <2>1. FrameRan(Response(s, q, f))
    BY <1>2 DEF WorkRan, CachesRan, Plugin!Cached, FrameRan, Response
  <2>2. net' \subseteq net \cup {Response(s, q, f)}
    BY <1>2 DEF Send
  <2> QED
    BY <1>2, <2>1, <2>2 DEF WorkRan, ThreadsRan, CachesRan, FramesRan, FrameRan, HasRun, Grows,
       pluginVars, Plugin!Running
<1>3. CASE UNCHANGED <<pluginVars, net>>
  BY <1>3, IdleKeepsWork
<1>4. CASE Plugin!Start(s, q, f) /\ Send(s, Ack(s, q, f))
  <2>1. /\ running' = [running EXCEPT ![s][q] = f]
        /\ ran' = [ran EXCEPT ![s][q] = @ + 1] /\ cache' = cache
    BY <1>4 DEF Plugin!Start
  <2>2. \A x \in Sessions, r \in Requests : ran[x][r] \in Nat
    <3>1. 0..MaxRuns \subseteq Nat
      BY PluginLimits
    <3> QED  BY <3>1 DEF WireInv, Plugin!TypeOK
  <2>3. \A x \in Sessions, r \in Requests :
          ran'[x][r] = IF x = s /\ r = q THEN ran[x][r] + 1 ELSE ran[x][r]
    BY <1>1, <2>1 DEF WireInv, Plugin!TypeOK
  <2>4. Grows /\ HasRun(s, q)'
    <3>1. \A x \in Sessions, r \in Requests : ran[x][r] >= 1 => ran'[x][r] >= 1
      BY <2>2, <2>3
    <3>2. ran'[s][q] >= 1
      BY <1>1, <2>2, <2>3
    <3> QED  BY <3>1, <3>2 DEF Grows, HasRun
  <2>5. ThreadsRan'
    <3>1. ASSUME NEW x \in Sessions, NEW r \in Requests, running'[x][r] # NoFence
          PROVE  HasRun(x, r)'
      <4>1. CASE x = s /\ r = q
        BY <2>4, <4>1
      <4>2. CASE ~(x = s /\ r = q)
        <5>1. running'[x][r] = running[x][r]
          BY <2>1, <4>2 DEF WireInv, Plugin!TypeOK
        <5> QED  BY <2>4, <3>1, <5>1 DEF WorkRan, ThreadsRan, Grows, Plugin!Running
      <4> QED  BY <4>1, <4>2
    <3> QED  BY <3>1 DEF ThreadsRan, Plugin!Running
  <2>6. CachesRan'
    <3>1. \A x \in Sessions : \A i \in DOMAIN cache[x] : cache[x][i].req \in Requests
      <4>1. \A x \in Sessions : cache[x] \in Seq(Plugin!Results)
        BY DEF WireInv, Plugin!TypeOK
      <4>2. ASSUME NEW x \in Sessions, NEW i \in DOMAIN cache[x]
            PROVE  cache[x][i].req \in Requests
        <5>1. i \in 1..Len(cache[x])
          BY <4>1, LenProperties
        <5>2. cache[x][i] \in Plugin!Results
          BY <4>1, <5>1, ElementOfSeq
        <5> QED  BY <5>2 DEF Plugin!Results
      <4> QED  BY <4>2
    <3> QED  BY <2>1, <2>4, <3>1 DEF WorkRan, CachesRan, Grows
  <2>7. FramesRan'
    <3>1. net' \subseteq net \cup {Ack(s, q, f)}
      BY <1>4 DEF Send
    <3>2. FrameRan(Ack(s, q, f))'
      BY DEF FrameRan, Ack
    <3>3. ASSUME NEW m \in net PROVE FrameRan(m)'
      <4>1. m.kind = "response" => m.session \in Sessions /\ m.req \in Requests
        BY DEF WireInv, WireTypes, Frames
      <4>2. m.kind = "reconcile" => m.session \in Sessions /\ DOMAIN m.receipts \subseteq Requests
        BY DEF WireInv, WireTypes, Frames, Receipts
      <4> QED  BY <2>4, <4>1, <4>2 DEF WorkRan, FramesRan, FrameRan, Grows
    <3> QED  BY <3>1, <3>2, <3>3 DEF FramesRan
  <2> QED  BY <2>4, <2>5, <2>6, <2>7 DEF WorkRan
<1> QED  BY <1>0, <1>2, <1>3, <1>4 DEF HandleRequestOnce

\* The cache after a completion is of what was in it and of what completed.
LEMMA RememberedRan ==
  ASSUME WireInv, WorkRan, NEW s \in Sessions, NEW r \in Requests, NEW f, HasRun(s, r)
  PROVE  \A i \in DOMAIN Plugin!Remembered(s, r, f) :
           HasRun(s, Plugin!Remembered(s, r, f)[i].req)
<1> DEFINE old == cache[s]
           new == [req |-> r, attempt |-> f.attempt]
           rest == IF Len(old) >= CacheLimit THEN Tail(old) ELSE old
           Any == {x : x \in {old[i] : i \in 1..Len(old)} \cup {new}}
<1>1. old \in Seq(Plugin!Results) /\ \A i \in 1..Len(old) : HasRun(s, old[i].req)
  BY LenProperties DEF WireInv, Plugin!TypeOK, WorkRan, CachesRan
<1>2. HasRun(s, new.req)
  OBVIOUS
<1>3. old \in Seq(Any)
  BY <1>1, LenProperties
<1>4. rest \in Seq(Any) /\ \A i \in 1..Len(rest) : HasRun(s, rest[i].req)
  <2>1. CASE Len(old) >= CacheLimit
    <3>1. Len(old) \in Nat /\ Len(old) > 0
      BY <1>1, <2>1, PluginLimits, LenProperties
    <3>2. old # <<>>
      BY <3>1
    <3>3. /\ Tail(old) \in Seq(Any) /\ Len(Tail(old)) = Len(old) - 1
          /\ \A i \in 1..Len(Tail(old)) : Tail(old)[i] = old[i + 1]
      BY <1>3, <3>2, HeadTailProperties
    <3> QED  BY <1>1, <2>1, <3>1, <3>3
  <2> QED  BY <1>1, <1>3, <2>1
<1>5. new \in Any
  OBVIOUS
<1>6. Plugin!Remembered(s, r, f) = Append(rest, new)
  BY DEF Plugin!Remembered
<1> HIDE DEF rest, new, Any
<1>7. /\ Append(rest, new) \in Seq(Any)
      /\ \A i \in 1..Len(Append(rest, new)) : HasRun(s, Append(rest, new)[i].req)
  BY <1>2, <1>4, <1>5, AppendProperties, LenProperties
<1> QED  BY <1>6, <1>7, LenProperties

\* A thread that ends was begun.
LEMMA DoneKeepsWork ==
  ASSUME WireInv, WorkRan, NEW s \in Sessions, NEW r \in Requests, HandlerDone(s, r)
  PROVE  WorkRan' /\ Grows
<1> DEFINE m == Response(s, r, running[s][r])
<1>1. /\ HasRun(s, r) /\ ran' = ran
      /\ running' = [running EXCEPT ![s][r] = NoFence]
      /\ cache' = [cache EXCEPT ![s] = Plugin!Remembered(s, r, running[s][r])]
      /\ net' \subseteq net \cup {m}
  BY DEF HandlerDone, Plugin!Complete, WorkRan, ThreadsRan, Send
<1>2. Grows /\ ThreadsRan'
  BY <1>1 DEF WireInv, Plugin!TypeOK, WorkRan, ThreadsRan, HasRun, Grows, Plugin!Running
<1>3. CachesRan'
  BY <1>1, RememberedRan DEF WireInv, Plugin!TypeOK, WorkRan, CachesRan, HasRun
<1>4. FrameRan(m)
  BY <1>1 DEF FrameRan, Response
<1>5. FramesRan'
  BY <1>1, <1>4 DEF WorkRan, FramesRan, FrameRan, HasRun
<1> QED  BY <1>2, <1>3, <1>5 DEF WorkRan

\* No step undoes work, and what is under way is of work that was begun.
LEMMA WorkKept ==
  ASSUME WireInv, WorkRan, [SystemNext]_vars
  PROVE  WorkRan' /\ Grows
<1>1. ASSUME NEW s \in Sessions, Ready(s) \/ Disconnect(s) \/ Poll(s) \/ LoseReply(s)
      PROVE  UNCHANGED pluginVars /\ net' \subseteq net
  BY <1>1 DEF Ready, Disconnect, Revoke, Poll, PollWith, LoseReply
<1>2. ASSUME NEW m \in net, ReceiveAck(m) \/ ReceiveResponse(m) \/ ReceiveReconcile(m)
      PROVE  UNCHANGED pluginVars /\ net' \subseteq net
  BY <1>2 DEF ReceiveAck, ReceiveResponse, ReceiveReconcile, Take
<1>3. ASSUME ServerStep \/ ServerRestart \/ UNCHANGED vars
      PROVE  UNCHANGED pluginVars /\ net' \subseteq net
  BY <1>3 DEF ServerStep, ServerRestart, Revoke, wireVars, vars
<1>4. ASSUME NEW s \in Sessions,
             \/ ReadyReply(s) \/ PluginCrash(s) \/ HandleRequestOnce(s)
             \/ \E r \in Requests : HandlerDone(s, r)
      PROVE  WorkRan' /\ Grows
  BY <1>4, ReceiptsRan, CrashKeepsWork, HandlingKeepsWork, DoneKeepsWork
<1> QED  BY <1>1, <1>2, <1>3, <1>4, IdleKeepsWork DEF SystemNext

\* A step that completes nothing, and leaves what is completed to its session.
NothingNew ==
  \A r \in Requests : state'[r] = "completed" =>
    state[r] = "completed" /\ fence'[r].session = fence[r].session

LEMMA SortedByCompletion ==
  ASSUME SystemInv, HInv, [SystemNext]_vars
  PROVE  \/ NothingNew
         \/ \E m \in net : m.kind = "response" /\ Resolve(m.req, m.fence)
         \/ \E m \in net : m.kind = "reconcile" /\ Reconcile(m.session, m.epoch, m.receipts)
<1> USE DEF HInv, IInv, LiveInv
<1>1. ASSUME UNCHANGED <<state, fence>> PROVE NothingNew
  BY <1>1 DEF NothingNew
<1>2. ASSUME NEW r \in Requests, SendRequest(r) PROVE NothingNew
  <2>1. state[r] = "none"
    BY <1>2 DEF SendRequest, UnsentUnknown
  <2>2. state' = [state EXCEPT ![r] = "queued"]
    BY <1>2, <2>1, LegalTable DEF SendRequest, Moved, States, Active
  <2>3. \A q \in Requests : q # r => fence'[q] = fence[q]
    BY <1>2 DEF SendRequest, LiveTypeOK
  <2> QED  BY <2>2, <2>3 DEF NothingNew, LiveTypeOK
<1>3. ASSUME NEW R, NEW otherwise \in {"failed", "timed_out", "cancelled"}, fence' = fence,
             state' = [r \in Requests |->
                         IF r \in R THEN Moved(r, Interrupted(r, otherwise)) ELSE state[r]]
      PROVE  NothingNew
  BY <1>3 DEF Interrupted, Moved, NothingNew
<1>4. ASSUME NEW r \in Requests, Expire(r) \/ Cancel(r) PROVE NothingNew
  BY <1>4 DEF Expire, Cancel, Interrupted, Moved, NothingNew, LiveTypeOK
<1>5. ASSUME NEW r \in Requests, NEW f, Acknowledge(r, f) PROVE NothingNew
  BY <1>5 DEF Acknowledge, NothingNew, LiveTypeOK
<1>6. ASSUME NEW s \in Sessions, Poll(s) PROVE NothingNew
  <2>1. PICK L \in SUBSET Lapsable(s), r \in Requests : Deliver(s, L, r)
    BY <1>6 DEF Poll, PollWith
  <2>2. /\ r \in pending /\ state[r] \in Active
        /\ \A q \in L : q \in pending /\ state[q] \in Active
    BY <2>1 DEF Deliver, Oldest, Eligible, Mine, Lapsable, PendingIffActive
  <2>3. \A q \in Requests : state'[q] = "completed" => q # r /\ q \notin L /\ state[q] = "completed"
    BY <2>1, <2>2 DEF Deliver, Active
  <2> QED  BY <2>1, <2>3 DEF Deliver, NothingNew
<1>7. ASSUME NEW s, NEW rest, DropOrphans(s, rest) PROVE NothingNew
  BY <1>3, <1>7 DEF DropOrphans
<1>8. ASSUME NEW s \in Sessions, Ready(s) \/ Disconnect(s) PROVE NothingNew
  BY <1>1, <1>7, <1>8 DEF Ready, Disconnect, Register, Unregister, statusVars
<1>9. CASE ServerStep
  <2>1. ASSUME ClearAll PROVE NothingNew
    BY <2>1 DEF ClearAll, Moved, NothingNew
  <2> QED  BY <1>2, <1>4, <1>9, <2>1 DEF ServerStep
<1>10. CASE ServerRestart
  <2>1. Restart
    BY <1>10 DEF ServerRestart
  <2>2. CASE LoadJournal
    BY <2>1, <2>2, RestartFromJournal DEF NothingNew
  <2>3. CASE ~LoadJournal
    BY <2>1, <2>3 DEF Restart, NothingNew
  <2> QED  BY <2>2, <2>3
<1>11. ASSUME NEW s \in Sessions,
              \/ ReadyReply(s) \/ PluginCrash(s) \/ LoseReply(s) \/ HandleRequestOnce(s)
              \/ \E r \in Requests : HandlerDone(s, r)
       PROVE  NothingNew
  BY <1>1, <1>11 DEF ReadyReply, PluginCrash, LoseReply, HandleRequestOnce, HandlerDone,
     bridgeVars, statusVars
<1>12. ASSUME NEW m \in net, ReceiveAck(m) PROVE NothingNew
  BY <1>1, <1>5, <1>12, FrameTypes DEF ReceiveAck, bridgeVars, statusVars
<1>13. ASSUME NEW m \in net, ReceiveResponse(m) PROVE NothingNew \/ Resolve(m.req, m.fence)
  BY <1>1, <1>13 DEF ReceiveResponse, bridgeVars, statusVars
<1>14. ASSUME NEW m \in net, ReceiveReconcile(m)
       PROVE  NothingNew \/ Reconcile(m.session, m.epoch, m.receipts)
  BY <1>1, <1>14 DEF ReceiveReconcile, bridgeVars, statusVars
<1>15. CASE UNCHANGED vars
  BY <1>1, <1>15 DEF vars, bridgeVars, statusVars
<1> QED
  BY <1>6, <1>8, <1>9, <1>10, <1>11, <1>12, <1>13, <1>14, <1>15
  DEF SystemNext, ReceiveResponse, ReceiveReconcile

\* An accepted response or receipt comes from the session its lease named.
LEMMA CompletionsRan ==
  ASSUME SystemInv, HInv, WorkRan, CompletedWasRun, Grows, [SystemNext]_vars
  PROVE  CompletedWasRun'
<1> USE DEF HInv, IInv, LiveInv
<1> DEFINE Ran(r) == fence'[r].session \in Sessions /\ ran'[fence'[r].session][r] >= 1
<1>0. \A s \in Sessions, r \in Requests : ran[s][r] >= 1 => ran'[s][r] >= 1
  BY DEF Grows, HasRun
<1>1. SUFFICES ASSUME NEW r \in Requests, state'[r] = "completed" PROVE Ran(r)
  BY DEF CompletedWasRun
<1>2. ASSUME state[r] = "completed", fence'[r].session = fence[r].session PROVE Ran(r)
  BY <1>0, <1>2 DEF CompletedWasRun
<1>3. ASSUME NEW m \in net, m.kind = "response", Resolve(m.req, m.fence) PROVE Ran(r)
  <2>1. m.req \in Requests /\ m.session \in Sessions /\ m.fence.session = m.session
    BY <1>3, FrameTypes DEF SystemInv, FencesAreOwn, Deliveries
  <2>2. fence' = fence /\ fence[m.req] = m.fence
    BY <1>3, <2>1 DEF Resolve, Finish, FenceMatches
  <2>3. \A q \in Requests : q # m.req => state'[q] = state[q]
    BY <1>3 DEF Resolve, Finish, LiveTypeOK
  <2>4. CASE r = m.req
    <3>1. ran[m.session][r] >= 1
      BY <1>3, <2>4 DEF WorkRan, FramesRan, FrameRan, HasRun
    <3>2. fence'[r].session = m.session
      BY <2>1, <2>2, <2>4
    <3> QED  BY <1>0, <2>1, <3>1, <3>2
  <2>5. CASE r # m.req
    <3>1. state[r] = "completed" /\ fence'[r].session = fence[r].session
      BY <1>1, <2>2, <2>3, <2>5
    <3> QED  BY <1>2, <3>1
  <2> QED  BY <2>4, <2>5
<1>4. ASSUME NEW m \in net, m.kind = "reconcile", Reconcile(m.session, m.epoch, m.receipts)
      PROVE  Ran(r)
  <2>1. fence' = fence /\ m.session \in Sessions
    BY <1>4, FrameTypes DEF Reconcile
  <2>2. CASE r \in Proven(m.session, m.receipts)
    <3>1. fence[r].session = m.session /\ r \in DOMAIN m.receipts
      BY <2>2 DEF Proven
    <3>2. ran[m.session][r] >= 1
      BY <1>4, <3>1 DEF WorkRan, FramesRan, FrameRan, HasRun
    <3> QED  BY <1>0, <2>1, <3>1, <3>2
  <2>3. CASE r \notin Proven(m.session, m.receipts)
    <3>1. state'[r] = state[r]
      BY <1>4, <2>3 DEF Reconcile
    <3> QED  BY <1>1, <1>2, <2>1, <3>1
  <2> QED  BY <2>2, <2>3
<1>5. CASE NothingNew
  BY <1>1, <1>2, <1>5 DEF NothingNew
<1> QED  BY <1>3, <1>4, <1>5, SortedByCompletion

\* A request reported completed was run by the session its lease named, for any
\* number of requests, sessions, losses, replacements and restarts.
THEOREM CompletedRequestsRan == SystemSpec => []CompletedWasRun
<1>1. SystemInit => WorkRan /\ CompletedWasRun
  <2> SUFFICES ASSUME SystemInit PROVE WorkRan /\ CompletedWasRun
    OBVIOUS
  <2>1. ThreadsRan /\ FramesRan /\ CompletedWasRun
    BY DEF SystemInit, Init, Plugin!Init, ThreadsRan, FramesRan, CompletedWasRun, Plugin!Running
  <2>2. CachesRan
    <3>1. \A i : i \notin DOMAIN <<>>
      OBVIOUS
    <3> QED  BY <3>1 DEF SystemInit, Plugin!Init, CachesRan
  <2> QED  BY <2>1, <2>2 DEF WorkRan
<1>2. SystemSpec => []HInv
  BY SystemRefinesBridge, HistoryInvariance DEF RefinesBridge
<1>3. SystemInv /\ HInv /\ WorkRan /\ CompletedWasRun /\ [SystemNext]_vars =>
        (WorkRan /\ CompletedWasRun)'
  <2>1. SystemInv => WireInv
    BY InvParts
  <2> QED  BY <2>1, WorkKept, CompletionsRan
<1> QED  BY <1>1, <1>2, <1>3, SystemInvariance, PTL DEF SystemSpec
-----------------------------------------------------------------------------
(* A mutation runs once *)

\* s ran r, or has it delivered.
Involved(s, r) == ran[s][r] > 0 \/ (inbox[s] # NoDelivery /\ inbox[s].req = r)

\* A request never gets to two sessions.
OneRunner ==
  \A r \in Requests : \A s, x \in Sessions : Involved(s, r) /\ Involved(x, r) => s = x

\* While a request waits, the session it got to is still the one of its target:
\* with the session of a target everything that waits for it is dropped.
RunnersAreKept ==
  \A x \in Sessions : \A r \in pending :
    Involved(x, r) => x \in registered /\ TargetOf[x] = RequestTarget[r]

RunnersWereSent == \A x \in Sessions, r \in Requests : Involved(x, r) => arrival[r] # 0

RunnerInv == OneRunner /\ RunnersAreKept /\ RunnersWereSent

\* Nothing waits again, and nothing waits for a target whose session was lost.
QueueKeeps ==
  /\ \A r \in Requests : arrival[r] # 0 => arrival'[r] # 0
  /\ \A r \in pending' : r \in pending \/ arrival[r] = 0
  /\ \A x \in registered : \A r \in pending \cap pending' :
       TargetOf[x] = RequestTarget[r] => x \in registered'

\* Losing a session drops what waits for its target, as no other session has it.
LEMMA OrphansLeave ==
  ASSUME LiveInv, NEW old \in registered, DropOrphans(old, registered \ {old}),
         registered \ {old} \subseteq registered'
  PROVE  QueueKeeps
<1>1. pending' = pending \ Orphaned(old, registered \ {old}) /\ arrival' = arrival
  BY DEF DropOrphans, Dequeue
<1>2. ASSUME NEW r \in pending', TargetOf[old] = RequestTarget[r] PROVE FALSE
  <2>1. r \in pending /\ Handled(r, registered \ {old})
    BY <1>1, <1>2 DEF Orphaned
  <2>2. PICK x \in registered \ {old} : TargetOf[x] = RequestTarget[r]
    BY <2>1 DEF Handled
  <2> QED  BY <1>2, <2>2 DEF LiveInv, OneSessionPerTarget
<1> QED  BY <1>1, <1>2 DEF QueueKeeps

\* So it is in every step of the bridge, when a restart restores nothing.
LEMMA QueueIsKept ==
  ASSUME LiveInv, ~ LoadJournal, [Next]_bridgeVars
  PROVE  QueueKeeps
<1>1. ASSUME UNCHANGED arrival, pending' \subseteq pending, registered' = registered
      PROVE  QueueKeeps
  BY <1>1 DEF QueueKeeps
<1>2. CASE UNCHANGED bridgeVars
  BY <1>1, <1>2 DEF bridgeVars, registryVars, queueVars
<1>3. ASSUME NEW r \in Requests, SendRequest(r) PROVE QueueKeeps
  <2>1. clock \in Nat /\ arrival \in [Requests -> Nat]
    BY DEF LiveInv, LiveTypeOK
  <2>2. arrival[r] = 0 /\ arrival' = [arrival EXCEPT ![r] = clock + 1]
        /\ pending' = pending \cup {r} /\ registered' = registered
    BY <1>3 DEF SendRequest, registryVars
  <2> QED  BY <2>1, <2>2 DEF QueueKeeps
<1>4. ASSUME NEW r \in Requests, Expire(r) \/ Cancel(r) PROVE QueueKeeps
  BY <1>1, <1>4 DEF Expire, Cancel, Dequeue, registryVars
<1>5. ASSUME NEW r \in Requests, NEW f, Acknowledge(r, f) \/ Resolve(r, f) \/ Reject(r, f)
      PROVE  QueueKeeps
  BY <1>1, <1>5 DEF Acknowledge, Resolve, Reject, Finish, Dequeue, registryVars, queueVars
<1>6. ASSUME NEW s \in Sessions, NEW L, NEW r \in Requests, Deliver(s, L, r) PROVE QueueKeeps
  BY <1>1, <1>6 DEF Deliver, registryVars
<1>7. ASSUME NEW R, Release(R) PROVE QueueKeeps
  BY <1>1, <1>7 DEF Release, registryVars
<1>8. ASSUME NEW s, NEW e, NEW receipts, Reconcile(s, e, receipts) PROVE QueueKeeps
  BY <1>1, <1>8 DEF Reconcile, registryVars, queueVars
<1>9. ASSUME NEW s \in Sessions, Unregister(s) PROVE QueueKeeps
  BY <1>9, OrphansLeave DEF Unregister
<1>10. ASSUME NEW s \in Sessions, Register(s) PROVE QueueKeeps
  <2>1. CASE registered' = registered \cup {s} /\ UNCHANGED queueVars
    BY <2>1 DEF QueueKeeps, queueVars
  <2>2. ASSUME NEW old \in Rivals(s), registered' = (registered \ {old}) \cup {s},
               DropOrphans(old, registered \ {old})
        PROVE  QueueKeeps
    BY <2>2, OrphansLeave DEF Rivals
  <2> QED  BY <1>10, <2>1, <2>2 DEF Register
<1>11. CASE ClearAll
  BY <1>1, <1>11 DEF ClearAll, Dequeue
<1>12. CASE Restart
  <2>1. pending' = {} /\ arrival' = arrival
    BY <1>12 DEF Restart
  <2> QED  BY <2>1 DEF QueueKeeps
<1> QED
  BY <1>2, <1>3, <1>4, <1>5, <1>6, <1>7, <1>8, <1>9, <1>10, <1>11, <1>12
  DEF Next, StreamClosed, SendFailed

\* No session gets a request it did not have.
NoNewRunner == \A x \in Sessions, r \in Requests : Involved(x, r)' => Involved(x, r)

\* Steps that hand nothing out keep the invariant.
LEMMA RunnersStay ==
  ASSUME RunnerInv, pending' \subseteq Requests, QueueKeeps, NoNewRunner
  PROVE  RunnerInv'
<1>2. OneRunner'
  BY DEF RunnerInv, OneRunner, NoNewRunner
<1>3. RunnersWereSent'
  BY DEF RunnerInv, RunnersWereSent, NoNewRunner, QueueKeeps
<1>4. ASSUME NEW x \in Sessions, NEW r \in pending', Involved(x, r)'
      PROVE  x \in registered' /\ TargetOf[x] = RequestTarget[r]
  <2>1. Involved(x, r)
    BY <1>4 DEF NoNewRunner
  <2>2. r \in pending
    BY <1>4, <2>1 DEF RunnerInv, RunnersWereSent, QueueKeeps
  <2> QED  BY <1>4, <2>1, <2>2 DEF RunnerInv, RunnersAreKept, QueueKeeps
<1> QED  BY <1>2, <1>3, <1>4 DEF RunnerInv, RunnersAreKept

\* A poll gives a request that waits to the session of its target.
LEMMA PollRunner ==
  ASSUME RunnerInv, IInv, WireInv, NEW s \in Sessions, Poll(s)
  PROVE  RunnerInv'
<1>1. PICK L \in SUBSET Lapsable(s), q \in Requests :
        /\ Deliver(s, L, q)
        /\ inbox' = [inbox EXCEPT ![s] = Delivery(s, q)]
  BY DEF Poll, PollWith
<1>2. UNCHANGED <<registered, pending, arrival, pluginVars>>
  BY <1>1 DEF Poll, PollWith, Deliver, registryVars
<1>3. s \in registered /\ q \in pending /\ RequestTarget[q] = TargetOf[s]
  BY <1>1 DEF Deliver, Oldest, Eligible, Mine
<1>4. arrival[q] # 0
  BY <1>3 DEF IInv, LiveInv, UnsentUnknown, PendingIffActive, Active
<1>5. ASSUME NEW x \in Sessions, NEW r \in Requests, Involved(x, r)'
      PROVE  Involved(x, r) \/ (x = s /\ r = q)
  <2>1. inbox'[x] = IF x = s THEN Delivery(s, q) ELSE inbox[x]
    BY <1>1 DEF WireInv, WireTypes
  <2>2. Delivery(s, q).req = q
    BY DEF Delivery
  <2> QED  BY <1>2, <1>5, <2>1, <2>2 DEF Involved, pluginVars
<1>6. ASSUME NEW x \in Sessions, Involved(x, q) PROVE x = s
  BY <1>3, <1>6 DEF RunnerInv, RunnersAreKept, IInv, LiveInv, OneSessionPerTarget
<1>7. OneRunner'
  BY <1>5, <1>6 DEF RunnerInv, OneRunner
<1>8. RunnersAreKept'
  <2>1. pending' \subseteq Requests
    BY <1>2 DEF IInv, LiveInv, LiveTypeOK
  <2> QED  BY <1>2, <1>3, <1>5, <2>1 DEF RunnerInv, RunnersAreKept
<1>9. RunnersWereSent'
  BY <1>2, <1>4, <1>5 DEF RunnerInv, RunnersWereSent
<1> QED  BY <1>7, <1>8, <1>9 DEF RunnerInv

\* Only a poll gives a request to a session.
LEMMA OthersGiveNone ==
  ASSUME WireInv, SystemNext
  PROVE  NoNewRunner \/ \E s \in Sessions : Poll(s)
<1>1. ASSUME UNCHANGED <<ran, inbox>> PROVE NoNewRunner
  BY <1>1 DEF NoNewRunner, Involved
<1>2. ASSUME NEW s \in Sessions, UNCHANGED ran, inbox' = [inbox EXCEPT ![s] = NoDelivery]
      PROVE  NoNewRunner
  BY <1>2 DEF NoNewRunner, Involved, WireInv, WireTypes
<1>3. ASSUME NEW s \in Sessions, Ready(s) \/ ReadyReply(s) \/ Disconnect(s)
      PROVE  NoNewRunner
  BY <1>1, <1>3 DEF Ready, ReadyReply, Disconnect, pluginVars
<1>4. ASSUME NEW s \in Sessions, PluginCrash(s) \/ LoseReply(s) PROVE NoNewRunner
  BY <1>2, <1>4 DEF PluginCrash, Plugin!Crash, LoseReply, pluginVars
<1>5. ASSUME NEW s \in Sessions, NEW r \in Requests, HandlerDone(s, r) PROVE NoNewRunner
  BY <1>1, <1>5 DEF HandlerDone, Plugin!Complete
<1>6. ASSUME NEW m \in net, ReceiveAck(m) \/ ReceiveResponse(m) \/ ReceiveReconcile(m)
      PROVE  NoNewRunner
  BY <1>1, <1>6 DEF ReceiveAck, ReceiveResponse, ReceiveReconcile, Take, pluginVars
<1>7. CASE ServerStep \/ ServerRestart
  BY <1>1, <1>7 DEF ServerStep, ServerRestart, pluginVars, wireVars
<1>8. ASSUME NEW s \in Sessions, HandleRequestOnce(s) PROVE NoNewRunner
  <2>1. PICK q : q = inbox[s].req /\ inbox[s] # NoDelivery
    BY <1>8 DEF HandleRequestOnce
  <2>2. inbox' = [inbox EXCEPT ![s] = NoDelivery]
    BY <1>8 DEF HandleRequestOnce
  <2>3. CASE UNCHANGED pluginVars
    BY <1>2, <2>2, <2>3 DEF pluginVars
  <2>4. CASE ran' = [ran EXCEPT ![s][q] = @ + 1]
    <3>1. ASSUME NEW x \in Sessions, NEW r \in Requests, ran'[x][r] > 0
          PROVE  Involved(x, r)
      <4>1. CASE x = s /\ r = q
        BY <2>1, <4>1 DEF Involved
      <4>2. CASE ~ (x = s /\ r = q)
        <5>1. ran'[x][r] = ran[x][r]
          BY <2>4, <4>2 DEF WireInv, Plugin!TypeOK
        <5> QED  BY <3>1, <5>1 DEF Involved
      <4> QED  BY <4>1, <4>2
    <3>2. \A x \in Sessions : inbox'[x] = IF x = s THEN NoDelivery ELSE inbox[x]
      BY <2>2 DEF WireInv, WireTypes
    <3> QED  BY <3>1, <3>2 DEF NoNewRunner, Involved
  <2> QED  BY <1>8, <2>1, <2>3, <2>4 DEF HandleRequestOnce, Plugin!Start
<1> QED  BY <1>3, <1>4, <1>5, <1>6, <1>7, <1>8 DEF SystemNext

\* RunnerInv is inductive.
LEMMA RunnersKept ==
  ASSUME ~ LoadJournal, SystemInv, RunnerInv, [SystemNext]_vars
  PROVE  RunnerInv'
<1>1. IInv /\ WireInv /\ LiveInv /\ pending' \subseteq Requests
  BY InvParts, SystemKeeps DEF IInv, LiveInv, LiveTypeOK, SystemInv
<1>2. QueueKeeps
  BY <1>1, StepRefines, QueueIsKept
<1>3. ASSUME NEW s \in Sessions, Poll(s) PROVE RunnerInv'
  BY <1>1, <1>3, PollRunner
<1>4. CASE UNCHANGED vars
  <2>1. NoNewRunner
    BY <1>4 DEF vars, pluginVars, wireVars, NoNewRunner, Involved
  <2> QED  BY <1>1, <1>2, <2>1, RunnersStay
<1>5. CASE NoNewRunner
  BY <1>1, <1>2, <1>5, RunnersStay
<1> QED  BY <1>1, <1>3, <1>4, <1>5, OthersGiveNone

\* While nothing was evicted a session has a thread or a result for what it ran, and
\* ran it once.
RanOnce(s) ==
  /\ s \in alive => Len(cache[s]) <= Len(log[s])
  /\ Len(log[s]) <= CacheLimit => \A r \in Requests :
       /\ ran[s][r] <= 1
       /\ s \in alive /\ ran[s][r] > 0 => Plugin!Running(s, r) \/ Plugin!Cached(s, r)

\* A result is added; it takes the place of another only when the cache is full.
LEMMA RememberedFacts ==
  ASSUME WireInv, NEW s \in Sessions, NEW r, NEW f, NEW N,
         N = Plugin!Remembered(s, r, f)
  PROVE  /\ Len(N) <= Len(cache[s]) + 1
         /\ \E i \in DOMAIN N : N[i].req = r
         /\ Len(cache[s]) < CacheLimit =>
              \A i \in DOMAIN cache[s] : \E j \in DOMAIN N : N[j].req = cache[s][i].req
<1> DEFINE old == cache[s]
           new == [req |-> r, attempt |-> f.attempt]
           rest == IF Len(old) >= CacheLimit THEN Tail(old) ELSE old
           Any == {x : x \in {old[i] : i \in 1..Len(old)} \cup {new}}
<1>1. old \in Seq(Plugin!Results) /\ Len(old) \in Nat /\ DOMAIN old = 1..Len(old)
  BY LenProperties DEF WireInv, Plugin!TypeOK
<1>2. old \in Seq(Any)
  BY <1>1, LenProperties
<1>3. new \in Any /\ new.req = r
  OBVIOUS
<1>4. N = Append(rest, new)
  BY DEF Plugin!Remembered
<1>5. /\ rest \in Seq(Any) /\ Len(rest) <= Len(old)
      /\ Len(old) < CacheLimit => rest = old
  <2>1. CASE Len(old) >= CacheLimit
    <3>1. old # <<>>
      BY <1>1, <2>1, PluginLimits
    <3>2. Tail(old) \in Seq(Any) /\ Len(Tail(old)) = Len(old) - 1
      BY <1>2, <3>1, HeadTailProperties
    <3> QED  BY <1>1, <2>1, <3>2, PluginLimits
  <2> QED  BY <1>1, <1>2, <2>1, PluginLimits
<1> HIDE DEF rest, new, Any
<1>6. /\ Len(N) = Len(rest) + 1 /\ N[Len(rest) + 1] = new /\ DOMAIN N = 1..Len(N)
      /\ \A i \in 1..Len(rest) : N[i] = rest[i]
      /\ Len(rest) \in Nat
  BY <1>3, <1>4, <1>5, AppendProperties, LenProperties
<1>7. Len(rest) + 1 \in DOMAIN N
  BY <1>6
<1> QED  BY <1>1, <1>3, <1>5, <1>6, <1>7

\* RanOnce is inductive.
LEMMA RanOnceKept ==
  ASSUME WireInv, WireInv', NEW s \in Sessions, RanOnce(s), [SystemNext]_vars
  PROVE  RanOnce(s)'
<1> DEFINE L == log[s]
<1>0. /\ log \in [Sessions -> Seq(Requests)] /\ cache \in [Sessions -> Seq(Plugin!Results)]
      /\ ran \in [Sessions -> [Requests -> 0..MaxRuns]] /\ 0..MaxRuns \subseteq Nat
      /\ running \in [Sessions -> [Requests -> Fences \cup {NoFence}]]
  BY PluginLimits DEF WireInv, Plugin!TypeOK
<1>1. CASE UNCHANGED <<alive, running[s], cache[s], ran[s], log[s]>> \/ UNCHANGED pluginVars
  BY <1>1 DEF RanOnce, Plugin!Running, Plugin!Cached, pluginVars
<1>2. ASSUME NEW x \in Sessions, NEW q \in Requests, NEW f \in Deliveries(x),
             Plugin!Start(x, q, f)
      PROVE  RanOnce(s)'
  <2>1. /\ ~ Plugin!Cached(x, q) /\ ~ Plugin!Running(x, q) /\ x \in alive
        /\ running' = [running EXCEPT ![x][q] = f]
        /\ ran' = [ran EXCEPT ![x][q] = @ + 1]
        /\ UNCHANGED <<alive, cache, log>>
    BY <1>2 DEF Plugin!Start
  <2>2. CASE x # s
    <3>1. UNCHANGED <<alive, running[s], cache[s], ran[s], log[s]>>
      BY <1>0, <2>1, <2>2
    <3> QED  BY <1>1, <3>1
  <2>3. CASE x = s
    <3>1. /\ running'[s] = [running[s] EXCEPT ![q] = f]
          /\ ran'[s] = [ran[s] EXCEPT ![q] = @ + 1]
      BY <1>0, <2>1, <2>3
    <3>2. f # NoFence
      BY <2>3, BridgeAssumption DEF Deliveries, NoFence
    <3>3. ASSUME Len(log[s]) <= CacheLimit, NEW r \in Requests
          PROVE  /\ ran'[s][r] <= 1
                 /\ ran'[s][r] > 0 => Plugin!Running(s, r)' \/ Plugin!Cached(s, r)
      <4>1. CASE r = q
        <5>1. ran[s][q] = 0
          BY <1>0, <2>1, <2>3, <3>3 DEF RanOnce
        <5>2. ran'[s][q] = 1 /\ running'[s][q] = f
          BY <1>0, <3>1, <5>1
        <5> QED  BY <3>2, <4>1, <5>2 DEF Plugin!Running
      <4>2. CASE r # q
        <5>1. ran'[s][r] = ran[s][r] /\ running'[s][r] = running[s][r]
          BY <1>0, <3>1, <4>2
        <5> QED  BY <2>1, <2>3, <3>3, <5>1 DEF RanOnce, Plugin!Running
      <4> QED  BY <4>1, <4>2
    <3>4. \A r : Plugin!Cached(s, r)' <=> Plugin!Cached(s, r)
      BY <2>1 DEF Plugin!Cached
    <3> QED  BY <2>1, <3>3, <3>4 DEF RanOnce
  <2> QED  BY <2>2, <2>3
<1>3. ASSUME NEW x \in Sessions, Plugin!Crash(x) PROVE RanOnce(s)'
  <2>1. CASE x = s
    BY <1>3, <2>1 DEF Plugin!Crash, RanOnce
  <2>2. CASE x # s
    <3>1. /\ (s \in alive' <=> s \in alive)
          /\ UNCHANGED <<running[s], cache[s], ran[s], log[s]>>
      BY <1>0, <1>3, <2>2 DEF Plugin!Crash
    <3> QED  BY <3>1 DEF RanOnce, Plugin!Running, Plugin!Cached
  <2> QED  BY <2>1, <2>2
<1>4. ASSUME NEW x \in Sessions, NEW q \in Requests, Plugin!Complete(x, q)
      PROVE  RanOnce(s)'
  <2>1. /\ x \in alive
        /\ running' = [running EXCEPT ![x][q] = NoFence]
        /\ cache' = [cache EXCEPT ![x] = Plugin!Remembered(x, q, running[x][q])]
        /\ log' = [log EXCEPT ![x] = Append(@, q)]
        /\ UNCHANGED <<alive, ran>>
    BY <1>4 DEF Plugin!Complete
  <2>2. CASE x # s
    <3>1. UNCHANGED <<alive, running[s], cache[s], ran[s], log[s]>>
      BY <1>0, <2>1, <2>2
    <3> QED  BY <1>1, <3>1
  <2>3. CASE x = s
    <3>1. PICK N : N = Plugin!Remembered(s, q, running[s][q])
      OBVIOUS
    <3>2. /\ cache'[s] = N /\ log'[s] = Append(log[s], q)
          /\ \A r \in Requests : running'[s][r] = IF r = q THEN NoFence ELSE running[s][r]
      BY <1>0, <2>1, <2>3, <3>1
    <3>3. Len(log'[s]) = Len(log[s]) + 1 /\ Len(log[s]) \in Nat
      BY <1>0, <3>2, AppendProperties, LenProperties
    <3>4. Len(cache[s]) \in Nat /\ Len(cache'[s]) \in Nat
      BY <1>0, LenProperties DEF WireInv, Plugin!TypeOK
    <3>5. /\ Len(N) <= Len(cache[s]) + 1
          /\ \E i \in DOMAIN N : N[i].req = q
          /\ Len(cache[s]) < CacheLimit =>
               \A i \in DOMAIN cache[s] : \E j \in DOMAIN N : N[j].req = cache[s][i].req
      BY <3>1, RememberedFacts
    <3>6. Len(cache[s]) <= Len(log[s])
      BY <2>1, <2>3 DEF RanOnce
    <3>7. Len(cache'[s]) <= Len(log'[s])
      BY <3>2, <3>3, <3>4, <3>5, <3>6
    <3>8. ASSUME Len(log'[s]) <= CacheLimit, NEW r \in Requests, ran[s][r] > 0
          PROVE  Plugin!Running(s, r)' \/ Plugin!Cached(s, r)'
      <4>1. Len(cache[s]) < CacheLimit /\ Len(log[s]) <= CacheLimit
        BY <3>3, <3>4, <3>6, <3>8, PluginLimits
      <4>2. Plugin!Running(s, r) \/ Plugin!Cached(s, r)
        BY <2>1, <2>3, <3>8, <4>1 DEF RanOnce
      <4>3. Plugin!Cached(s, r) \/ r = q => Plugin!Cached(s, r)'
        BY <3>2, <3>5, <4>1 DEF Plugin!Cached
      <4>4. Plugin!Running(s, r) /\ r # q => Plugin!Running(s, r)'
        BY <3>2 DEF Plugin!Running
      <4> QED  BY <4>2, <4>3, <4>4
    <3>9. Len(log'[s]) <= CacheLimit => Len(log[s]) <= CacheLimit
      BY <3>3, PluginLimits
    <3> QED  BY <2>1, <3>7, <3>8, <3>9 DEF RanOnce
  <2> QED  BY <2>2, <2>3
<1>5. ASSUME NEW x \in Sessions, HandleRequestOnce(x) PROVE RanOnce(s)'
  <2>1. inbox[x].req \in Requests /\ inbox[x].fence \in Deliveries(x)
    BY <1>5 DEF HandleRequestOnce, WireInv, WireTypes, InboxFences
  <2> QED  BY <1>1, <1>2, <1>5, <2>1 DEF HandleRequestOnce
<1>6. ASSUME NEW x \in Sessions, NEW r \in Requests, HandlerDone(x, r) PROVE RanOnce(s)'
  BY <1>4, <1>6 DEF HandlerDone
<1>7. ASSUME NEW x \in Sessions, PluginCrash(x) PROVE RanOnce(s)'
  BY <1>3, <1>7 DEF PluginCrash
<1>8. ASSUME NEW x \in Sessions,
             Ready(x) \/ ReadyReply(x) \/ Disconnect(x) \/ Poll(x) \/ LoseReply(x)
      PROVE  UNCHANGED pluginVars
  BY <1>8 DEF Ready, ReadyReply, Disconnect, Poll, PollWith, LoseReply
<1>9. ASSUME NEW m \in net, ReceiveAck(m) \/ ReceiveResponse(m) \/ ReceiveReconcile(m)
      PROVE  UNCHANGED pluginVars
  BY <1>9 DEF ReceiveAck, ReceiveResponse, ReceiveReconcile, Take
<1>10. ASSUME ServerStep \/ ServerRestart \/ UNCHANGED vars PROVE UNCHANGED pluginVars
  BY <1>10 DEF ServerStep, ServerRestart, vars
<1> QED  BY <1>1, <1>5, <1>6, <1>7, <1>8, <1>9, <1>10 DEF SystemNext

\* No session has completed more requests than its cache holds.
NothingEvicted == \A s \in Sessions : Len(log[s]) <= CacheLimit

OnceInv == RunnerInv /\ \A s \in Sessions : RanOnce(s)

\* Both hold always.
LEMMA OnceInvariance ==
  ASSUME ~ LoadJournal
  PROVE  SystemSpec => []OnceInv
<1>1. SystemInit => OnceInv
  <2> SUFFICES ASSUME SystemInit PROVE OnceInv
    OBVIOUS
  <2>1. \A s \in Sessions, r \in Requests : ~ Involved(s, r)
    BY DEF SystemInit, Plugin!Init, Involved
  <2>2. pending = {}
    BY DEF SystemInit, Init
  <2>3. \A s \in Sessions : RanOnce(s)
    BY DEF SystemInit, Plugin!Init, RanOnce
  <2> QED
    BY <2>1, <2>2, <2>3 DEF OnceInv, RunnerInv, OneRunner, RunnersAreKept, RunnersWereSent
<1>2. SystemInv /\ SystemInv' /\ OnceInv /\ [SystemNext]_vars => OnceInv'
  <2> SUFFICES ASSUME SystemInv, SystemInv', OnceInv, [SystemNext]_vars PROVE OnceInv'
    OBVIOUS
  <2>1. WireInv /\ WireInv'
    <3>1. WireInv
      BY InvParts
    <3>2. WireInv'
      BY DEF SystemInv, SystemTypeOK, FencesAreOwn, WireInv, WireTypes, PluginFences,
             InboxFences, FrameOwn
    <3> QED  BY <3>1, <3>2
  <2> QED  BY <2>1, RunnersKept, RanOnceKept DEF OnceInv
<1> QED  BY <1>1, <1>2, SystemInvariance, PTL DEF SystemSpec

\* What the plugin is relied on for: over all sessions of a target and whatever is
\* lost, redelivered, timed out or taken over, a mutation is begun at most once, for
\* as long as no session completed more than its cache remembers.  A server that
\* reads its journal would deliver what another session ran.
THEOREM MutationsRunOnce ==
  ~ LoadJournal => (SystemSpec => [](NothingEvicted => MutationRunsOnce))
<1> SUFFICES ASSUME ~ LoadJournal PROVE SystemSpec => [](NothingEvicted => MutationRunsOnce)
  OBVIOUS
<1>1. SystemInv /\ OnceInv => (NothingEvicted => MutationRunsOnce)
  <2> SUFFICES ASSUME SystemInv, OnceInv, NothingEvicted, NEW r \in Mutations,
                      NEW s \in Sessions, NEW x \in Sessions, ran[s][r] > 0, ran[x][r] > 0
               PROVE  s = x /\ ran[s][r] = 1
    BY DEF MutationRunsOnce
  <2>1. r \in Requests
    BY BridgeAssumption
  <2>2. s = x
    BY <2>1 DEF OnceInv, RunnerInv, OneRunner, Involved
  <2>3. ran[s][r] \in Nat /\ ran[s][r] <= 1
    BY <2>1, PluginLimits DEF OnceInv, RanOnce, NothingEvicted, SystemInv, SystemTypeOK, Plugin!TypeOK
  <2> QED  BY <2>2, <2>3
<1> QED  BY <1>1, OnceInvariance, SystemInvariance, PTL
-----------------------------------------------------------------------------
(* The system keeps the contract with its callers *)

\* What a caller was told, by the state of the request.
LEMMA ToldIs ==
  ASSUME UnsentUnknown, LiveTypeOK, NEW r \in Requests
  PROVE  /\ arrival[r] = 0 => Told(r) = "unsent" /\ state[r] = "none"
         /\ arrival[r] # 0 /\ state[r] = "none" => Told(r) = "forgotten"
         /\ state[r] \in Active => Told(r) = "waiting" /\ arrival[r] # 0
         /\ state[r] = "completed" => Told(r) = "ok" /\ arrival[r] # 0
         /\ state[r] = "outcome_unknown" => Told(r) = "unknown" /\ arrival[r] # 0
         /\ state[r] \in {"failed", "timed_out", "cancelled"} => Told(r) = "error" /\ arrival[r] # 0
         /\ Told(r) \in Contract!Outcomes
<1>1. /\ state[r] \in {"none", "queued", "delivered", "started", "completed", "failed",
                       "timed_out", "cancelled", "outcome_unknown"}
      /\ arrival[r] = 0 => state[r] = "none"
  BY DEF UnsentUnknown, LiveTypeOK, States, Active, Terminal
<1> QED  BY <1>1 DEF Told, Active, Contract!Outcomes

\* The same after a step.
LEMMA ToldNext ==
  ASSUME UnsentUnknown', LiveTypeOK', NEW r \in Requests
  PROVE  /\ arrival'[r] = 0 => Told(r)' = "unsent"
         /\ arrival'[r] # 0 /\ state'[r] = "none" => Told(r)' = "forgotten"
         /\ state'[r] \in Active => Told(r)' = "waiting"
         /\ state'[r] = "completed" => Told(r)' = "ok"
         /\ state'[r] = "outcome_unknown" => Told(r)' = "unknown"
         /\ state'[r] \in {"failed", "timed_out", "cancelled"} => Told(r)' = "error"
         /\ Told(r)' \in Contract!Outcomes
<1>1. /\ state'[r] \in {"none", "queued", "delivered", "started", "completed", "failed",
                        "timed_out", "cancelled", "outcome_unknown"}
      /\ arrival'[r] = 0 => state'[r] = "none"
  BY DEF UnsentUnknown, LiveTypeOK, States, Active, Terminal
<1> QED  BY <1>1 DEF Told, Active, Contract!Outcomes

Refused == {"failed", "timed_out", "cancelled"}

\* What one step of a living server may do to the status of r.
Moves(r) ==
  \/ arrival'[r] = arrival[r] /\ state'[r] = state[r]
  \/ arrival[r] = 0 /\ arrival'[r] # 0 /\ state'[r] \in Active
  \/ /\ arrival'[r] = arrival[r]
     /\ \/ state[r] \in Active /\ state'[r] \in Active \cup Refused
        \/ state[r] \in Active \cup {"outcome_unknown"} /\ state'[r] = "completed"
        \/ state[r] \in Active /\ r \in Mutations /\ state'[r] = "outcome_unknown"

AllMove == \A r \in Requests : Moves(r)

\* Requests that wait are given up.
LEMMA GivenUpMove ==
  ASSUME LiveInv, NEW R \in SUBSET pending, NEW otherwise \in Refused, arrival' = arrival,
         state' = [r \in Requests |-> IF r \in R THEN Moved(r, Interrupted(r, otherwise))
                                      ELSE state[r]]
  PROVE  AllMove
<1>1. ASSUME NEW r \in R, r \in Requests PROVE Moves(r)
  <2>1. state[r] \in Active
    BY DEF LiveInv, PendingIffActive
  <2>2. state'[r] \in {state[r], Interrupted(r, otherwise)}
    BY <1>1 DEF Moved
  <2> QED  BY <2>1, <2>2 DEF Interrupted, Moves, Active
<1> QED  BY <1>1 DEF AllMove, Moves

\* Every step of the bridge but a restart moves each request so or not at all.
LEMMA BridgeMoves ==
  ASSUME LiveInv, OtherStep \/ (\E r \in Requests, f \in FrameFences : Resolve(r, f))
  PROVE  AllMove \/ Restart
<1> USE DEF LiveInv
<1>1. ASSUME NEW r \in Requests, SendRequest(r) PROVE AllMove
  <2>1. clock \in Nat /\ arrival[r] = 0 /\ state[r] = "none"
    BY <1>1 DEF SendRequest, LiveTypeOK, UnsentUnknown
  <2>2. /\ state' = [state EXCEPT ![r] = "queued"]
        /\ arrival' = [arrival EXCEPT ![r] = clock + 1]
    BY <1>1, <2>1, LegalTable DEF SendRequest, Moved, States, Active
  <2>3. state'[r] = "queued" /\ arrival'[r] = clock + 1
    BY <2>2 DEF LiveTypeOK
  <2>4. Moves(r)
    BY <2>1, <2>3 DEF Moves, Active
  <2>5. \A q \in Requests : q # r => state'[q] = state[q] /\ arrival'[q] = arrival[q]
    BY <2>2 DEF LiveTypeOK
  <2> QED  BY <2>4, <2>5 DEF AllMove, Moves
<1>2. ASSUME NEW R \in SUBSET pending, NEW otherwise \in Refused, arrival' = arrival,
             state' = [r \in Requests |-> IF r \in R THEN Moved(r, otherwise) ELSE state[r]]
      PROVE  AllMove
  <2>1. ASSUME NEW r \in R, r \in Requests PROVE Moves(r)
    <3>1. state[r] \in Active /\ state'[r] \in {state[r], otherwise}
      BY <1>2, <2>1 DEF PendingIffActive, Moved
    <3> QED  BY <1>2, <3>1 DEF Moves
  <2> QED  BY <1>2, <2>1 DEF AllMove, Moves
<1>3. ASSUME NEW r \in Requests, Expire(r) PROVE AllMove
  <2>1. /\ state' = [q \in Requests |-> IF q \in {r} THEN Moved(q, Interrupted(q, "timed_out"))
                                        ELSE state[q]]
        /\ arrival' = arrival /\ {r} \in SUBSET pending
    BY <1>3 DEF Expire, Dequeue, LiveTypeOK
  <2> QED  BY <2>1, GivenUpMove DEF Refused
<1>4. ASSUME NEW r \in Requests, Cancel(r) PROVE AllMove
  <2>1. /\ state' = [q \in Requests |-> IF q \in {r} THEN Moved(q, "cancelled") ELSE state[q]]
        /\ arrival' = arrival /\ {r} \in SUBSET pending
    BY <1>4 DEF Cancel, Dequeue, LiveTypeOK
  <2> QED  BY <1>2, <2>1 DEF Refused
<1>5. ASSUME NEW r \in Requests, NEW f, Acknowledge(r, f) PROVE AllMove
  <2>1. state[r] = "delivered" /\ state' = [state EXCEPT ![r] = "started"] /\ arrival' = arrival
    BY <1>5 DEF Acknowledge, queueVars
  <2>2. \A q \in Requests : state'[q] = IF q = r THEN "started" ELSE state[q]
    BY <2>1 DEF LiveTypeOK
  <2> QED  BY <2>1, <2>2 DEF AllMove, Moves, Active
<1>6. ASSUME NEW r \in Requests, NEW f, Resolve(r, f) PROVE AllMove
  <2>1. /\ Legal(state[r], "completed") /\ state[r] # "none"
        /\ state' = [state EXCEPT ![r] = "completed"] /\ arrival' = arrival
    BY <1>6 DEF Resolve, Finish, Dequeue, FenceMatches
  <2>2. \A q \in Requests : state'[q] = IF q = r THEN "completed" ELSE state[q]
    BY <2>1 DEF LiveTypeOK
  <2>3. state[r] \in Active \cup {"outcome_unknown"}
    BY <2>1, LegalTable DEF LiveTypeOK, States, Active, Terminal
  <2> QED  BY <2>1, <2>2, <2>3 DEF AllMove, Moves
<1>7. ASSUME NEW s \in Sessions, NEW L \in SUBSET Lapsable(s), NEW r \in Requests,
             Deliver(s, L, r)
      PROVE  AllMove
  <2>1. /\ r \in pending /\ state[r] \in Active /\ arrival' = arrival
        /\ \A q \in L : q \in pending /\ state[q] \in Active
    BY <1>7 DEF Deliver, Oldest, Eligible, Mine, Lapsable, PendingIffActive
  <2>2. \A q \in Requests : \/ q \notin L /\ q # r /\ state'[q] = state[q]
                            \/ q \in L \cup {r} /\ state'[q] \in {"queued", "delivered", state[q]}
    BY <1>7 DEF Deliver
  <2>3. ASSUME NEW q \in Requests PROVE Moves(q)
    <3>1. CASE q \in L \cup {r} /\ state'[q] \in {"queued", "delivered", state[q]}
      BY <2>1, <3>1 DEF Moves, Active
    <3> QED  BY <2>1, <2>2, <3>1 DEF Moves
  <2> QED  BY <2>3 DEF AllMove
<1>8. ASSUME NEW s, NEW e, NEW receipts, Reconcile(s, e, receipts) PROVE AllMove
  BY <1>8 DEF Reconcile, Proven, queueVars, AllMove, Moves
<1>9. ASSUME NEW s, NEW rest, DropOrphans(s, rest) PROVE AllMove
  <2>1. Orphaned(s, rest) \in SUBSET pending
    BY DEF Orphaned
  <2> QED  BY <1>9, <2>1, GivenUpMove DEF DropOrphans, Dequeue, Refused
<1>10. ASSUME NEW s \in Sessions, Register(s) \/ Unregister(s) PROVE AllMove
  BY <1>9, <1>10 DEF Register, Unregister, queueVars, statusVars, AllMove, Moves
<1>11. CASE ClearAll
  <2>1. /\ state' = [r \in Requests |-> IF r \in pending THEN Moved(r, "failed") ELSE state[r]]
        /\ arrival' = arrival
    BY <1>11 DEF ClearAll, Dequeue
  <2> QED  BY <1>2, <2>1 DEF Refused
<1> QED
  BY <1>1, <1>3, <1>4, <1>5, <1>6, <1>7, <1>8, <1>10, <1>11 DEF OtherStep

\* The occasions on which r was run.
Runs(r) == {x \in Sessions \X (1..MaxRuns) : x[2] <= ran[x[1]][r]}

\* A step on which Studio begins nothing answers some callers.
LEMMA MoveIsAnswer ==
  ASSUME LiveInv, LiveInv', AllMove, CompletedWasRun', ran' = ran, epoch' = epoch
  PROVE  Contract!Answer
<1>1. ASSUME NEW r \in Requests
      PROVE  /\ Told(r)' \in Contract!Outcomes
             /\ \/ Told(r)' = Told(r)
                \/ Told(r) = "unsent" /\ Told(r)' = "waiting"
                \/ Told(r) = "waiting" /\ Told(r)' = "error"
                \/ Told(r) = "waiting" /\ Told(r)' = "ok" /\ Runs(r) # {}
                \/ Told(r) = "waiting" /\ Told(r)' = "unknown" /\ r \in Mutations
                \/ Told(r) = "unknown" /\ Told(r)' = "ok" /\ Runs(r) # {}
  <2>1. Moves(r)
    BY DEF AllMove
  <2>2. ASSUME state'[r] = "completed" PROVE Runs(r) # {}
    <3>1. PICK s \in Sessions : ran[s][r] >= 1
      BY <2>2 DEF CompletedWasRun
    <3>2. <<s, 1>> \in Runs(r)
      BY <3>1, PluginLimits DEF Runs
    <3> QED  BY <3>2
  <2> USE ToldIs, ToldNext DEF LiveInv
  <2>3. Told(r)' \in Contract!Outcomes
    OBVIOUS
  <2>4. CASE arrival'[r] = arrival[r] /\ state'[r] = state[r]
    <3>1. Told(r)' = Told(r)
      BY <2>4 DEF Told
    <3> QED  BY <2>3, <3>1
  <2>5. CASE arrival[r] = 0 /\ arrival'[r] # 0 /\ state'[r] \in Active
    BY <2>5
  <2>6. CASE arrival'[r] = arrival[r] /\ state[r] \in Active /\ state'[r] \in Active \cup Refused
    BY <2>6 DEF Refused
  <2>7. CASE state[r] \in Active \cup {"outcome_unknown"} /\ state'[r] = "completed"
    BY <2>2, <2>7
  <2>8. CASE state[r] \in Active /\ r \in Mutations /\ state'[r] = "outcome_unknown"
    BY <2>8
  <2> QED  BY <2>1, <2>4, <2>5, <2>6, <2>7, <2>8 DEF Moves
<1>2. \A r \in Requests : Runs(r)' = Runs(r)
  BY DEF Runs
<1> QED
  BY <1>1, <1>2 DEF Contract!Answer, Contract!Answers, Contract!Outcomes, Runs

\* A restart without the journal forgets what was sent.
LEMMA RestartIsRestart ==
  ASSUME LiveInv, LiveInv', ~ LoadJournal, Restart, ran' = ran
  PROVE  Contract!Restart
<1>1. /\ arrival' = arrival /\ epoch' = epoch + 1
      /\ \A r \in Requests : state'[r] = "none"
  BY DEF Restart
<1>2. ASSUME NEW r \in Requests
      PROVE  Told(r)' = IF Told(r) = "unsent" THEN "unsent" ELSE "forgotten"
  <2>1. Told(r) = "unsent" <=> arrival[r] = 0
    <3>1. state[r] \in {"none"} \cup Active \cup Refused \cup {"completed", "outcome_unknown"}
      BY DEF LiveInv, LiveTypeOK, States, Terminal, Refused
    <3> QED  BY <3>1, ToldIs DEF LiveInv, Refused
  <2> QED  BY <1>1, <2>1, ToldNext DEF LiveInv
<1>3. \A r \in Requests : Runs(r)' = Runs(r)
  BY DEF Runs
<1> QED  BY <1>1, <1>2, <1>3 DEF Contract!Restart, Runs

\* Studio begins the work of a request its caller knows of, of a mutation for the
\* first time.
LEMMA StartIsWork ==
  ASSUME SystemInv, OnceInv, NothingEvicted, NEW s \in Sessions, NEW q \in Requests, NEW f,
         Involved(s, q), Plugin!Start(s, q, f), UNCHANGED bridgeVars
  PROVE  Contract!Work(q)
<1>1. /\ s \in alive /\ ~ Plugin!Cached(s, q) /\ ~ Plugin!Running(s, q)
      /\ ran[s][q] < MaxRuns /\ ran' = [ran EXCEPT ![s][q] = @ + 1]
  BY DEF Plugin!Start
<1>2. ran \in [Sessions -> [Requests -> 0..MaxRuns]] /\ 0..MaxRuns \subseteq Nat
  BY PluginLimits DEF SystemInv, SystemTypeOK, Plugin!TypeOK
<1>3. Told(q) # "unsent"
  <2>1. arrival[q] # 0
    BY DEF OnceInv, RunnerInv, RunnersWereSent
  <2>2. state[q] \in {"none"} \cup Active \cup Refused \cup {"completed", "outcome_unknown"}
    BY DEF SystemInv, IInv, LiveInv, LiveTypeOK, States, Terminal, Refused
  <2> QED  BY <2>1, <2>2, ToldIs DEF SystemInv, IInv, LiveInv, Refused
<1>4. ASSUME q \in Mutations PROVE Runs(q) = {}
  <2>1. ASSUME NEW x \in Sessions PROVE ran[x][q] = 0
    <3>1. ran[x][q] > 0 => x = s
      BY DEF OnceInv, RunnerInv, OneRunner, Involved
    <3>2. ran[s][q] = 0
      BY <1>1, <1>2 DEF OnceInv, RanOnce, NothingEvicted
    <3> QED  BY <1>2, <3>1, <3>2
  <2> QED  BY <2>1 DEF Runs
<1> DEFINE n == ran[s][q] + 1
<1>5. \A x \in Sessions, r \in Requests :
        ran'[x][r] = IF x = s /\ r = q THEN n ELSE ran[x][r]
  BY <1>1, <1>2
<1>6. n \in 1..MaxRuns /\ <<s, n>> \notin Runs(q)
  <2>1. ran[s][q] \in Nat
    BY <1>2
  <2> QED  BY <1>1, <2>1, PluginLimits DEF Runs
<1>7. Runs(q)' = Runs(q) \cup {<<s, n>>}
  <2>1. ASSUME NEW x \in Sessions, NEW i \in 1..MaxRuns
        PROVE  i <= ran'[x][q] <=> i <= ran[x][q] \/ (x = s /\ i = n)
    <3>1. CASE x = s
      <4>1. ran[s][q] \in Nat /\ ran'[s][q] = ran[s][q] + 1
        BY <1>2, <1>5
      <4> QED  BY <3>1, <4>1
    <3>2. CASE x # s
      BY <1>5, <3>2
    <3> QED  BY <3>1, <3>2
  <2> HIDE DEF n
  <2> QED  BY <1>6, <2>1 DEF Runs
<1>8. \A r \in Requests : r # q => Runs(r)' = Runs(r)
  BY <1>5 DEF Runs
<1>9. UNCHANGED <<state, arrival, epoch>>
  BY DEF bridgeVars, statusVars, queueVars, registryVars
<1>10. \A r \in Requests : Told(r)' = Told(r)
  BY <1>9 DEF Told
<1>11. <<s, n>> \in (Sessions \X (1..MaxRuns)) \ Runs(q)
  BY <1>6
<1> HIDE DEF n
<1> DEFINE W == [r \in Requests |->
                  {x \in Sessions \X (1..MaxRuns) : x[2] <= ran[x[1]][r]}]
           T == [r \in Requests |-> Told(r)]
           e == <<s, n>>
<1>12. T[q] # "unsent" /\ (q \in Mutations => W[q] = {})
  BY <1>3, <1>4 DEF Runs
<1>13. e \in (Sessions \X (1..MaxRuns)) \ W[q]
  BY <1>11 DEF Runs
<1>14. W' = [W EXCEPT ![q] = W[q] \cup {e}]
  <2>1. W = [r \in Requests |-> Runs(r)] /\ W' = [r \in Requests |-> Runs(r)']
    BY DEF Runs
  <2> HIDE DEF W, e
  <2> QED  BY <1>7, <1>8, <2>1 DEF e
<1>15. UNCHANGED <<T, epoch>>
  BY <1>9, <1>10
<1> HIDE DEF e
<1> QED  BY <1>12, <1>13, <1>14, <1>15, Zenon DEF Contract!Work

\* Only a restart begins another life.
LEMMA EpochStays ==
  ASSUME OtherStep \/ (\E r \in Requests, f \in FrameFences : Resolve(r, f))
  PROVE  epoch' = epoch \/ Restart
<1>1. ASSUME NEW r \in Requests, SendRequest(r) \/ Expire(r) \/ Cancel(r)
      PROVE  epoch' = epoch
  BY <1>1 DEF SendRequest, Expire, Cancel, registryVars
<1>2. ASSUME NEW r \in Requests, NEW f, Acknowledge(r, f) \/ Resolve(r, f)
      PROVE  epoch' = epoch
  BY <1>2 DEF Acknowledge, Resolve, Finish, registryVars
<1>3. ASSUME NEW s \in Sessions, NEW L, NEW r, Deliver(s, L, r) PROVE epoch' = epoch
  BY <1>3 DEF Deliver, registryVars
<1>4. ASSUME NEW s \in Sessions, NEW e, NEW receipts, Reconcile(s, e, receipts)
      PROVE  epoch' = epoch
  BY <1>4 DEF Reconcile, registryVars
<1>5. ASSUME NEW s \in Sessions, Unregister(s) \/ Register(s) PROVE epoch' = epoch
  BY <1>5 DEF Unregister, Register, DropOrphans
<1>6. CASE ClearAll
  BY <1>6 DEF ClearAll
<1> QED  BY <1>1, <1>2, <1>3, <1>4, <1>5, <1>6 DEF OtherStep

\* Only handleRequestOnce begins work.
LEMMA RanStays ==
  ASSUME SystemNext
  PROVE  UNCHANGED ran \/ \E s \in Sessions : HandleRequestOnce(s)
<1>1. ASSUME NEW s \in Sessions,
             \/ Ready(s) \/ ReadyReply(s) \/ Disconnect(s) \/ PluginCrash(s)
             \/ Poll(s) \/ LoseReply(s) \/ \E r \in Requests : HandlerDone(s, r)
      PROVE  UNCHANGED ran
  BY <1>1 DEF Ready, ReadyReply, Disconnect, PluginCrash, Plugin!Crash, Poll, PollWith,
     LoseReply, HandlerDone, Plugin!Complete, pluginVars
<1>2. ASSUME NEW m \in net, ReceiveAck(m) \/ ReceiveResponse(m) \/ ReceiveReconcile(m)
      PROVE  UNCHANGED ran
  BY <1>2 DEF ReceiveAck, ReceiveResponse, ReceiveReconcile, Take, pluginVars
<1>3. ASSUME ServerStep \/ ServerRestart PROVE UNCHANGED ran
  BY <1>3 DEF ServerStep, ServerRestart, pluginVars
<1> QED  BY <1>1, <1>2, <1>3 DEF SystemNext

\* Every step of the system is one of the contract.
LEMMA StepKeepsContract ==
  ASSUME ~ LoadJournal, SystemInv, SystemInv', OnceInv, NothingEvicted, CompletedWasRun',
         [SystemNext]_vars
  PROVE  Contract!Next
<1>1. LiveInv /\ LiveInv' /\ WireInv
  BY InvParts DEF SystemInv, IInv
<1>2. ASSUME UNCHANGED bridgeVars, UNCHANGED ran PROVE Contract!Next
  <2>1. UNCHANGED <<arrival, state, epoch>>
    BY <1>2 DEF bridgeVars, registryVars, queueVars, statusVars
  <2>2. AllMove
    BY <2>1 DEF AllMove, Moves
  <2> QED  BY <1>1, <1>2, <2>1, <2>2, MoveIsAnswer DEF Contract!Next
<1>3. ASSUME UNCHANGED ran,
             OtherStep \/ (\E r \in Requests, f \in FrameFences : Resolve(r, f))
      PROVE  Contract!Next
  <2>1. CASE Restart
    BY <1>1, <1>3, <2>1, RestartIsRestart DEF Contract!Next
  <2>2. CASE ~ Restart
    BY <1>1, <1>3, <2>2, BridgeMoves, EpochStays, MoveIsAnswer DEF Contract!Next
  <2> QED  BY <2>1, <2>2
<1>4. ASSUME NEW s \in Sessions, HandleRequestOnce(s) PROVE Contract!Next
  <2>1. PICK q, f : q = inbox[s].req /\ f = inbox[s].fence
    OBVIOUS
  <2>2. q \in Requests /\ inbox[s] # NoDelivery /\ UNCHANGED bridgeVars
    BY <1>1, <1>4, <2>1 DEF HandleRequestOnce, WireInv, WireTypes
  <2>3. CASE Plugin!Start(s, q, f)
    <3>1. Contract!Work(q)
      BY <2>1, <2>2, <2>3, StartIsWork DEF Involved
    <3> QED  BY <2>2, <3>1 DEF Contract!Next
  <2>4. CASE UNCHANGED pluginVars
    BY <1>2, <2>2, <2>4 DEF pluginVars
  <2> QED  BY <1>4, <2>1, <2>3, <2>4 DEF HandleRequestOnce
<1>5. CASE UNCHANGED vars
  BY <1>2, <1>5 DEF vars, pluginVars
<1>6. ASSUME SystemNext, UNCHANGED ran PROVE Contract!Next
  <2>1. ASSUME NEW m \in net, ReceiveResponse(m), Resolve(m.req, m.fence) PROVE Contract!Next
    BY <1>3, <1>6, <2>1, FrameTypes DEF ReceiveResponse
  <2> QED  BY <1>2, <1>3, <1>6, <2>1, StepSorts
<1> QED  BY <1>4, <1>5, <1>6, RanStays

\* The bridge, the transport and the plugin together keep the contract with whoever
\* calls a tool: one answer for a request, "ok" only for work that was done, an unknown
\* outcome only for a mutation, and the work of a mutation at most once; for servers
\* that do not read their journal, while no session completed more than it remembers.
THEOREM SystemKeepsContract ==
  ~ LoadJournal => (SystemSpec /\ []NothingEvicted => KeepsContract)
<1> SUFFICES ASSUME ~ LoadJournal PROVE SystemSpec /\ []NothingEvicted => KeepsContract
  OBVIOUS
<1>1. SystemInit => Contract!Init
  <2> SUFFICES ASSUME SystemInit PROVE Contract!Init
    OBVIOUS
  <2>1. ASSUME NEW r \in Requests PROVE Told(r) = "unsent" /\ Runs(r) = {}
    <3>1. arrival[r] = 0 /\ state[r] = "none"
      BY DEF SystemInit, Init
    <3>2. Told(r) = "unsent"
      BY <3>1 DEF Told, Active
    <3>3. ASSUME NEW x \in Sessions PROVE ran[x][r] = 0
      BY DEF SystemInit, Plugin!Init
    <3> QED  BY <3>2, <3>3 DEF Runs
  <2>2. epoch = 0
    BY DEF SystemInit, Init
  <2> QED  BY <2>1, <2>2 DEF Contract!Init, Runs
<1>2. SystemInv /\ SystemInv' /\ OnceInv /\ NothingEvicted /\ CompletedWasRun'
        /\ [SystemNext]_vars => [Contract!Next]_(Contract!contractVars)
  BY StepKeepsContract
<1> QED
  BY <1>1, <1>2, SystemInvariance, OnceInvariance, CompletedRequestsRan, PTL
  DEF SystemSpec, KeepsContract, Contract!Spec
=============================================================================
