---------------------------- MODULE ServerProofs -----------------------------
(*****************************************************************************)
(* The processes of the server side: of any number of servers that start,    *)
(* promote themselves, stop and die one serves its own queue at a time, and  *)
(* a mutation that Studio has is reported as a plain timeout only when a     *)
(* lease of it lapsed; and no child of the manager of `rojo serve` processes *)
(* is out of its hands, for any number of projects, ports and children.      *)
(*****************************************************************************)
EXTENDS MCServerSide, LeaseProofs, InstanceProofs

------------------------------------------------------------------------------
(*****************************************************************************)
(* The modes of the servers and what they tell their callers.                *)
(*****************************************************************************)


\* A proxy has replaced its tools once; before its start a server has nothing.
ToolsFollowBridge ==
  \A s \in Servers :
    /\ mode[s] = "off" => tools[s] = 0 /\ s \notin forwards
    /\ s \in forwards => tools[s] = 1

ModesTyped == ModesTypeOK /\ ToolsFollowBridge

\* What Studio received was delivered, or is queued again by a lapse; a call nobody
\* made is in no queue, and a plain timeout of a mutation was said by the queue it
\* left.
GotWasDelivered ==
  \A c \in Calls : c \in studio.got =>
    \/ entry[c].stage \in {"delivered", "started", "settled"}
    \/ entry[c].stage = "queued" /\ entry[c].lapsed
UnmadeIsNowhere ==
  \A c \in Calls : caller[c].out = "none" => entry[c].stage = "none"
TimedOutIsSettled ==
  \A c \in Mutating :
    caller[c].out = "timeout" =>
      entry[c].stage = "settled" /\ (c \in studio.got => entry[c].lapsed)

CallInv == GotWasDelivered /\ UnmadeIsNowhere /\ TimedOutIsSettled

ModesInv == ModesTyped /\ OneQueueServed /\ CallInv

Callers == [by : Servers \cup {NoServer}, forwarded : BOOLEAN,
            out : {"none", "waiting"} \cup Outcomes]
Entries == [at : Servers \cup {NoServer}, stage : Stages, lapsed : BOOLEAN]
-----------------------------------------------------------------------------
\* Settling and telling keep the types and touch what they say.
LEMMA SettledTyped ==
  ASSUME entry \in [Calls -> Entries], NEW C
  PROVE  /\ Settled(C) \in [Calls -> Entries]
         /\ \A c \in Calls : /\ Settled(C)[c].at = entry[c].at
                             /\ Settled(C)[c].lapsed = entry[c].lapsed
                             /\ Settled(C)[c].stage \in {entry[c].stage, "settled"}
                             /\ c \in C => Settled(C)[c].stage = "settled"
<1>1. ASSUME NEW c \in Calls
      PROVE  /\ Settled(C)[c] \in Entries
             /\ Settled(C)[c].at = entry[c].at
             /\ Settled(C)[c].lapsed = entry[c].lapsed
             /\ Settled(C)[c].stage \in {entry[c].stage, "settled"}
             /\ c \in C => Settled(C)[c].stage = "settled"
  BY DEF Settled, Entries, Stages
<1>2. Settled(C) \in [Calls -> Entries]
  BY <1>1 DEF Settled
<1> QED BY <1>1, <1>2

LEMMA ToldTyped ==
  ASSUME caller \in [Calls -> Callers], NEW C, NEW out \in Outcomes
  PROVE  /\ Told(C, out) \in [Calls -> Callers]
         /\ \A c \in Calls :
              /\ Told(C, out)[c].out \in {caller[c].out, out}
              /\ c \notin C => Told(C, out)[c] = caller[c]
              /\ caller[c].out = "none" <=> Told(C, out)[c].out = "none"
<1>1. ASSUME NEW c \in Calls
      PROVE  /\ Told(C, out)[c] \in Callers
             /\ Told(C, out)[c].out \in {caller[c].out, out}
             /\ c \notin C => Told(C, out)[c] = caller[c]
             /\ caller[c].out = "none" <=> Told(C, out)[c].out = "none"
  BY DEF Told, Callers, Outcomes, Waiting
<1>2. Told(C, out) \in [Calls -> Callers]
  BY <1>1 DEF Told
<1> QED BY <1>1, <1>2
-----------------------------------------------------------------------------
LEMMA InitModes == ModesInit => ModesInv
<1> SUFFICES ASSUME ModesInit PROVE ModesInv
  OBVIOUS
<1>1. ModesTyped
  BY ModesAssumption
  DEF ModesAssumption, ModesInit, ModesTyped, ModesTypeOK, ToolsFollowBridge, Asleep, Modes,
      Stages, Outcomes
<1>2. OneQueueServed
  BY DEF ModesInit, OneQueueServed
<1>3. CallInv
  BY ModesAssumption
  DEF ModesAssumption, ModesInit, CallInv, GotWasDelivered, UnmadeIsNowhere,
      TimedOutIsSettled, Asleep
<1> QED BY <1>1, <1>2, <1>3 DEF ModesInv
-----------------------------------------------------------------------------
\* What happens to a server when it ends.
LEMMA GoneKeeps ==
  ASSUME ModesInv, NEW s \in Servers, Gone(s), mode[s] # "off"
  PROVE  ModesInv'
<1> USE ModesAssumption DEF ModesAssumption, ModesInv, ModesTyped, ModesTypeOK
<1>1. \A C : Settled(C) \in [Calls -> Entries]
  BY SettledTyped DEF Entries
<1>2. \A c \in Calls : /\ caller'[c] \in Callers
                       /\ caller'[c].out \in {caller[c].out, "lost"}
                       /\ caller'[c].out = "none" <=> caller[c].out = "none"
  BY DEF Gone, Callers, Outcomes, Waiting
<1>3. ModesTyped'
  <2>1. caller' \in [Calls -> Callers]
    BY <1>2 DEF Gone
  <2>2. entry' \in [Calls -> Entries]
    BY <1>1 DEF Gone
  <2>3. mode' \in [Servers -> Modes] /\ {port', plugin'} \subseteq Servers \cup {NoServer}
    BY DEF Gone, Modes
  <2>4. ToolsFollowBridge'
    BY DEF Gone, ToolsFollowBridge, Modes
  <2> QED BY <2>1, <2>2, <2>3, <2>4 DEF Gone, Callers, Entries
<1>4. OneQueueServed'
  BY DEF Gone, OneQueueServed, Modes
<1>5. CallInv'
  <2>1. \A c \in Calls : /\ entry'[c].stage \in {entry[c].stage, "settled"}
                         /\ entry'[c].lapsed = entry[c].lapsed
    BY SettledTyped DEF Gone, Entries
  <2>2. \A c \in Calls : caller[c].out = "none" => c \notin PendingAt(s)
    BY DEF CallInv, UnmadeIsNowhere, PendingAt, Active
  <2>3. \A c \in Calls : c \notin PendingAt(s) => entry'[c] = entry[c]
    BY DEF Gone, Settled
  <2> QED
    BY <1>2, <2>1, <2>2, <2>3
    DEF Gone, CallInv, GotWasDelivered, UnmadeIsNowhere, TimedOutIsSettled
<1> QED BY <1>3, <1>4, <1>5
-----------------------------------------------------------------------------
\* A step that leaves the servers alone keeps what is said of them.
LEMMA ServersKept ==
  ASSUME ModesTyped, OneQueueServed, UNCHANGED <<mode, forwards, tools, port>>,
         plugin' \in Servers \cup {NoServer},
         entry' \in [Calls -> Entries], caller' \in [Calls -> Callers],
         studio' \in [got : SUBSET Calls, ran : SUBSET Calls],
         episodes' \in [stored : SUBSET Servers, pushed : SUBSET Servers]
  PROVE  ModesTyped' /\ OneQueueServed'
<1>1. ModesTypeOK'
  BY DEF ModesTyped, ModesTypeOK, Entries, Callers
<1>2. ToolsFollowBridge' /\ OneQueueServed'
  BY DEF ModesTyped, ToolsFollowBridge, OneQueueServed
<1> QED BY <1>1, <1>2 DEF ModesTyped

\* A step that leaves the calls alone keeps what is said of them.
LEMMA CallsKept ==
  ASSUME CallInv, UNCHANGED <<entry, caller, studio>>
  PROVE  CallInv'
BY DEF CallInv, GotWasDelivered, UnmadeIsNowhere, TimedOutIsSettled

\* First bind, fallback and promotion: the port is free, or the newcomer forwards.
LEMMA PortKeeps ==
  ASSUME ModesInv, NEW s \in Servers, StartPrimary(s) \/ StartProxy(s) \/ Promote(s)
  PROVE  ModesInv'
<1> USE ModesAssumption DEF ModesAssumption, ModesInv, ModesTyped, ModesTypeOK
<1>1. CallInv'
  BY CallsKept DEF StartPrimary, StartProxy, Promote
<1>2. CASE StartPrimary(s)
  <2>1. ModesTyped'
    BY <1>2 DEF StartPrimary, ToolsFollowBridge, Modes
  <2>2. OneQueueServed'
    BY <1>2 DEF StartPrimary, OneQueueServed, Modes
  <2> QED BY <1>1, <2>1, <2>2
<1>3. CASE StartProxy(s)
  <2>0. tools[s] = 0 /\ tools' = [tools EXCEPT ![s] = tools[s] + 1]
    BY <1>3 DEF StartProxy, ToolsFollowBridge
  <2>1. tools' = [tools EXCEPT ![s] = 1]
    BY ONLY <2>0
  <2>2. ModesTyped'
    BY <1>3, <2>1 DEF StartProxy, ToolsFollowBridge, Modes
  <2>3. OneQueueServed'
    BY <1>3 DEF StartProxy, OneQueueServed, Modes
  <2> QED BY <1>1, <2>2, <2>3
<1>4. CASE Promote(s)
  <2>0. tools[s] = 1 /\ tools' = [tools EXCEPT ![s] = tools[s] + 1]
    BY <1>4 DEF Promote, ToolsFollowBridge
  <2>1. tools' = [tools EXCEPT ![s] = 2]
    BY ONLY <2>0
  <2>2. ModesTyped'
    BY <1>4, <2>1 DEF Promote, ToolsFollowBridge, Modes
  <2>3. OneQueueServed'
    BY <1>4 DEF Promote, CanBind, OneQueueServed, Modes
  <2> QED BY <1>1, <2>2, <2>3
<1> QED BY <1>2, <1>3, <1>4

\* A call begins in the queue of a server, its own or another's.
LEMMA CallKeeps ==
  ASSUME ModesInv, NEW s \in Servers, NEW c \in Calls, CallOwn(s, c) \/ CallForwarded(s, c)
  PROVE  ModesInv'
<1> USE DEF ModesInv, ModesTyped, ModesTypeOK
<1>1. entry' \in [Calls -> Entries] /\ caller' \in [Calls -> Callers]
  <2>1. /\ \A at \in Servers : [at |-> at, stage |-> "queued", lapsed |-> FALSE] \in Entries
        /\ \A b \in BOOLEAN, o \in {"waiting", "lost"} :
              [by |-> s, forwarded |-> b, out |-> o] \in Callers
    BY DEF Entries, Callers, Stages, Outcomes
  <2>2. CASE CallOwn(s, c)
    BY <2>1, <2>2 DEF CallOwn, Entries, Callers
  <2>3. CASE CallForwarded(s, c)
    <3>1. caller' \in [Calls -> Callers]
      BY <2>1, <2>3 DEF CallForwarded, Callers
    <3>2. CASE port = NoServer
      BY <2>3, <3>1, <3>2 DEF CallForwarded, Entries
    <3>3. CASE port # NoServer
      BY <2>1, <2>3, <3>1, <3>3 DEF CallForwarded, Entries
    <3> QED BY <3>2, <3>3
  <2> QED BY <2>2, <2>3
<1>2. ModesTyped' /\ OneQueueServed'
  BY <1>1, ServersKept DEF CallOwn, CallForwarded
<1>3. caller[c].out = "none" /\ entry[c].stage = "none" /\ c \notin studio.got
  BY DEF CallOwn, CallForwarded, Asleep, CallInv, UnmadeIsNowhere, GotWasDelivered
<1>4. caller'[c].out \in {"waiting", "lost"} /\ studio' = studio
  BY DEF CallOwn, CallForwarded
<1>5. \A d \in Calls : d # c => caller'[d] = caller[d] /\ entry'[d] = entry[d]
  BY DEF CallOwn, CallForwarded
<1>6. CallInv
  OBVIOUS
<1>7. GotWasDelivered' /\ UnmadeIsNowhere'
  BY ONLY <1>3, <1>4, <1>5, <1>6 DEF CallInv, GotWasDelivered, UnmadeIsNowhere
<1>8. TimedOutIsSettled'
  BY ONLY <1>4, <1>5, <1>6, ModesAssumption DEF CallInv, TimedOutIsSettled, ModesAssumption
<1> QED BY <1>2, <1>7, <1>8 DEF CallInv

\* The plugin takes a call, when the leases in L have lapsed.
LEMMA DispatchKeeps ==
  ASSUME ModesInv, NEW c \in Calls, NEW L \in SUBSET Lapsable, Dispatch(c, L)
  PROVE  ModesInv'
<1>0. /\ CallInv /\ ModesTyped /\ OneQueueServed /\ entry \in [Calls -> Entries]
      /\ L \subseteq Calls /\ \A x \in L : entry[x].stage = "delivered"
  BY DEF ModesInv, ModesTyped, ModesTypeOK, Entries, Lapsable
<1>1. ASSUME NEW x \in Calls
      PROVE  /\ entry'[x] \in Entries
             /\ x = c => entry'[x].stage = "delivered"
             /\ x # c /\ x \in L => entry'[x].stage = "queued"
             /\ x # c /\ x \notin L => entry'[x].stage = entry[x].stage
             /\ entry'[x].lapsed = (entry[x].lapsed \/ x \in L)
  <2>1. entry[x] \in Entries
    BY <1>0
  <2>2. entry'[x] = [entry[x] EXCEPT
          !.stage = IF x = c THEN "delivered" ELSE IF x \in L THEN "queued" ELSE entry[x].stage,
          !.lapsed = entry[x].lapsed \/ x \in L]
    BY DEF Dispatch
  <2>3. /\ entry'[x].stage
             = (IF x = c THEN "delivered" ELSE IF x \in L THEN "queued" ELSE entry[x].stage)
        /\ entry'[x].lapsed = (entry[x].lapsed \/ x \in L)
        /\ entry'[x] \in Entries
    BY <2>1, <2>2 DEF Entries, Stages
  <2> QED BY <2>3
<1>2. entry' \in [Calls -> Entries]
  BY <1>1 DEF Dispatch
<1>3. ModesTyped' /\ OneQueueServed'
  BY <1>0, <1>2, ServersKept DEF Dispatch, ModesTyped, ModesTypeOK, Callers
<1>4. studio'.got = studio.got \cup {c} /\ caller' = caller
      /\ (entry[c].stage = "queued" \/ c \in L)
  BY <1>0 DEF Dispatch, ModesTyped, ModesTypeOK
<1>5. GotWasDelivered'
  BY <1>0, <1>1, <1>4 DEF CallInv, GotWasDelivered
<1>6. UnmadeIsNowhere'
  BY <1>0, <1>1, <1>4 DEF CallInv, UnmadeIsNowhere
<1>7. TimedOutIsSettled'
  BY <1>0, <1>1, <1>4, ModesAssumption DEF CallInv, TimedOutIsSettled
<1> QED BY <1>3, <1>5, <1>6, <1>7 DEF ModesInv, CallInv

\* The plugin acknowledges a call, Studio runs it, its answer settles it.
LEMMA StudioKeeps ==
  ASSUME ModesInv, NEW c \in Calls, Acknowledged(c) \/ RunInStudio(c) \/ Answer(c)
  PROVE  ModesInv'
<1> USE ModesAssumption
    DEF ModesAssumption, ModesInv, ModesTyped, ModesTypeOK, CallInv, GotWasDelivered,
        UnmadeIsNowhere, TimedOutIsSettled
<1>0. c \in Calls /\ Mutating \subseteq Calls /\ GotWasDelivered /\ UnmadeIsNowhere /\ TimedOutIsSettled
  OBVIOUS
<1>1. CASE Acknowledged(c)
  <2>1. entry' \in [Calls -> Entries]
    <3>1. entry \in [Calls -> Entries] /\ entry' = [entry EXCEPT ![c].stage = "started"]
      BY <1>1 DEF Acknowledged, Entries
    <3> QED BY ONLY <3>1, c \in Calls DEF Entries, Stages
  <2>2. ModesTyped' /\ OneQueueServed'
    BY <1>1, <2>1, ServersKept DEF Acknowledged, Callers
  <2>3. entry[c].stage = "delivered" /\ entry'[c].stage = "started"
    BY <1>1 DEF Acknowledged
  <2>4. \A d \in Calls : d # c => entry'[d] = entry[d]
    BY <1>1 DEF Acknowledged
  <2>5. studio' = studio /\ caller' = caller
    BY <1>1 DEF Acknowledged
  <2>6. GotWasDelivered'
    BY ONLY <1>0, <2>3, <2>4, <2>5 DEF GotWasDelivered
  <2>7. UnmadeIsNowhere' /\ TimedOutIsSettled'
    BY ONLY <1>0, <2>3, <2>4, <2>5 DEF UnmadeIsNowhere, TimedOutIsSettled
  <2> QED BY ONLY <2>2, <2>6, <2>7 DEF ModesInv, CallInv
<1>2. CASE RunInStudio(c)
  <2>1. ModesTyped' /\ OneQueueServed'
    BY <1>2, ServersKept DEF RunInStudio, Callers, Entries
  <2>2. studio'.got = studio.got /\ UNCHANGED <<entry, caller>>
    BY <1>2 DEF RunInStudio
  <2> QED BY <2>1, <2>2
<1>3. CASE Answer(c)
  <2>1. entry' \in [Calls -> Entries] /\ caller' \in [Calls -> Callers]
    BY <1>3, SettledTyped, ToldTyped DEF Answer, Entries, Callers, Outcomes
  <2>2. ModesTyped' /\ OneQueueServed'
    BY <1>3, <2>1, ServersKept DEF Answer
  <2>3. \A d \in Calls : /\ entry'[d].stage \in {entry[d].stage, "settled"}
                         /\ entry'[d].lapsed = entry[d].lapsed
    BY <1>3, SettledTyped DEF Answer, Entries
  <2>4. \A d \in Calls : /\ caller'[d].out \in {caller[d].out, "ok"}
                         /\ caller'[d].out = "none" <=> caller[d].out = "none"
    BY <1>3, ToldTyped DEF Answer, Callers, Outcomes
  <2>5. entry[c].stage \in {"delivered", "started"} /\ studio' = studio
    BY <1>3 DEF Answer
  <2>6. \A d \in Calls : d # c => entry'[d] = entry[d]
    BY <1>3 DEF Answer, Settled
  <2>8. GotWasDelivered'
    BY ONLY <1>0, <2>3, <2>5 DEF GotWasDelivered
  <2>9. UnmadeIsNowhere'
    BY ONLY <1>0, <2>4, <2>5, <2>6 DEF UnmadeIsNowhere
  <2>10. TimedOutIsSettled'
    BY ONLY <1>0, <2>3, <2>4, <2>5 DEF TimedOutIsSettled
  <2> QED BY ONLY <2>2, <2>8, <2>9, <2>10 DEF ModesInv, CallInv
<1> QED BY <1>1, <1>2, <1>3

\* The two timers: a mutation that may have reached Studio is a plain timeout only
\* after a lapse, and what timed out in the queue leaves it.
LEMMA TimersKeep ==
  ASSUME ModesInv, NEW c \in Calls, PrimaryTimer(c) \/ ProxyTimer(c)
  PROVE  ModesInv'
<1> USE ModesAssumption
    DEF ModesAssumption, ModesInv, ModesTyped, ModesTypeOK, CallInv, GotWasDelivered,
        UnmadeIsNowhere, TimedOutIsSettled
<1>0. c \in Calls /\ Mutating \subseteq Calls /\ GotWasDelivered /\ UnmadeIsNowhere /\ TimedOutIsSettled
  OBVIOUS
<1>1. CASE PrimaryTimer(c)
  <2>1. Expiry(c) \in Outcomes
    BY DEF Expiry, Outcomes
  <2>2. entry' \in [Calls -> Entries] /\ caller' \in [Calls -> Callers]
    BY <1>1, <2>1, SettledTyped, ToldTyped DEF PrimaryTimer, Entries, Callers
  <2>3. ModesTyped' /\ OneQueueServed'
    BY <1>1, <2>2, ServersKept DEF PrimaryTimer
  <2>4. entry'[c].stage = "settled" /\ \A d \in Calls : d # c => entry'[d] = entry[d]
    BY <1>1 DEF PrimaryTimer, Settled
  <2>5. \A d \in Calls : /\ caller'[d].out \in {caller[d].out, Expiry(c)}
                         /\ d # c => caller'[d] = caller[d]
                         /\ caller'[d].out = "none" <=> caller[d].out = "none"
    BY <1>1, <2>1, ToldTyped DEF PrimaryTimer, Callers
  <2>6. entry[c].stage # "none" /\ studio' = studio /\ entry'[c].lapsed = entry[c].lapsed
    BY <1>1, SettledTyped DEF PrimaryTimer, Timed, Active, Entries
  <2>7. c \in Mutating /\ Expiry(c) = "timeout" /\ c \in studio.got => entry[c].lapsed
    BY <1>1 DEF Expiry, PrimaryTimer, Timed, Active
  <2>8. GotWasDelivered'
    BY ONLY <1>0, <2>4, <2>6 DEF GotWasDelivered
  <2>9. UnmadeIsNowhere'
    BY ONLY <1>0, <2>4, <2>5, <2>6 DEF UnmadeIsNowhere
  <2>10. TimedOutIsSettled'
    BY ONLY <1>0, <2>4, <2>5, <2>6, <2>7 DEF TimedOutIsSettled
  <2> QED BY ONLY <2>3, <2>8, <2>9, <2>10 DEF ModesInv, CallInv
<1>2. CASE ProxyTimer(c)
  <2>1. Aborted(c) \in Outcomes
    BY DEF Aborted, Outcomes
  <2>2. caller' \in [Calls -> Callers]
    BY <1>2, <2>1, ToldTyped DEF ProxyTimer, Callers
  <2>3. ModesTyped' /\ OneQueueServed'
    BY <1>2, <2>2, ServersKept DEF ProxyTimer, Entries
  <2>4. \A d \in Calls : /\ caller'[d].out \in {caller[d].out, Aborted(c)}
                         /\ d # c => caller'[d] = caller[d]
                         /\ caller'[d].out = "none" <=> caller[d].out = "none"
    BY <1>2, <2>1, ToldTyped DEF ProxyTimer, Callers
  <2>5. c \in Mutating => Aborted(c) = "unknown"
    BY DEF Aborted
  <2>6. UNCHANGED <<entry, studio>>
    BY <1>2 DEF ProxyTimer
  <2>8. GotWasDelivered' /\ UnmadeIsNowhere'
    BY ONLY <1>0, <2>4, <2>6 DEF GotWasDelivered, UnmadeIsNowhere
  <2>9. TimedOutIsSettled'
    BY ONLY <1>0, <2>4, <2>5, <2>6 DEF TimedOutIsSettled
  <2> QED BY ONLY <2>3, <2>8, <2>9 DEF ModesInv, CallInv
<1> QED BY <1>1, <1>2

\* A shutdown fails what its server still has in its queue.
LEMMA ShutdownKeeps ==
  ASSUME ModesInv, NEW s \in Servers, Shutdown(s)
  PROVE  ModesInv'
<1> USE ModesAssumption
    DEF ModesAssumption, ModesInv, ModesTyped, ModesTypeOK
<1> DEFINE dropped == IF s \in forwards THEN {} ELSE PendingAt(s)
<1>1. entry' = Settled(dropped) /\ caller' = Told(dropped, "failed") /\ studio' = studio
  BY DEF Shutdown
<1> HIDE DEF dropped
<1>2. /\ entry' \in [Calls -> Entries] /\ caller' \in [Calls -> Callers]
      /\ \A d \in Calls : /\ entry'[d].stage \in {entry[d].stage, "settled"}
                          /\ entry'[d].lapsed = entry[d].lapsed
      /\ \A d \in Calls : /\ caller'[d].out \in {caller[d].out, "failed"}
                          /\ caller'[d].out = "none" <=> caller[d].out = "none"
  BY <1>1, SettledTyped, ToldTyped DEF Entries, Callers, Outcomes
<1>3. ModesTyped'
  <2>1. mode' \in [Servers -> Modes] /\ ToolsFollowBridge'
    BY DEF Shutdown, Modes, ToolsFollowBridge
  <2> QED BY <1>2, <2>1 DEF Shutdown, Entries, Callers
<1>4. OneQueueServed'
  BY DEF Shutdown, OneQueueServed, Modes
<1>5. \A d \in Calls : entry[d].stage = "none" => entry'[d] = entry[d]
  BY <1>1 DEF Settled, dropped, PendingAt, Active
<1>6. CallInv'
  BY <1>1, <1>2, <1>5
  DEF CallInv, GotWasDelivered, UnmadeIsNowhere, TimedOutIsSettled
<1> QED BY <1>3, <1>4, <1>6
-----------------------------------------------------------------------------
LEMMA StepModes == ModesInv /\ [ModesNext]_modeVars => ModesInv'
<1> SUFFICES ASSUME ModesInv, [ModesNext]_modeVars PROVE ModesInv'
  OBVIOUS
<1>1. ASSUME NEW s \in Servers, StartPrimary(s) \/ StartProxy(s) \/ Promote(s) PROVE ModesInv'
  BY <1>1, PortKeeps
<1>2. ASSUME NEW s \in Servers, StoreEpisode(s) PROVE ModesInv'
  <2>1. episodes' \in [stored : SUBSET Servers, pushed : SUBSET Servers]
    BY <1>2 DEF StoreEpisode, ModesInv, ModesTyped, ModesTypeOK
  <2>2. ModesTyped' /\ OneQueueServed'
    BY <1>2, <2>1, ServersKept
    DEF StoreEpisode, ModesInv, ModesTyped, ModesTypeOK, Entries, Callers
  <2>3. CallInv'
    BY <1>2, CallsKept DEF StoreEpisode, ModesInv
  <2> QED BY <2>2, <2>3 DEF ModesInv
<1>3. ASSUME NEW s \in Servers, Shutdown(s) PROVE ModesInv'
  BY <1>3, ShutdownKeeps
<1>4. ASSUME NEW s \in Servers, StopListening(s) PROVE ModesInv'
  <2>1. ModesTyped' /\ OneQueueServed'
    BY <1>4, ModesAssumption
    DEF StopListening, ModesInv, ModesTyped, ModesTypeOK, ToolsFollowBridge, OneQueueServed,
        Modes, ModesAssumption
  <2>2. CallInv'
    BY <1>4, CallsKept DEF StopListening, ModesInv
  <2> QED BY <2>1, <2>2 DEF ModesInv
<1>5. ASSUME NEW s \in Servers, Exits(s) \/ Killed(s) PROVE ModesInv'
  <2>1. Gone(s) /\ mode[s] # "off"
    BY <1>5 DEF Exits, Killed, Running
  <2> QED BY <2>1, GoneKeeps
<1>6. ASSUME NEW s \in Servers, NEW c \in Calls, CallOwn(s, c) \/ CallForwarded(s, c)
      PROVE ModesInv'
  BY <1>6, CallKeeps
<1>7. ASSUME NEW c \in Calls, Acknowledged(c) \/ RunInStudio(c) \/ Answer(c) PROVE ModesInv'
  BY <1>7, StudioKeeps
<1>11. ASSUME NEW c \in Calls, NEW L \in SUBSET Lapsable, Dispatch(c, L) PROVE ModesInv'
  BY <1>11, DispatchKeeps
<1>8. ASSUME NEW c \in Calls, PrimaryTimer(c) \/ ProxyTimer(c) PROVE ModesInv'
  BY <1>8, TimersKeep
<1>9. ASSUME PluginConnects PROVE ModesInv'
  <2>1. plugin' \in Servers \cup {NoServer}
    BY <1>9 DEF PluginConnects, ModesInv, ModesTyped, ModesTypeOK
  <2>2. ModesTyped' /\ OneQueueServed'
    BY <1>9, <2>1, ServersKept
    DEF PluginConnects, ModesInv, ModesTyped, ModesTypeOK, Entries, Callers
  <2>3. CallInv'
    BY <1>9, CallsKept DEF PluginConnects, ModesInv
  <2> QED BY <2>2, <2>3 DEF ModesInv
<1>10. ASSUME UNCHANGED modeVars PROVE ModesInv'
  BY <1>10
  DEF modeVars, ModesInv, ModesTyped, ModesTypeOK, ToolsFollowBridge, OneQueueServed,
      CallInv, GotWasDelivered, UnmadeIsNowhere, TimedOutIsSettled
<1> QED
  BY <1>1, <1>2, <1>3, <1>4, <1>5, <1>6, <1>7, <1>8, <1>9, <1>10, <1>11 DEF ModesNext

LEMMA ModesInvariance == ModesSpec => []ModesInv
<1> QED BY InitModes, StepModes, PTL DEF ModesSpec

\* Servers, port, queues and calls keep their types; tools are replaced twice at
\* most, by the fallback to a proxy and by its promotion.
THEOREM ModesTypes == ModesSpec => []ModesTypeOK
<1>1. ModesInv => ModesTypeOK
  BY DEF ModesInv, ModesTyped
<1> QED BY <1>1, ModesInvariance, PTL

\* At most one server serves a queue of its own, and it holds the base port.
THEOREM QueueIsServed == ModesSpec => []OneQueueServed
<1>1. ModesInv => OneQueueServed
  BY DEF ModesInv
<1> QED BY <1>1, ModesInvariance, PTL

\* A mutation that Studio has is reported as a plain timeout only when its lease
\* lapsed and it was queued again, whichever timer fired, and whatever died or was
\* promoted.
THEOREM TimeoutsAreTrue == ModesSpec => []TimedOutRanAfterLapse
<1>1. ModesInv => TimedOutRanAfterLapse
  BY ModesAssumption DEF ModesInv, CallInv, TimedOutIsSettled, TimedOutRanAfterLapse
<1> QED BY <1>1, ModesInvariance, PTL

------------------------------------------------------------------------------
(*****************************************************************************)
(* The manager of `rojo serve` processes.                                    *)
(*****************************************************************************)


\* What the manager relies on: nobody else kills its children by a signal, and
\* SIGKILL is followed by the exit event within 500 ms.
Orderly == ~SignalDeaths /\ ~LateExits

Busy(p) == starting[p].phase \in {"waiting", "settling", "terminating", "killing"}

\* A start has no child before its spawn, and afterwards the one that is tracked.
StartsAreTracked ==
  \A p \in Projects :
    /\ starting[p] # NoStart => starting[p].phase # "none"
    /\ ~Busy(p) => starting[p].child = NoChild
    /\ starting[p].phase \in {"checking", "checked"} => tracked[p] = NoChild
    /\ Busy(p) => starting[p].child \in Children /\ tracked[p] = starting[p].child

\* A child is tracked for its own project, and so for one.
TrackedIsOwn ==
  \A p \in Projects : tracked[p] # NoChild =>
    child[tracked[p]].project = p /\ child[tracked[p]].status # "unborn"

\* What a child has done by each point of its life.
ChildrenAge ==
  \A c \in Children :
    /\ child[c].life = "unborn" => child[c] = Unborn /\ c \notin bound \cup exitCode
    /\ child[c].status = "unborn" => child[c] = Unborn
    /\ child[c].status \in {"starting", "running"} => child[c].life \in {"alive", "exiting", "killed"}
    /\ Alive(c) => child[c].status \in {"starting", "running"} /\ child[c].project \in Projects
    /\ c \in exitCode => child[c].life = "gone"

\* A stop that has found its child acts on the running child of its project.
StopsAreServed ==
  \A k \in stops :
    /\ k.phase = "awaiting" => k.child = NoChild
    /\ k.phase # "awaiting" =>
         /\ k.child \in Children /\ tracked[k.project] = k.child
         /\ starting[k.project] = NoStart /\ child[k.child].status = "running"

\* Between starts the child that is tracked runs, until Node knows its exit code;
\* and it was killed only if a stop is waiting for it.
RestIsRunning ==
  \A p \in Projects :
    starting[p] = NoStart /\ tracked[p] # NoChild /\ tracked[p] \notin exitCode =>
      /\ child[tracked[p]].status = "running"
      /\ child[tracked[p]].life = "killed" => \E k \in stops : k.child = tracked[p]

\* Nobody kills the child of a start before the start gave up on it.
NoneKilledYet ==
  \A p \in Projects :
    starting[p].phase \in {"waiting", "settling"} => child[starting[p].child].life # "killed"

\* Whoever runs when stopAll looks is in the hands of one of its stops, or of one
\* that waits for its start; an unborn child was unborn then.
SweepHasStops ==
  /\ sweep.phase # "none" => \A c \in Children :
       /\ child[c].life = "unborn" => c \in sweep.missed
       /\ Alive(c) /\ c \notin sweep.missed => \E k \in stops :
            /\ k.by = "stopAll" /\ k.project = child[c].project
            /\ \/ k.phase # "awaiting" /\ k.child = c
               \/ k.phase = "awaiting" /\ starting[k.project].child = c
  /\ sweep.phase = "over" => \A k \in stops : k.by # "stopAll"

RojoInv ==
  /\ RojoTypeOK /\ StartsAreTracked /\ TrackedIsOwn /\ ChildrenAge /\ StopsAreServed
  /\ RestIsRunning /\ NoneKilledYet /\ NoOrphan /\ SweepHasStops
-----------------------------------------------------------------------------
\* The records of children and of calls, as the steps change them.
ServeRecords == [project : Projects \cup {NoChild}, port : Ports \cup {NoChild},
            status : Statuses, life : Lives]
Marked(r, s) == [r EXCEPT !.status = s]
Ended(r, s) == [r EXCEPT !.life = "gone", !.status = s]
Turned(k, c) == [k EXCEPT !.phase = "terminating", !.child = c]

LEMMA MarkedRecord ==
  ASSUME NEW r \in ServeRecords, NEW s \in Statuses
  PROVE  /\ Marked(r, s) \in ServeRecords /\ Marked(r, s).status = s
         /\ Marked(r, s).life = r.life /\ Marked(r, s).project = r.project
BY DEF Marked, ServeRecords

LEMMA EndedRecord ==
  ASSUME NEW r \in ServeRecords, NEW s \in Statuses
  PROVE  /\ Ended(r, s) \in ServeRecords /\ Ended(r, s).status = s
         /\ Ended(r, s).life = "gone" /\ Ended(r, s).project = r.project
BY DEF Ended, ServeRecords, Lives

LEMMA EndedChild ==
  ASSUME NEW f \in [Children -> ServeRecords], NEW c \in Children, NEW s \in Statuses
  PROVE  [f EXCEPT ![c].life = "gone", ![c].status = s] = [f EXCEPT ![c] = Ended(f[c], s)]
BY DEF Ended, ServeRecords

LEMMA TurnedCall ==
  ASSUME NEW k \in Stopping, NEW c \in Children
  PROVE  /\ Turned(k, c) \in Stopping /\ Turned(k, c).phase = "terminating"
         /\ Turned(k, c).child = c /\ Turned(k, c).by = k.by
         /\ Turned(k, c).project = k.project
BY DEF Turned, Stopping, StopPhases

\* A start forgets a child that ended, and looks at its port.
LEMMA StartKeeps ==
  ASSUME RojoInv, Orderly, NEW p \in Projects, NEW at \in Ports, Start(p, at)
  PROVE  RojoInv'
<1> USE RojoAssumption
    DEF RojoInv, RojoTypeOK, StartsAreTracked, TrackedIsOwn, ChildrenAge, StopsAreServed, RestIsRunning,
        NoneKilledYet, NoOrphan, SweepHasStops, Busy, Alive, RojoAssumption, Orderly
<1>1. RojoTypeOK'
  BY DEF Start, MayStart, Starts, StartPhases, NoStart
<1>2. StartsAreTracked'
  BY DEF Start, MayStart, Starts, StartPhases, NoStart
<1>3. TrackedIsOwn'
  BY DEF Start, MayStart, Starts, StartPhases, NoStart
<1>4. ChildrenAge'
  BY DEF Start, MayStart, Starts, StartPhases, NoStart
<1>5. StopsAreServed'
  BY DEF Start, MayStart, Starts, StartPhases, NoStart
<1>6. RestIsRunning'
  BY DEF Start, MayStart, Starts, StartPhases, NoStart
<1>7. NoneKilledYet'
  BY DEF Start, MayStart, Starts, StartPhases, NoStart
<1>8. NoOrphan'
  BY DEF Start, MayStart, Starts, StartPhases, NoStart
<1>10. SweepHasStops'
  BY DEF Start, MayStart, Starts, StartPhases, NoStart
<1> QED BY ONLY <1>1, <1>2, <1>3, <1>4, <1>5, <1>6, <1>7, <1>8, <1>10 DEF RojoInv

\* The port is free.
LEMMA PortCheckedKeeps ==
  ASSUME RojoInv, Orderly, NEW p \in Projects, PortChecked(p)
  PROVE  RojoInv'
<1> USE RojoAssumption
    DEF RojoInv, RojoTypeOK, StartsAreTracked, TrackedIsOwn, ChildrenAge, StopsAreServed, RestIsRunning,
        NoneKilledYet, NoOrphan, SweepHasStops, Busy, Alive, RojoAssumption, Orderly
<1>1. RojoTypeOK'
  BY DEF PortChecked, Starts, StartPhases, NoStart
<1>2. StartsAreTracked'
  BY DEF PortChecked, Starts, StartPhases, NoStart
<1>3. TrackedIsOwn'
  BY DEF PortChecked, Starts, StartPhases, NoStart
<1>4. ChildrenAge'
  BY DEF PortChecked, Starts, StartPhases, NoStart
<1>5. StopsAreServed'
  BY DEF PortChecked, Starts, StartPhases, NoStart
<1>6. RestIsRunning'
  BY DEF PortChecked, Starts, StartPhases, NoStart
<1>7. NoneKilledYet'
  BY DEF PortChecked, Starts, StartPhases, NoStart
<1>8. NoOrphan'
  BY DEF PortChecked, Starts, StartPhases, NoStart
<1>10. SweepHasStops'
  BY DEF PortChecked, Starts, StartPhases, NoStart
<1> QED BY ONLY <1>1, <1>2, <1>3, <1>4, <1>5, <1>6, <1>7, <1>8, <1>10 DEF RojoInv

\* Somebody answers on the port.
LEMMA AnsweredKeeps ==
  ASSUME RojoInv, Orderly, NEW p \in Projects, Answered(p)
  PROVE  RojoInv'
<1> USE RojoAssumption
    DEF RojoInv, RojoTypeOK, StartsAreTracked, TrackedIsOwn, ChildrenAge, StopsAreServed, RestIsRunning,
        NoneKilledYet, NoOrphan, SweepHasStops, Busy, Alive, RojoAssumption, Orderly
<1>1. RojoTypeOK'
  BY DEF Answered, Starts, StartPhases, NoStart
<1>2. StartsAreTracked'
  BY DEF Answered, Starts, StartPhases, NoStart
<1>3. TrackedIsOwn'
  BY DEF Answered, Starts, StartPhases, NoStart
<1>4. ChildrenAge'
  BY DEF Answered, Starts, StartPhases, NoStart
<1>5. StopsAreServed'
  BY DEF Answered, Starts, StartPhases, NoStart
<1>6. RestIsRunning'
  BY DEF Answered, Starts, StartPhases, NoStart
<1>7. NoneKilledYet'
  BY DEF Answered, Starts, StartPhases, NoStart
<1>8. NoOrphan'
  BY DEF Answered, Starts, StartPhases, NoStart
<1>10. SweepHasStops'
  BY DEF Answered, Starts, StartPhases, NoStart
<1> QED BY ONLY <1>1, <1>2, <1>3, <1>4, <1>5, <1>6, <1>7, <1>8, <1>10 DEF RojoInv

\* A start ends before its spawn; the stops that waited return.
LEMMA RefusedKeeps ==
  ASSUME RojoInv, Orderly, NEW p \in Projects, StartRefused(p)
  PROVE  RojoInv'
<1> USE RojoAssumption
    DEF RojoInv, RojoTypeOK, StartsAreTracked, TrackedIsOwn, ChildrenAge, StopsAreServed, RestIsRunning,
        NoneKilledYet, NoOrphan, SweepHasStops, Busy, Alive, RojoAssumption, Orderly
<1>1. RojoTypeOK'
  BY DEF StartRefused, Awaiting, Starts, StartPhases, NoStart
<1>2. StartsAreTracked'
  BY DEF StartRefused, Awaiting, Starts, StartPhases, NoStart
<1>3. TrackedIsOwn'
  BY DEF StartRefused, Awaiting, Starts, StartPhases, NoStart
<1>4. ChildrenAge'
  BY DEF StartRefused, Awaiting, Starts, StartPhases, NoStart
<1>5. StopsAreServed'
  BY DEF StartRefused, Awaiting, Starts, StartPhases, NoStart
<1>6. RestIsRunning'
  BY DEF StartRefused, Awaiting, Starts, StartPhases, NoStart
<1>7. NoneKilledYet'
  BY DEF StartRefused, Awaiting, Starts, StartPhases, NoStart
<1>8. NoOrphan'
  BY DEF StartRefused, Awaiting, Starts, StartPhases, NoStart
<1>10. SweepHasStops'
  BY DEF StartRefused, Awaiting, Starts, StartPhases, NoStart
<1> QED BY ONLY <1>1, <1>2, <1>3, <1>4, <1>5, <1>6, <1>7, <1>8, <1>10 DEF RojoInv

\* The child is born and tracked.
LEMMA SpawnKeeps ==
  ASSUME RojoInv, Orderly, NEW p \in Projects, NEW c \in Children, Spawn(p, c)
  PROVE  RojoInv'
<1> USE RojoAssumption
    DEF RojoInv, RojoTypeOK, StartsAreTracked, TrackedIsOwn, ChildrenAge, StopsAreServed, RestIsRunning,
        NoneKilledYet, NoOrphan, SweepHasStops, Busy, Alive, RojoAssumption, Orderly
<1>1. RojoTypeOK'
  BY DEF Spawn, Unborn, Statuses, Lives, Starts, StartPhases, NoStart
<1>2. StartsAreTracked'
  BY DEF Spawn, Unborn, Statuses, Lives, Starts, StartPhases, NoStart
<1>3. TrackedIsOwn'
  BY DEF Spawn, Unborn, Statuses, Lives, Starts, StartPhases, NoStart
<1>4. ChildrenAge'
  BY DEF Spawn, Unborn, Statuses, Lives, Starts, StartPhases, NoStart
<1>5. StopsAreServed'
  BY DEF Spawn, Unborn, Statuses, Lives, Starts, StartPhases, NoStart
<1>6. RestIsRunning'
  BY DEF Spawn, Unborn, Statuses, Lives, Starts, StartPhases, NoStart
<1>7. NoneKilledYet'
  BY DEF Spawn, Unborn, Statuses, Lives, Starts, StartPhases, NoStart
<1>8. NoOrphan'
  BY DEF Spawn, Unborn, Statuses, Lives, Starts, StartPhases, NoStart
<1>10. SweepHasStops'
  BY DEF Spawn, Unborn, Statuses, Lives, Starts, StartPhases, NoStart
<1> QED BY ONLY <1>1, <1>2, <1>3, <1>4, <1>5, <1>6, <1>7, <1>8, <1>10 DEF RojoInv

\* The child outlived the handshake: the stops that waited for the start turn to it.
LEMMA ReadyKeeps ==
  ASSUME RojoInv, Orderly, NEW p \in Projects, StartReady(p)
  PROVE  RojoInv'
<1> USE RojoAssumption
    DEF RojoInv, RojoTypeOK, StartsAreTracked, TrackedIsOwn, ChildrenAge, StopsAreServed, RestIsRunning,
        NoneKilledYet, NoOrphan, SweepHasStops, Busy, Alive, RojoAssumption, Orderly
<1> DEFINE c == starting[p].child
<1>a. /\ starting[p].phase = "settling" /\ c \in Children /\ tracked[p] = c
      /\ c \notin exitCode /\ child[c].status = "starting"
      /\ child[c].life \in {"alive", "exiting"} /\ child[c].project = p
  <2>1. starting[p].phase = "settling" /\ c \in Children /\ tracked[p] = c
    BY DEF StartReady
  <2>2. child[c].status = "starting" /\ c \notin exitCode
    BY DEF StartReady, Outlived
  <2>3. child[c].life \in {"alive", "exiting"}
    BY <2>1, <2>2
  <2>4. child[c].project = p
    BY <2>1
  <2> QED BY <2>1, <2>2, <2>3, <2>4
<1>b. /\ child' = [child EXCEPT ![c].status = "running"]
      /\ starting' = [starting EXCEPT ![p] = NoStart]
      /\ UNCHANGED <<tracked, exitCode, bound, sweep>>
  BY DEF StartReady
<1>c. stops' = (stops \ Awaiting(p)) \cup {Turned(k, c) : k \in Awaiting(p)}
  BY DEF StartReady, Turned
<1> HIDE DEF c
<1>d. ASSUME NEW k \in Awaiting(p)
      PROVE  /\ Turned(k, c) \in Stopping /\ Turned(k, c).phase = "terminating"
             /\ Turned(k, c).child = c /\ Turned(k, c).by = k.by /\ Turned(k, c).project = p
  <2>1. k \in Stopping /\ k.project = p /\ c \in Children
    BY <1>a DEF Awaiting
  <2> QED BY <2>1, TurnedCall
<1>e. ASSUME NEW k \in stops'
      PROVE  \/ k \in stops /\ (k.phase = "awaiting" => k.project # p)
             \/ k \in Stopping /\ k.phase = "terminating" /\ k.child = c /\ k.project = p
  <2>1. CASE k \in stops \ Awaiting(p)
    BY <2>1 DEF Awaiting
  <2>2. CASE \E i \in Awaiting(p) : k = Turned(i, c)
    BY <1>d, <2>2
  <2> QED BY <1>c, <2>1, <2>2
<1>f. ASSUME NEW k \in stops
      PROVE  \/ k \in stops' /\ (k.phase = "awaiting" => k.project # p)
             \/ /\ k.phase = "awaiting" /\ k.project = p
                /\ \E j \in stops' : j.phase = "terminating" /\ j.child = c /\ j.by = k.by /\ j.project = p
  <2>1. CASE k \notin Awaiting(p)
    BY <1>c, <2>1 DEF Awaiting
  <2>2. CASE k \in Awaiting(p)
    BY <1>c, <1>d, <2>2 DEF Awaiting
  <2> QED BY <2>1, <2>2
<1>1. RojoTypeOK'
  BY <1>a, <1>b, <1>e, <1>f DEF NoStart, Starts, StartPhases, Statuses
<1>2. StartsAreTracked'
  BY <1>a, <1>b, <1>e, <1>f DEF NoStart, Starts, StartPhases, Statuses
<1>3. TrackedIsOwn'
  BY <1>a, <1>b, <1>e, <1>f DEF NoStart, Starts, StartPhases, Statuses
<1>4. ChildrenAge'
  BY <1>a, <1>b, <1>e, <1>f DEF NoStart, Starts, StartPhases, Statuses
<1>5. StopsAreServed'
  BY <1>a, <1>b, <1>e, <1>f DEF NoStart, Starts, StartPhases, Statuses
<1>6. RestIsRunning'
  BY <1>a, <1>b, <1>e, <1>f DEF NoStart, Starts, StartPhases, Statuses
<1>7. NoneKilledYet'
  BY <1>a, <1>b, <1>e, <1>f DEF NoStart, Starts, StartPhases, Statuses
<1>8. NoOrphan'
  BY <1>a, <1>b, <1>e, <1>f DEF NoStart, Starts, StartPhases, Statuses
<1>10. SweepHasStops'
  <2>1. ASSUME NEW d \in Children, NEW k \in stops, k.by = "stopAll", k.project = child[d].project,
               \/ k.phase # "awaiting" /\ k.child = d
               \/ k.phase = "awaiting" /\ starting[k.project].child = d
        PROVE  \E j \in stops' :
                 /\ j.by = "stopAll" /\ j.project = child[d].project
                 /\ \/ j.phase # "awaiting" /\ j.child = d
                    \/ j.phase = "awaiting" /\ starting'[j.project].child = d
    <3>1. k.project \in Projects
      BY DEF Stopping
    <3>2. CASE k \in stops' /\ (k.phase = "awaiting" => k.project # p)
      BY <1>b, <2>1, <3>1, <3>2
    <3>3. CASE k.phase = "awaiting" /\ k.project = p
      BY <1>a, <1>f, <2>1, <3>3
    <3> QED BY <1>f, <3>2, <3>3
  <2>2. \A d \in Children : /\ child'[d].life = child[d].life
                           /\ child'[d].project = child[d].project
    BY <1>a, <1>b
  <2>3. sweep.phase = "over" => \A k \in stops' : k.by # "stopAll"
    <3>1. ASSUME sweep.phase = "over" PROVE \A k \in Awaiting(p) : Turned(k, c).by # "stopAll"
      BY <1>d, <3>1 DEF Awaiting
    <3> QED BY <1>c, <3>1
  <2> QED BY <1>b, <2>1, <2>2, <2>3
<1> QED BY ONLY <1>1, <1>2, <1>3, <1>4, <1>5, <1>6, <1>7, <1>8, <1>10 DEF RojoInv

\* The loop ends without readiness.
LEMMA FailsKeeps ==
  ASSUME RojoInv, Orderly, NEW p \in Projects, StartFails(p)
  PROVE  RojoInv'
<1> USE RojoAssumption
    DEF RojoInv, RojoTypeOK, StartsAreTracked, TrackedIsOwn, ChildrenAge, StopsAreServed, RestIsRunning,
        NoneKilledYet, NoOrphan, SweepHasStops, Busy, Alive, RojoAssumption, Orderly
<1>a. starting[p].child \in Children /\ tracked[p] = starting[p].child
  BY DEF StartFails
<1>1. RojoTypeOK'
  <2>a. /\ starting \in [Projects -> Starts] /\ tracked \in [Projects -> Children \cup {NoChild}]
        /\ NoStart \in Starts
    BY DEF Starts, StartPhases, NoStart
  <2>b. [starting[p] EXCEPT !.phase = "terminating"] \in Starts
    BY ONLY <2>a, p \in Projects DEF Starts, StartPhases
  <2>1. starting' \in [Projects -> Starts] /\ tracked' \in [Projects -> Children \cup {NoChild}]
    <3>1. CASE starting[p].child \in exitCode
      BY ONLY <2>a, <3>1, StartFails(p) DEF StartFails, StartDropped
    <3>2. CASE starting[p].child \notin exitCode
      BY ONLY <2>a, <2>b, <3>2, StartFails(p) DEF StartFails
    <3> QED BY ONLY <3>1, <3>2
  <2>2. stops' \subseteq stops /\ UNCHANGED <<child, exitCode, bound, sweep>>
    BY DEF StartFails, StartDropped
  <2> QED BY <2>1, <2>2
<1>2. StartsAreTracked'
  <2>1. CASE starting[p].child \in exitCode
    BY <2>1 DEF StartFails, StartDropped, NoStart
  <2>2. CASE starting[p].child \notin exitCode
    <3>1. /\ starting'[p].phase = "terminating" /\ starting'[p].child = starting[p].child
          /\ starting'[p] # NoStart /\ tracked' = tracked
          /\ \A q \in Projects \ {p} : starting'[q] = starting[q]
      BY <2>2 DEF StartFails, Starts, NoStart
    <3> QED BY <1>a, <3>1
  <2> QED BY <2>1, <2>2
<1>3. TrackedIsOwn'
  BY DEF StartFails, StartDropped, Awaiting, Starts, StartPhases, NoStart
<1>4. ChildrenAge'
  BY DEF StartFails, StartDropped, Awaiting, Starts, StartPhases, NoStart
<1>5. StopsAreServed'
  <2>1. starting[p] # NoStart
    BY DEF StartFails, NoStart
  <2>2. \A k \in stops' : k \in stops /\ (k.phase # "awaiting" => k.project # p)
    BY <2>1 DEF StartFails, StartDropped, Stopping
  <2>3. \A q \in Projects : q # p => starting'[q] = starting[q] /\ tracked'[q] = tracked[q]
    BY DEF StartFails, StartDropped
  <2>4. child' = child
    BY DEF StartFails
  <2> QED BY <2>2, <2>3, <2>4 DEF Stopping
<1>6. RestIsRunning'
  BY DEF StartFails, StartDropped, Awaiting, Starts, StartPhases, NoStart
<1>7. NoneKilledYet'
  BY DEF StartFails, StartDropped, Awaiting, Starts, StartPhases, NoStart
<1>8. NoOrphan'
  BY DEF StartFails, StartDropped, Awaiting, Starts, StartPhases, NoStart
<1>10. SweepHasStops'
  BY DEF StartFails, StartDropped, Awaiting, Starts, StartPhases, NoStart
<1> QED BY ONLY <1>1, <1>2, <1>3, <1>4, <1>5, <1>6, <1>7, <1>8, <1>10 DEF RojoInv

\* A start that failed kills its child.
LEMMA StartKillsKeeps ==
  ASSUME RojoInv, Orderly, NEW p \in Projects, StartKills(p)
  PROVE  RojoInv'
<1> USE RojoAssumption
    DEF RojoInv, RojoTypeOK, StartsAreTracked, TrackedIsOwn, ChildrenAge, StopsAreServed, RestIsRunning,
        NoneKilledYet, NoOrphan, SweepHasStops, Busy, Alive, RojoAssumption, Orderly
<1>1. RojoTypeOK'
  BY DEF StartKills, Kill, Lives, Starts, StartPhases, NoStart
<1>2. StartsAreTracked'
  BY DEF StartKills, Kill, Lives, Starts, StartPhases, NoStart
<1>3. TrackedIsOwn'
  BY DEF StartKills, Kill, Lives, Starts, StartPhases, NoStart
<1>4. ChildrenAge'
  BY DEF StartKills, Kill, Lives, Starts, StartPhases, NoStart
<1>5. StopsAreServed'
  BY DEF StartKills, Kill, Lives, Starts, StartPhases, NoStart
<1>6. RestIsRunning'
  BY DEF StartKills, Kill, Lives, Starts, StartPhases, NoStart
<1>7. NoneKilledYet'
  BY DEF StartKills, Kill, Lives, Starts, StartPhases, NoStart
<1>8. NoOrphan'
  BY DEF StartKills, Kill, Lives, Starts, StartPhases, NoStart
<1>10. SweepHasStops'
  BY DEF StartKills, Kill, Lives, Starts, StartPhases, NoStart
<1> QED BY ONLY <1>1, <1>2, <1>3, <1>4, <1>5, <1>6, <1>7, <1>8, <1>10 DEF RojoInv

\* The child of a start that failed is gone.
LEMMA StartGivesUpKeeps ==
  ASSUME RojoInv, Orderly, NEW p \in Projects, StartGivesUp(p)
  PROVE  RojoInv'
<1> USE RojoAssumption
    DEF RojoInv, RojoTypeOK, StartsAreTracked, TrackedIsOwn, ChildrenAge, StopsAreServed, RestIsRunning,
        NoneKilledYet, NoOrphan, SweepHasStops, Busy, Alive, RojoAssumption, Orderly
<1>1. RojoTypeOK'
  BY DEF StartGivesUp, NoExitSeen, StartDropped, Awaiting, Starts, StartPhases, NoStart
<1>2. StartsAreTracked'
  BY DEF StartGivesUp, NoExitSeen, StartDropped, Awaiting, Starts, StartPhases, NoStart
<1>3. TrackedIsOwn'
  BY DEF StartGivesUp, NoExitSeen, StartDropped, Awaiting, Starts, StartPhases, NoStart
<1>4. ChildrenAge'
  BY DEF StartGivesUp, NoExitSeen, StartDropped, Awaiting, Starts, StartPhases, NoStart
<1>5. StopsAreServed'
  BY DEF StartGivesUp, NoExitSeen, StartDropped, Awaiting, Starts, StartPhases, NoStart
<1>6. RestIsRunning'
  BY DEF StartGivesUp, NoExitSeen, StartDropped, Awaiting, Starts, StartPhases, NoStart
<1>7. NoneKilledYet'
  BY DEF StartGivesUp, NoExitSeen, StartDropped, Awaiting, Starts, StartPhases, NoStart
<1>8. NoOrphan'
  BY DEF StartGivesUp, NoExitSeen, StartDropped, Awaiting, Starts, StartPhases, NoStart
<1>10. SweepHasStops'
  <2>1. child[starting[p].child].life = "gone" /\ starting[p].child \in Children
    BY DEF StartGivesUp, NoExitSeen
  <2>2. stops' = stops \ Awaiting(p) /\ UNCHANGED <<child, sweep>>
    BY DEF StartGivesUp, StartDropped
  <2>3. \A q \in Projects : q # p => starting'[q] = starting[q]
    BY DEF StartGivesUp, StartDropped
  <2>4. \A k \in stops : k.project = p /\ k.phase = "awaiting" => ~Alive(starting[k.project].child)
    BY <2>1
  <2>5. \A k \in stops : k.project # p => k \in stops' /\ starting'[k.project] = starting[k.project]
    BY <2>2, <2>3 DEF Awaiting, Stopping
  <2>6. \A k \in stops : k.phase # "awaiting" => k \in stops'
    BY <2>2 DEF Awaiting
  <2> QED BY <2>2, <2>4, <2>5, <2>6
<1> QED BY ONLY <1>1, <1>2, <1>3, <1>4, <1>5, <1>6, <1>7, <1>8, <1>10 DEF RojoInv

\* A stop waits for a start, finds its child, or forgets one that ended.
LEMMA StopKeeps ==
  ASSUME RojoInv, Orderly, NEW p \in Projects, Stop(p)
  PROVE  RojoInv'
<1> USE RojoAssumption
    DEF RojoInv, RojoTypeOK, StartsAreTracked, TrackedIsOwn, ChildrenAge, StopsAreServed, RestIsRunning,
        NoneKilledYet, NoOrphan, SweepHasStops, Busy, Alive, RojoAssumption, Orderly
<1>a. \A k \in stops' :
        \/ k \in stops
        \/ /\ k \in Stopping
           /\ \/ k.phase = "awaiting" /\ k.child = NoChild
              \/ /\ k.phase = "terminating" /\ k.child = tracked[k.project]
                 /\ starting[k.project] = NoStart
                 /\ tracked[k.project] # NoChild /\ tracked[k.project] \notin exitCode
  BY DEF Stop, BeginStop, StartOf, Stopping, StopPhases
<1>b. /\ \A q \in Projects :
           \/ tracked'[q] = tracked[q]
           \/ /\ starting[q] = NoStart /\ tracked[q] \in exitCode /\ tracked[q] # NoChild
              /\ tracked'[q] = NoChild
      /\ \A d \in Children :
           \/ child'[d] = child[d]
           \/ d \in exitCode /\ child'[d] = Marked(child[d], "stopped")
      /\ UNCHANGED <<starting, exitCode, bound>>
  BY DEF Stop, BeginStop, StartOf, Marked
<1>c. \A d \in Children :
        /\ child'[d] \in ServeRecords
        /\ child'[d].life = child[d].life /\ child'[d].project = child[d].project
        /\ child'[d] # child[d] => d \in exitCode /\ child'[d].status = "stopped"
  <2>1. \A d \in Children : child[d] \in ServeRecords
    BY DEF ServeRecords
  <2>2. "stopped" \in Statuses
    BY DEF Statuses
  <2> QED BY <1>b, <2>1, <2>2, MarkedRecord
<1>1. RojoTypeOK'
  BY DEF Stop, BeginStop, StartOf, Stopping, StopPhases, Statuses, Starts, StartPhases, NoStart
<1>2. StartsAreTracked'
  BY DEF Stop, BeginStop, StartOf, Stopping, StopPhases, Statuses, Starts, StartPhases, NoStart
<1>3. TrackedIsOwn'
  BY DEF Stop, BeginStop, StartOf, Stopping, StopPhases, Statuses, Starts, StartPhases, NoStart
<1>4. ChildrenAge'
  BY DEF Stop, BeginStop, StartOf, Stopping, StopPhases, Statuses, Starts, StartPhases, NoStart
<1>5. StopsAreServed'
  <2>1. \A k \in stops : k.phase # "awaiting" => k.child \notin exitCode
    OBVIOUS
  <2>2. \A q \in Projects : tracked[q] \notin exitCode => tracked'[q] = tracked[q]
    BY <1>b
  <2>3. \A d \in Children : d \notin exitCode => child'[d] = child[d]
    BY <1>b
  <2>4. \A k \in stops' : k \in Stopping
    BY <1>a
  <2>5. ASSUME NEW k \in stops', k.phase # "awaiting"
        PROVE  /\ k.child \in Children /\ tracked[k.project] = k.child
               /\ starting[k.project] = NoStart /\ child[k.child].status = "running"
               /\ k.child \notin exitCode
    <3>1. k.project \in Projects
      BY <2>4 DEF Stopping
    <3> QED BY <1>a, <2>1, <2>5, <3>1
  <2>6. \A k \in stops' : k.phase = "awaiting" => k.child = NoChild
    BY <1>a
  <2> QED BY <1>b, <2>2, <2>3, <2>4, <2>5, <2>6 DEF Stopping
<1>6. RestIsRunning'
  BY DEF Stop, BeginStop, StartOf, Stopping, StopPhases, Statuses, Starts, StartPhases, NoStart
<1>7. NoneKilledYet'
  BY DEF Stop, BeginStop, StartOf, Stopping, StopPhases, Statuses, Starts, StartPhases, NoStart
<1>8. NoOrphan'
  BY DEF Stop, BeginStop, StartOf, Stopping, StopPhases, Statuses, Starts, StartPhases, NoStart
<1>10. SweepHasStops'
  BY DEF Stop, BeginStop, StartOf, Stopping, StopPhases, Statuses, Starts, StartPhases, NoStart
<1> QED BY ONLY <1>1, <1>2, <1>3, <1>4, <1>5, <1>6, <1>7, <1>8, <1>10 DEF RojoInv

\* stopAll does so for every project that has a child.
LEMMA StopAllKeeps ==
  ASSUME RojoInv, Orderly, StopAll
  PROVE  RojoInv'
<1> USE RojoAssumption
    DEF RojoInv, RojoTypeOK, StartsAreTracked, TrackedIsOwn, ChildrenAge, StopsAreServed, RestIsRunning,
        NoneKilledYet, NoOrphan, SweepHasStops, Busy, Alive, RojoAssumption, Orderly
<1>a. \A k \in stops' :
        \/ k \in stops
        \/ /\ k \in Stopping
           /\ \/ k.phase = "awaiting" /\ k.child = NoChild
              \/ /\ k.phase = "terminating" /\ k.child = tracked[k.project]
                 /\ starting[k.project] = NoStart
                 /\ tracked[k.project] # NoChild /\ tracked[k.project] \notin exitCode
  BY DEF StopAll, BeginStop, Swept, StartOf, Stopping, StopPhases
<1>b. /\ \A q \in Projects :
           \/ tracked'[q] = tracked[q]
           \/ /\ starting[q] = NoStart /\ tracked[q] \in exitCode /\ tracked[q] # NoChild
              /\ tracked'[q] = NoChild
      /\ \A d \in Children :
           \/ child'[d] = child[d]
           \/ d \in exitCode /\ child'[d] = Marked(child[d], "stopped")
      /\ UNCHANGED <<starting, exitCode, bound>>
  BY DEF StopAll, BeginStop, Swept, StartOf, Marked
<1>c. \A d \in Children :
        /\ child'[d] \in ServeRecords
        /\ child'[d].life = child[d].life /\ child'[d].project = child[d].project
        /\ child'[d] # child[d] => d \in exitCode /\ child'[d].status = "stopped"
  <2>1. \A d \in Children : child[d] \in ServeRecords
    BY DEF ServeRecords
  <2>2. "stopped" \in Statuses
    BY DEF Statuses
  <2> QED BY <1>b, <2>1, <2>2, MarkedRecord
<1>1. RojoTypeOK'
  <2>1. stops' \subseteq Stopping
    BY <1>a
  <2>2. tracked' \in [Projects -> Children \cup {NoChild}]
    BY <1>b DEF StopAll, BeginStop
  <2>3. child' = [d \in Children |-> child'[d]]
    BY DEF StopAll, BeginStop
  <2>4. child' \in [Children -> [project : Projects \cup {NoChild}, port : Ports \cup {NoChild},
                                status : Statuses, life : Lives]]
    BY <1>c, <2>3 DEF ServeRecords
  <2>5. sweep' \in [phase : {"none", "sweeping", "over"}, missed : SUBSET Children]
    BY DEF StopAll
  <2> QED BY <1>b, <2>1, <2>2, <2>4, <2>5
<1>2. StartsAreTracked'
  BY DEF StopAll, BeginStop, StartOf, Swept, Unborn, Stopping, StopPhases, Statuses, Starts, StartPhases, NoStart
<1>3. TrackedIsOwn'
  BY DEF StopAll, BeginStop, StartOf, Swept, Unborn, Stopping, StopPhases, Statuses, Starts, StartPhases, NoStart
<1>4. ChildrenAge'
  BY DEF StopAll, BeginStop, StartOf, Swept, Unborn, Stopping, StopPhases, Statuses, Starts, StartPhases, NoStart
<1>5. StopsAreServed'
  <2>1. \A k \in stops : k.phase # "awaiting" => k.child \notin exitCode
    OBVIOUS
  <2>2. \A q \in Projects : tracked[q] \notin exitCode => tracked'[q] = tracked[q]
    BY <1>b
  <2>3. \A d \in Children : d \notin exitCode => child'[d] = child[d]
    BY <1>b
  <2>4. \A k \in stops' : k \in Stopping
    BY <1>a
  <2>5. ASSUME NEW k \in stops', k.phase # "awaiting"
        PROVE  /\ k.child \in Children /\ tracked[k.project] = k.child
               /\ starting[k.project] = NoStart /\ child[k.child].status = "running"
               /\ k.child \notin exitCode
    <3>1. k.project \in Projects
      BY <2>4 DEF Stopping
    <3> QED BY <1>a, <2>1, <2>5, <3>1
  <2>6. \A k \in stops' : k.phase = "awaiting" => k.child = NoChild
    BY <1>a
  <2> QED BY <1>b, <2>2, <2>3, <2>4, <2>5, <2>6 DEF Stopping
<1>6. RestIsRunning'
  BY DEF StopAll, BeginStop, StartOf, Swept, Unborn, Stopping, StopPhases, Statuses, Starts, StartPhases, NoStart
<1>7. NoneKilledYet'
  BY DEF StopAll, BeginStop, StartOf, Swept, Unborn, Stopping, StopPhases, Statuses, Starts, StartPhases, NoStart
<1>8. NoOrphan'
  BY DEF StopAll, BeginStop, StartOf, Swept, Unborn, Stopping, StopPhases, Statuses, Starts, StartPhases, NoStart
<1>10. SweepHasStops'
  <2>1. sweep'.phase = "sweeping" /\ sweep'.missed = {c \in Children : child[c] = Unborn}
    BY DEF StopAll
  <2>2. ASSUME NEW c \in Children, child'[c].life = "unborn" PROVE c \in sweep'.missed
    <3>1. child[c] = Unborn
      BY <1>c, <2>2
    <3> QED BY <2>1, <3>1
  <2>3. ASSUME NEW c \in Children, Alive(c)'
        PROVE  \E k \in stops' :
                 /\ k.by = "stopAll" /\ k.project = child'[c].project
                 /\ \/ k.phase # "awaiting" /\ k.child = c
                    \/ k.phase = "awaiting" /\ starting'[k.project].child = c
    <3> DEFINE q == child[c].project
    <3>1. /\ child'[c] = child[c] /\ c \notin exitCode /\ q \in Projects /\ tracked[q] = c
          /\ q \in Swept
      <4>1. Alive(c) /\ c \notin exitCode
        BY <1>c, <2>3
      <4>2. child'[c] = child[c]
        BY <1>b, <4>1
      <4> QED BY <4>1, <4>2 DEF Swept
    <3>2. CASE starting[q] = NoStart
      <4> DEFINE k == [by |-> "stopAll", phase |-> "terminating", project |-> q, child |-> c]
      <4>1. k \in stops'
        BY <3>1, <3>2 DEF StopAll, BeginStop, StartOf
      <4> QED BY <3>1, <4>1
    <3>3. CASE starting[q] # NoStart
      <4> DEFINE k == [by |-> "stopAll", phase |-> "awaiting", project |-> q, child |-> NoChild]
      <4>1. k \in stops'
        BY <3>1, <3>3 DEF StopAll, BeginStop, StartOf
      <4>2. starting'[q].child = c
        BY <1>b, <3>1, <3>3 DEF Starts, StartPhases
      <4> QED BY <3>1, <4>1, <4>2
    <3> QED BY <3>2, <3>3
  <2> QED BY <2>1, <2>2, <2>3
<1> QED BY ONLY <1>1, <1>2, <1>3, <1>4, <1>5, <1>6, <1>7, <1>8, <1>10 DEF RojoInv

\* stopAll returns when its last stop has.
LEMMA StopAllReturnsKeeps ==
  ASSUME RojoInv, Orderly, StopAllReturns
  PROVE  RojoInv'
<1> USE RojoAssumption
    DEF RojoInv, RojoTypeOK, StartsAreTracked, TrackedIsOwn, ChildrenAge, StopsAreServed, RestIsRunning,
        NoneKilledYet, NoOrphan, SweepHasStops, Busy, Alive, RojoAssumption, Orderly
<1>1. RojoTypeOK'
  BY DEF StopAllReturns
<1>2. StartsAreTracked'
  BY DEF StopAllReturns
<1>3. TrackedIsOwn'
  BY DEF StopAllReturns
<1>4. ChildrenAge'
  BY DEF StopAllReturns
<1>5. StopsAreServed'
  BY DEF StopAllReturns
<1>6. RestIsRunning'
  BY DEF StopAllReturns
<1>7. NoneKilledYet'
  BY DEF StopAllReturns
<1>8. NoOrphan'
  BY DEF StopAllReturns
<1>10. SweepHasStops'
  BY DEF StopAllReturns
<1> QED BY ONLY <1>1, <1>2, <1>3, <1>4, <1>5, <1>6, <1>7, <1>8, <1>10 DEF RojoInv

\* SIGKILL under a stop.
LEMMA StopKillsKeeps ==
  ASSUME RojoInv, Orderly, NEW k \in stops, StopKills(k)
  PROVE  RojoInv'
<1> USE RojoAssumption
    DEF RojoInv, RojoTypeOK, StartsAreTracked, TrackedIsOwn, ChildrenAge, StopsAreServed, RestIsRunning,
        NoneKilledYet, NoOrphan, SweepHasStops, Busy, Alive, RojoAssumption, Orderly
<1>a. /\ k.child \in Children /\ tracked[k.project] = k.child /\ k.project \in Projects
      /\ starting[k.project] = NoStart /\ child[k.child].status = "running" /\ k.phase = "terminating"
  BY DEF StopKills, Stopping
<1>b. /\ \A c \in Children : c # k.child => child'[c] = child[c]
      /\ \A c \in Children : child'[c].status = child[c].status
      /\ UNCHANGED <<tracked, starting, exitCode, bound, sweep>>
  BY <1>a DEF StopKills, Kill
<1>c. \A j \in stops : \E i \in stops' : i.child = j.child
  <2>1. [k EXCEPT !.phase = "killing"] \in stops' /\ [k EXCEPT !.phase = "killing"].child = k.child
    BY DEF StopKills, Stopping
  <2> QED BY <2>1 DEF StopKills
<1>1. RojoTypeOK'
  BY DEF StopKills, Kill, Lives, Stopping, StopPhases
<1>2. StartsAreTracked'
  BY DEF StopKills, Kill, Lives, Stopping, StopPhases
<1>3. TrackedIsOwn'
  BY DEF StopKills, Kill, Lives, Stopping, StopPhases
<1>4. ChildrenAge'
  BY DEF StopKills, Kill, Lives, Stopping, StopPhases
<1>5. StopsAreServed'
  BY DEF StopKills, Kill, Lives, Stopping, StopPhases
<1>6. RestIsRunning'
  <2>1. ASSUME NEW p \in Projects, starting[p] = NoStart, tracked[p] # NoChild, tracked[p] \notin exitCode
        PROVE  child'[tracked[p]].status = "running"
    BY <1>b, <2>1
  <2>2. ASSUME NEW p \in Projects, starting[p] = NoStart, tracked[p] # NoChild, tracked[p] \notin exitCode,
               child'[tracked[p]].life = "killed"
        PROVE  \E j \in stops : j.child = tracked[p]
    BY <1>a, <1>b, <2>2
  <2> QED BY <1>b, <1>c, <2>1, <2>2
<1>7. NoneKilledYet'
  <2>1. ASSUME NEW p \in Projects, starting[p].phase \in {"waiting", "settling"}
        PROVE  starting[p].child # k.child /\ starting[p].child \in Children
    BY <1>a, <2>1 DEF NoStart
  <2> QED BY <1>b, <2>1
<1>8. NoOrphan'
  BY DEF StopKills, Kill, Lives, Stopping, StopPhases
<1>10. SweepHasStops'
  BY DEF StopKills, Kill, Lives, Stopping, StopPhases
<1> QED BY ONLY <1>1, <1>2, <1>3, <1>4, <1>5, <1>6, <1>7, <1>8, <1>10 DEF RojoInv

\* A stop never comes to its last deadline: its child is seen to exit before.
LEMMA StopGivesUpKeeps ==
  ASSUME RojoInv, Orderly, NEW k \in stops, StopGivesUp(k)
  PROVE  RojoInv'
<1> USE RojoAssumption
    DEF RojoInv, RojoTypeOK, StartsAreTracked, TrackedIsOwn, ChildrenAge, StopsAreServed, RestIsRunning,
        NoneKilledYet, NoOrphan, SweepHasStops, Busy, Alive, RojoAssumption, Orderly
<1>1. RojoTypeOK'
  BY DEF StopGivesUp, NoExitSeen
<1>2. StartsAreTracked'
  BY DEF StopGivesUp, NoExitSeen
<1>3. TrackedIsOwn'
  BY DEF StopGivesUp, NoExitSeen
<1>4. ChildrenAge'
  BY DEF StopGivesUp, NoExitSeen
<1>5. StopsAreServed'
  BY DEF StopGivesUp, NoExitSeen
<1>6. RestIsRunning'
  BY DEF StopGivesUp, NoExitSeen
<1>7. NoneKilledYet'
  BY DEF StopGivesUp, NoExitSeen
<1>8. NoOrphan'
  BY DEF StopGivesUp, NoExitSeen
<1>10. SweepHasStops'
  BY DEF StopGivesUp, NoExitSeen
<1> QED BY ONLY <1>1, <1>2, <1>3, <1>4, <1>5, <1>6, <1>7, <1>8, <1>10 DEF RojoInv

\* A child takes its port.
LEMMA BindKeeps ==
  ASSUME RojoInv, Orderly, NEW c \in Children, Bind(c)
  PROVE  RojoInv'
<1> USE RojoAssumption
    DEF RojoInv, RojoTypeOK, StartsAreTracked, TrackedIsOwn, ChildrenAge, StopsAreServed, RestIsRunning,
        NoneKilledYet, NoOrphan, SweepHasStops, Busy, Alive, RojoAssumption, Orderly
<1>1. RojoTypeOK'
  BY DEF Bind
<1>2. StartsAreTracked'
  BY DEF Bind
<1>3. TrackedIsOwn'
  BY DEF Bind
<1>4. ChildrenAge'
  BY DEF Bind
<1>5. StopsAreServed'
  BY DEF Bind
<1>6. RestIsRunning'
  BY DEF Bind
<1>7. NoneKilledYet'
  BY DEF Bind
<1>8. NoOrphan'
  BY DEF Bind
<1>10. SweepHasStops'
  BY DEF Bind
<1> QED BY ONLY <1>1, <1>2, <1>3, <1>4, <1>5, <1>6, <1>7, <1>8, <1>10 DEF RojoInv

\* A child ends by itself, or by the signal of a stop or a start that failed.
LEMMA EndsKeeps ==
  ASSUME RojoInv, Orderly, NEW c \in Children, Ends(c)
  PROVE  RojoInv'
<1> USE RojoAssumption
    DEF RojoInv, RojoTypeOK, StartsAreTracked, TrackedIsOwn, ChildrenAge, StopsAreServed, RestIsRunning,
        NoneKilledYet, NoOrphan, SweepHasStops, Busy, Alive, RojoAssumption, Orderly
<1>a. /\ \A d \in Children : d # c => child'[d] = child[d]
      /\ \A d \in Children : child'[d].status = child[d].status
      /\ UNCHANGED <<tracked, starting, exitCode, bound, stops, sweep>>
  BY DEF Ends
<1>b. child'[c].life = "killed" => Condemned(c)
  BY DEF Ends
<1>1. RojoTypeOK'
  BY DEF Ends, Condemned, Terminators, Lives
<1>2. StartsAreTracked'
  BY DEF Ends, Condemned, Terminators, Lives
<1>3. TrackedIsOwn'
  BY DEF Ends, Condemned, Terminators, Lives
<1>4. ChildrenAge'
  BY DEF Ends, Condemned, Terminators, Lives
<1>5. StopsAreServed'
  BY DEF Ends, Condemned, Terminators, Lives
<1>6. RestIsRunning'
  <2>1. ASSUME NEW p \in Projects, starting[p] = NoStart, tracked[p] = c, Condemned(c)
        PROVE  \E k \in stops : k.child = c
    <3>1. \A q \in Projects : starting[q].child = c /\ Busy(q) => q = p
      BY <2>1
    <3> QED BY <2>1, <3>1 DEF Condemned, Terminators, NoStart
  <2>2. \A p \in Projects : tracked[p] # NoChild => tracked[p] \in Children
    OBVIOUS
  <2> QED BY <1>a, <1>b, <2>1, <2>2
<1>7. NoneKilledYet'
  <2>1. ASSUME NEW p \in Projects, starting[p].phase \in {"waiting", "settling"}, starting[p].child = c
        PROVE  ~Condemned(c)
    <3>1. tracked[p] = c
      BY <2>1
    <3>2. \A q \in Projects : starting[q].child = c /\ Busy(q) => q = p
      BY <3>1
    <3>3. starting[p] # NoStart
      BY <2>1 DEF NoStart
    <3>4. \A k \in stops : k.child = c => k.phase # "awaiting" /\ k.project = p
      BY <3>1 DEF Stopping
    <3>5. Terminators(c) = {}
      BY <3>3, <3>4 DEF Terminators
    <3> QED BY <2>1, <3>2, <3>5 DEF Condemned
  <2>2. \A p \in Projects : starting[p].phase \in {"waiting", "settling"} => starting[p].child \in Children
    OBVIOUS
  <2> QED BY <1>a, <1>b, <2>1, <2>2
<1>8. NoOrphan'
  BY DEF Ends, Condemned, Terminators, Lives
<1>10. SweepHasStops'
  BY DEF Ends, Condemned, Terminators, Lives
<1> QED BY ONLY <1>1, <1>2, <1>3, <1>4, <1>5, <1>6, <1>7, <1>8, <1>10 DEF RojoInv

\* The exit event: whoever waits for the child forgets it.
LEMMA ExitKeeps ==
  ASSUME RojoInv, Orderly, NEW c \in Children, Exit(c)
  PROVE  RojoInv'
<1> USE RojoAssumption
    DEF RojoInv, RojoTypeOK, StartsAreTracked, TrackedIsOwn, ChildrenAge, StopsAreServed, RestIsRunning,
        NoneKilledYet, NoOrphan, SweepHasStops, Busy, Alive, RojoAssumption, Orderly
<1> DEFINE dropping == {p \in Projects : starting[p].child = c
                                        /\ starting[p].phase \in {"terminating", "killing"}}
           gone     == {k.project : k \in Terminators(c)} \cup dropping
<1>a. /\ child[c].life \in {"exiting", "killed"}
      /\ exitCode' = IF child[c].life = "exiting" THEN exitCode \cup {c} ELSE exitCode
      /\ UNCHANGED <<bound, sweep>>
  BY DEF Exit
<1>b. /\ child' \in [Children -> [project : Projects \cup {NoChild}, port : Ports \cup {NoChild},
                                  status : Statuses, life : Lives]]
      /\ \A d \in Children : d # c => child'[d] = child[d]
      /\ child'[c].life = "gone" /\ child'[c].status \in {"exited", "stopped"}
      /\ child'[c].project = child[c].project
  <2>1. \E s \in {"exited", "stopped"} : child' = [child EXCEPT ![c] = Ended(child[c], s)]
    <3> DEFINE s == IF Terminators(c) # {} THEN "stopped" ELSE "exited"
    <3>1. child' = [child EXCEPT ![c].life = "gone", ![c].status = s]
      BY ONLY Exit(c) DEF Exit
    <3>2. s \in {"exited", "stopped"} /\ s \in Statuses
      BY DEF Statuses
    <3>3. child \in [Children -> ServeRecords]
      BY DEF ServeRecords
    <3> HIDE DEF s
    <3>4. child' = [child EXCEPT ![c] = Ended(child[c], s)]
      BY ONLY <3>1, <3>2, <3>3, c \in Children, EndedChild
    <3> QED BY <3>2, <3>4
  <2>2. {"exited", "stopped"} \subseteq Statuses /\ child[c] \in ServeRecords
    BY DEF Statuses, ServeRecords
  <2>3. child' \in [Children -> ServeRecords]
    BY <2>1, <2>2, EndedRecord DEF ServeRecords
  <2> QED BY <2>1, <2>2, <2>3, EndedRecord DEF ServeRecords
<1>c. \A p \in gone : p \in Projects /\ tracked[p] = c
  BY DEF Terminators, Stopping
<1>d. /\ \A p \in Projects : tracked'[p] = IF p \in gone THEN NoChild ELSE tracked[p]
      /\ \A p \in Projects : starting'[p] = IF p \in dropping THEN NoStart ELSE starting[p]
      /\ stops' = stops \ (Terminators(c) \cup UNION {Awaiting(p) : p \in dropping})
  BY DEF Exit
<1>e. ASSUME NEW k \in stops, k.child # c, k.project \notin dropping
      PROVE  k \in stops'
  <2>1. k \notin Terminators(c)
    BY <1>e DEF Terminators
  <2>2. \A p \in dropping : k \notin Awaiting(p)
    BY <1>e DEF Awaiting
  <2> QED BY <1>d, <2>1, <2>2
<1>f. \A k \in stops' : k \in stops /\ k.child # c /\ k.project \in Projects
  BY <1>d DEF Terminators, Stopping
<1>1. RojoTypeOK'
  <2>1. stops' \subseteq Stopping
    BY <1>d
  <2>2. tracked' \in [Projects -> Children \cup {NoChild}] /\ starting' \in [Projects -> Starts]
    BY DEF Exit, Starts, StartPhases, NoStart
  <2> QED BY <1>a, <1>b, <2>1, <2>2
<1>2. StartsAreTracked'
  BY DEF Exit, Terminators, Awaiting, Statuses, Lives, Starts, StartPhases, NoStart
<1>3. TrackedIsOwn'
  BY DEF Exit, Terminators, Awaiting, Statuses, Lives, Starts, StartPhases, NoStart
<1>4. ChildrenAge'
  BY DEF Exit, Terminators, Awaiting, Statuses, Lives, Starts, StartPhases, NoStart
<1>5. StopsAreServed'
  <2>1. ASSUME NEW k \in stops', k.phase # "awaiting"
        PROVE  /\ tracked'[k.project] = k.child /\ starting'[k.project] = NoStart
               /\ k.child \in Children /\ child'[k.child] = child[k.child]
    <3>1. k \in stops /\ k.child # c /\ tracked[k.project] = k.child /\ starting[k.project] = NoStart
          /\ k.child \in Children /\ k.project \in Projects
      BY <1>f, <2>1
    <3>2. k.project \notin gone
      BY <1>c, <3>1
    <3> QED BY <1>b, <1>d, <3>1, <3>2
  <2> QED BY <1>f, <2>1
<1>6. RestIsRunning'
  BY DEF Exit, Terminators, Awaiting, Statuses, Lives, Starts, StartPhases, NoStart
<1>7. NoneKilledYet'
  BY DEF Exit, Terminators, Awaiting, Statuses, Lives, Starts, StartPhases, NoStart
<1>8. NoOrphan'
  <2>1. ASSUME NEW d \in Children, Alive(d)'
        PROVE  tracked'[child'[d].project] = d
    <3>1. d # c /\ child'[d] = child[d] /\ Alive(d)
      BY <1>b, <2>1
    <3>2. tracked[child[d].project] = d /\ child[d].project \in Projects
      BY <3>1
    <3>3. child[d].project \notin gone
      BY <1>c, <3>1, <3>2
    <3> QED BY <1>d, <3>1, <3>2, <3>3
  <2> QED BY <2>1
<1>10. SweepHasStops'
  <2>1. ASSUME NEW d \in Children, Alive(d)', NEW k \in stops, k.project = child[d].project,
               \/ k.phase # "awaiting" /\ k.child = d
               \/ k.phase = "awaiting" /\ starting[k.project].child = d
        PROVE  k \in stops' /\ starting'[k.project] = starting[k.project] /\ d # c
    <3>1. d # c /\ child'[d] = child[d] /\ k.project \in Projects
      BY <1>b, <2>1 DEF Stopping
    <3>2. k.child # c
      BY <2>1, <3>1
    <3>3. k.project \notin dropping
      BY <1>c, <2>1, <3>1
    <3> QED BY <1>d, <1>e, <3>1, <3>2, <3>3
  <2> HIDE DEF gone, dropping
  <2>2. sweep'.phase # "none" => \A d \in Children : child'[d].life = "unborn" => d \in sweep'.missed
    BY <1>a, <1>b
  <2>3. ASSUME sweep'.phase # "none", NEW d \in Children, Alive(d)', d \notin sweep'.missed
        PROVE  \E k \in stops' :
                 /\ k.by = "stopAll" /\ k.project = child'[d].project
                 /\ \/ k.phase # "awaiting" /\ k.child = d
                    \/ k.phase = "awaiting" /\ starting'[k.project].child = d
    <3>1. child'[d] = child[d] /\ Alive(d) /\ sweep' = sweep
      BY <1>a, <1>b, <2>3
    <3>2. PICK k \in stops : /\ k.by = "stopAll" /\ k.project = child[d].project
                           /\ \/ k.phase # "awaiting" /\ k.child = d
                              \/ k.phase = "awaiting" /\ starting[k.project].child = d
      BY <2>3, <3>1
    <3> QED BY <2>1, <2>3, <3>1, <3>2
  <2>4. sweep'.phase = "over" => \A k \in stops' : k.by # "stopAll"
    BY <1>a, <1>f
  <2> QED BY <2>2, <2>3, <2>4
<1> QED BY ONLY <1>1, <1>2, <1>3, <1>4, <1>5, <1>6, <1>7, <1>8, <1>10 DEF RojoInv

-----------------------------------------------------------------------------
LEMMA InitRojoInv == RojoInit => RojoInv
<1> SUFFICES ASSUME RojoInit PROVE RojoInv
  OBVIOUS
<1> USE RojoAssumption DEF RojoInit, RojoAssumption, Busy, Alive
<1>1. RojoTypeOK
  BY DEF RojoTypeOK, Starts, StartPhases, NoStart, Unborn, Statuses, Lives, Stopping
<1>2. StartsAreTracked /\ TrackedIsOwn /\ StopsAreServed /\ RestIsRunning /\ NoneKilledYet
  BY DEF StartsAreTracked, TrackedIsOwn, StopsAreServed, RestIsRunning, NoneKilledYet, NoStart
<1>3. ChildrenAge /\ NoOrphan /\ SweepHasStops
  BY DEF ChildrenAge, NoOrphan, SweepHasStops, Unborn
<1> QED BY <1>1, <1>2, <1>3 DEF RojoInv

LEMMA StepRojoInv ==
  ASSUME RojoInv, Orderly, [RojoNext]_rojoVars
  PROVE  RojoInv'
<1>1. ASSUME NEW p \in Projects, StartSteps(p) PROVE RojoInv'
  BY <1>1, PortCheckedKeeps, AnsweredKeeps, RefusedKeeps, SpawnKeeps, ReadyKeeps, FailsKeeps,
     StartKillsKeeps, StartGivesUpKeeps DEF StartSteps
<1>2. ASSUME NEW p \in Projects, Stop(p) \/ \E at \in Ports : Start(p, at) PROVE RojoInv'
  BY <1>2, StartKeeps, StopKeeps
<1>3. ASSUME StopAll \/ StopAllReturns PROVE RojoInv'
  BY <1>3, StopAllKeeps, StopAllReturnsKeeps
<1>4. ASSUME NEW k \in stops, StopStep(k) PROVE RojoInv'
  BY <1>4, StopKillsKeeps, StopGivesUpKeeps DEF StopStep
<1>5. ASSUME NEW c \in Children, Bind(c) \/ Ends(c) \/ Exit(c) PROVE RojoInv'
  BY <1>5, BindKeeps, EndsKeeps, ExitKeeps
<1>6. ASSUME UNCHANGED rojoVars PROVE RojoInv'
  BY <1>6
  DEF rojoVars, RojoInv, RojoTypeOK, StartsAreTracked, TrackedIsOwn, ChildrenAge, StopsAreServed,
      RestIsRunning, NoneKilledYet, NoOrphan, SweepHasStops, Busy, Alive
<1> QED
  BY <1>1, <1>2, <1>3, <1>4, <1>5, <1>6 DEF RojoNext

LEMMA RojoInvariance ==
  ASSUME Orderly
  PROVE  RojoSpec => []RojoInv
<1>1. RojoInv /\ [RojoNext]_rojoVars => RojoInv'
  BY StepRojoInv
<1> QED BY InitRojoInv, <1>1, PTL DEF RojoSpec

\* The manager's maps and the states of its calls keep their types.
THEOREM RojoTypes ==
  ASSUME Orderly
  PROVE  RojoSpec => []RojoTypeOK
<1>1. RojoInv => RojoTypeOK
  BY DEF RojoInv
<1> QED BY <1>1, RojoInvariance, PTL

\* Every child that runs is the one its project's entry holds, whatever starts,
\* stops and exits interleave: none is out of reach of stop and stopAll.
THEOREM ChildrenAreKept ==
  ASSUME Orderly
  PROVE  RojoSpec => []NoOrphan
<1>1. RojoInv => NoOrphan
  BY DEF RojoInv
<1> QED BY <1>1, RojoInvariance, PTL

\* A project never has two children that run.
THEOREM ServesAreSingle ==
  ASSUME Orderly
  PROVE  RojoSpec => []OneServePerProject
<1>1. RojoInv => OneServePerProject
  BY DEF RojoInv, NoOrphan, OneServePerProject
<1> QED BY <1>1, RojoInvariance, PTL

\* What runs after stopAll has returned was not yet spawned when it looked.
THEOREM SweepIsComplete ==
  ASSUME Orderly
  PROVE  RojoSpec => []SweepLeavesOnlyUnseen
<1>1. RojoInv => SweepLeavesOnlyUnseen
  BY DEF RojoInv, SweepHasStops, SweepLeavesOnlyUnseen
<1> QED BY <1>1, RojoInvariance, PTL

\* No step takes a child seen to exit back to starting or running.
LEMMA EndedStays ==
  ASSUME RojoInv, [RojoNext]_rojoVars, NEW c \in Children,
         child[c].status \in {"exited", "stopped"}
  PROVE  child'[c].status \in {"exited", "stopped"}
<1> USE DEF RojoInv, RojoTypeOK
<1>1. ASSUME NEW p \in Projects, StartSteps(p) PROVE child'[c].status \in {"exited", "stopped"}
  <2>1. ASSUME NEW d \in Children, Spawn(p, d) PROVE child'[c].status \in {"exited", "stopped"}
    BY <2>1 DEF Spawn, Unborn
  <2>2. ASSUME StartReady(p) PROVE child'[c].status \in {"exited", "stopped"}
    <3>1. starting[p].child # c /\ child' = [child EXCEPT ![starting[p].child].status = "running"]
      BY <2>2 DEF StartReady, Outlived
    <3> QED BY <3>1
  <2>3. ASSUME StartKills(p) PROVE child'[c].status \in {"exited", "stopped"}
    BY <2>3 DEF StartKills, Kill
  <2>4. ASSUME PortChecked(p) \/ StartRefused(p) \/ Answered(p) \/ StartFails(p) \/ StartGivesUp(p)
        PROVE  child'[c].status \in {"exited", "stopped"}
    BY <2>4 DEF PortChecked, StartRefused, Answered, StartFails, StartGivesUp
  <2> QED BY <1>1, <2>1, <2>2, <2>3, <2>4 DEF StartSteps
<1>2. ASSUME NEW P \in SUBSET Projects, NEW by, BeginStop(P, by)
      PROVE child'[c].status \in {"exited", "stopped"}
  BY <1>2 DEF BeginStop
<1>3. ASSUME NEW p \in Projects, Stop(p) \/ \E at \in Ports : Start(p, at)
      PROVE child'[c].status \in {"exited", "stopped"}
  <2>1. ASSUME Stop(p) PROVE child'[c].status \in {"exited", "stopped"}
    BY <1>2, <2>1 DEF Stop
  <2> QED BY <1>3, <2>1 DEF Start
<1>4. ASSUME StopAll \/ StopAllReturns PROVE child'[c].status \in {"exited", "stopped"}
  <2>1. ASSUME StopAll PROVE child'[c].status \in {"exited", "stopped"}
    <3>1. Swept \in SUBSET Projects
      BY DEF Swept
    <3> QED BY <1>2, <2>1, <3>1 DEF StopAll
  <2> QED BY <1>4, <2>1 DEF StopAllReturns
<1>5. ASSUME NEW k \in stops, StopStep(k) PROVE child'[c].status \in {"exited", "stopped"}
  BY <1>5 DEF StopStep, StopKills, Kill, StopGivesUp
<1>6. ASSUME NEW d \in Children, Bind(d) \/ Ends(d) \/ Exit(d)
      PROVE child'[c].status \in {"exited", "stopped"}
  BY <1>6 DEF Bind, Ends, Exit
<1>7. ASSUME UNCHANGED rojoVars PROVE child'[c].status \in {"exited", "stopped"}
  BY <1>7 DEF rojoVars
<1> QED BY <1>1, <1>3, <1>4, <1>5, <1>6, <1>7 DEF RojoNext

\* Whatever start and stop wait for, readiness never overwrites an exit.
THEOREM ExitsStand ==
  ASSUME Orderly
  PROVE  RojoSpec => ExitIsFinal
<1>1. RojoInv /\ [RojoNext]_rojoVars =>
        [\A c \in Children : child[c].status \in {"exited", "stopped"} =>
           child'[c].status \in {"exited", "stopped"}]_rojoVars
  BY EndedStays
<1> QED BY <1>1, RojoInvariance, PTL DEF RojoSpec, ExitIsFinal

------------------------------------------------------------------------------
(*****************************************************************************)
(* The eight components of the server side beside one another.               *)
(*****************************************************************************)

\* MCServerSide.tla: a behavior of the eight modules side by side is one of each of
\* them, so what is proved of a module holds of the instances TLC checks.
THEOREM ServerSideParts ==
  Spec => /\ RojoSpec /\ ModesSpec /\ LockSpec /\ ReconcileSpec
          /\ RoutingSpec /\ StudiosSpec /\ BrokerSpec /\ PlaySpec
<1>1. Init => /\ RojoInit /\ ModesInit /\ LockInit /\ ReconcileInit
              /\ RoutingInit /\ StudiosInit /\ BrokerInit /\ PlayInit
  BY DEF Init
<1>2. [Next]_vars => [RojoNext]_rojoVars
  BY DEF Next, vars
<1>3. [Next]_vars => [ModesNext]_modeVars
  BY DEF Next, vars
<1>4. [Next]_vars => [LockNext]_lockVars
  BY DEF Next, vars
<1>5. [Next]_vars => [ReconcileNext]_reconcileVars
  BY DEF Next, vars
<1>6. [Next]_vars => [RoutingNext]_routingVars
  BY DEF Next, vars
<1>7. [Next]_vars => [StudiosNext]_studiosVars
  BY DEF Next, vars
<1>8. [Next]_vars => [BrokerNext]_brokerVars
  BY DEF Next, vars
<1>9. [Next]_vars => [PlayNext]_playVars
  BY DEF Next, vars
<1> QED BY <1>1, <1>2, <1>3, <1>4, <1>5, <1>6, <1>7, <1>8, <1>9, PTL
      DEF Spec, RojoSpec, ModesSpec, LockSpec, ReconcileSpec, RoutingSpec, StudiosSpec,
          BrokerSpec, PlaySpec

\* The types of the eight modules of the server side, when nobody else signals the
\* children of the manager.
THEOREM ServerSideTypes == Orderly => (Spec => []ServerSideTypeOK)
<1> SUFFICES ASSUME Orderly PROVE Spec => []ServerSideTypeOK
  OBVIOUS
<1>1. Init => component \in Components
  BY DEF Init
<1>2. component \in Components /\ [Next]_vars => (component \in Components)'
  BY DEF Next, vars
<1>3. Spec => [](component \in Components)
  BY <1>1, <1>2, PTL DEF Spec
<1>4. /\ component \in Components
      /\ RojoTypeOK /\ ModesTypeOK /\ LockTypeOK /\ ReconcileTypeOK
      /\ RoutingTypeOK /\ StudiosTypeOK /\ BrokerTypeOK /\ PlayTypeOK
      => ServerSideTypeOK
  BY DEF ServerSideTypeOK
<1>5. RojoSpec => []RojoTypeOK
  BY RojoTypes
<1>6. StudiosSpec => []StudiosTypeOK
  BY StudiosTypes
<1> QED BY <1>3, <1>4, <1>5, <1>6, ServerSideParts, ModesTypes, LockTypes, ReconcileTypes,
           RoutingTypes, BrokerTypes, PlayTypes, PTL
==============================================================================
