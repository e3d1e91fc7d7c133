---------------------------- MODULE InstanceRouting ----------------------------
(***************************************************************************)
(* Which Studio gets a request: the registrations of the bridge            *)
(* (registerInstance, unregisterInstance, aliases, resolveTarget of        *)
(* core/src/bridge-service.ts) and the plugin that announces itself        *)
(* (sendReady and its callers, studio-plugin/src/modules/Communication.ts).*)
(*                                                                         *)
(* A Studio is known by its place id once published, by an id kept in the  *)
(* document before.  The id changes under way, /ready posts overtake each  *)
(* other, and requests are already on their way to the old id.             *)
(***************************************************************************)
EXTENDS Integers, FiniteSets

CONSTANTS
  Sessions,     \* plugin sessions, each opened and closed once
  Casts,        \* beginnings: [kind, doc, moves, mishaps] says what each session
                \* is, which document it has open, and bounds what happens:
                \* changes of place; lost posts, long gaps, server restarts
  PlaceIds,     \* published places
  Unpublished,  \* no member of PlaceIds
  Requests,     \* requests of the tools
  NoSession     \* no member of Sessions

Kinds == {"edit", "server", "client"}

ASSUME RoutingAssumption ==
  /\ \A x \in Casts : x.kind \in [Sessions -> Kinds] /\ DOMAIN x.doc = Sessions
                       /\ x.moves \in Nat /\ x.mishaps \in Nat
  /\ Unpublished \notin PlaceIds /\ NoSession \notin Sessions /\ IsFiniteSet(Sessions)

VARIABLES
  cast,         \* the member of Casts this behavior has
  window,       \* "new", "open" or "closed"
  placeOf,      \* game.PlaceId of each session
  posts,        \* /ready posts on their way: [by, id]
  answers,      \* their answers on the way back: [by, ok, id]
  lastReady,    \* lastReadyInstanceId
  missed,       \* sessions that lost the answer of a registration, or got it
                \* when a post it overtook had changed the registration
  instances,    \* registrations: session |-> [id, role]
  aliases,      \* instanceAliases: id |-> id
  requests,     \* each request: [at, id, role, holder, adrift]
  moves, mishaps

routingVars == <<cast, window, placeOf, posts, answers, lastReady, missed, instances,
                 aliases, requests, moves, mishaps>>
studioVars == <<cast, window, placeOf, lastReady, missed>>
serverVars == <<instances, aliases, requests>>
-----------------------------------------------------------------------------
(* Ids and roles *)

KindOf(s) == cast.kind[s]
DocOf(s) == cast.doc[s]
Docs == UNION {{x.doc[s] : s \in Sessions} : x \in Casts}
InstanceIds == ({"anon"} \X Docs) \cup ({"place"} \X PlaceIds)
NoId == <<"none">>
Anywhere == <<"anywhere">>

\* Client roles are numbered: client-1, client-2, ...
ClientRoles == {"client"} \X (1..Cardinality(Sessions))
Roles == {<<"edit">>, <<"server">>} \cup ClientRoles
AnyRole == <<"any">>

\* computeInstanceId, with canonicalInstanceId and publishedInstanceId.
CurrentId(s) == IF placeOf[s] = Unpublished THEN <<"anon", DocOf(s)>> ELSE <<"place", placeOf[s]>>

NoRequest == [at |-> "none", id |-> NoId, role |-> AnyRole, holder |-> NoSession, adrift |-> FALSE]

RoutingInit ==
  /\ cast \in Casts
  /\ window = [s \in Sessions |-> "new"]
  /\ placeOf = [s \in Sessions |-> Unpublished]
  /\ posts = {} /\ answers = {}
  /\ lastReady = [s \in Sessions |-> NoId]
  /\ missed = {}
  /\ instances = [s \in {} |-> NoId]
  /\ aliases = [i \in {} |-> NoId]
  /\ requests = [c \in Requests |-> NoRequest]
  /\ moves = 0 /\ mishaps = 0

Live == {c \in Requests : requests[c].at \in {"queued", "held"}}
Mishap == mishaps < cast.mishaps /\ mishaps' = mishaps + 1
-----------------------------------------------------------------------------
(* The plugin: sendReady and what calls it *)

\* At most one post of an id is on its way: sendReady waits two seconds.
Post(s, id) == posts' = posts \cup {[by |-> s, id |-> id]}

Open(s) ==
  /\ window[s] = "new"
  /\ window' = [window EXCEPT ![s] = "open"]
  /\ \E p \in PlaceIds \cup {Unpublished} :
       /\ placeOf' = [placeOf EXCEPT ![s] = p]
       /\ Post(s, IF p = Unpublished THEN <<"anon", DocOf(s)>> ELSE <<"place", p>>)
  /\ UNCHANGED <<cast, answers, lastReady, missed, serverVars, moves, mishaps>>

\* The document is published, or published as another place.  The watcher of
\* PlaceId posts unless the throttle holds it back; the heartbeat makes up for it.
Publish(s, p) ==
  /\ window[s] = "open" /\ KindOf(s) = "edit"
  /\ placeOf[s] # p /\ moves < cast.moves
  /\ moves' = moves + 1
  /\ placeOf' = [placeOf EXCEPT ![s] = p]
  /\ \/ Post(s, <<"place", p>>)
     \/ UNCHANGED posts
  /\ UNCHANGED <<cast, window, answers, lastReady, missed, serverVars, mishaps>>

\* A poll is answered 401 or knownInstance: false, or the heartbeat sees that
\* the id is no longer the one registered last.
NeedsReady(s) ==
  \/ s \notin DOMAIN instances
  \/ lastReady[s] # NoId /\ lastReady[s] # CurrentId(s)

Repost(s) ==
  /\ window[s] = "open" /\ NeedsReady(s)
  /\ [by |-> s, id |-> CurrentId(s)] \notin posts
  /\ Post(s, CurrentId(s))
  /\ UNCHANGED <<studioVars, answers, serverVars, moves, mishaps>>

\* The answer of /ready.  A refusal (409) is tried again after a while.
ReadyAnswered(a) ==
  /\ a \in answers
  /\ answers' = answers \ {a}
  /\ lastReady' = IF a.ok /\ window[a.by] = "open" THEN [lastReady EXCEPT ![a.by] = a.id]
                  ELSE lastReady
  /\ missed' = IF a.by \in DOMAIN instances /\ instances[a.by].id # a.id THEN missed \cup {a.by}
               ELSE missed
  /\ UNCHANGED <<cast, window, placeOf, posts, serverVars, moves, mishaps>>
-----------------------------------------------------------------------------
(* The bridge: registerInstance and unregisterInstance *)

ResolveAlias(i) == IF i \in DOMAIN aliases THEN aliases[i] ELSE i

Registers(m, i, r) == \E s \in DOMAIN m : m[s].id = i /\ m[s].role = r

Failed(q) == [NoRequest EXCEPT !.at = "failed"]

\* Fault: only the requests the session holds are failed.
DropsHeld(q, c, s, left) == q[c].holder = s
\* A request is failed when no registration is left for its target, or the
\* session that goes had it in hand.
DropsRequest(q, c, s, left) ==
  \/ ~ Registers(left, q[c].id, q[c].role)
  \/ q[c].holder = s

\* unregisterInstance(s), with m the registrations and q the requests.
Without(m, s) == [t \in DOMAIN m \ {s} |-> m[t]]
AfterLoss(m, q, s) ==
  [c \in Requests |-> IF c \in Live /\ DropsRequest(q, c, s, Without(m, s)) THEN Failed(q[c]) ELSE q[c]]

Unregister(s) ==
  /\ instances' = Without(instances, s)
  /\ requests' = AfterLoss(instances, requests, s)

\* migratePendingRequests: the requests of every role move, though only the
\* session with this role does; the others are adrift.
Migrated(q, from, to, role) ==
  [c \in Requests |->
     IF c \in Live /\ q[c].id = from
     THEN [q[c] EXCEPT !.id = to, !.adrift = q[c].adrift \/ q[c].role # role] ELSE q[c]]

Prior(s) == IF s \in DOMAIN instances THEN instances[s].id ELSE NoId

\* Fault: the numbers begin with 0.
LowestUnusedFromZero(s, i) ==
  LET used == {instances[t].role : t \in {x \in DOMAIN instances \ {s} : instances[x].id = i}}
  IN  CHOOSE r \in {"client"} \X (0..Cardinality(Sessions)) :
        r \notin used /\ \A k \in 0..(r[2] - 1) : <<"client", k>> \in used

\* The lowest number no other client of the instance has.
LowestUnused(s, i) ==
  LET used == {instances[t].role : t \in {x \in DOMAIN instances \ {s} : instances[x].id = i}}
  IN  CHOOSE r \in ClientRoles : r \notin used /\ \A l \in ClientRoles : l[2] < r[2] => l \in used

AssignedRole(s, i) ==
  IF KindOf(s) # "client" THEN <<KindOf(s)>>
  ELSE IF s \in DOMAIN instances THEN instances[s].role ELSE LowestUnused(s, i)

\* Fault: a session already registered is not compared with the others.
RivalsOfNew(s, i, r) ==
  {t \in DOMAIN instances \ {s} : s \notin DOMAIN instances /\ instances[t].id = i /\ instances[t].role = r}
Rivals(s, i, r) == {t \in DOMAIN instances \ {s} : instances[t].id = i /\ instances[t].role = r}

Refuses(s, i) == KindOf(s) # "edit" /\ Rivals(s, i, AssignedRole(s, i)) # {}

\* registerInstance for session s as i.  The alias is made and the requests move
\* before a duplicate is refused; an edit session takes the place of the other.
Register(s, i) ==
  LET moved  == Prior(s) \notin {NoId, i}
      queue  == IF moved THEN Migrated(requests, Prior(s), i, instances[s].role) ELSE requests
      role   == AssignedRole(s, i)
      rivals == Rivals(s, i, role)
      keeps  == [t \in (DOMAIN instances \ rivals) \cup {s} |->
                   IF t = s THEN [id |-> i, role |-> role] ELSE instances[t]]
  IN  /\ aliases' = IF moved THEN [a \in DOMAIN aliases \cup {Prior(s)} |->
                                     IF a = Prior(s) THEN i ELSE aliases[a]]
                    ELSE aliases
      /\ instances' = IF Refuses(s, i) THEN instances ELSE keeps
      /\ requests' = IF Refuses(s, i) \/ rivals = {} THEN queue
                     ELSE AfterLoss(instances, queue, CHOOSE t \in rivals : TRUE)

\* POST /ready; posts of one session may overtake each other.
ReadyArrives(m) ==
  /\ m \in posts
  /\ posts' = posts \ {m}
  /\ Register(m.by, m.id)
  /\ answers' = answers \cup {[by |-> m.by, ok |-> ~Refuses(m.by, m.id), id |-> m.id]}
  /\ UNCHANGED <<studioVars, moves, mishaps>>

\* The call fails in the plugin, before or after the server saw it.
ReadyFails(m) ==
  /\ m \in posts /\ Mishap
  /\ posts' = posts \ {m}
  /\ \/ UNCHANGED <<missed, serverVars>>
     \/ Register(m.by, m.id) /\ missed' = missed \cup {m.by}
  /\ UNCHANGED <<cast, window, placeOf, lastReady, answers, moves>>

\* The Studio ends; its POST /disconnect arrives or is lost.
Close(s) ==
  /\ window[s] = "open"
  /\ window' = [window EXCEPT ![s] = "closed"]
  /\ \/ Unregister(s)
     \/ UNCHANGED <<instances, requests>>
  /\ UNCHANGED <<cast, placeOf, posts, answers, lastReady, missed, aliases, moves, mishaps>>

\* cleanupStaleInstances: a session that is gone, or was throttled for long.
Reap(s) ==
  /\ s \in DOMAIN instances
  /\ \/ window[s] = "closed" /\ UNCHANGED mishaps
     \/ window[s] = "open" /\ Mishap
  /\ Unregister(s)
  /\ UNCHANGED <<studioVars, posts, answers, aliases, moves>>

\* cleanupStaleAliases: an old alias of an id nobody has.
ForgetAlias(i) ==
  /\ i \in DOMAIN aliases
  /\ \A s \in DOMAIN instances : instances[s].id # aliases[i]
  /\ aliases' = [a \in DOMAIN aliases \ {i} |-> aliases[a]]
  /\ UNCHANGED <<studioVars, posts, answers, instances, requests, moves, mishaps>>

ServerRestarts ==
  /\ Mishap
  /\ instances' = [s \in {} |-> NoId]
  /\ aliases' = [i \in {} |-> NoId]
  /\ requests' = [c \in Requests |-> IF requests[c].at = "none" THEN requests[c] ELSE Failed(requests[c])]
  /\ UNCHANGED <<studioVars, posts, answers, moves>>
-----------------------------------------------------------------------------
(* Requests: resolveTarget, sendRequest, getPendingRequestForSession *)

\* matchingInstancesForInstanceId
Matching(i) == {s \in DOMAIN instances : instances[s].id \in {i, ResolveAlias(i)}}

RoutingKeys == {ResolveAlias(instances[s].id) : s \in DOMAIN instances}

\* resolveTarget: the sessions a call may be sent to; none is an error.
Choices(named, wants) ==
  LET matching == IF named # Anywhere THEN Matching(named)
                  ELSE IF Cardinality(RoutingKeys) = 1 THEN UNION {Matching(k) : k \in RoutingKeys}
                  ELSE {}
  IN  {s \in matching :
         \/ wants = instances[s].role
         \/ wants = AnyRole /\ (Cardinality(matching) = 1 \/ instances[s].role = <<"edit">>)}

ResolveTarget(c, named, wants) ==
  /\ requests[c].at = "none"
  /\ \E s \in Choices(named, wants) :
       requests' = [requests EXCEPT ![c] =
         [NoRequest EXCEPT !.at = "chosen", !.id = instances[s].id, !.role = instances[s].role]]
  /\ UNCHANGED <<studioVars, posts, answers, instances, aliases, moves, mishaps>>

\* sendRequest does not look whether the target is still there.
SendRequest(c) ==
  /\ requests[c].at = "chosen"
  /\ requests' = [requests EXCEPT ![c].at = "queued",
                    ![c].adrift = ~ Registers(instances, requests[c].id, requests[c].role)]
  /\ UNCHANGED <<studioVars, posts, answers, instances, aliases, moves, mishaps>>

HandOver(c, s) ==
  /\ requests[c].at = "queued" /\ s \in DOMAIN instances /\ window[s] = "open"
  /\ instances[s].id = requests[c].id /\ instances[s].role = requests[c].role
  /\ requests' = [requests EXCEPT ![c].at = "held", ![c].holder = s]
  /\ UNCHANGED <<studioVars, posts, answers, instances, aliases, moves, mishaps>>

\* Answered by the Studio that has it, or timed out.
Settle(c) ==
  /\ c \in Live
  /\ requests' = [requests EXCEPT ![c] = Failed(requests[c])]
  /\ UNCHANGED <<studioVars, posts, answers, instances, aliases, moves, mishaps>>
-----------------------------------------------------------------------------
RoutingNext ==
  \/ \E s \in Sessions : Open(s) \/ Repost(s) \/ Close(s) \/ Reap(s)
  \/ \E s \in Sessions, p \in PlaceIds : Publish(s, p)
  \/ \E m \in posts : ReadyArrives(m) \/ ReadyFails(m)
  \/ \E a \in answers : ReadyAnswered(a)
  \/ \E i \in InstanceIds : ForgetAlias(i)
  \/ ServerRestarts
  \/ \E c \in Requests, i \in InstanceIds \cup {Anywhere}, r \in Roles \cup {AnyRole} : ResolveTarget(c, i, r)
  \/ \E c \in Requests, s \in Sessions : HandOver(c, s)
  \/ \E c \in Requests : SendRequest(c) \/ Settle(c)

RoutingSpec == RoutingInit /\ [][RoutingNext]_routingVars

\* Calls of the plugin are answered, its heartbeat and polls go on, and the
\* sweep of the bridge runs on a timer.
RoutingFairness ==
  /\ \A s \in Sessions : WF_routingVars(Repost(s)) /\ WF_routingVars(Reap(s) /\ window[s] = "closed")
  /\ \A s \in Sessions, i \in InstanceIds : WF_routingVars(ReadyArrives([by |-> s, id |-> i]))
  /\ \A s \in Sessions, i \in InstanceIds, ok \in BOOLEAN :
       WF_routingVars(ReadyAnswered([by |-> s, ok |-> ok, id |-> i]))
-----------------------------------------------------------------------------
\* Type correctness.
RoutingTypeOK ==
  /\ cast \in Casts
  /\ window \in [Sessions -> {"new", "open", "closed"}]
  /\ placeOf \in [Sessions -> PlaceIds \cup {Unpublished}]
  /\ posts \subseteq [by : Sessions, id : InstanceIds]
  /\ answers \subseteq [by : Sessions, ok : BOOLEAN, id : InstanceIds]
  /\ lastReady \in [Sessions -> InstanceIds \cup {NoId}]
  /\ missed \subseteq Sessions
  /\ DOMAIN instances \subseteq Sessions
  /\ \A s \in DOMAIN instances : instances[s] \in [id : InstanceIds, role : Roles]
  /\ DOMAIN aliases \subseteq InstanceIds /\ \A i \in DOMAIN aliases : aliases[i] \in InstanceIds
  /\ requests \in [Requests -> [at : {"none", "chosen", "queued", "held", "failed"},
                                id : InstanceIds \cup {NoId}, role : Roles \cup {AnyRole},
                                holder : Sessions \cup {NoSession}, adrift : BOOLEAN]]
  /\ moves \in 0..cast.moves /\ mishaps \in 0..cast.mishaps

\* An instance and a role name at most one Studio, whatever ids change and
\* whichever posts overtake each other: a request has one possible reader.
OnePerTarget ==
  \A s, t \in DOMAIN instances : instances[s] = instances[t] => s = t

\* A request that waits has a Studio that may fetch it, through every change of
\* id, take-over and disconnect.  The exceptions
\* wait for their timeout: a target that went away between resolveTarget and
\* sendRequest, a request moved along with a Studio of another role.
WaitingHasReader ==
  \A c \in Live : Registers(instances, requests[c].id, requests[c].role) \/ requests[c].adrift

\* A Studio that no other open Studio shares its id and role with ends up
\* registered under the id it has, if no answer of a registration was lost or late.
SettlesAlone ==
  \A s \in Sessions :
    LET alone == /\ window[s] = "open" /\ s \notin missed
                 /\ \A t \in Sessions \ {s} :
                      window[t] = "open" /\ KindOf(t) = KindOf(s) => CurrentId(t) # CurrentId(s)
    IN  <>[]alone => <>[](s \in DOMAIN instances /\ instances[s].id = CurrentId(s))

\* A call that names the id of a registered Studio is sent to that id.
\* (docs/tools-reference.md:17, bridge-service.ts:932.)
NamedIdIsChosen ==
  [][\A c \in Requests, i \in InstanceIds, r \in Roles :
       ResolveTarget(c, i, r) /\ Registers(instances, i, r) => requests'[c].id = i]_routingVars

\* One of two edit sessions of a place comes to own it for good.
\* (bridge-service.ts:633-635)
OwnerSettles ==
  \A s, t \in Sessions :
    <>[](/\ window[s] = "open" /\ window[t] = "open" /\ KindOf(s) = "edit" /\ KindOf(t) = "edit"
         /\ CurrentId(s) = CurrentId(t))
    => <>[](s \in DOMAIN instances) \/ <>[](t \in DOMAIN instances)
=============================================================================
