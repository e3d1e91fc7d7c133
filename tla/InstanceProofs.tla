--------------------------- MODULE InstanceProofs ----------------------------
(*****************************************************************************)
(* The places the server knows and what happens to them: how a session is    *)
(* registered and a call routed to it, the Studio processes the server       *)
(* launches, the players of a test and the end of a play session.            *)
(*****************************************************************************)
EXTENDS InstanceRouting, ManagedStudios, ClientBroker, PlayControl,
        InductionLemmas, FiniteSetTheorems

------------------------------------------------------------------------------
(*****************************************************************************)
(* Registration and routing, for any sessions, instances and calls.          *)
(*****************************************************************************)

\* A registration bears the kind of its session.
RolesAreKinds ==
  \A s \in DOMAIN instances : KindOf(s) # "client" => instances[s].role = <<KindOf(s)>>

RoutingInv == RoutingTypeOK /\ OnePerTarget /\ RolesAreKinds /\ WaitingHasReader
-----------------------------------------------------------------------------
\* Fewer clients than numbers: one is always left for a client that registers.
LEMMA UnusedRoleExists ==
  ASSUME RoutingTypeOK, NEW s \in Sessions, NEW D, D \subseteq DOMAIN instances \ {s}
  PROVE  \E n \in 1..Cardinality(Sessions) : \A t \in D : instances[t].role # <<"client", n>>
<1> DEFINE N == Cardinality(Sessions)
<1>0. IsFiniteSet(Sessions) /\ N \in Nat
  BY RoutingAssumption, FS_CardinalityType
<1>1. IsFiniteSet(D) /\ Cardinality(D) < N
  <2>1. IsFiniteSet(Sessions \ {s}) /\ Cardinality(Sessions \ {s}) = N - 1
    BY <1>0, FS_RemoveElement
  <2>2. D \in SUBSET (Sessions \ {s})
    BY DEF RoutingTypeOK
  <2>3. IsFiniteSet(D) /\ Cardinality(D) <= N - 1
    BY <2>1, <2>2, FS_Subset
  <2>4. Cardinality(D) \in Nat
    BY <2>3, FS_CardinalityType
  <2> QED BY <1>0, <2>3, <2>4
<1>2. IsFiniteSet(1..N) /\ Cardinality(1..N) = N
  <2>1. 1 \in Int /\ N \in Int
    BY <1>0
  <2>2. IsFiniteSet(1..N) /\ Cardinality(1..N) = IF 1 > N THEN 0 ELSE N - 1 + 1
    BY <2>1, FS_Interval
  <2> QED BY <1>0, <2>2
<1>3. SUFFICES ASSUME \A n \in 1..N : \E t \in D : instances[t].role = <<"client", n>>
               PROVE  FALSE
  OBVIOUS
<1> DEFINE f == [n \in 1..N |-> CHOOSE t \in D : instances[t].role = <<"client", n>>]
<1>4. \A n \in 1..N : f[n] \in D /\ instances[f[n]].role = <<"client", n>>
  BY <1>3
<1>5. f \in [1..N -> D]
  BY <1>4
<1> HIDE DEF f
<1>6. PICK m, n \in 1..N : m # n /\ f[m] = f[n]
  <2> DEFINE K == 1..N
  <2>1. IsFiniteSet(K) /\ IsFiniteSet(D) /\ Cardinality(D) < Cardinality(K) /\ f \in [K -> D]
    BY <1>1, <1>2, <1>5
  <2> HIDE DEF K
  <2>2. \E m, n \in K : m # n /\ f[m] = f[n]
    BY <2>1, FS_PigeonHole
  <2> QED BY <2>2 DEF K
<1>7. <<"client", m>> = <<"client", n>>
  BY <1>4, <1>6
<1> QED BY <1>6, <1>7

LEMMA AssignedRoleType ==
  ASSUME RoutingTypeOK, NEW s \in Sessions, NEW i
  PROVE  AssignedRole(s, i) \in Roles
<1>1. KindOf(s) \in Kinds
  BY RoutingAssumption DEF RoutingTypeOK, KindOf
<1>2. CASE KindOf(s) # "client"
  <2>1. AssignedRole(s, i) = <<KindOf(s)>>
    BY <1>2 DEF AssignedRole
  <2>2. KindOf(s) = "edit" \/ KindOf(s) = "server"
    BY <1>1, <1>2 DEF Kinds
  <2> QED BY <2>1, <2>2 DEF Roles
<1>3. CASE KindOf(s) = "client" /\ s \in DOMAIN instances
  <2>1. AssignedRole(s, i) = instances[s].role
    BY <1>3 DEF AssignedRole
  <2> QED BY <1>3, <2>1 DEF RoutingTypeOK
<1>4. CASE KindOf(s) = "client" /\ s \notin DOMAIN instances
  <2> DEFINE D == {x \in DOMAIN instances \ {s} : instances[x].id = i}
             used == {instances[t].role : t \in D}
             free == {n \in 1..Cardinality(Sessions) : <<"client", n>> \notin used}
  <2>1. free # {}
    <3>1. \E n \in 1..Cardinality(Sessions) : \A t \in D : instances[t].role # <<"client", n>>
      BY UnusedRoleExists
    <3> QED BY <3>1
  <2>2. free \subseteq Nat
    OBVIOUS
  <2>3. PICK n \in free : \A m \in free : n <= m
    <3> HIDE DEF free
    <3> QED BY <2>1, <2>2, LeastNatural
  <2> DEFINE Lowest(r) == r \notin used /\ \A l \in ClientRoles : l[2] < r[2] => l \in used
  <2>4. <<"client", n>> \in ClientRoles
    BY DEF ClientRoles
  <2>5. ASSUME NEW l \in ClientRoles, l[2] < n PROVE l \in used
    <3>1. l = <<"client", l[2]>> /\ l[2] \in 1..Cardinality(Sessions)
      BY DEF ClientRoles
    <3>2. l[2] \notin free
      <4>1. l[2] \in Nat /\ n \in Nat
        BY <3>1, <2>2
      <4> QED BY <4>1, <2>3, <2>5
    <3> QED BY <3>1, <3>2
  <2>6. Lowest(<<"client", n>>)
    BY <2>5
  <2>7. LowestUnused(s, i) = CHOOSE r \in ClientRoles : Lowest(r)
    BY DEF LowestUnused
  <2>8. LowestUnused(s, i) \in ClientRoles
    <3> HIDE DEF Lowest
    <3> QED BY <2>4, <2>6, <2>7
  <2>9. AssignedRole(s, i) = LowestUnused(s, i)
    BY <1>4 DEF AssignedRole
  <2> QED BY <2>8, <2>9 DEF Roles
<1> QED BY <1>2, <1>3, <1>4
-----------------------------------------------------------------------------
RequestRecords == [at : {"none", "chosen", "queued", "held", "failed"},
                                id : InstanceIds \cup {NoId}, role : Roles \cup {AnyRole},
                                holder : Sessions \cup {NoSession}, adrift : BOOLEAN]

LEMMA RequestTypes == ASSUME RoutingTypeOK PROVE requests \in [Requests -> RequestRecords]
BY DEF RoutingTypeOK, RequestRecords

LEMMA FailedRecord ==
  ASSUME NEW q PROVE Failed(q) \in RequestRecords /\ Failed(q).at = "failed"
BY DEF Failed, NoRequest, RequestRecords

\* Dropping a session keeps the others and every request that has a reader left.
LEMMA WithoutKeeps ==
  ASSUME RoutingInv, NEW s \in Sessions, Unregister(s)
  PROVE  /\ DOMAIN instances' \subseteq DOMAIN instances
         /\ \A t \in DOMAIN instances' : instances'[t] = instances[t]
         /\ requests' \in [Requests -> RequestRecords]
         /\ WaitingHasReader'
<1>1. instances' = [t \in DOMAIN instances \ {s} |-> instances[t]]
  BY DEF Unregister, Without
<1>2. \A c \in Requests : \/ requests'[c] = Failed(requests[c])
                          \/ /\ requests'[c] = requests[c]
                             /\ c \in Live => Registers(instances', requests[c].id, requests[c].role)
  BY <1>1 DEF Unregister, AfterLoss, DropsRequest, Without
<1>3. \A q : Failed(q) \in RequestRecords /\ Failed(q).at = "failed"
  BY FailedRecord
<1>4. requests' = AfterLoss(instances, requests, s)
  BY DEF Unregister
<1>5. requests' = [c \in Requests |-> requests'[c]]
  BY <1>4 DEF AfterLoss
<1>6. \A c \in Requests :
        requests'[c] \in RequestRecords
  BY <1>2, <1>3, RequestTypes DEF RoutingInv
<1>7. WaitingHasReader'
  <2> SUFFICES ASSUME NEW c \in Live'
               PROVE  Registers(instances', requests'[c].id, requests'[c].role)
    BY DEF WaitingHasReader
  <2>1. c \in Requests /\ requests'[c].at \in {"queued", "held"}
    BY DEF Live
  <2>2. requests'[c] # Failed(requests[c])
    BY <1>3, <2>1
  <2>3. requests'[c] = requests[c] /\ c \in Live
    BY <1>2, <2>1, <2>2 DEF Live
  <2> QED BY <1>2, <2>1, <2>2, <2>3
<1> QED BY <1>1, <1>5, <1>6, <1>7
-----------------------------------------------------------------------------
Registrations == [id : InstanceIds, role : Roles]

LEMMA InstanceTypes ==
  ASSUME RoutingTypeOK
  PROVE  /\ DOMAIN instances \subseteq Sessions
         /\ \A t \in DOMAIN instances : instances[t] \in Registrations
         /\ DOMAIN aliases \subseteq InstanceIds /\ \A a \in DOMAIN aliases : aliases[a] \in InstanceIds
BY DEF RoutingTypeOK, Registrations

LEMMA PriorType ==
  ASSUME RoutingTypeOK, NEW s \in Sessions
  PROVE  /\ s \in DOMAIN instances => Prior(s) = instances[s].id /\ Prior(s) # NoId
         /\ s \notin DOMAIN instances => Prior(s) = NoId
         /\ Prior(s) # NoId => Prior(s) \in InstanceIds /\ s \in DOMAIN instances
<1>1. \A x \in InstanceIds : x # NoId
  BY DEF InstanceIds, NoId
<1>2. s \in DOMAIN instances => instances[s].id \in InstanceIds
  BY DEF RoutingTypeOK
<1> QED BY <1>1, <1>2 DEF Prior

\* A session that stays registered keeps its role.
LEMMA RoleStays ==
  ASSUME RoutingInv, NEW s \in DOMAIN instances, NEW i
  PROVE  AssignedRole(s, i) = instances[s].role
BY DEF AssignedRole, RoutingInv, RolesAreKinds

\* What becomes of the registrations: s is the only one of its id and role.
LEMMA RegisterInstances ==
  ASSUME RoutingInv, NEW s \in Sessions, NEW i \in InstanceIds, Register(s, i), cast' = cast
  PROVE  /\ DOMAIN instances' \subseteq Sessions
         /\ \A t \in DOMAIN instances' : instances'[t] \in Registrations
         /\ OnePerTarget' /\ RolesAreKinds'
<1> DEFINE role == AssignedRole(s, i)
           new == [id |-> i, role |-> role]
<1>1. role \in Roles /\ (KindOf(s) # "client" => role = <<KindOf(s)>>)
  <2>1. role \in Roles
    BY AssignedRoleType DEF RoutingInv
  <2>2. KindOf(s) # "client" => role = <<KindOf(s)>>
    BY DEF AssignedRole
  <2> QED BY <2>1, <2>2
<1>2. DOMAIN instances \subseteq Sessions /\ \A t \in DOMAIN instances : instances[t] \in Registrations
  BY InstanceTypes DEF RoutingInv
<1>3. CASE Refuses(s, i)
  <2>1. instances' = instances
    BY <1>3 DEF Register
  <2> QED BY <2>1, <1>2 DEF RoutingInv, OnePerTarget, RolesAreKinds, KindOf
<1>4. CASE ~ Refuses(s, i)
  <2> DEFINE D == (DOMAIN instances \ Rivals(s, i, role)) \cup {s}
  <2>1. instances' = [t \in D |-> IF t = s THEN new ELSE instances[t]]
    BY <1>4 DEF Register
  <2>2. new \in Registrations /\ new.id = i /\ new.role = role
    BY <1>1 DEF Registrations
  <2>3. \A t \in D : t # s => t \in DOMAIN instances /\ instances[t] # new
    BY <2>2 DEF Rivals
  <2> HIDE DEF new, role
  <2>4. DOMAIN instances' = D /\ instances'[s] = new
        /\ \A t \in D : t # s => t \in DOMAIN instances /\ instances'[t] = instances[t]
                                 /\ instances'[t] # new
    BY <2>1, <2>3
  <2> HIDE DEF D
  <2>5. DOMAIN instances' \subseteq Sessions
    BY <1>2, <2>4
  <2>6. \A t \in DOMAIN instances' : instances'[t] \in Registrations
    BY <1>2, <2>2, <2>4
  <2>7. OnePerTarget'
    <3> SUFFICES ASSUME NEW t \in D, NEW u \in D, instances'[t] = instances'[u] PROVE t = u
      BY <2>4 DEF OnePerTarget
    <3>1. CASE t = s
      BY <2>4, <3>1
    <3>2. CASE u = s
      BY <2>4, <3>2
    <3>3. CASE t # s /\ u # s
      BY <2>4, <3>3 DEF RoutingInv, OnePerTarget
    <3> QED BY <3>1, <3>2, <3>3
  <2>8. RolesAreKinds'
    <3> SUFFICES ASSUME NEW t \in D, KindOf(t) # "client" PROVE instances'[t].role = <<KindOf(t)>>
      BY <2>4 DEF RolesAreKinds, KindOf
    <3>1. CASE t = s
      BY <1>1, <2>2, <2>4, <3>1
    <3>2. CASE t # s
      BY <2>4, <3>2 DEF RoutingInv, RolesAreKinds
    <3> QED BY <3>1, <3>2
  <2> QED BY <2>5, <2>6, <2>7, <2>8
<1> QED BY <1>3, <1>4

LEMMA RegisterAliases ==
  ASSUME RoutingInv, NEW s \in Sessions, NEW i \in InstanceIds, Register(s, i)
  PROVE  DOMAIN aliases' \subseteq InstanceIds /\ \A a \in DOMAIN aliases' : aliases'[a] \in InstanceIds
<1>1. DOMAIN aliases \subseteq InstanceIds /\ \A a \in DOMAIN aliases : aliases[a] \in InstanceIds
  BY InstanceTypes DEF RoutingInv
<1>2. CASE Prior(s) \in {NoId, i}
  BY <1>1, <1>2 DEF Register
<1>3. CASE Prior(s) \notin {NoId, i}
  <2>1. aliases' = [a \in DOMAIN aliases \cup {Prior(s)} |-> IF a = Prior(s) THEN i ELSE aliases[a]]
    BY <1>3 DEF Register
  <2>2. Prior(s) \in InstanceIds
    BY <1>3, PriorType DEF RoutingInv
  <2> QED BY <1>1, <2>1, <2>2
<1> QED BY <1>2, <1>3

\* The requests after a change of id: those of the old id have the new one.
LEMMA MigratedRequests ==
  ASSUME RoutingInv, NEW s \in DOMAIN instances, NEW i \in InstanceIds, NEW q,
         q = Migrated(requests, Prior(s), i, instances[s].role)
  PROVE  /\ q \in [Requests -> RequestRecords]
         /\ \A c \in Requests :
              /\ q[c].at = requests[c].at
              /\ c \in Live /\ requests[c].id = Prior(s)
                   => q[c].id = i /\ (q[c].role = instances[s].role \/ q[c].adrift)
              /\ c \notin Live \/ requests[c].id # Prior(s) => q[c] = requests[c]
<1>1. requests \in [Requests -> RequestRecords]
  BY RequestTypes DEF RoutingInv
<1>2. \A c \in Requests : c \notin Live \/ requests[c].id # Prior(s) => q[c] = requests[c]
  BY DEF Migrated
<1>3. ASSUME NEW c \in Requests, c \in Live, requests[c].id = Prior(s)
      PROVE  /\ q[c] \in RequestRecords /\ q[c].at = requests[c].at
             /\ q[c].id = i /\ (q[c].role = instances[s].role \/ q[c].adrift)
  <2> DEFINE a == requests[c].adrift \/ requests[c].role # instances[s].role
  <2>1. q[c] = [requests[c] EXCEPT !.id = i, !.adrift = a]
    BY <1>3 DEF Migrated
  <2>2. requests[c] \in RequestRecords /\ a \in BOOLEAN
    BY <1>1
  <2>3. a = FALSE => requests[c].role = instances[s].role
    OBVIOUS
  <2> HIDE DEF a
  <2>4. q[c] \in RequestRecords /\ q[c].at = requests[c].at /\ q[c].id = i
    BY <2>1, <2>2 DEF RequestRecords
  <2>5. q[c].role = requests[c].role
    BY <2>1, <2>2 DEF RequestRecords
  <2>6. q[c].adrift = a
    BY <2>1, <2>2 DEF RequestRecords
  <2> QED BY <2>2, <2>3, <2>4, <2>5, <2>6
<1>4. q = [c \in Requests |-> q[c]]
  BY DEF Migrated
<1>5. \A c \in Requests : q[c] \in RequestRecords /\ q[c].at = requests[c].at
  BY <1>1, <1>2, <1>3
<1>6. q \in [Requests -> RequestRecords]
  BY <1>4, <1>5
<1> QED BY <1>2, <1>3, <1>5, <1>6

\* What becomes of the requests: each that waits has a reader among the new
\* registrations, is adrift or has failed.
LEMMA RegisterRequests ==
  ASSUME RoutingInv, NEW s \in Sessions, NEW i \in InstanceIds, Register(s, i)
  PROVE  requests' \in [Requests -> RequestRecords] /\ WaitingHasReader'
<1> DEFINE role == AssignedRole(s, i)
           rivals == Rivals(s, i, role)
           moved == Prior(s) \notin {NoId, i}
           queue == IF moved THEN Migrated(requests, Prior(s), i, instances[s].role) ELSE requests
           Reader(m, c) == Registers(m, queue[c].id, queue[c].role) \/ queue[c].adrift
<1>1. requests \in [Requests -> RequestRecords]
  BY RequestTypes DEF RoutingInv
<1>2. moved => s \in DOMAIN instances /\ Prior(s) = instances[s].id /\ role = instances[s].role
  BY PriorType, RoleStays DEF RoutingInv
<1>3. ~ moved /\ s \in DOMAIN instances => instances[s].id = i /\ role = instances[s].role
  BY PriorType, RoleStays DEF RoutingInv
<1>4. queue \in [Requests -> RequestRecords] /\ \A c \in Requests : queue[c].at = requests[c].at
  <2>1. CASE moved
    BY <1>2, <2>1, MigratedRequests
  <2>2. CASE ~ moved
    BY <1>1, <2>2
  <2> QED BY <2>1, <2>2
\* A request of the queue that waited for another session still may.
<1>5. ASSUME NEW c \in Live
      PROVE  \/ queue[c].adrift
             \/ \E t \in DOMAIN instances \ {s} :
                  instances[t].id = queue[c].id /\ instances[t].role = queue[c].role
             \/ queue[c].id = i /\ queue[c].role = role
  <2>0. c \in Requests
    BY DEF Live
  <2>1. requests[c].adrift \/ \E t \in DOMAIN instances : /\ instances[t].id = requests[c].id
                                                           /\ instances[t].role = requests[c].role
    BY DEF RoutingInv, WaitingHasReader, Registers
  <2>2. CASE moved /\ requests[c].id = Prior(s)
    BY <1>2, <2>0, <2>2, MigratedRequests
  <2>3. CASE moved /\ requests[c].id # Prior(s)
    <3>1. queue[c] = requests[c]
      BY <1>2, <2>0, <2>3, MigratedRequests
    <3> QED BY <1>2, <2>1, <2>3, <3>1
  <2>4. CASE ~ moved
    BY <1>3, <2>1, <2>4
  <2> QED BY <2>2, <2>3, <2>4
<1>6. CASE Refuses(s, i)
  <2>1. requests' = queue /\ instances' = instances
    BY <1>6 DEF Register
  <2>2. PICK t \in DOMAIN instances : instances[t].id = i /\ instances[t].role = role
    BY <1>6 DEF Refuses, Rivals
  <2>3. \A c \in Live : Reader(instances, c)
    BY <1>5, <2>2 DEF Registers
  <2>4. Live' = Live
    BY <1>4, <2>1 DEF Live
  <2> HIDE DEF queue
  <2> QED BY <1>4, <2>1, <2>3, <2>4 DEF WaitingHasReader
<1>7. CASE ~ Refuses(s, i)
  <2> DEFINE D == (DOMAIN instances \ rivals) \cup {s}
  <2>1. instances' = [t \in D |-> IF t = s THEN [id |-> i, role |-> role] ELSE instances[t]]
    BY <1>7 DEF Register
  <2>2. /\ s \in DOMAIN instances' /\ instances'[s].id = i /\ instances'[s].role = role
        /\ \A t \in DOMAIN instances \ (rivals \cup {s}) :
             t \in DOMAIN instances' /\ instances'[t] = instances[t]
    BY <2>1
  <2>3. CASE rivals = {}
    <3>1. requests' = queue
      BY <2>3 DEF Register
    <3>2. \A c \in Live : Reader(instances', c)
      BY <1>5, <2>2, <2>3 DEF Registers
    <3>3. Live' = Live
      BY <1>4, <3>1 DEF Live
    <3> HIDE DEF queue
    <3> QED BY <1>4, <3>1, <3>2, <3>3 DEF WaitingHasReader
  <2>4. CASE rivals # {}
    <3> DEFINE t == CHOOSE t \in rivals : TRUE
    <3>1. t \in rivals
      BY <2>4
    \* There is one rival: two would have the same id and role.
    <3>2. rivals = {t}
      <4>1. ASSUME NEW u \in rivals PROVE u = t
        <5>1. instances[u] \in Registrations /\ instances[t] \in Registrations
          BY <3>1, InstanceTypes DEF RoutingInv, Rivals
        <5>2. /\ instances[u].id = i /\ instances[u].role = role
              /\ instances[t].id = i /\ instances[t].role = role
          BY <3>1 DEF Rivals
        <5>3. instances[u] = instances[t]
          BY <5>1, <5>2 DEF Registrations
        <5> QED BY <3>1, <5>3 DEF RoutingInv, OnePerTarget, Rivals
      <4> QED BY <3>1, <4>1
    <3>3. requests' = AfterLoss(instances, queue, t)
      BY <1>7, <2>4 DEF Register
    <3>4. \A c \in Requests : \/ requests'[c] = Failed(queue[c])
                              \/ /\ requests'[c] = queue[c]
                                 /\ c \in Live => Registers(Without(instances, t), queue[c].id, queue[c].role)
      BY <3>3 DEF AfterLoss, DropsRequest
    <3>5. requests' = [c \in Requests |-> requests'[c]]
      BY <3>3 DEF AfterLoss
    <3> HIDE DEF t, queue, rivals
    <3>6. \A c \in Requests : requests'[c] \in RequestRecords
      BY <1>4, <3>4, FailedRecord
    <3>7. ASSUME NEW c \in Live' PROVE Registers(instances', requests'[c].id, requests'[c].role)
                                        \/ requests'[c].adrift
      <4>1. c \in Requests /\ requests'[c].at \in {"queued", "held"}
        BY DEF Live
      <4>2. requests'[c] = queue[c]
        BY <3>4, <4>1, FailedRecord
      <4>3. c \in Live
        BY <1>4, <4>1, <4>2 DEF Live
      <4>4. Registers(Without(instances, t), queue[c].id, queue[c].role)
        BY <3>4, <4>1, <4>3, FailedRecord
      <4>5. PICK u \in DOMAIN instances \ {t} :
              instances[u].id = queue[c].id /\ instances[u].role = queue[c].role
        BY <4>4 DEF Registers, Without
      <4>6. CASE u # s
        BY <2>2, <3>2, <4>2, <4>5, <4>6 DEF Registers
      <4>7. CASE u = s
        <5>1. ~ moved
          <6> SUFFICES ASSUME moved PROVE FALSE
            OBVIOUS
          <6>1. queue[c].id = Prior(s)
            BY <1>2, <4>5, <4>7
          <6>2. queue[c].id = i \/ queue[c].id # Prior(s)
            BY <1>2, <4>1, <4>3, MigratedRequests DEF queue
          <6> QED BY <6>1, <6>2
        <5>2. queue[c].id = i /\ queue[c].role = role
          BY <1>3, <4>5, <4>7, <5>1
        <5> QED BY <2>2, <4>2, <5>2 DEF Registers
      <4> QED BY <4>6, <4>7
    <3> QED BY <3>5, <3>6, <3>7 DEF WaitingHasReader
  <2> QED BY <2>3, <2>4
<1> QED BY <1>6, <1>7
-----------------------------------------------------------------------------
LEMMA InitRoutingInv == RoutingInit => RoutingInv
<1> SUFFICES ASSUME RoutingInit PROVE RoutingInv
  OBVIOUS
<1>1. requests \in [Requests -> RequestRecords]
  BY DEF RoutingInit, NoRequest, RequestRecords
<1>2. Live = {}
  BY DEF RoutingInit, NoRequest, Live
<1>3. DOMAIN instances = {} /\ DOMAIN aliases = {}
  BY DEF RoutingInit
<1>4. moves \in 0..cast.moves /\ mishaps \in 0..cast.mishaps
  BY RoutingAssumption DEF RoutingInit
<1>5. RoutingTypeOK
  BY <1>1, <1>3, <1>4 DEF RoutingInit, RoutingTypeOK, RequestRecords
<1> QED BY <1>2, <1>3, <1>5 DEF RoutingInv, OnePerTarget, RolesAreKinds, WaitingHasReader

LEMMA CurrentIdType ==
  ASSUME RoutingTypeOK, NEW s \in Sessions PROVE CurrentId(s) \in InstanceIds
<1>1. DocOf(s) \in Docs
  BY RoutingAssumption DEF RoutingTypeOK, DocOf, Docs
<1>2. placeOf[s] \in PlaceIds \cup {Unpublished}
  BY DEF RoutingTypeOK
<1> QED BY <1>1, <1>2 DEF CurrentId, InstanceIds

LEMMA OpenIdType ==
  ASSUME RoutingTypeOK, NEW s \in Sessions, NEW p \in PlaceIds \cup {Unpublished}
  PROVE  (IF p = Unpublished THEN <<"anon", DocOf(s)>> ELSE <<"place", p>>) \in InstanceIds
<1>1. DocOf(s) \in Docs
  BY RoutingAssumption DEF RoutingTypeOK, DocOf, Docs
<1> QED BY <1>1 DEF InstanceIds

\* The parts of the type invariant that a step of the plugin changes, and those
\* that a step of the bridge changes.
StudioTypes ==
  /\ cast \in Casts
  /\ window \in [Sessions -> {"new", "open", "closed"}]
  /\ placeOf \in [Sessions -> PlaceIds \cup {Unpublished}]
  /\ lastReady \in [Sessions -> InstanceIds \cup {NoId}]
  /\ missed \subseteq Sessions
MessageTypes ==
  /\ posts \subseteq [by : Sessions, id : InstanceIds]
  /\ answers \subseteq [by : Sessions, ok : BOOLEAN, id : InstanceIds]
BoundTypes == moves \in 0..cast.moves /\ mishaps \in 0..cast.mishaps
ServerTypes ==
  /\ DOMAIN instances \subseteq Sessions
  /\ \A s \in DOMAIN instances : instances[s] \in Registrations
  /\ DOMAIN aliases \subseteq InstanceIds /\ \A i \in DOMAIN aliases : aliases[i] \in InstanceIds
  /\ requests \in [Requests -> RequestRecords]

LEMMA TypeParts == RoutingTypeOK <=> StudioTypes /\ MessageTypes /\ BoundTypes /\ ServerTypes
BY DEF RoutingTypeOK, StudioTypes, MessageTypes, BoundTypes, ServerTypes, Registrations,
       RequestRecords

\* What the registrations and the requests have to satisfy.
ServerInv == ServerTypes /\ OnePerTarget /\ RolesAreKinds /\ WaitingHasReader

LEMMA MishapBound ==
  ASSUME RoutingTypeOK, Mishap, UNCHANGED <<cast, moves>> PROVE BoundTypes'
<1>1. cast.mishaps \in Nat
  BY RoutingAssumption DEF RoutingTypeOK
<1> QED BY <1>1 DEF RoutingTypeOK, BoundTypes, Mishap

LEMMA RegisterServer ==
  ASSUME RoutingInv, NEW s \in Sessions, NEW i \in InstanceIds, Register(s, i), cast' = cast
  PROVE  ServerInv'
BY RegisterInstances, RegisterAliases, RegisterRequests DEF ServerInv, ServerTypes

LEMMA UnregisterServer ==
  ASSUME RoutingInv, NEW s \in Sessions, Unregister(s), UNCHANGED <<cast, aliases>>
  PROVE  ServerInv'
<1>1. /\ DOMAIN instances' \subseteq DOMAIN instances
      /\ \A t \in DOMAIN instances' : instances'[t] = instances[t]
      /\ requests' \in [Requests -> RequestRecords] /\ WaitingHasReader'
  BY WithoutKeeps
<1>2. ServerTypes'
  BY <1>1, InstanceTypes DEF RoutingInv, ServerTypes
<1>3. OnePerTarget' /\ RolesAreKinds'
  BY <1>1 DEF RoutingInv, OnePerTarget, RolesAreKinds, KindOf
<1> QED BY <1>1, <1>2, <1>3 DEF ServerInv

LEMMA ServerStays ==
  ASSUME RoutingInv, UNCHANGED <<cast, instances, aliases, requests>>
  PROVE  ServerInv'
BY TypeParts DEF RoutingInv, ServerInv, ServerTypes, OnePerTarget, RolesAreKinds, KindOf,
   WaitingHasReader, Live, Registers

\* A request changes on its own: its new value waits only where it is known.
LEMMA RequestChanges ==
  ASSUME RoutingInv, UNCHANGED <<cast, instances, aliases>>, NEW c \in Requests,
         NEW q \in RequestRecords, requests' = [requests EXCEPT ![c] = q],
         q.at \in {"queued", "held"} => Registers(instances, q.id, q.role) \/ q.adrift
  PROVE  ServerInv'
<1>1. requests \in [Requests -> RequestRecords]
  BY RequestTypes DEF RoutingInv
<1>2. ServerTypes'
  BY <1>1, InstanceTypes DEF RoutingInv, ServerTypes
<1>3. OnePerTarget' /\ RolesAreKinds'
  BY DEF RoutingInv, OnePerTarget, RolesAreKinds, KindOf
<1>4. WaitingHasReader'
  BY <1>1 DEF RoutingInv, WaitingHasReader, Live, Registers
<1> QED BY <1>2, <1>3, <1>4 DEF ServerInv
-----------------------------------------------------------------------------
LEMMA InvParts ==
  RoutingInv <=> StudioTypes /\ MessageTypes /\ BoundTypes /\ ServerInv
BY TypeParts DEF RoutingInv, ServerInv

LEMMA StepRoutingInv ==
  ASSUME RoutingInv, [RoutingNext]_routingVars
  PROVE  StudioTypes' /\ MessageTypes' /\ BoundTypes' /\ ServerInv'
<1> DEFINE Goal == StudioTypes' /\ MessageTypes' /\ BoundTypes' /\ ServerInv'
<1>a. RoutingTypeOK /\ StudioTypes /\ MessageTypes /\ BoundTypes
  BY InvParts DEF RoutingInv
<1>b. requests \in [Requests -> RequestRecords]
  BY <1>a, RequestTypes
<1>1. ASSUME NEW s \in Sessions, Open(s) PROVE Goal
  <2>1. ServerInv'
    BY <1>1, ServerStays DEF Open, serverVars
  <2>2. StudioTypes' /\ BoundTypes'
    BY <1>a, <1>1 DEF Open, StudioTypes, BoundTypes
  <2>3. MessageTypes'
    <3>1. PICK p \in PlaceIds \cup {Unpublished} :
            posts' = posts \cup
              {[by |-> s, id |-> IF p = Unpublished THEN <<"anon", DocOf(s)>> ELSE <<"place", p>>]}
      BY <1>1 DEF Open, Post
    <3> DEFINE i == IF p = Unpublished THEN <<"anon", DocOf(s)>> ELSE <<"place", p>>
    <3>2. i \in InstanceIds
      BY <1>a, OpenIdType
    <3>3. posts' = posts \cup {[by |-> s, id |-> i]}
      BY <3>1
    <3> HIDE DEF i
    <3> QED BY <1>a, <1>1, <3>2, <3>3 DEF Open, MessageTypes
  <2> QED BY <2>1, <2>2, <2>3
<1>2. ASSUME NEW s \in Sessions, Repost(s) PROVE Goal
  <2>1. ServerInv'
    BY <1>2, ServerStays DEF Repost, serverVars, studioVars
  <2>2. StudioTypes' /\ BoundTypes'
    BY <1>a, <1>2 DEF Repost, StudioTypes, BoundTypes, studioVars
  <2>3. MessageTypes'
    BY <1>a, <1>2, CurrentIdType DEF Repost, Post, MessageTypes
  <2> QED BY <2>1, <2>2, <2>3
<1>3. ASSUME NEW s \in Sessions, Close(s) PROVE Goal
  <2>1. ServerInv'
    <3>1. CASE Unregister(s)
      BY <1>3, <3>1, UnregisterServer DEF Close
    <3>2. CASE UNCHANGED <<instances, requests>>
      BY <1>3, <3>2, ServerStays DEF Close
    <3> QED BY <1>3, <3>1, <3>2 DEF Close
  <2>2. StudioTypes' /\ MessageTypes' /\ BoundTypes'
    BY <1>a, <1>3 DEF Close, StudioTypes, MessageTypes, BoundTypes
  <2> QED BY <2>1, <2>2
<1>4. ASSUME NEW s \in Sessions, Reap(s) PROVE Goal
  <2>1. ServerInv'
    BY <1>4, UnregisterServer DEF Reap, studioVars
  <2>2. StudioTypes' /\ MessageTypes'
    BY <1>a, <1>4 DEF Reap, StudioTypes, MessageTypes, studioVars
  <2>3. BoundTypes'
    BY <1>a, <1>4, MishapBound DEF Reap, BoundTypes, studioVars
  <2> QED BY <2>1, <2>2, <2>3
<1>5. ASSUME NEW s \in Sessions, NEW p \in PlaceIds, Publish(s, p) PROVE Goal
  <2>1. ServerInv'
    BY <1>5, ServerStays DEF Publish, serverVars
  <2>2. StudioTypes'
    BY <1>a, <1>5 DEF Publish, StudioTypes
  <2>3. MessageTypes'
    BY <1>a, <1>5 DEF Publish, Post, MessageTypes, InstanceIds
  <2>4. BoundTypes'
    <3>1. cast.moves \in Nat
      BY <1>a, RoutingAssumption DEF StudioTypes
    <3> QED BY <1>a, <1>5, <3>1 DEF Publish, BoundTypes
  <2> QED BY <2>1, <2>2, <2>3, <2>4
<1>6. ASSUME NEW m \in posts, ReadyArrives(m) PROVE Goal
  <2>1. m.by \in Sessions /\ m.id \in InstanceIds
    BY <1>a DEF MessageTypes
  <2>2. ServerInv'
    BY <1>6, <2>1, RegisterServer DEF ReadyArrives, studioVars
  <2>3. StudioTypes' /\ BoundTypes'
    BY <1>a, <1>6 DEF ReadyArrives, StudioTypes, BoundTypes, studioVars
  <2> DEFINE ok == ~ Refuses(m.by, m.id)
  <2>4. ok \in BOOLEAN /\ answers' = answers \cup {[by |-> m.by, ok |-> ok, id |-> m.id]}
    BY <1>6 DEF ReadyArrives, Refuses
  <2>5. MessageTypes'
    <3> HIDE DEF ok
    <3> QED BY <1>a, <1>6, <2>1, <2>4 DEF ReadyArrives, MessageTypes
  <2> QED BY <2>2, <2>3, <2>5
<1>7. ASSUME NEW m \in posts, ReadyFails(m) PROVE Goal
  <2>1. m.by \in Sessions /\ m.id \in InstanceIds
    BY <1>a DEF MessageTypes
  <2>2. ServerInv'
    <3>1. CASE UNCHANGED <<missed, serverVars>>
      BY <1>7, <3>1, ServerStays DEF ReadyFails, serverVars
    <3>2. CASE Register(m.by, m.id)
      BY <1>7, <2>1, <3>2, RegisterServer DEF ReadyFails
    <3> QED BY <1>7, <3>1, <3>2 DEF ReadyFails
  <2>3. StudioTypes'
    BY <1>a, <1>7, <2>1 DEF ReadyFails, StudioTypes
  <2>4. MessageTypes'
    BY <1>a, <1>7 DEF ReadyFails, MessageTypes
  <2>5. BoundTypes'
    BY <1>a, <1>7, MishapBound DEF ReadyFails
  <2> QED BY <2>2, <2>3, <2>4, <2>5
<1>8. ASSUME NEW a \in answers, ReadyAnswered(a) PROVE Goal
  <2>1. a.by \in Sessions /\ a.id \in InstanceIds
    BY <1>a DEF MessageTypes
  <2>2. ServerInv'
    BY <1>8, ServerStays DEF ReadyAnswered, serverVars
  <2>3. StudioTypes' /\ MessageTypes' /\ BoundTypes'
    BY <1>a, <1>8, <2>1 DEF ReadyAnswered, StudioTypes, MessageTypes, BoundTypes
  <2> QED BY <2>2, <2>3
<1>9. ASSUME NEW i \in InstanceIds, ForgetAlias(i) PROVE Goal
  <2>1. ServerInv'
    <3>1. ServerTypes /\ OnePerTarget /\ RolesAreKinds /\ WaitingHasReader
      BY InvParts DEF ServerInv
    <3>2. ServerTypes'
      BY <1>9, <3>1 DEF ForgetAlias, ServerTypes
    <3>3. OnePerTarget' /\ RolesAreKinds' /\ WaitingHasReader'
      BY <1>9, <3>1 DEF ForgetAlias, OnePerTarget, RolesAreKinds, KindOf, WaitingHasReader, Live,
                        Registers, studioVars
    <3> QED BY <3>2, <3>3 DEF ServerInv
  <2>2. StudioTypes' /\ MessageTypes' /\ BoundTypes'
    BY <1>a, <1>9 DEF ForgetAlias, StudioTypes, MessageTypes, BoundTypes, studioVars
  <2> QED BY <2>1, <2>2
<1>10. ASSUME ServerRestarts PROVE Goal
  <2>1. requests' \in [Requests -> RequestRecords]
    BY <1>b, <1>10, FailedRecord DEF ServerRestarts
  <2>2. DOMAIN instances' = {} /\ DOMAIN aliases' = {}
    BY <1>10 DEF ServerRestarts
  <2>3. Live' = {}
    BY <1>10, FailedRecord DEF ServerRestarts, Live
  <2>4. ServerInv'
    BY <2>1, <2>2, <2>3 DEF ServerInv, ServerTypes, OnePerTarget, RolesAreKinds, WaitingHasReader
  <2>5. StudioTypes' /\ MessageTypes'
    BY <1>a, <1>10 DEF ServerRestarts, StudioTypes, MessageTypes, studioVars
  <2>6. BoundTypes'
    BY <1>a, <1>10, MishapBound DEF ServerRestarts, studioVars
  <2> QED BY <2>4, <2>5, <2>6
<1>11. ASSUME NEW c \in Requests, NEW i, NEW r, ResolveTarget(c, i, r) PROVE Goal
  <2>1. PICK s \in Choices(i, r) :
          requests' = [requests EXCEPT ![c] =
            [NoRequest EXCEPT !.at = "chosen", !.id = instances[s].id, !.role = instances[s].role]]
    BY <1>11 DEF ResolveTarget
  <2>2. s \in DOMAIN instances
    BY DEF Choices, Matching
  <2>3. instances[s].id \in InstanceIds /\ instances[s].role \in Roles
    BY <1>a, <2>2, InstanceTypes DEF Registrations
  <2> DEFINE q == [NoRequest EXCEPT !.at = "chosen", !.id = instances[s].id, !.role = instances[s].role]
  <2>4. q \in RequestRecords /\ q.at = "chosen"
    BY <2>3 DEF NoRequest, RequestRecords
  <2>5. ServerInv'
    <3> HIDE DEF q
    <3> QED BY <1>11, <2>1, <2>4, RequestChanges DEF ResolveTarget, studioVars, q
  <2>6. StudioTypes' /\ MessageTypes' /\ BoundTypes'
    BY <1>a, <1>11 DEF ResolveTarget, StudioTypes, MessageTypes, BoundTypes, studioVars
  <2> QED BY <2>5, <2>6
<1>12. ASSUME NEW c \in Requests, SendRequest(c) PROVE Goal
  <2> DEFINE a == ~ Registers(instances, requests[c].id, requests[c].role)
             q == [requests[c] EXCEPT !.at = "queued", !.adrift = a]
  <2>1. requests' = [requests EXCEPT ![c] = q]
    BY <1>b, <1>12 DEF SendRequest
  <2>2. a \in BOOLEAN
    BY DEF Registers
  <2>3. /\ q \in RequestRecords /\ q.at = "queued" /\ q.adrift = a
        /\ q.id = requests[c].id /\ q.role = requests[c].role
    <3> HIDE DEF a
    <3> QED BY <1>b, <2>2 DEF RequestRecords
  <2>4. ServerInv'
    <3>1. Registers(instances, q.id, q.role) \/ q.adrift
      BY <2>3
    <3> HIDE DEF q
    <3> QED BY <1>12, <2>1, <2>3, <3>1, RequestChanges DEF SendRequest, studioVars
  <2>5. StudioTypes' /\ MessageTypes' /\ BoundTypes'
    BY <1>a, <1>12 DEF SendRequest, StudioTypes, MessageTypes, BoundTypes, studioVars
  <2> QED BY <2>4, <2>5
<1>13. ASSUME NEW c \in Requests, NEW s \in Sessions, HandOver(c, s) PROVE Goal
  <2> DEFINE q == [requests[c] EXCEPT !.at = "held", !.holder = s]
  <2>1. requests' = [requests EXCEPT ![c] = q]
    BY <1>b, <1>13 DEF HandOver
  <2>2. q \in RequestRecords /\ q.at = "held" /\ q.id = requests[c].id /\ q.role = requests[c].role
    BY <1>b DEF RequestRecords
  <2>3. Registers(instances, requests[c].id, requests[c].role)
    BY <1>13 DEF HandOver, Registers
  <2>4. ServerInv'
    <3> HIDE DEF q
    <3> QED BY <1>13, <2>1, <2>2, <2>3, RequestChanges DEF HandOver, studioVars
  <2>5. StudioTypes' /\ MessageTypes' /\ BoundTypes'
    BY <1>a, <1>13 DEF HandOver, StudioTypes, MessageTypes, BoundTypes, studioVars
  <2> QED BY <2>4, <2>5
<1>14. ASSUME NEW c \in Requests, Settle(c) PROVE Goal
  <2>1. ServerInv'
    BY <1>14, FailedRecord, RequestChanges DEF Settle, studioVars
  <2>2. StudioTypes' /\ MessageTypes' /\ BoundTypes'
    BY <1>a, <1>14 DEF Settle, StudioTypes, MessageTypes, BoundTypes, studioVars
  <2> QED BY <2>1, <2>2
<1>15. ASSUME UNCHANGED routingVars PROVE Goal
  <2>1. ServerInv'
    BY <1>15, ServerStays DEF routingVars
  <2>2. StudioTypes' /\ MessageTypes' /\ BoundTypes'
    BY <1>a, <1>15 DEF routingVars, StudioTypes, MessageTypes, BoundTypes
  <2> QED BY <2>1, <2>2
<1> HIDE DEF Goal
<1>16. Goal
  BY <1>1, <1>2, <1>3, <1>4, <1>5, <1>6, <1>7, <1>8, <1>9, <1>10, <1>11, <1>12, <1>13, <1>14, <1>15
  DEF RoutingNext
<1> QED BY <1>16 DEF Goal

LEMMA RoutingInvariance == RoutingSpec => []RoutingInv
<1>1. RoutingInv /\ [RoutingNext]_routingVars
      => StudioTypes' /\ MessageTypes' /\ BoundTypes' /\ ServerInv'
  BY StepRoutingInv
<1>2. RoutingInv <=> StudioTypes /\ MessageTypes /\ BoundTypes /\ ServerInv
  BY InvParts
<1> QED BY <1>1, <1>2, InitRoutingInv, PTL DEF RoutingSpec

\* Registrations, aliases, calls and messages keep their types.
THEOREM RoutingTypes == RoutingSpec => []RoutingTypeOK
<1>1. RoutingInv => RoutingTypeOK
  BY DEF RoutingInv
<1> QED BY <1>1, RoutingInvariance, PTL

\* An instance and a role name at most one Studio.
THEOREM TargetsAreUnique == RoutingSpec => []OnePerTarget
<1>1. RoutingInv => OnePerTarget
  BY DEF RoutingInv
<1> QED BY <1>1, RoutingInvariance, PTL

\* A call that waits has a registered Studio that may fetch it, through every change
\* of id, take-over and disconnect, but for the calls set adrift: their target went
\* before sendRequest, or they moved along with a Studio of another role.
THEOREM WaitingIsRead == RoutingSpec => []WaitingHasReader
<1>1. RoutingInv => WaitingHasReader
  BY DEF RoutingInv
<1> QED BY <1>1, RoutingInvariance, PTL

------------------------------------------------------------------------------
(*****************************************************************************)
(* Studio processes, for any launches, names, failures and listings.         *)
(*****************************************************************************)

\* A launch that looked for its Studio while no other appeared reads as its own
\* process only the one it spawned.
OwnProcess ==
  /\ \A l \in Launches \ mixed : memo[l].native \in {NoStudio, l}
  /\ \A l \in DOMAIN registry \ mixed : registry[l].native \in {NoStudio, l}

\* While such a launch is under way nothing else starts and no other plugin registers.
NothingElseStarts ==
  \A l \in Launches \ mixed :
    /\ launch[l] = "detecting" => RunningStudios \subseteq before[l] \cup {l}
    /\ l \in UnderWay => plugged \subseteq earlier[l] \cup {l}

\* What is known by an instance id is such a launch only if its Studio has the id.
NamedRightly ==
  /\ \A i \in DOMAIN managed : managed[i] \notin mixed => InstanceOf[managed[i]] = i
  /\ \A l \in Launches \ mixed : memo[l].named \in {NoInstance, InstanceOf[l]}
  /\ \A l \in DOMAIN registry \ mixed : registry[l].named \in {NoInstance, InstanceOf[l]}

\* A launch that has not begun is not in memory.
KnownHaveBegun ==
  \A l \in Launches : launch[l] = "none" => ~ InMemory(l) /\ ~ memo[l].closed

\* A launched Studio that runs and that no listing lacked has not been closed.
RunningIsOpen ==
  \A l \in Launches \ (mixed \cup unseen) : process[l] = "running" =>
    /\ l \in DOMAIN registry /\ ~ registry[l].closed /\ ~ memo[l].closed
    /\ l \in files

StudiosInv ==
  /\ StudiosTypeOK /\ OwnProcess /\ NothingElseStarts /\ NamedRightly /\ KnownHaveBegun
  /\ RunningIsOpen
-----------------------------------------------------------------------------
StudioRecords == [native : Studios \cup {NoStudio}, named : InstanceNames \cup {NoInstance},
                  closed : BOOLEAN]

LEMMA StudiosTypeParts ==
  StudiosTypeOK <=>
    /\ process \in [Studios -> {"none", "running", "exited"}]
    /\ plugged \subseteq Studios
    /\ launch \in [Launches -> {"none", "detecting", "waiting", "attached", "unattached", "lost"}]
    /\ before \in [Launches -> SUBSET Studios] /\ earlier \in [Launches -> SUBSET Studios]
    /\ memo \in [Launches -> StudioRecords]
    /\ DOMAIN managed \subseteq InstanceNames /\ \A i \in DOMAIN managed : managed[i] \in Launches
    /\ pending \subseteq Launches /\ files \subseteq Launches
    /\ DOMAIN registry \subseteq Launches
    /\ \A l \in DOMAIN registry : registry[l] \in StudioRecords
    /\ crashes \in 0..MaxCrashes
    /\ mixed \subseteq Launches /\ unseen \subseteq Launches
BY DEF StudiosTypeOK, StudioRecords

\* What the records have to satisfy, for a step that leaves the calls alone.
StudioBooks(m, g, p, r, mx) ==
  /\ m \in [Launches -> StudioRecords]
  /\ DOMAIN g \subseteq InstanceNames
  /\ \A i \in DOMAIN g : g[i] \in Launches /\ (g[i] \notin mx => InstanceOf[g[i]] = i)
  /\ p \subseteq Launches
  /\ DOMAIN r \subseteq Launches /\ \A l \in DOMAIN r : r[l] \in StudioRecords
  /\ \A l \in Launches \ mx : m[l].native \in {NoStudio, l} /\ m[l].named \in {NoInstance, InstanceOf[l]}
  /\ \A l \in DOMAIN r \ mx : r[l].native \in {NoStudio, l} /\ r[l].named \in {NoInstance, InstanceOf[l]}
  /\ mx \subseteq Launches

\* What the calls and the processes have to satisfy.
Surroundings(pr, pl, la, be, ea, mx) ==
  /\ pr \in [Studios -> {"none", "running", "exited"}]
  /\ pl \subseteq Studios
  /\ la \in [Launches -> {"none", "detecting", "waiting", "attached", "unattached", "lost"}]
  /\ be \in [Launches -> SUBSET Studios] /\ ea \in [Launches -> SUBSET Studios]
  /\ \A l \in Launches \ mx :
       /\ la[l] = "detecting" => {x \in Studios : pr[x] = "running"} \subseteq be[l] \cup {l}
       /\ la[l] \in {"detecting", "waiting"} => pl \subseteq ea[l] \cup {l}

\* A record of a launch that runs is open, and its file is there.
StaysOpen(pr, m, r, f, mx, us) ==
  /\ f \subseteq Launches /\ us \subseteq Launches
  /\ \A l \in Launches \ (mx \cup us) :
       pr[l] = "running" => l \in DOMAIN r /\ ~ r[l].closed /\ ~ m[l].closed /\ l \in f

Begun(m, g, p, la) ==
  \A l \in Launches : la[l] = "none" =>
    l \notin p /\ (\A i \in DOMAIN g : g[i] # l) /\ ~ m[l].closed

LEMMA StudiosParts ==
  StudiosInv <=>
    /\ StudioBooks(memo, managed, pending, registry, mixed)
    /\ Surroundings(process, plugged, launch, before, earlier, mixed)
    /\ StaysOpen(process, memo, registry, files, mixed, unseen)
    /\ Begun(memo, managed, pending, launch)
    /\ crashes \in 0..MaxCrashes
BY StudiosTypeParts
DEF StudiosInv, OwnProcess, NothingElseStarts, NamedRightly, KnownHaveBegun, RunningIsOpen, InMemory,
    UnderWay, RunningStudios, StudioBooks, Surroundings, StaysOpen, Begun

\* The record of a launch stands for the process it spawned.
LEMMA PidIsOwn ==
  ASSUME NEW l \in Launches, NEW r \in StudioRecords, r.native \in {NoStudio, l}
  PROVE  Pid(l, r) = l
BY DEF Pid

LEMMA PidIsStudio ==
  ASSUME NEW l \in Launches, NEW r \in StudioRecords
  PROVE  Pid(l, r) \in Studios
BY DEF Pid, StudioRecords, Studios

\* A sweep takes nothing from a Studio that runs, but for those its listing lacked.
LEMMA SweepFacts ==
  ASSUME StudiosInv, NEW blind
  PROVE  /\ DOMAIN SweptRegistry(blind) \subseteq DOMAIN registry
         /\ \A l \in DOMAIN SweptRegistry(blind) : SweptRegistry(blind)[l] = registry[l]
         /\ StudioBooks(memo, managed, pending, SweptRegistry(blind), mixed)
         /\ StaysOpen(process, memo, SweptRegistry(blind), FilesSwept(blind), mixed,
                      unseen \cup Overlooked(blind))
<1>1. /\ DOMAIN SweptRegistry(blind) = {x \in DOMAIN registry : ~registry[x].closed /\ ~Lost(x, blind)}
      /\ \A l \in DOMAIN SweptRegistry(blind) : SweptRegistry(blind)[l] = registry[l]
  BY DEF SweptRegistry
<1>2. StudioBooks(memo, managed, pending, registry, mixed)
      /\ StaysOpen(process, memo, registry, files, mixed, unseen)
  BY StudiosParts
<1>3. StudioBooks(memo, managed, pending, SweptRegistry(blind), mixed)
  BY <1>1, <1>2 DEF StudioBooks
<1>4. ASSUME NEW l \in Launches \ (mixed \cup unseen \cup Overlooked(blind)), process[l] = "running"
      PROVE  /\ l \in DOMAIN SweptRegistry(blind) /\ ~ registry[l].closed /\ ~ memo[l].closed
             /\ l \in FilesSwept(blind)
  <2>1. l \in DOMAIN registry /\ ~ registry[l].closed /\ ~ memo[l].closed /\ l \in files
    BY <1>2, <1>4 DEF StaysOpen
  <2>2. Pid(l, registry[l]) = l
    BY <1>2, <1>4, <2>1, PidIsOwn DEF StudioBooks
  <2>3. Found(l, registry[l], blind)
    BY <1>4, <2>1, <2>2 DEF Overlooked
  <2>4. ~ Lost(l, blind)
    BY <2>3 DEF Lost
  <2> QED BY <1>1, <2>1, <2>4 DEF FilesSwept
<1>5. FilesSwept(blind) \subseteq Launches /\ Overlooked(blind) \subseteq Launches
  BY <1>2 DEF FilesSwept, Overlooked, StaysOpen, StudioBooks
<1>6. StaysOpen(process, memo, SweptRegistry(blind), FilesSwept(blind), mixed,
                unseen \cup Overlooked(blind))
  BY <1>1, <1>2, <1>4, <1>5 DEF StaysOpen
<1> QED BY <1>1, <1>3, <1>6

\* Closing a record ends the Studio it stands for and no other.
LEMMA CloseRecordFacts ==
  ASSUME StudiosInv, NEW l \in Launches, NEW r \in StudioRecords, NEW blind,
         l \notin mixed => r.native \in {NoStudio, l},
         CloseRecord(l, r, blind)
  PROVE  /\ \A x \in Studios : process'[x] # process[x] => x = Pid(l, r)
         /\ StudioBooks(memo', managed', pending', registry', mixed)
         /\ process' \in [Studios -> {"none", "running", "exited"}]
         /\ \A x \in Studios : process'[x] = "running" => process[x] = "running"
         /\ StaysOpen(process', memo', registry', files', mixed, unseen')
         /\ Begun(memo', managed', pending', launch)
<1>1. Pid(l, r) \in Studios
  BY PidIsStudio
<1>2. /\ StudioBooks(memo, managed, pending, registry, mixed)
      /\ StaysOpen(process, memo, registry, files, mixed, unseen)
      /\ Begun(memo, managed, pending, launch) /\ process \in [Studios -> {"none", "running", "exited"}]
  BY StudiosParts DEF Surroundings
<1>3. l \in Studios
  BY DEF Studios
<1>4. /\ process' \in [Studios -> {"none", "running", "exited"}]
      /\ \A x \in Studios : process'[x] # process[x] => x = Pid(l, r) /\ process'[x] = "exited"
  <2>1. CASE Found(l, r, blind)
    <3>1. process' = [process EXCEPT ![Pid(l, r)] = "exited"]
      BY <2>1 DEF CloseRecord
    <3> QED BY <1>1, <1>2, <3>1
  <2>2. CASE ~ Found(l, r, blind)
    BY <1>2, <2>2 DEF CloseRecord
  <2> QED BY <2>1, <2>2
<1>5. /\ memo' \in [Launches -> StudioRecords]
      /\ \A m \in Launches : /\ memo'[m].native = memo[m].native /\ memo'[m].named = memo[m].named
                             /\ m # l => memo'[m] = memo[m]
                             /\ memo'[m].closed => memo[m].closed \/ (m = l /\ InMemory(l))
  <2>0. memo \in [Launches -> StudioRecords]
    BY <1>2 DEF StudioBooks
  <2>1. CASE InMemory(l)
    <3>1. memo' = [memo EXCEPT ![l].closed = TRUE]
      BY <2>1 DEF CloseRecord
    <3> QED BY <2>0, <2>1, <3>1 DEF StudioRecords
  <2>2. CASE ~ InMemory(l)
    BY <2>0, <2>2 DEF CloseRecord
  <2> QED BY <2>1, <2>2
<1>6. DOMAIN managed' \subseteq DOMAIN managed /\ \A i \in DOMAIN managed' : managed'[i] = managed[i]
  BY DEF CloseRecord, Without1
<1>7. pending' \subseteq pending /\ files' = files \ {l}
  BY DEF CloseRecord
<1>8. /\ DOMAIN registry' = DOMAIN registry
      /\ \A m \in DOMAIN registry : /\ registry'[m] \in StudioRecords
                                    /\ registry'[m].native = registry[m].native
                                    /\ registry'[m].named = registry[m].named
                                    /\ m # l => registry'[m] = registry[m]
  <2>0. \A m \in DOMAIN registry : registry[m] \in StudioRecords
    BY <1>2 DEF StudioBooks
  <2>1. CASE l \in DOMAIN registry
    <3> DEFINE e == [registry[l] EXCEPT !.closed = TRUE]
    <3>1. registry' = Put(registry, l, e)
      BY <2>1 DEF CloseRecord
    <3>2. e \in StudioRecords /\ e.native = registry[l].native /\ e.named = registry[l].named
      BY <2>0, <2>1 DEF StudioRecords
    <3> HIDE DEF e
    <3>3. /\ DOMAIN registry' = DOMAIN registry \cup {l} /\ registry'[l] = e
          /\ \A x \in DOMAIN registry : x # l => registry'[x] = registry[x]
      BY <3>1 DEF Put
    <3> QED BY <2>0, <2>1, <3>2, <3>3
  <2>2. CASE l \notin DOMAIN registry
    BY <2>0, <2>2 DEF CloseRecord
  <2> QED BY <2>1, <2>2
<1>9. StudioBooks(memo', managed', pending', registry', mixed)
  BY <1>2, <1>5, <1>6, <1>7, <1>8 DEF StudioBooks
\* A Studio that survives the close of its record was not found.
<1>10. /\ unseen' \subseteq Launches /\ unseen \subseteq unseen'
       /\ l \notin mixed /\ process'[l] = "running" => l \in unseen'
  <2>1. unseen' \subseteq Launches /\ unseen \subseteq unseen'
    BY <1>2 DEF CloseRecord, StaysOpen
  <2>2. ASSUME l \notin mixed, process'[l] = "running" PROVE l \in unseen'
    <3>1. Pid(l, r) = l
      BY <2>2, PidIsOwn
    <3>2. ~ Found(l, r, blind)
      BY <1>2, <1>3, <2>2, <3>1 DEF CloseRecord
    <3>3. process[l] = "running"
      BY <2>2, <3>2 DEF CloseRecord
    <3> QED BY <3>1, <3>2, <3>3 DEF CloseRecord
  <2> QED BY <2>1, <2>2
<1>11. StaysOpen(process', memo', registry', files', mixed, unseen')
  <2> SUFFICES ASSUME NEW k \in Launches \ (mixed \cup unseen'), process'[k] = "running"
               PROVE  k \in DOMAIN registry' /\ ~ registry'[k].closed /\ ~ memo'[k].closed /\ k \in files'
    BY <1>2, <1>7, <1>10 DEF StaysOpen
  <2>1. k # l /\ k \notin unseen
    BY <1>10
  <2>2. process[k] = "running"
    BY <1>4 DEF Studios
  <2> QED BY <1>2, <1>5, <1>7, <1>8, <2>1, <2>2 DEF StaysOpen
<1>12. Begun(memo', managed', pending', launch)
  BY <1>2, <1>5, <1>6, <1>7 DEF Begun, InMemory
<1> QED BY <1>4, <1>9, <1>11, <1>12

LEMMA InitStudiosInv == StudiosInit => StudiosInv
<1> SUFFICES ASSUME StudiosInit PROVE StudiosInv
  OBVIOUS
<1>1. MaxCrashes \in Nat
  BY StudiosAssumption
<1>2. Fresh \in StudioRecords /\ Fresh.native = NoStudio /\ Fresh.named = NoInstance /\ ~ Fresh.closed
  BY DEF Fresh, StudioRecords
<1>3. StudioBooks(memo, managed, pending, registry, mixed)
  BY <1>2 DEF StudiosInit, StudioBooks
<1>4. Surroundings(process, plugged, launch, before, earlier, mixed)
  BY DEF StudiosInit, Surroundings
<1>5. StaysOpen(process, memo, registry, files, mixed, unseen)
  BY DEF StudiosInit, StaysOpen, Studios
<1>6. Begun(memo, managed, pending, launch)
  BY <1>2 DEF StudiosInit, Begun
<1> QED BY <1>1, <1>3, <1>4, <1>5, <1>6, StudiosParts DEF StudiosInit

LEMMA StepStudiosInv ==
  ASSUME StudiosInv, [StudiosNext]_studiosVars
  PROVE  /\ StudioBooks(memo', managed', pending', registry', mixed')
         /\ Surroundings(process', plugged', launch', before', earlier', mixed')
         /\ StaysOpen(process', memo', registry', files', mixed', unseen')
         /\ Begun(memo', managed', pending', launch')
         /\ crashes' \in 0..MaxCrashes
<1> DEFINE R == StudioBooks(memo', managed', pending', registry', mixed')
           U == Surroundings(process', plugged', launch', before', earlier', mixed')
           O == StaysOpen(process', memo', registry', files', mixed', unseen')
           B == Begun(memo', managed', pending', launch')
           K == crashes' \in 0..MaxCrashes
           Goal == R /\ U /\ O /\ B /\ K
<1>a. /\ StudioBooks(memo, managed, pending, registry, mixed)
      /\ Surroundings(process, plugged, launch, before, earlier, mixed)
      /\ StaysOpen(process, memo, registry, files, mixed, unseen)
      /\ Begun(memo, managed, pending, launch)
      /\ crashes \in 0..MaxCrashes
  BY StudiosParts
<1>b. ASSUME NEW blind
      PROVE  /\ \A l \in DOMAIN SweptRegistry(blind) :
                  l \in DOMAIN registry /\ SweptRegistry(blind)[l] = registry[l]
             /\ StudioBooks(memo, managed, pending, SweptRegistry(blind), mixed)
             /\ StaysOpen(process, memo, SweptRegistry(blind), FilesSwept(blind), mixed,
                          unseen \cup Overlooked(blind))
  BY SweepFacts
<1>c. Fresh \in StudioRecords /\ Fresh.native = NoStudio /\ Fresh.named = NoInstance /\ ~ Fresh.closed
  BY DEF Fresh, StudioRecords
<1>1. ASSUME NEW l \in Launches, NEW blind, BeginLaunch(l, blind) PROVE Goal
  <2>1. PICK listed \in Listings, recent \in SUBSET plugged :
          /\ before' = [before EXCEPT ![l] = listed]
          /\ earlier' = [earlier EXCEPT ![l] = plugged \ recent]
          /\ mixed' = mixed \cup UnderWay
                            \cup (IF listed # RunningStudios \/ recent # {} THEN {l} ELSE {})
    BY <1>1 DEF BeginLaunch
  <2>2. /\ DOMAIN registry' = DOMAIN SweptRegistry(blind) \cup {l} /\ registry'[l] = Fresh
        /\ \A x \in DOMAIN SweptRegistry(blind) : x # l => registry'[x] = SweptRegistry(blind)[x]
    BY <1>1 DEF BeginLaunch, Put
  <2>3. /\ mixed \subseteq mixed' /\ UnderWay \subseteq mixed' /\ mixed' \subseteq Launches
        /\ l \notin mixed' => listed = RunningStudios /\ recent = {}
    BY <1>a, <2>1 DEF UnderWay, StudioBooks
  <2>4. R
    BY <1>b, <1>c, <1>1, <2>2, <2>3 DEF BeginLaunch, StudioBooks
  <2>5. U
    <3>1. /\ process' = [process EXCEPT ![l] = "running"] /\ launch' = [launch EXCEPT ![l] = "detecting"]
          /\ plugged' = plugged
      BY <1>1 DEF BeginLaunch
    <3>2. /\ process' \in [Studios -> {"none", "running", "exited"}]
          /\ \A x \in Studios : process'[x] = "running" => x \in RunningStudios \cup {l}
      BY <1>a, <3>1 DEF Surroundings, Studios, RunningStudios
    <3>3. listed \subseteq Studios /\ plugged \ recent \subseteq Studios
      BY <1>a DEF Listings, RunningStudios, Surroundings
    <3>4. /\ before' \in [Launches -> SUBSET Studios] /\ before'[l] = listed
          /\ earlier' \in [Launches -> SUBSET Studios] /\ earlier'[l] = plugged \ recent
      BY <1>a, <2>1, <3>3 DEF Surroundings
    <3>5. /\ launch' \in [Launches -> {"none", "detecting", "waiting", "attached", "unattached", "lost"}]
          /\ \A m \in Launches \ mixed' : launch'[m] \in {"detecting", "waiting"} => m = l
      BY <1>a, <2>3, <3>1 DEF Surroundings, UnderWay
    <3> QED BY <1>a, <2>3, <3>1, <3>2, <3>4, <3>5 DEF Surroundings
  <2>6. O
    <3>1. ~ memo[l].closed
      BY <1>a, <1>1 DEF Begun, BeginLaunch
    <3>2. /\ process' = [process EXCEPT ![l] = "running"] /\ files' = FilesSwept(blind) \cup {l}
          /\ memo' = memo /\ unseen' = unseen \cup Overlooked(blind)
      BY <1>1 DEF BeginLaunch
    <3>3. l \in Studios /\ process \in [Studios -> {"none", "running", "exited"}]
      BY <1>a DEF Studios, Surroundings
    <3> QED BY <1>b, <1>c, <2>2, <2>3, <3>1, <3>2, <3>3 DEF StaysOpen, Studios
  <2>7. B
    BY <1>a, <1>1 DEF BeginLaunch, Begun, Surroundings
  <2>8. K
    BY <1>a, <1>1 DEF BeginLaunch
  <2> QED BY <2>4, <2>5, <2>6, <2>7, <2>8
<1>2. ASSUME NEW l \in Launches, Detect(l) PROVE Goal
  <2>0. /\ launch[l] = "detecting" /\ launch' = [launch EXCEPT ![l] = "waiting"]
        /\ before' = [before EXCEPT ![l] = {}]
        /\ UNCHANGED <<process, plugged, earlier, managed, pending, files, crashes, mixed, unseen>>
    BY <1>2 DEF Detect
  <2>1. U /\ K
    BY <1>a, <2>0 DEF Surroundings
  <2>2. R /\ O /\ B
    <3>0. PICK x \in Created(l) \cup {Undetected(l)} :
            IF x = NoStudio
            THEN UNCHANGED <<memo, registry>>
            ELSE /\ memo' = [memo EXCEPT ![l].native = x]
                 /\ registry' = Put(registry, l, [memo[l] EXCEPT !.native = x])
      BY <1>2 DEF Detect
    <3>1. CASE x = NoStudio
      BY <1>a, <2>0, <3>0, <3>1 DEF Begun, Surroundings
    <3>2. CASE x # NoStudio
      \* Of a launch beside which nothing else appeared, only the Studio has started since.
      <4>1. x \in Studios /\ (l \notin mixed => x = l)
        BY <1>a, <2>0, <3>0, <3>2 DEF Created, Undetected, RunningStudios, Surroundings, Studios
      <4> DEFINE e == [memo[l] EXCEPT !.native = x]
      <4>3. memo \in [Launches -> StudioRecords]
        BY <1>a DEF StudioBooks
      <4>4. e \in StudioRecords /\ e.native = x /\ e.named = memo[l].named /\ e.closed = memo[l].closed
        BY <4>1, <4>3 DEF StudioRecords
      <4>5. memo' = [memo EXCEPT ![l] = e] /\ registry' = Put(registry, l, e)
        BY <3>0, <3>2, <4>3
      <4> HIDE DEF e
      <4>6. /\ DOMAIN registry' = DOMAIN registry \cup {l} /\ registry'[l] = e
            /\ \A y \in DOMAIN registry : y # l => registry'[y] = registry[y]
        BY <4>5 DEF Put
      <4>7. /\ memo' \in [Launches -> StudioRecords] /\ memo'[l] = e
            /\ \A y \in Launches : y # l => memo'[y] = memo[y]
        BY <4>3, <4>4, <4>5
      <4>9. R
        BY <1>a, <2>0, <4>1, <4>4, <4>6, <4>7 DEF StudioBooks
      <4>10. O
        BY <1>a, <2>0, <4>4, <4>6, <4>7 DEF StaysOpen
      <4>11. B
        BY <1>a, <2>0, <4>4, <4>7 DEF Begun, Surroundings
      <4> QED BY <4>9, <4>10, <4>11
    <3> QED BY <3>1, <3>2
  <2> QED BY <2>1, <2>2
<1>3. ASSUME NEW l \in Launches, GiveUp(l) PROVE Goal
  BY <1>a, <1>3 DEF GiveUp, Surroundings, Begun
<1>4. ASSUME NEW l \in Launches, NEW x \in Studios, NEW blind, Attach(l, x, blind) PROVE Goal
  \* Of a launch beside which nothing else appeared, only the plugin has registered since.
  <2>1. launch[l] = "waiting" /\ (l \notin mixed => x = l)
    BY <1>a, <1>4 DEF Attach, Candidates, Surroundings
  <2>2. InstanceOf[x] \in InstanceNames
    BY DEF InstanceNames
  <2>3. memo \in [Launches -> StudioRecords] /\ \A y \in DOMAIN registry : registry[y] \in StudioRecords
    BY <1>a DEF StudioBooks
  <2>4. /\ memo' \in [Launches -> StudioRecords]
        /\ \A y \in Launches : /\ memo'[y].native = memo[y].native /\ memo'[y].closed = memo[y].closed
                               /\ memo'[y].named = IF y = l THEN InstanceOf[x] ELSE memo[y].named
    BY <1>4, <2>2, <2>3 DEF Attach, StudioRecords
  <2>5. /\ DOMAIN managed' = DOMAIN managed \cup {InstanceOf[x]} /\ managed'[InstanceOf[x]] = l
        /\ \A i \in DOMAIN managed : i # InstanceOf[x] => managed'[i] = managed[i]
    BY <1>4 DEF Attach, Put
  <2>6. /\ DOMAIN registry' = DOMAIN SweptRegistry(blind)
        /\ \A y \in DOMAIN SweptRegistry(blind) :
             /\ registry'[y] \in StudioRecords
             /\ registry'[y].native = registry[y].native /\ registry'[y].closed = registry[y].closed
             /\ registry'[y].named = IF y = l THEN InstanceOf[x] ELSE registry[y].named
    <3>1. registry' = [k \in DOMAIN SweptRegistry(blind) |->
                         IF k = l THEN [registry[k] EXCEPT !.named = InstanceOf[x]] ELSE registry[k]]
      BY <1>4 DEF Attach
    <3>2. \A y \in DOMAIN registry :
            LET e == [registry[y] EXCEPT !.named = InstanceOf[x]] IN
            /\ e \in StudioRecords /\ e.native = registry[y].native
            /\ e.closed = registry[y].closed /\ e.named = InstanceOf[x]
      BY <2>2, <2>3 DEF StudioRecords
    <3> QED BY <1>b, <2>3, <3>1, <3>2
  <2>7. /\ pending' = pending \ {l} /\ files' = FilesSwept(blind) /\ launch' = [launch EXCEPT ![l] = "attached"]
        /\ earlier' = [earlier EXCEPT ![l] = {}] /\ unseen' = unseen \cup Overlooked(blind)
        /\ UNCHANGED <<process, plugged, before, crashes, mixed>>
    BY <1>4 DEF Attach
  <2>8. R
    <3>1. \A i \in DOMAIN managed' :
            managed'[i] \in Launches /\ (managed'[i] \notin mixed => InstanceOf[managed'[i]] = i)
      BY <1>a, <2>1, <2>5 DEF StudioBooks
    <3>2. \A y \in Launches \ mixed :
            memo'[y].native \in {NoStudio, y} /\ memo'[y].named \in {NoInstance, InstanceOf[y]}
      BY <1>a, <2>1, <2>4 DEF StudioBooks
    <3>3. \A y \in DOMAIN registry' \ mixed :
            registry'[y].native \in {NoStudio, y} /\ registry'[y].named \in {NoInstance, InstanceOf[y]}
      <4> SUFFICES ASSUME NEW y \in DOMAIN registry' \ mixed
                   PROVE  /\ registry'[y].native \in {NoStudio, y}
                          /\ registry'[y].named \in {NoInstance, InstanceOf[y]}
        OBVIOUS
      <4>1. y \in DOMAIN registry \ mixed /\ y \in DOMAIN SweptRegistry(blind)
        BY <1>b, <2>6
      <4>2. /\ registry[y].native \in {NoStudio, y} /\ registry[y].named \in {NoInstance, InstanceOf[y]}
            /\ y = l => x = l
        BY <1>a, <2>1, <4>1 DEF StudioBooks
      <4> QED BY <2>6, <4>1, <4>2
    <3> QED BY <1>a, <1>b, <2>2, <2>4, <2>5, <2>6, <2>7, <3>1, <3>2, <3>3 DEF StudioBooks
  <2>9. O
    BY <1>b, <2>4, <2>6, <2>7 DEF StaysOpen
  <2>10. B
    <3>1. launch \in [Launches -> {"none", "detecting", "waiting", "attached", "unattached", "lost"}]
      BY <1>a DEF Surroundings
    <3> SUFFICES ASSUME NEW y \in Launches, launch'[y] = "none"
                 PROVE  y \notin pending' /\ (\A i \in DOMAIN managed' : managed'[i] # y) /\ ~ memo'[y].closed
      BY DEF Begun
    <3>2. y # l /\ launch[y] = "none"
      BY <2>7, <3>1
    <3> QED BY <1>a, <2>4, <2>5, <2>7, <3>2 DEF Begun
  <2>11. U /\ K
    BY <1>a, <2>7 DEF Surroundings
  <2> QED BY <2>8, <2>9, <2>10, <2>11
<1>5. ASSUME NEW l \in Launches, NEW r \in StudioRecords, NEW blind,
             l \notin mixed => r.native \in {NoStudio, l}, CloseRecord(l, r, blind),
             UNCHANGED <<plugged, launch, before, earlier, crashes, mixed>>
      PROVE  Goal
  <2>1. /\ R /\ O /\ Begun(memo', managed', pending', launch)
        /\ process' \in [Studios -> {"none", "running", "exited"}]
        /\ \A x \in Studios : process'[x] = "running" => process[x] = "running"
    BY <1>5, CloseRecordFacts
  <2>2. B /\ K
    BY <1>a, <1>5, <2>1
  <2>3. U
    BY <1>a, <1>5, <2>1 DEF Surroundings
  <2> QED BY <2>1, <2>2, <2>3
<1>6. ASSUME NEW i \in InstanceNames, NEW blind, CloseManaged(i, blind) PROVE Goal
  <2>1. CASE i \in DOMAIN managed
    <3>1. managed[i] \in Launches /\ memo[managed[i]] \in StudioRecords
          /\ (managed[i] \notin mixed => memo[managed[i]].native \in {NoStudio, managed[i]})
      BY <1>a, <2>1 DEF StudioBooks
    <3>2. CloseRecord(managed[i], memo[managed[i]], blind)
          /\ UNCHANGED <<plugged, launch, before, earlier, crashes, mixed>>
      BY <1>6, <2>1 DEF CloseManaged
    <3> QED BY <1>5, <3>1, <3>2
  <2>2. CASE i \notin DOMAIN managed
    <3>1. PICK l \in OnDisk(i) :
             IF registry[l].closed
             THEN /\ registry' = Without1(registry, l)
                  /\ files' = files \ {l}
                  /\ UNCHANGED <<process, memo, managed, pending, unseen>>
             ELSE CloseRecord(l, registry[l], blind)
      BY <1>6, <2>2 DEF CloseManaged
    <3>2. UNCHANGED <<plugged, launch, before, earlier, crashes, mixed>>
      BY <1>6 DEF CloseManaged
    <3>3. l \in DOMAIN registry /\ l \in Launches /\ registry[l] \in StudioRecords
          /\ (l \notin mixed => registry[l].native \in {NoStudio, l})
      BY <1>a DEF OnDisk, StudioBooks
    <3>4. CASE ~ registry[l].closed
      BY <1>5, <3>1, <3>2, <3>3, <3>4
    <3>5. CASE registry[l].closed
      <4>1. /\ DOMAIN registry' = DOMAIN registry \ {l}
            /\ \A x \in DOMAIN registry' : registry'[x] = registry[x]
        BY <3>1, <3>5 DEF Without1
      <4>2. R
        BY <1>a, <3>1, <3>2, <3>5, <4>1 DEF StudioBooks
      <4>3. O
        BY <1>a, <3>1, <3>2, <3>5, <4>1 DEF StaysOpen
      <4>4. U /\ B /\ K
        BY <1>a, <3>1, <3>2, <3>5
      <4> QED BY <4>2, <4>3, <4>4
    <3> QED BY <3>4, <3>5
  <2> QED BY <2>1, <2>2
<1>7. ASSUME NEW x \in Studios, NEW blind, CloseConnected(x, blind) PROVE Goal
  <2>1. PICK listed \in Listings : \E y \in FoundByWindow(x, listed) :
          process' = [process EXCEPT ![y] = "exited"]
    BY <1>7 DEF CloseConnected
  <2>2. PICK y : process' = [process EXCEPT ![y] = "exited"]
    BY <2>1
  <2>3. process' \in [Studios -> {"none", "running", "exited"}]
        /\ \A z \in Studios : process'[z] = "running" => process[z] = "running"
    BY <1>a, <2>2 DEF Surroundings
  <2>4. R
    BY <1>b, <1>7 DEF CloseConnected, Sweep
  <2>5. O
    BY <1>b, <1>7, <2>3 DEF CloseConnected, Sweep, StaysOpen, Studios
  <2>6. U
    BY <1>a, <1>7, <2>3 DEF CloseConnected, Surroundings
  <2>7. B /\ K
    BY <1>a, <1>7 DEF CloseConnected
  <2> QED BY <2>4, <2>5, <2>6, <2>7
<1>8. ASSUME NEW blind, CloseOnly(blind) PROVE Goal
  <2>1. PICK l \in {managed[i] : i \in DOMAIN managed} \cup pending \cup DOMAIN SweptRegistry(blind) :
           CloseRecord(l, IF InMemory(l) THEN memo[l] ELSE registry[l], blind)
    BY <1>8 DEF CloseOnly
  <2>2. l \in Launches
    BY <1>a, <1>b DEF StudioBooks
  <2>3. ~ InMemory(l) => l \in DOMAIN registry
    BY <1>b, <2>1 DEF InMemory
  <2>4. UNCHANGED <<plugged, launch, before, earlier, crashes, mixed>>
    BY <1>8 DEF CloseOnly
  <2>5. CASE InMemory(l)
    <3>1. memo[l] \in StudioRecords /\ (l \notin mixed => memo[l].native \in {NoStudio, l})
      BY <1>a, <2>2 DEF StudioBooks
    <3> QED BY <1>5, <2>1, <2>2, <2>4, <2>5, <3>1
  <2>6. CASE ~ InMemory(l)
    <3>1. registry[l] \in StudioRecords /\ (l \notin mixed => registry[l].native \in {NoStudio, l})
      BY <1>a, <2>3, <2>6 DEF StudioBooks
    <3> QED BY <1>5, <2>1, <2>2, <2>4, <2>6, <3>1
  <2> QED BY <2>5, <2>6
<1>9. ASSUME NEW x \in Studios, OpenByHand(x) PROVE Goal
  <2>1. /\ x \in Manual /\ x \notin Launches /\ mixed' = mixed \cup UnderWay
        /\ mixed' \subseteq Launches
    BY <1>a, <1>9, StudiosAssumption DEF OpenByHand, UnderWay, StudioBooks
  <2>2. U
    BY <1>a, <1>9, <2>1 DEF OpenByHand, Surroundings, UnderWay
  <2>3. O
    BY <1>a, <1>9, <2>1 DEF OpenByHand, StaysOpen, Surroundings, Studios
  <2>4. R /\ B /\ K
    BY <1>a, <1>9, <2>1 DEF OpenByHand, StudioBooks
  <2> QED BY <2>2, <2>3, <2>4
<1>10. ASSUME NEW x \in Studios, PlugIn(x) PROVE Goal
  <2>1. mixed' = mixed \cup (UnderWay \ {x}) /\ mixed' \subseteq Launches
    BY <1>a, <1>10 DEF PlugIn, UnderWay, StudioBooks
  <2>2. U
    BY <1>a, <1>10, <2>1 DEF PlugIn, Surroundings, UnderWay
  <2>3. R /\ O /\ B /\ K
    BY <1>a, <1>10, <2>1 DEF PlugIn, StudioBooks, StaysOpen
  <2> QED BY <2>2, <2>3
<1>11. ASSUME NEW x \in Studios, Unplug(x) PROVE Goal
  <2>1. U
    BY <1>a, <1>11 DEF Unplug, Surroundings
  <2>2. R /\ O /\ B /\ K
    BY <1>a, <1>11 DEF Unplug
  <2> QED BY <2>1, <2>2
<1>12. ASSUME NEW x \in Studios, CloseByHand(x) PROVE Goal
  <2>1. U
    BY <1>a, <1>12 DEF CloseByHand, Surroundings
  <2>2. O
    BY <1>a, <1>12 DEF CloseByHand, StaysOpen, Surroundings, Studios
  <2>3. R /\ B /\ K
    BY <1>a, <1>12 DEF CloseByHand
  <2> QED BY <2>1, <2>2, <2>3
<1>13. ASSUME ServerCrash PROVE Goal
  <2>1. R
    BY <1>a, <1>c, <1>13 DEF ServerCrash, StudioBooks
  <2>2. U
    BY <1>a, <1>13 DEF ServerCrash, Surroundings, UnderWay
  <2>3. O
    BY <1>a, <1>c, <1>13 DEF ServerCrash, StaysOpen
  <2>4. B
    BY <1>a, <1>c, <1>13 DEF ServerCrash, Begun, Surroundings
  <2>5. K
    BY <1>a, <1>13, StudiosAssumption DEF ServerCrash
  <2> QED BY <2>1, <2>2, <2>3, <2>4, <2>5
<1>14. ASSUME NEW blind, Status(blind) PROVE Goal
  <2>1. R /\ O
    BY <1>b, <1>14 DEF Status, Sweep
  <2>2. U /\ B /\ K
    BY <1>a, <1>14 DEF Status
  <2> QED BY <2>1, <2>2
<1>15. ASSUME UNCHANGED studiosVars PROVE Goal
  BY <1>a, <1>15 DEF studiosVars
<1> HIDE DEF Goal
<1>16. ASSUME NEW blind, Handled(blind) PROVE Goal
  BY <1>1, <1>4, <1>6, <1>7, <1>8, <1>14, <1>16 DEF Handled
<1>17. Goal
  BY <1>2, <1>3, <1>9, <1>10, <1>11, <1>12, <1>13, <1>15, <1>16 DEF StudiosNext
<1> QED BY <1>17 DEF Goal

LEMMA StudiosInvariance == StudiosSpec => []StudiosInv
<1>1. StudiosInv /\ [StudiosNext]_studiosVars
      => /\ StudioBooks(memo', managed', pending', registry', mixed')
         /\ Surroundings(process', plugged', launch', before', earlier', mixed')
         /\ StaysOpen(process', memo', registry', files', mixed', unseen')
         /\ Begun(memo', managed', pending', launch')
         /\ crashes' \in 0..MaxCrashes
  BY StepStudiosInv
<1> DEFINE P == StudioBooks(memo, managed, pending, registry, mixed)
           Q == Surroundings(process, plugged, launch, before, earlier, mixed)
           S == StaysOpen(process, memo, registry, files, mixed, unseen)
           T == Begun(memo, managed, pending, launch)
           V == crashes \in 0..MaxCrashes
<1>2. StudiosInv <=> P /\ Q /\ S /\ T /\ V
  BY StudiosParts
<1>3. StudiosInv /\ [StudiosNext]_studiosVars => P' /\ Q' /\ S' /\ T' /\ V'
  BY <1>1
<1> HIDE DEF P, Q, S, T, V
<1> QED BY <1>2, <1>3, InitStudiosInv, PTL DEF StudiosSpec

\* Memory, records, files and processes keep their types.
THEOREM StudiosTypes == StudiosSpec => []StudiosTypeOK
<1>1. StudiosInv => StudiosTypeOK
  BY DEF StudiosInv
<1> QED BY <1>1, StudiosInvariance, PTL

\* A launched Studio that runs has an open record and its place file, whatever fails,
\* is closed by hand or crashes, unless others appeared while it was looked for or a
\* listing lacked its process.
THEOREM LaunchedAreKept == StudiosSpec => []StudiosAreKept
<1>1. StudiosInv => StudiosAreKept
  <2> SUFFICES ASSUME StudiosInv, NEW x \in RunningStudios \cap Launches, x \notin mixed \cup unseen
               PROVE  Kept(x)
    BY DEF StudiosAreKept
  <2>1. x \in DOMAIN registry /\ ~ registry[x].closed /\ x \in files
    BY DEF StudiosInv, RunningIsOpen, RunningStudios
  <2>2. registry[x] \in StudioRecords /\ registry[x].native \in {NoStudio, x}
    BY <2>1, StudiosParts DEF StudioBooks
  <2> QED BY <2>1, <2>2, PidIsOwn DEF Kept
<1> QED BY <1>1, StudiosInvariance, PTL

\* The only Studio in a listing that holds a given one is that one.
LEMMA FoundIsOwn ==
  ASSUME NEW x, NEW listed \in SUBSET Studios, x \in listed, NEW y \in FoundByWindow(x, listed)
  PROVE  y = x
<1>1. CASE Cardinality(listed) = 1
  <2>1. IsFiniteSet(listed)
    BY StudiosAssumption, FS_Subset
  <2>2. PICK z : listed = {z}
    BY <1>1, <2>1, FS_Singleton
  <2> QED BY <1>1, <2>2 DEF FoundByWindow
<1>2. CASE Cardinality(listed) # 1
  <2>1. y \in Titled(x, listed) /\ Titled(x, listed) = {y}
    BY <1>2 DEF FoundByWindow
  <2>2. x \in Titled(x, listed)
    BY <2>1 DEF Titled
  <2> QED BY <2>1, <2>2
<1> QED BY <1>1, <1>2

\* A close by instance id ends no other Studio than the one named, unless others
\* appeared while the launch on record looked for its own, and the close of a connected
\* Studio ends no other while that Studio runs.
THEOREM ClosesEndNamed == StudiosSpec => CloseEndsNamed
<1> DEFINE Step ==
      \A blind \in SUBSET Launches :
        /\ \A i \in InstanceNames : CloseManaged(i, blind) /\ Bearing(i) \cap mixed = {} =>
             \A y \in Studios : process[y] # process'[y] => InstanceOf[y] = i
        /\ \A x \in RunningStudios : CloseConnected(x, blind) =>
             \A y \in Studios : process[y] # process'[y] => y = x
<1>0. StudiosInv => /\ StudioBooks(memo, managed, pending, registry, mixed)
                    /\ process \in [Studios -> {"none", "running", "exited"}]
  BY StudiosParts DEF Surroundings
<1>1. ASSUME StudiosInv, NEW blind \in SUBSET Launches, NEW i \in InstanceNames,
             CloseManaged(i, blind), Bearing(i) \cap mixed = {},
             NEW y \in Studios, process[y] # process'[y]
      PROVE  InstanceOf[y] = i
  <2>2. CASE i \in DOMAIN managed
    <3> DEFINE l == managed[i]
    <3>1. l \in Launches /\ l \notin mixed
      BY <1>0, <1>1, <2>2 DEF StudioBooks, Bearing
    <3>2. memo[l] \in StudioRecords /\ memo[l].native \in {NoStudio, l} /\ InstanceOf[l] = i
      BY <1>0, <1>1, <2>2, <3>1 DEF StudioBooks
    <3>3. CloseRecord(l, memo[l], blind)
      BY <1>1, <2>2 DEF CloseManaged
    <3> HIDE DEF l
    <3>4. y = Pid(l, memo[l])
      BY <1>1, <3>1, <3>2, <3>3, CloseRecordFacts
    <3> QED BY <3>1, <3>2, <3>4, PidIsOwn
  <2>3. CASE i \notin DOMAIN managed
    <3>1. PICK l \in OnDisk(i) : CloseRecord(l, registry[l], blind)
      BY <1>1, <2>3 DEF CloseManaged
    <3>2. l \in Launches /\ l \notin mixed
      BY <1>0, <1>1 DEF OnDisk, StudioBooks, Bearing
    <3>3. /\ registry[l] \in StudioRecords /\ registry[l].native \in {NoStudio, l}
          /\ registry[l].named = i /\ registry[l].named \in {NoInstance, InstanceOf[l]}
      BY <1>0, <1>1, <3>2 DEF OnDisk, StudioBooks
    <3>4. i # NoInstance
      BY StudiosAssumption DEF InstanceNames
    <3>5. y = Pid(l, registry[l])
      BY <1>1, <3>1, <3>2, <3>3, CloseRecordFacts
    <3> QED BY <3>2, <3>3, <3>4, <3>5, PidIsOwn
  <2> QED BY <2>2, <2>3
<1>2. ASSUME StudiosInv, NEW blind \in SUBSET Launches, NEW x \in RunningStudios,
             CloseConnected(x, blind), NEW y \in Studios, process[y] # process'[y]
      PROVE  y = x
  <2>1. PICK listed \in Listings : \E z \in FoundByWindow(x, listed) :
          process' = [process EXCEPT ![z] = "exited"]
    BY <1>2 DEF CloseConnected
  <2>2. PICK z \in FoundByWindow(x, listed) : process' = [process EXCEPT ![z] = "exited"]
    BY <2>1
  <2>3. z = y
    BY <1>0, <1>2, <2>2
  <2>4. CASE listed = {}
    <3>1. Cardinality(listed) # 1
      BY <2>4, FS_EmptySet
    <3> QED BY <2>2, <2>4, <3>1 DEF FoundByWindow, Titled
  <2>5. CASE listed # {}
    <3>1. listed = RunningStudios
      BY <2>1, <2>5 DEF Listings
    <3> QED BY <2>2, <2>3, <3>1, FoundIsOwn DEF RunningStudios
  <2> QED BY <2>4, <2>5
<1>3. StudiosInv => Step
  BY <1>1, <1>2
<1>4. StudiosInv => [Step]_studiosVars
  BY <1>3
<1> HIDE DEF Step
<1>5. StudiosSpec => [][Step]_studiosVars
  BY <1>4, StudiosInvariance, PTL
<1> QED BY <1>5 DEF CloseEndsNamed, Step

------------------------------------------------------------------------------
(*****************************************************************************)
(* The broker's table of players and its polling threads agree, for every    *)
(* set of players and any number of restarts of the server.                  *)
(*****************************************************************************)

\* A player that has not joined has neither an entry nor a thread.
AwayIsUnknown ==
  \A p \in Players : player[p] = "away" => p \notin proxies /\ loop[p] = "none"

BrokerInv == BrokerTypeOK /\ AwayIsUnknown /\ EntryMeansLoop
-----------------------------------------------------------------------------
LEMMA InitBrokerInv == BrokerInit => BrokerInv
BY BrokerAssumption
DEF BrokerInit, BrokerInv, BrokerTypeOK, AwayIsUnknown, EntryMeansLoop, Loops

LEMMA RestartsAreBounded ==
  ASSUME restarts \in 0..MaxRestarts, RestartMcp PROVE restarts' \in 0..MaxRestarts
<1>1. MaxRestarts \in Nat
  BY BrokerAssumption
<1>2. restarts < MaxRestarts /\ restarts' = restarts + 1
  BY DEF RestartMcp
<1> QED BY <1>1, <1>2

LEMMA StepBrokerInv == BrokerInv /\ [BrokerNext]_brokerVars => BrokerInv'
<1> SUFFICES ASSUME BrokerInv, [BrokerNext]_brokerVars PROVE BrokerInv'
  OBVIOUS
<1> USE BrokerAssumption
    DEF BrokerInv, BrokerTypeOK, AwayIsUnknown, EntryMeansLoop, Loops, Goes
<1>1. ASSUME NEW p \in Players, Join(p) PROVE BrokerInv'
  BY <1>1 DEF Join
<1>2. ASSUME NEW p \in Players, Registered(p) PROVE BrokerInv'
  BY <1>2 DEF Registered
<1>3. ASSUME NEW p \in Players, RegisterFails(p) PROVE BrokerInv'
  BY <1>3 DEF RegisterFails
<1>4. ASSUME NEW p \in Players, Leave(p) PROVE BrokerInv'
  BY <1>4 DEF Leave
<1>5. ASSUME NEW p \in Players, Disconnected(p) PROVE BrokerInv'
  BY <1>5 DEF Disconnected
\* The test at the head of the loop holds for a player who is here: only the
\* broker's own removal of an entry makes it fail.
<1>6. ASSUME NEW p \in Players, PollAgain(p) PROVE BrokerInv'
  BY <1>6 DEF PollAgain, PollsOn
<1>7. ASSUME NEW p \in Players, PollAnswered(p) PROVE BrokerInv'
  BY <1>7 DEF PollAnswered
<1>8. ASSUME NEW p \in Players, PollFails(p) PROVE BrokerInv'
  BY <1>8 DEF PollFails
<1>9. ASSUME NEW p \in Players, PollHandled(p) PROVE BrokerInv'
  BY <1>9 DEF PollHandled, ToldUnknown
<1>10. ASSUME NEW p \in Players, ClientReturns(p) PROVE BrokerInv'
  BY <1>10 DEF ClientReturns
<1>11. ASSUME NEW p \in Players, RegisteredAgain(p) PROVE BrokerInv'
  BY <1>11 DEF RegisteredAgain
<1>12. ASSUME NEW p \in Players, RegisterAgainFails(p) PROVE BrokerInv'
  BY <1>12 DEF RegisterAgainFails
<1>13. ASSUME NEW p \in Players, Forget(p) PROVE BrokerInv'
  BY <1>13 DEF Forget
<1>14. ASSUME CloseGame PROVE BrokerInv'
  <2>1. \A p \in Players : player'[p] # "here"
    BY <1>14 DEF CloseGame
  <2>2. BrokerTypeOK'
    BY <1>14 DEF CloseGame
  <2>3. AwayIsUnknown'
    BY <1>14 DEF CloseGame
  <2> QED BY <2>1, <2>2, <2>3
<1>15. ASSUME RestartMcp PROVE BrokerInv'
  <2>1. restarts' \in 0..MaxRestarts
    BY <1>15, RestartsAreBounded DEF BrokerTypeOK
  <2>2. BrokerTypeOK'
    BY <1>15, <2>1 DEF RestartMcp
  <2> QED BY <1>15, <2>2 DEF RestartMcp
<1>16. ASSUME UNCHANGED brokerVars PROVE BrokerInv'
  BY <1>16 DEF brokerVars
<1> QED
  BY <1>1, <1>2, <1>3, <1>4, <1>5, <1>6, <1>7, <1>8, <1>9, <1>10, <1>11, <1>12,
     <1>13, <1>14, <1>15, <1>16
  DEF BrokerNext, LoopStep

LEMMA BrokerInvariance == BrokerSpec => []BrokerInv
<1> QED BY InitBrokerInv, StepBrokerInv, PTL DEF BrokerSpec

\* Table, threads and messages of the broker keep their types.
THEOREM BrokerTypes == BrokerSpec => []BrokerTypeOK
<1>1. BrokerInv => BrokerTypeOK
  BY DEF BrokerInv
<1> QED BY <1>1, BrokerInvariance, PTL

\* A player that has an entry has one polling thread, and one that has none is
\* not polled for, however registrations, losses and departures interleave.
THEOREM EntriesHaveLoops == BrokerSpec => []EntryMeansLoop
<1>1. BrokerInv => EntryMeansLoop
  BY DEF BrokerInv
<1> QED BY <1>1, BrokerInvariance, PTL

------------------------------------------------------------------------------
(*****************************************************************************)
(* The mailbox between stop_playtest and the monitor, for any number of      *)
(* calls and of sessions: a request is answered for, ends one session and    *)
(* is acknowledged only if it did.                                           *)
(*****************************************************************************)

\* A session that lives has been counted.
LivesIsCounted == session.lives => session.number \in 1..MaxSessions

\* A request in the mailbox has ended nothing yet, and somebody waits for it or
\* was cut off; a result of success was earned; a call not made has ended nothing.
MailIsFresh ==
  /\ mailbox.kind = "request" =>
       /\ mailbox.id \in Stops /\ ended[mailbox.id] = {}
       /\ stop[mailbox.id] \in {"waiting", "cut off"}
  /\ mailbox.kind = "result" /\ mailbox.ok /\ mailbox.id \in Stops =>
       ended[mailbox.id] # {}
  /\ \A k \in Stops : stop[k] = "none" => ended[k] = {}

PlayTyped == PlayTypeOK /\ LivesIsCounted
PlayInv   == PlayTyped /\ MailIsFresh /\ EndsOneSession /\ AcknowledgedEnded

Mail == [kind : {"none", "request", "result"}, id : Stops \cup {NoStop},
         stale : BOOLEAN, ok : BOOLEAN]
-----------------------------------------------------------------------------
LEMMA MailTyped ==
  /\ Empty \in Mail
  /\ \A k \in Stops : Request(k) \in Mail
  /\ \A k \in Stops, ok \in BOOLEAN : Result(k, ok) \in Mail
  /\ mailbox \in Mail => \A k \in Stops : Cleared(k) \in Mail
BY DEF Empty, Request, Result, Cleared, Mail

LEMMA InitPlayInv == PlayInit => PlayInv
<1> SUFFICES ASSUME PlayInit PROVE PlayInv
  OBVIOUS
<1>1. 0 \in 0..MaxSessions
  BY PlayAssumption DEF PlayAssumption
<1>2. PlayTyped
  BY <1>1 DEF PlayInit, PlayTyped, PlayTypeOK, LivesIsCounted, Empty, Answers
<1>3. MailIsFresh /\ EndsOneSession /\ AcknowledgedEnded
  BY DEF PlayInit, MailIsFresh, EndsOneSession, AcknowledgedEnded, Empty
<1> QED BY <1>2, <1>3 DEF PlayInv

\* The counter of sessions goes up by one, within its bound.
LEMMA NextSession ==
  ASSUME PlayTyped, session.number < MaxSessions
  PROVE  session.number + 1 \in 1..MaxSessions
<1>1. session.number \in 0..MaxSessions /\ MaxSessions \in Nat
  BY PlayAssumption DEF PlayAssumption, PlayTyped, PlayTypeOK
<1> QED BY <1>1

\* The steps of people and of the session's threads do not touch the mail.
LEMMA SessionsKeep ==
  ASSUME PlayInv,
         StartPlaytest \/ UserStarts \/ SessionEnds \/ \E n \in playThreads : StartReturns(n)
  PROVE  PlayInv'
<1>1. UNCHANGED <<mailbox, stop, ended>>
  BY DEF StartPlaytest, UserStarts, SessionEnds, StartReturns
<1>2. MailIsFresh' /\ EndsOneSession' /\ AcknowledgedEnded'
  BY <1>1 DEF PlayInv, MailIsFresh, EndsOneSession, AcknowledgedEnded
<1>3. /\ session' \in [number : 0..MaxSessions, lives : BOOLEAN] /\ LivesIsCounted'
      /\ testRunning' \in BOOLEAN /\ ending' \in BOOLEAN
      /\ playThreads' \subseteq 1..MaxSessions
  <2> USE DEF PlayInv, PlayTyped, PlayTypeOK, LivesIsCounted
  <2>1. CASE Begins
    <3>0. session \in [number : 0..MaxSessions, lives : BOOLEAN]
      BY DEF PlayInv, PlayTyped, PlayTypeOK
    <3>1. session.number < MaxSessions
      <4>1. CASE StartPlaytest \/ UserStarts
        BY <4>1 DEF StartPlaytest, UserStarts
      <4>2. CASE SessionEnds \/ \E n \in playThreads : StartReturns(n)
        <5>1. session'.number = session.number
          BY <3>0, <4>2 DEF SessionEnds, StartReturns
        <5>2. session'.number = session.number + 1 /\ session.number \in Nat
          <6>1. session'.number = session.number + 1
            BY ONLY <2>1 DEF Begins
          <6>2. session.number \in 0..MaxSessions
            BY <3>0
          <6>3. MaxSessions \in Nat
            BY PlayAssumption DEF PlayAssumption
          <6>4. session.number \in Nat
            BY ONLY <6>2, <6>3
          <6> QED BY ONLY <6>1, <6>4
        <5> QED BY ONLY <5>1, <5>2
      <4> QED BY <4>1, <4>2
    <3>2. session.number + 1 \in 1..MaxSessions
      BY <3>1, NextSession
    <3>3. session.number + 1 \in 0..MaxSessions
      BY ONLY <3>2
    <3>4. session' = [number |-> session.number + 1, lives |-> TRUE] /\ ending' = FALSE
      BY <2>1 DEF Begins
    <3>5. /\ testRunning' \in {testRunning, TRUE, FALSE}
          /\ playThreads' \subseteq playThreads \cup {session.number + 1}
      BY DEF StartPlaytest, UserStarts, SessionEnds, StartReturns
    <3> QED BY <3>2, <3>3, <3>4, <3>5
  <2>2. CASE ~Begins
    <3>1. /\ session' \in {session, [session EXCEPT !.lives = FALSE]} /\ ending' = ending
          /\ testRunning' \in {testRunning, FALSE}
          /\ playThreads' \subseteq playThreads
      BY <2>2 DEF StartPlaytest, UserStarts, SessionEnds, StartReturns
    <3> QED BY <3>1
  <2> QED BY <2>1, <2>2
<1>4. PlayTyped'
  BY <1>1, <1>3 DEF PlayInv, PlayTyped, PlayTypeOK
<1> QED BY <1>2, <1>4 DEF PlayInv

\* A step of the mail that leaves the session alone keeps the types.
LEMMA MailKeepsTypes ==
  ASSUME PlayTyped, UNCHANGED session,
         testRunning' \in BOOLEAN, playThreads' \subseteq playThreads, ending' \in BOOLEAN,
         mailbox' \in Mail,
         stop' \in [Stops -> {"none", "waiting", "teardown", "cut off"} \cup Answers],
         ended' \in [Stops -> SUBSET (1..MaxSessions)]
  PROVE  PlayTyped'
BY DEF PlayTyped, PlayTypeOK, LivesIsCounted, Mail

\* The caller's side: it writes its request, and withdraws what is its own.
LEMMA CallersKeep ==
  ASSUME PlayInv, NEW k \in Stops, StopPlaytest(k) \/ StopSteps(k)
  PROVE  PlayInv'
<1>1. UNCHANGED <<session, testRunning, playThreads, ending, ended>>
  BY DEF StopPlaytest, StopSteps, StopConsumed, StopTimesOut, StopReturns
<1>2. mailbox \in Mail /\ stop \in [Stops -> {"none", "waiting", "teardown", "cut off"} \cup Answers]
      /\ MailIsFresh /\ EndsOneSession /\ AcknowledgedEnded /\ PlayTyped
      /\ ended \in [Stops -> SUBSET (1..MaxSessions)]
  BY DEF PlayInv, PlayTyped, PlayTypeOK, Mail
<1>3. mailbox' \in Mail
  BY <1>2, MailTyped DEF StopPlaytest, StopSteps, StopConsumed, StopTimesOut, StopReturns
<1>4. \E at \in {"waiting", "teardown"} \cup Answers : stop' = [stop EXCEPT ![k] = at]
  BY DEF StopPlaytest, StopSteps, StopConsumed, StopTimesOut, StopReturns, Answers
<1>5. PlayTyped'
  BY <1>1, <1>2, <1>3, <1>4, MailKeepsTypes DEF PlayTyped, PlayTypeOK
<1>6. EndsOneSession'
  BY <1>1, <1>2 DEF EndsOneSession
<1>7. CASE StopPlaytest(k)
  <2>1. MailIsFresh'
    BY <1>1, <1>2, <1>7 DEF StopPlaytest, MailIsFresh, Request
  <2>2. AcknowledgedEnded'
    BY <1>1, <1>2, <1>7 DEF StopPlaytest, AcknowledgedEnded
  <2> QED BY <1>5, <1>6, <2>1, <2>2 DEF PlayInv
<1>8. CASE StopConsumed(k)
  <2>1. mailbox' = Empty
    BY <1>8 DEF StopConsumed, ResultFor, Cleared
  <2>2. /\ mailbox'.kind = "none"
        /\ \A j \in Stops : stop'[j] = "none" => stop[j] = "none"
    <3>1. mailbox'.kind = "none"
      BY ONLY <2>1 DEF Empty
    <3>2. \A j \in Stops : stop'[j] = stop[j] \/ stop'[j] # "none"
      BY ONLY <1>2, <1>8 DEF StopConsumed
    <3> QED BY <3>1, <3>2
  <2>4. MailIsFresh'
    BY <1>1, <1>2, <2>2 DEF MailIsFresh
  <2>3. AcknowledgedEnded'
    BY <1>1, <1>2, <1>8 DEF StopConsumed, ResultFor, AcknowledgedEnded, MailIsFresh
  <2> QED BY <1>5, <1>6, <2>3, <2>4 DEF PlayInv
<1>9. CASE StopTimesOut(k)
  <2>1. \/ mailbox'.kind = "none"
        \/ mailbox' = mailbox /\ (mailbox.kind = "request" => mailbox.id # k)
    BY <1>9 DEF StopTimesOut, Cleared, Empty
  <2>4. /\ \A j \in Stops : j # k => stop'[j] = stop[j]
        /\ stop'[k] # "none"
    BY <1>2, <1>9 DEF StopTimesOut
  <2>2. MailIsFresh'
    BY <1>1, <1>2, <2>1, <2>4 DEF MailIsFresh
  <2>3. AcknowledgedEnded'
    BY <1>1, <1>2, <1>9 DEF StopTimesOut, AcknowledgedEnded
  <2> QED BY <1>5, <1>6, <2>2, <2>3 DEF PlayInv
<1>10. CASE StopReturns(k)
  <2>1. MailIsFresh'
    BY <1>1, <1>2, <1>10 DEF StopReturns, MailIsFresh
  <2>2. AcknowledgedEnded'
    BY <1>1, <1>2, <1>10 DEF StopReturns, AcknowledgedEnded
  <2> QED BY <1>5, <1>6, <2>1, <2>2 DEF PlayInv
<1> QED BY <1>7, <1>8, <1>9, <1>10 DEF StopSteps

\* The edit DataModel's plugin reloads: what waited is cut off.
LEMMA ReloadKeeps ==
  ASSUME PlayInv, ReloadEdit
  PROVE  PlayInv'
<1>1. stop' \in [Stops -> {"none", "waiting", "teardown", "cut off"} \cup Answers]
  BY DEF ReloadEdit, PlayInv, PlayTyped, PlayTypeOK
<1>2. \A k \in Stops : stop'[k] \in {stop[k], "cut off"} /\ (stop'[k] = "none" => stop[k] = "none")
  BY DEF ReloadEdit
<1>3. UNCHANGED <<session, ending, mailbox, ended>> /\ testRunning' = FALSE /\ playThreads' = {}
  BY DEF ReloadEdit
<1>4. PlayTyped'
  BY <1>1, <1>3, MailKeepsTypes DEF PlayInv, PlayTyped, PlayTypeOK, Mail
<1>5. MailIsFresh' /\ EndsOneSession' /\ AcknowledgedEnded'
  BY <1>2, <1>3 DEF PlayInv, MailIsFresh, EndsOneSession, AcknowledgedEnded
<1> QED BY <1>4, <1>5 DEF PlayInv

\* The monitor's side.
LEMMA MonitorKeeps ==
  ASSUME PlayInv, RequestAges \/ MonitorDrops \/ MonitorEnds \/ MonitorFails
  PROVE  PlayInv'
<1>1. mailbox.kind = "request" /\ mailbox.id \in Stops /\ ended[mailbox.id] = {}
  BY DEF PlayInv, MailIsFresh, RequestAges, MonitorDrops, MonitorEnds, MonitorFails
<1>2. UNCHANGED <<session, testRunning, playThreads, stop>>
  BY DEF RequestAges, MonitorDrops, MonitorEnds, MonitorFails
<1>3. mailbox \in Mail /\ MailIsFresh /\ EndsOneSession /\ AcknowledgedEnded /\ PlayTyped
      /\ ended \in [Stops -> SUBSET (1..MaxSessions)]
  BY DEF PlayInv, PlayTyped, PlayTypeOK, Mail
<1>4. CASE MonitorEnds
  <2>1. session.number \in 1..MaxSessions
    BY <1>3, <1>4 DEF MonitorEnds, PlayTyped, LivesIsCounted
  <2>2. /\ mailbox' = Result(mailbox.id, TRUE) /\ ending' = TRUE
        /\ ended' = [ended EXCEPT ![mailbox.id] = {session.number}]
    BY <1>1, <1>3, <1>4 DEF MonitorEnds, MailWritten
  <2>3. mailbox' \in Mail /\ ended' \in [Stops -> SUBSET (1..MaxSessions)]
    BY <1>1, <1>3, <2>1, <2>2, MailTyped
  <2>4. PlayTyped'
    BY <1>2, <1>3, <2>2, <2>3, MailKeepsTypes DEF PlayTyped, PlayTypeOK
  <2>5. EndsOneSession' /\ AcknowledgedEnded'
    BY <1>1, <1>2, <1>3, <2>2 DEF EndsOneSession, AcknowledgedEnded
  <2>6. mailbox'.kind = "result" /\ mailbox'.id = mailbox.id
    BY <2>2 DEF Result
  <2>7. stop[mailbox.id] # "none"
    BY <1>1, <1>3 DEF MailIsFresh
  <2>8. MailIsFresh'
    BY <1>1, <1>2, <1>3, <2>2, <2>6, <2>7 DEF MailIsFresh
  <2> QED BY <2>4, <2>5, <2>8 DEF PlayInv
<1>5. CASE RequestAges \/ MonitorDrops \/ MonitorFails
  <2>1. UNCHANGED <<ended, ending>>
    BY <1>5 DEF RequestAges, MonitorDrops, MonitorFails
  <2>2. /\ mailbox' \in Mail
        /\ \/ mailbox'.kind = "request" /\ mailbox'.id = mailbox.id
           \/ mailbox'.kind \in {"none", "result"} /\ mailbox'.ok = FALSE
    <3>1. CASE RequestAges
      BY <1>1, <1>3, <3>1 DEF RequestAges, Mail
    <3>2. CASE MonitorDrops
      BY <3>2, MailTyped DEF MonitorDrops, Empty
    <3>3. CASE MonitorFails
      BY <1>1, <3>3, MailTyped DEF MonitorFails, MailWritten, Result
    <3> QED BY <1>5, <3>1, <3>2, <3>3
  <2>3. PlayTyped'
    BY <1>2, <1>3, <2>1, <2>2, MailKeepsTypes DEF PlayTyped, PlayTypeOK
  <2>4. EndsOneSession' /\ AcknowledgedEnded' /\ MailIsFresh'
    BY <1>1, <1>2, <1>3, <2>1, <2>2 DEF EndsOneSession, AcknowledgedEnded, MailIsFresh
  <2> QED BY <2>3, <2>4 DEF PlayInv
<1> QED BY <1>4, <1>5
-----------------------------------------------------------------------------
LEMMA PlayInvariance == PlaySpec => []PlayInv
<1>1. PlayInv /\ [PlayNext]_playVars => PlayInv'
  <2> SUFFICES ASSUME PlayInv, [PlayNext]_playVars PROVE PlayInv'
    OBVIOUS
  <2>1. CASE UNCHANGED playVars
    BY <2>1
    DEF playVars, PlayInv, PlayTyped, PlayTypeOK, LivesIsCounted, MailIsFresh, EndsOneSession,
        AcknowledgedEnded
  <2> QED
    BY <2>1, SessionsKeep, CallersKeep, ReloadKeeps, MonitorKeeps DEF PlayNext
<1> QED BY <1>1, InitPlayInv, PTL DEF PlaySpec

\* Session, mailbox and calls keep their types.
THEOREM PlayTypes == PlaySpec => []PlayTypeOK
<1>1. PlayInv => PlayTypeOK
  BY DEF PlayInv, PlayTyped
<1> QED BY <1>1, PlayInvariance, PTL

\* A request ends one session at most, is waited for or was cut off, and is
\* acknowledged only if it ended one: whoever else starts, ends or reloads.
THEOREM StopsAreTruthful == PlaySpec => []StopIsTruthful
<1>1. PlayInv => StopIsTruthful
  BY DEF PlayInv, MailIsFresh, StopIsTruthful, RequestIsAwaited
<1> QED BY <1>1, PlayInvariance, PTL
==============================================================================
