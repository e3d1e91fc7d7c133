----------------------------- MODULE MCServerSide -----------------------------
(***************************************************************************)
(* Small instances for TLC of the eight modules about processes that work   *)
(* together around the bridge: `rojo serve` children, the modes of the      *)
(* server, the lock of the instance registry, `reconcile`, the routing of   *)
(* instance ids, the managed Studios, the client broker and the end of play *)
(* sessions.  They share no state.  A behavior is one of a single module:   *)
(* component says of which, and the variables of the others keep their      *)
(* first values.                                                            *)
(***************************************************************************)
EXTENDS RojoProcesses, ServerModes, RegistryLock, ProjectReconcile, InstanceRouting,
        ManagedStudios, ClientBroker, PlayControl, TLC

CONSTANTS Components, e1, e2, d1, d2, host

VARIABLE component

\* The launches are alike, and so are the Studios a person opens.
Twins == Permutations(Launches) \cup Permutations(Manual)

Own == [x \in Studios |-> x]

OneFile == [x \in Studios |-> "place file"]

OneTitle == [x \in Studios |-> "Baseplate"]

\* The agents of one server, or each with a server of its own.
OneHost == [r \in Runs |-> host]

EachItsOwn == [r \in Runs |-> r]

Unready ==
  {[ambiguous |-> FALSE, toolchain |-> "broken", wally |-> "not installed",
    sourcemap |-> TRUE, serve |-> "stopped"]}

Cast(k1, k2, doc1, doc2, m, x) ==
  [kind |-> e1 :> k1 @@ e2 :> k2, doc |-> e1 :> doc1 @@ e2 :> doc2, moves |-> m, mishaps |-> x]

\* Two Studios with places of their own; an edit session and its play server; two
\* play servers or clients; two edit sessions of one place.
Pairs ==
  {Cast("edit", "edit", d1, d2, 1, 0), Cast("edit", "server", d1, d1, 1, 0),
   Cast("server", "server", d1, d1, 0, 1), Cast("client", "client", d1, d1, 0, 1),
   Cast("edit", "edit", d1, d1, 0, 1)}

\* The last of them, one of which is published.
Copies == {Cast("edit", "edit", d1, d1, 1, 0)}

\* Two Studios of which one is published, and one whose answers may be lost.
Moving == {Cast("edit", "edit", d1, d2, 1, 0)}

Init ==
  /\ component \in Components
  /\ RojoInit /\ ModesInit /\ LockInit /\ ReconcileInit /\ StudiosInit /\ BrokerInit /\ PlayInit
  /\ RoutingInit /\ (component # "routing" => cast = CHOOSE x \in Casts : TRUE)

Next ==
  /\ UNCHANGED component
  /\ \/ /\ component = "rojo" /\ RojoNext
        /\ UNCHANGED <<modeVars, lockVars, reconcileVars, routingVars,
                       studiosVars, brokerVars, playVars>>
     \/ /\ component = "modes" /\ ModesNext
        /\ UNCHANGED <<rojoVars, lockVars, reconcileVars, routingVars,
                       studiosVars, brokerVars, playVars>>
     \/ /\ component = "lock" /\ LockNext
        /\ UNCHANGED <<rojoVars, modeVars, reconcileVars, routingVars,
                       studiosVars, brokerVars, playVars>>
     \/ /\ component = "reconcile" /\ ReconcileNext
        /\ UNCHANGED <<rojoVars, modeVars, lockVars, routingVars,
                       studiosVars, brokerVars, playVars>>
     \/ /\ component = "routing" /\ RoutingNext
        /\ UNCHANGED <<rojoVars, modeVars, lockVars, reconcileVars,
                       studiosVars, brokerVars, playVars>>
     \/ /\ component = "studios" /\ StudiosNext
        /\ UNCHANGED <<rojoVars, modeVars, lockVars, reconcileVars,
                       routingVars, brokerVars, playVars>>
     \/ /\ component = "broker" /\ BrokerNext
        /\ UNCHANGED <<rojoVars, modeVars, lockVars, reconcileVars,
                       routingVars, studiosVars, playVars>>
     \/ /\ component = "play" /\ PlayNext
        /\ UNCHANGED <<rojoVars, modeVars, lockVars, reconcileVars,
                       routingVars, studiosVars, brokerVars>>

vars == <<component, rojoVars, modeVars, lockVars, reconcileVars, routingVars, studiosVars,
          brokerVars, playVars>>

Spec == Init /\ [][Next]_vars

\* No fair action is enabled in the first values of the modules that stand still.
FairSpec ==
  /\ Spec
  /\ RojoFairness /\ ModesFairness /\ LockFairness /\ ReconcileFairness /\ RoutingFairness
  /\ BrokerFairness /\ PlayFairness

\* The variables of the eight modules have the values their declarations promise.
ServerSideTypeOK ==
  /\ component \in Components
  /\ RojoTypeOK /\ ModesTypeOK /\ LockTypeOK /\ ReconcileTypeOK
  /\ RoutingTypeOK /\ StudiosTypeOK /\ BrokerTypeOK /\ PlayTypeOK

\* Nothing waits for ever: starts and sweeps of Rojo, tool calls and shutdowns of a
\* server, a port without a primary, a writer at the lock, an apply, a moved Studio,
\* a client that was forgotten, a player that left, a call of stop_playtest.
AllAnswer ==
  /\ CallsReturn
  /\ CallsAnswered /\ PortTakenOver /\ ShutdownExits
  /\ LockIsLeft
  /\ ApplyAnswers
  /\ SettlesAlone
  /\ ProxyComesBack /\ GhostsVanish
  /\ StopAnswers
=============================================================================
