------------------------- MODULE BridgeServiceProofs -------------------------
(***************************************************************************)
(* Theorems about BridgeService, for every set of requests, sessions and   *)
(* targets, every bound, with and without a journal.                       *)
(*                                                                         *)
(* First the safety invariants, from the inductive invariant IInv: one     *)
(* lemma per action shows that it keeps LiveInv, what holds of the live    *)
(* server, and ends by writing the journal; PersistSound shows that a      *)
(* journal written by a sound server is sound, which Restart rests on.     *)
(* Then the action properties: every step is a Restart or an Advance, and  *)
(* HInv ties the journal and the fences to the live state.                 *)
(***************************************************************************)
EXTENDS BridgeService, InductionLemmas, FiniteSetTheorems

\* The transition table, row by row.
LEMMA LegalTable ==
  /\ \A to : Legal("queued", to) <=>
             to \in {"delivered", "failed", "timed_out", "cancelled"}
  /\ \A to : Legal("delivered", to) <=> to \in {"queued", "started"} \cup Terminal
  /\ \A to : Legal("started", to) <=> to \in Terminal \ {"cancelled"}
  /\ \A to : Legal("outcome_unknown", to) <=> to \in {"completed", "failed"}
  /\ \A to : Legal("none", to) <=> to \in States \ {"none"}
  /\ \A from \in Terminal \ {"outcome_unknown"} : \A to : ~Legal(from, to)
<1>1. /\ Allowed["queued"] = {"delivered", "failed", "timed_out", "cancelled"}
      /\ Allowed["delivered"] = {"queued", "started"} \cup Terminal
      /\ Allowed["started"] = Terminal \ {"cancelled"}
      /\ Allowed["outcome_unknown"] = {"completed", "failed"}
      /\ Allowed["none"] = States \ {"none"}
      /\ \A from \in Terminal \ {"outcome_unknown"} : Allowed[from] = {}
  BY DEF Allowed, Terminal
<1> QED  BY <1>1 DEF Legal

\* The two edits of a fence keep its type.
LEMMA EpochSet ==
  ASSUME NEW f \in Fences, NEW e \in 0..MaxEpoch
  PROVE  [f EXCEPT !.epoch = e] \in Fences
BY DEF Fences

LEMMA RequeuedType ==
  ASSUME LiveTypeOK, NEW r \in Requests
  PROVE  Requeued(r) \in Fences
<1>1. fence[r] \in Fences  BY DEF LiveTypeOK
<1> QED  BY <1>1, BridgeAssumption DEF Requeued, Fences

\* A sound server writes a sound journal.
LEMMA PersistSound ==
  ASSUME LiveInv', Persist
  PROVE  JournalSound'
<1> USE DEF LiveInv
<1>1. journal' \in Snapshots
  BY DEF Persist, LiveTypeOK, Snapshots
<1>2. journal.pending' = {r \in Requests : journal.state'[r] \in Active}
  BY DEF Persist, PendingIffActive
<1>3. \A r \in Requests : journal.state'[r] = "queued" => journal.attempt'[r] < MaxAttempts
  <2> SUFFICES ASSUME NEW r \in Requests, state'[r] = "queued"
               PROVE  attempt'[r] < MaxAttempts
    BY DEF Persist
  <2>1. r \in pending'  BY DEF PendingIffActive, Active
  <2>2. holder'[r] = NoSession  BY <2>1 DEF LeaseHeldByHandler, Leased
  <2> QED  BY <2>1, <2>2 DEF Room
<1>4. \A r \in Requests :
        arrival'[r] = 0 => journal.state'[r] = "none" /\ journal.attempt'[r] = 0
  BY DEF Persist, UnsentUnknown
<1> QED  BY <1>1, <1>2, <1>3, <1>4 DEF JournalSound

-----------------------------------------------------------------------------
(* One lemma per action *)

\* A new request.
LEMMA SendRequestKeeps ==
  ASSUME LiveInv, NEW r \in Requests, SendRequest(r)
  PROVE  LiveInv' /\ Persist
<1> USE DEF LiveInv
<1>1. state[r] = "none" /\ attempt[r] = 0 /\ r \notin pending /\ holder[r] = NoSession
  BY DEF UnsentUnknown, PendingIffActive, Idle, SendRequest, Active
<1>2. state' = [state EXCEPT ![r] = "queued"]
  BY <1>1, LegalTable DEF SendRequest, Moved, States, Active
<1>3. LiveTypeOK'
  <2>1. fence' \in [Requests -> Fences]
    BY EpochSet DEF LiveTypeOK, SendRequest
  <2> QED BY <1>2, <2>1 DEF LiveTypeOK, SendRequest, registryVars, States, Active
<1>4. PendingIffActive'
  BY <1>2 DEF LiveTypeOK, PendingIffActive, SendRequest, Active
<1>5. Idle'
  BY DEF Idle, SendRequest
<1>6. UnsentUnknown'
  BY <1>2 DEF LiveTypeOK, UnsentUnknown, SendRequest
<1>7. Room'
  BY <1>1, BridgeAssumption DEF Room, SendRequest
<1>8. OneSessionPerTarget' /\ LeaseHeldByHandler' /\ OneMutationInFlight'
  BY <1>1, <1>2 DEF LiveTypeOK, OneSessionPerTarget, LeaseHeldByHandler,
     OneMutationInFlight, SendRequest, registryVars, PendingIffActive
<1> QED  BY <1>3, <1>4, <1>5, <1>6, <1>7, <1>8 DEF SendRequest

\* A poll, with the leases that lapse in it.
LEMMA DeliverKeeps ==
  ASSUME LiveInv, NEW s \in Sessions, NEW L \in SUBSET Requests, NEW r \in Requests,
         Deliver(s, L, r)
  PROVE  LiveInv' /\ Persist
<1> USE DEF LiveInv
<1> DEFINE resting == IF r \in L THEN "queued" ELSE state[r]
<1>1. /\ \A q \in L : /\ q \in pending /\ state[q] = "delivered"
                      /\ RequestTarget[q] = TargetOf[s] /\ attempt[q] < MaxAttempts
      /\ s \in registered
      /\ r \in pending /\ RequestTarget[r] = TargetOf[s]
      /\ holder[r] = NoSession \/ r \in L
      /\ r \in Mutations => InFlight(s, L) \cap Mutations = {}
  BY DEF Deliver, Lapsable, Oldest, Eligible, InFlight, Mine
<1>2. attempt[r] < MaxAttempts
  BY <1>1 DEF Room
<1>3. /\ state[r] \in Active
      /\ resting \in Active
      /\ \A q \in L : state[q] \in Active
  BY <1>1 DEF PendingIffActive, Active
<1>4. Legal(resting, "delivered") <=> resting = "queued"
  BY <1>3, LegalTable DEF Active, Terminal
<1>5. /\ state' \in [Requests -> States]
      /\ \A q \in Requests : state'[q] \in Active <=> state[q] \in Active
      /\ state'[r] \in Leased
      /\ \A q \in Requests \ {r} :
           state'[q] = IF q \in L THEN "queued" ELSE state[q]
  <2>1. state' = [q \in Requests |->
                    IF q = r
                    THEN IF resting = "queued" THEN "delivered" ELSE resting
                    ELSE IF q \in L THEN "queued" ELSE state[q]]
    BY <1>4 DEF Deliver
  <2> QED  BY <2>1, <1>3 DEF LiveTypeOK, States, Active, Leased
<1>6. /\ holder' = [q \in Requests |-> IF q = r THEN s
                                       ELSE IF q \in L THEN NoSession ELSE holder[q]]
      /\ attempt' = [attempt EXCEPT ![r] = @ + 1]
      /\ UNCHANGED <<serving, epoch, registered, clock, pending, arrival>>
      /\ Persist
  BY DEF Deliver, registryVars
<1>7. LiveTypeOK'
  <2>1. NextFence(s, r) \in Fences
    BY <1>2, BridgeAssumption DEF NextFence, Fences, LiveTypeOK
  <2>2. fence' \in [Requests -> Fences]
    <3>1. fence' = [q \in Requests |->
                 IF q = r
                 THEN IF Legal(resting, "delivered") THEN NextFence(s, r) ELSE fence[q]
                 ELSE IF q \in L THEN Requeued(q) ELSE fence[q]]
      BY DEF Deliver
    <3> QED  BY <2>1, <3>1, RequeuedType DEF LiveTypeOK
  <2>3. attempt' \in [Requests -> 0..MaxAttempts]
    BY <1>2, <1>6, BridgeAssumption DEF LiveTypeOK
  <2>4. holder' \in [Requests -> Sessions \cup {NoSession}]
    BY <1>6 DEF LiveTypeOK
  <2> QED  BY <1>5, <1>6, <2>2, <2>3, <2>4 DEF LiveTypeOK
<1>8. PendingIffActive'
  BY <1>5, <1>6 DEF PendingIffActive
<1>9. Idle' /\ UnsentUnknown'
  BY <1>1, <1>3, <1>5, <1>6 DEF Idle, UnsentUnknown, LiveTypeOK, Active, PendingIffActive
<1>10. Room'
  BY <1>1, <1>6, BridgeAssumption DEF Room, LiveTypeOK
<1>11. OneSessionPerTarget' /\ LeaseHeldByHandler'
  BY <1>1, <1>5, <1>6 DEF OneSessionPerTarget, LeaseHeldByHandler, LiveTypeOK
<1>12. OneMutationInFlight'
  <2> SUFFICES ASSUME NEW p \in pending \cap Mutations, NEW q \in pending \cap Mutations,
                      RequestTarget[p] = RequestTarget[q],
                      holder'[p] # NoSession, holder'[q] # NoSession, p # q
               PROVE  FALSE
    BY <1>6 DEF OneMutationInFlight
  <2>1. \A x \in Requests \ {r} :
          holder'[x] # NoSession => x \notin L /\ holder[x] # NoSession
    BY <1>6
  <2>2. p \in Requests /\ q \in Requests
    BY DEF LiveTypeOK
  <2>3. CASE p = r
    <3>1. q \in InFlight(s, L)
      BY <1>1, <2>1, <2>2, <2>3 DEF InFlight, Mine
    <3> QED  BY <1>1, <2>3, <3>1
  <2>4. CASE q = r
    <3>1. p \in InFlight(s, L)
      BY <1>1, <2>1, <2>2, <2>4 DEF InFlight, Mine
    <3> QED  BY <1>1, <2>4, <3>1
  <2>5. CASE p # r /\ q # r
    BY <2>1, <2>2, <2>5 DEF OneMutationInFlight
  <2> QED  BY <2>3, <2>4, <2>5
<1> QED  BY <1>6, <1>7, <1>8, <1>9, <1>10, <1>11, <1>12

\* A stream gives its deliveries back.
LEMMA ReleaseKeeps ==
  ASSUME LiveInv, NEW R \in SUBSET pending, Release(R),
         \A r \in R : attempt[r] < MaxAttempts
  PROVE  LiveInv' /\ Persist
<1> USE DEF LiveInv
<1>1. \A r \in R : state[r] \in Active /\ r \in Requests
  BY DEF PendingIffActive
<1>2. /\ holder' = [r \in Requests |-> IF r \in R THEN NoSession ELSE holder[r]]
      /\ UNCHANGED <<serving, epoch, registered, clock, pending, arrival, attempt>>
      /\ Persist
  BY DEF Release, registryVars
<1>3. /\ state' \in [Requests -> States]
      /\ \A r \in Requests : state'[r] \in Active <=> state[r] \in Active
      /\ \A r \in Requests \ R : state'[r] = state[r]
  <2>1. \A r \in R : Legal(state[r], "queued") => state[r] = "delivered"
    BY <1>1, LegalTable DEF Active, Terminal
  <2> QED  BY <2>1 DEF Release, LiveTypeOK, States, Active
<1>4. LiveTypeOK'
  <2>1. fence' \in [Requests -> Fences]
    BY RequeuedType DEF Release, LiveTypeOK
  <2> QED  BY <1>2, <1>3, <2>1 DEF LiveTypeOK
<1>5. PendingIffActive'
  BY <1>2, <1>3 DEF PendingIffActive
<1>6. Idle' /\ UnsentUnknown' /\ Room'
  BY <1>1, <1>2, <1>3 DEF Idle, UnsentUnknown, Room, LiveTypeOK, Active
<1>7. OneSessionPerTarget' /\ LeaseHeldByHandler' /\ OneMutationInFlight'
  BY <1>2, <1>3 DEF OneSessionPerTarget, LeaseHeldByHandler, OneMutationInFlight, LiveTypeOK
<1> QED  BY <1>2, <1>4, <1>5, <1>6, <1>7

\* A fenced acknowledgement.
LEMMA AcknowledgeKeeps ==
  ASSUME LiveInv, NEW r \in Requests, NEW f, Acknowledge(r, f)
  PROVE  LiveInv' /\ Persist
<1> USE DEF LiveInv
<1>1. /\ state[r] = "delivered"
      /\ state' = [state EXCEPT ![r] = "started"]
      /\ UNCHANGED <<serving, epoch, registered, clock, pending, arrival, holder, attempt, fence>>
      /\ Persist
  BY DEF Acknowledge, registryVars, queueVars
<1>2. LiveTypeOK' /\ PendingIffActive'
  BY <1>1 DEF LiveTypeOK, PendingIffActive, States, Active
<1>3. Idle' /\ UnsentUnknown' /\ Room'
  BY <1>1 DEF Idle, UnsentUnknown, Room, LiveTypeOK
<1>4. OneSessionPerTarget' /\ LeaseHeldByHandler' /\ OneMutationInFlight'
  BY <1>1 DEF OneSessionPerTarget, LeaseHeldByHandler, OneMutationInFlight, LiveTypeOK, Leased
<1> QED  BY <1>1, <1>2, <1>3, <1>4

\* What the actions that take requests out of the queue have in common: those
\* requests settle, and no remaining slot loses its session.
LEMMA DequeueKeeps ==
  ASSUME LiveInv, NEW R \in SUBSET Requests, Dequeue(R), fence' = fence,
         state' \in [Requests -> States],
         \A r \in R : state'[r] \in Terminal /\ state[r] # "none",
         \A r \in Requests \ R : state'[r] = state[r],
         serving' \in BOOLEAN, epoch' \in 0..MaxEpoch, registered' \in SUBSET Sessions,
         \A s, x \in registered' : TargetOf[s] = TargetOf[x] => s = x,
         \A r \in pending \ R : holder[r] \in registered => holder[r] \in registered'
  PROVE  LiveInv'
<1> USE DEF LiveInv
<1>1. /\ pending' = pending \ R
      /\ holder' = [r \in Requests |-> IF r \in R THEN NoSession ELSE holder[r]]
      /\ UNCHANGED <<clock, arrival, attempt>>
  BY DEF Dequeue
<1>2. LiveTypeOK'
  BY <1>1 DEF LiveTypeOK
<1>3. PendingIffActive'
  BY <1>1 DEF PendingIffActive, Active, Terminal
<1>4. Idle' /\ UnsentUnknown' /\ Room'
  BY <1>1 DEF Idle, UnsentUnknown, Room, LiveTypeOK
<1>5. OneSessionPerTarget' /\ LeaseHeldByHandler' /\ OneMutationInFlight'
  BY <1>1 DEF OneSessionPerTarget, LeaseHeldByHandler, OneMutationInFlight, LiveTypeOK
<1> QED  BY <1>2, <1>3, <1>4, <1>5

\* A fenced answer.
LEMMA FinishKeeps ==
  ASSUME LiveInv, NEW r \in Requests, NEW f, NEW to \in {"completed", "failed"},
         Finish(r, f, to)
  PROVE  LiveInv' /\ Persist
<1>1. state[r] # "none" /\ to \in Terminal
  BY DEF Finish, FenceMatches, Terminal
<1>2. /\ state' = [state EXCEPT ![r] = to]
      /\ Dequeue({r}) /\ fence' = fence
      /\ UNCHANGED <<serving, epoch, registered>>
      /\ Persist
  BY DEF Finish, registryVars
<1> QED
  BY <1>1, <1>2, DequeueKeeps DEF LiveInv, LiveTypeOK, States, OneSessionPerTarget

\* Receipts settle unknown outcomes.
LEMMA ReconcileKeeps ==
  ASSUME LiveInv, NEW s \in Sessions, NEW e, NEW receipts, Reconcile(s, e, receipts)
  PROVE  LiveInv' /\ Persist
<1> USE DEF LiveInv
<1>1. \A r \in Proven(s, receipts) : state[r] = "outcome_unknown"
  BY DEF Proven
<1>2. /\ state' = [r \in Requests |->
                     IF r \in Proven(s, receipts) THEN "completed" ELSE state[r]]
      /\ UNCHANGED <<serving, epoch, registered, clock, pending, arrival, holder, attempt, fence>>
      /\ Persist
  BY DEF Reconcile, registryVars, queueVars
<1>3. \A r \in Requests : /\ state'[r] \in Active <=> state[r] \in Active
                          /\ state'[r] \in Leased <=> state[r] \in Leased
                          /\ state[r] = "none" => state'[r] = "none"
  BY <1>1, <1>2 DEF Active, Leased
<1>4. LiveTypeOK'
  BY <1>2 DEF LiveTypeOK, States, Terminal
<1>5. PendingIffActive' /\ Idle' /\ UnsentUnknown' /\ Room'
  BY <1>2, <1>3 DEF PendingIffActive, Idle, UnsentUnknown, Room
<1>6. OneSessionPerTarget' /\ LeaseHeldByHandler' /\ OneMutationInFlight'
  BY <1>2, <1>3 DEF OneSessionPerTarget, LeaseHeldByHandler, OneMutationInFlight, LiveTypeOK
<1> QED  BY <1>2, <1>4, <1>5, <1>6

\* A waiting request that is given up settles.
LEMMA MovedToTerminal ==
  ASSUME LiveInv, NEW r \in pending, NEW otherwise \in {"failed", "timed_out"}
  PROVE  Moved(r, Interrupted(r, otherwise)) \in Terminal
<1>1. state[r] \in Active
  BY DEF LiveInv, PendingIffActive
<1>2. Legal(state[r], otherwise)
  BY <1>1, LegalTable DEF Active, Terminal
<1>3. state[r] \in Leased => Legal(state[r], "outcome_unknown")
  BY LegalTable DEF Leased, Terminal
<1> QED  BY <1>2, <1>3 DEF Moved, Interrupted, Terminal

\* A timeout.
LEMMA ExpireKeeps ==
  ASSUME LiveInv, NEW r \in Requests, Expire(r)
  PROVE  LiveInv' /\ Persist
<1>1. /\ state' = [state EXCEPT ![r] = Moved(r, Interrupted(r, "timed_out"))]
      /\ r \in pending /\ state[r] # "none"
      /\ Dequeue({r}) /\ fence' = fence
      /\ UNCHANGED <<serving, epoch, registered>>
      /\ Persist
  BY DEF Expire, registryVars
<1>2. Moved(r, Interrupted(r, "timed_out")) \in Terminal
  BY <1>1, MovedToTerminal
<1> QED
  BY <1>1, <1>2, DequeueKeeps DEF LiveInv, LiveTypeOK, States, OneSessionPerTarget

\* A cancellation, which always finds a legal transition.
LEMMA CancelKeeps ==
  ASSUME LiveInv, NEW r \in Requests, Cancel(r)
  PROVE  LiveInv' /\ Persist
<1>1. /\ state' = [state EXCEPT ![r] = Moved(r, "cancelled")]
      /\ r \in pending /\ state[r] # "started"
      /\ Dequeue({r}) /\ fence' = fence
      /\ UNCHANGED <<serving, epoch, registered>>
      /\ Legal(state[r], "cancelled") => Persist
  BY DEF Cancel, registryVars
<1>2. state[r] \in {"queued", "delivered"}
  BY <1>1 DEF LiveInv, PendingIffActive, Active
<1>3. Legal(state[r], "cancelled")
  BY <1>2, LegalTable DEF Terminal
<1>4. state' = [state EXCEPT ![r] = "cancelled"] /\ Persist
  BY <1>1, <1>3 DEF Moved
<1> QED
  BY <1>1, <1>2, <1>4, DequeueKeeps DEF LiveInv, LiveTypeOK, States, Terminal, OneSessionPerTarget

\* The loss of a session: its slots are emptied with it.
LEMMA DropOrphansKeeps ==
  ASSUME LiveInv, NEW s \in Sessions, DropOrphans(s, registered \ {s}),
         registered' \in SUBSET Sessions, registered \ {s} \subseteq registered',
         \A x, y \in registered' : TargetOf[x] = TargetOf[y] => x = y
  PROVE  LiveInv' /\ Persist
<1> DEFINE lost == Orphaned(s, registered \ {s})
<1>1. /\ state' = [r \in Requests |->
                     IF r \in lost THEN Moved(r, Interrupted(r, "failed")) ELSE state[r]]
      /\ Dequeue(lost) /\ UNCHANGED <<serving, epoch, fence>>
      /\ Persist
  BY DEF DropOrphans
<1>2. lost \subseteq pending /\ pending \subseteq Requests
  BY DEF Orphaned, LiveInv, LiveTypeOK
<1>3. \A r \in lost : Moved(r, Interrupted(r, "failed")) \in Terminal
  BY <1>2, MovedToTerminal
<1>4. state' \in [Requests -> States]
  BY <1>1, <1>3 DEF LiveInv, LiveTypeOK, States
<1>5. \A r \in lost : state'[r] \in Terminal /\ state[r] # "none"
  BY <1>1, <1>2, <1>3 DEF LiveInv, PendingIffActive, Active
<1>6. \A r \in Requests \ lost : state'[r] = state[r]
  BY <1>1
<1>7. \A r \in pending \ lost : holder[r] \in registered => holder[r] \in registered'
  <2> SUFFICES ASSUME NEW r \in pending \ lost, holder[r] \in registered
               PROVE  holder[r] # s
    OBVIOUS
  <2>1. state[r] \in Leased
    BY BridgeAssumption DEF LiveInv, LiveTypeOK, LeaseHeldByHandler
  <2> QED  BY <2>1 DEF Orphaned
<1>8. serving' \in BOOLEAN /\ epoch' \in 0..MaxEpoch
  BY <1>1 DEF LiveInv, LiveTypeOK
<1> QED  BY <1>1, <1>2, <1>4, <1>5, <1>6, <1>7, <1>8, DequeueKeeps

\* A session leaves.
LEMMA UnregisterKeeps ==
  ASSUME LiveInv, NEW s \in Sessions, Unregister(s)
  PROVE  LiveInv' /\ Persist
<1>1. registered' = registered \ {s} /\ DropOrphans(s, registered \ {s})
  BY DEF Unregister
<1> QED  BY <1>1, DropOrphansKeeps DEF LiveInv, LiveTypeOK, OneSessionPerTarget

\* A session arrives or takes over; only a takeover writes the journal.
LEMMA RegisterKeeps ==
  ASSUME LiveInv, NEW s \in Sessions, Register(s)
  PROVE  LiveInv' /\ (Persist \/ UNCHANGED <<journal, arrival>>)
<1>1. CASE Rivals(s) = {} /\ registered' = registered \cup {s}
           /\ UNCHANGED <<serving, epoch, queueVars, statusVars, journal>>
  <2>1. \A x, y \in registered' : TargetOf[x] = TargetOf[y] => x = y
    BY <1>1 DEF Rivals, LiveInv, OneSessionPerTarget
  <2>2. LiveTypeOK' /\ PendingIffActive' /\ Idle' /\ UnsentUnknown' /\ Room'
    BY <1>1 DEF queueVars, statusVars, LiveInv, LiveTypeOK, PendingIffActive, Idle,
                UnsentUnknown, Room
  <2>3. OneSessionPerTarget' /\ LeaseHeldByHandler' /\ OneMutationInFlight'
    BY <1>1, <2>1 DEF queueVars, statusVars, LiveInv, LeaseHeldByHandler,
                      OneMutationInFlight, OneSessionPerTarget
  <2> QED  BY <1>1, <2>2, <2>3 DEF LiveInv, queueVars
<1>2. ASSUME NEW old \in Rivals(s),
             registered' = (registered \ {old}) \cup {s},
             DropOrphans(old, registered \ {old})
      PROVE  LiveInv' /\ Persist
  <2>1. old \in registered /\ old \in Sessions /\ TargetOf[old] = TargetOf[s]
    BY DEF Rivals, LiveInv, LiveTypeOK
  <2>2. \A x \in registered \ {old, s} : TargetOf[x] # TargetOf[s]
    BY <2>1 DEF LiveInv, OneSessionPerTarget
  <2>3. \A x, y \in registered' : TargetOf[x] = TargetOf[y] => x = y
    BY <1>2, <2>2 DEF LiveInv, OneSessionPerTarget
  <2>4. registered' \in SUBSET Sessions /\ registered \ {old} \subseteq registered'
    BY <1>2 DEF LiveInv, LiveTypeOK
  <2> QED  BY <1>2, <2>1, <2>3, <2>4, DropOrphansKeeps
<1> QED  BY <1>1, <1>2 DEF Register

\* Shutdown.
LEMMA ClearAllKeeps ==
  ASSUME LiveInv, ClearAll
  PROVE  LiveInv' /\ Persist
<1>1. /\ serving' = FALSE
      /\ state' = [r \in Requests |-> IF r \in pending THEN Moved(r, "failed") ELSE state[r]]
      /\ Dequeue(pending) /\ UNCHANGED <<epoch, registered, fence>>
      /\ Persist
  BY DEF ClearAll
<1>2. \A r \in pending : Moved(r, "failed") = "failed" /\ state[r] # "none"
  BY LegalTable DEF Moved, LiveInv, PendingIffActive, Active, Terminal
<1>3. state' \in [Requests -> States] /\ pending \in SUBSET Requests
  BY <1>1, <1>2 DEF LiveInv, LiveTypeOK, States, Terminal
<1>4. \A r \in pending : state'[r] \in Terminal /\ state[r] # "none"
  BY <1>1, <1>2, <1>3 DEF Terminal
<1> QED  BY <1>1, <1>3, <1>4, DequeueKeeps DEF LiveInv, LiveTypeOK, OneSessionPerTarget

\* A restart, the one action that needs the journal to be sound.
LEMMA RestartKeeps ==
  ASSUME LiveInv, JournalSound, Restart
  PROVE  LiveInv' /\ UNCHANGED <<journal, arrival>>
<1>1. /\ epoch' = epoch + 1 /\ epoch < MaxEpoch
      /\ serving' = TRUE /\ registered' = {}
      /\ holder' = [r \in Requests |-> NoSession]
      /\ UNCHANGED <<clock, arrival, journal>>
  BY DEF Restart
<1>2. OneSessionPerTarget' /\ LeaseHeldByHandler' /\ OneMutationInFlight' /\ Idle'
  <2>1. pending' \in SUBSET Requests
    BY DEF Restart, JournalSound, Snapshots
  <2> QED  BY <1>1, <2>1 DEF OneSessionPerTarget, LeaseHeldByHandler, OneMutationInFlight, Idle
<1>3. /\ clock \in Nat /\ arrival \in [Requests -> Nat]
      /\ serving' \in BOOLEAN /\ epoch' \in 0..MaxEpoch /\ registered' \in SUBSET Sessions
      /\ holder' \in [Requests -> Sessions \cup {NoSession}]
  BY <1>1, BridgeAssumption DEF LiveInv, LiveTypeOK
<1>4. CASE LoadJournal
  <2>1. /\ pending' = {r \in journal.pending : journal.state[r] = "queued"}
        /\ attempt' = journal.attempt
        /\ state' = [r \in Requests |-> IF journal.state[r] \in Leased
                                        THEN "outcome_unknown" ELSE journal.state[r]]
        /\ fence' = journal.fence
    BY <1>4 DEF Restart
  <2>2. LiveTypeOK'
    BY <1>1, <1>3, <2>1 DEF JournalSound, Snapshots, LiveTypeOK, States, Terminal
  <2>3. PendingIffActive'
    BY <2>1 DEF JournalSound, PendingIffActive, Active, Leased
  <2>4. UnsentUnknown'
    BY <1>1, <2>1 DEF JournalSound, UnsentUnknown, Leased
  <2>5. Room'
    BY <2>1 DEF JournalSound, Snapshots, Room
  <2> QED  BY <1>1, <1>2, <2>2, <2>3, <2>4, <2>5 DEF LiveInv
<1>5. CASE ~LoadJournal
  <2>1. /\ pending' = {}
        /\ attempt' = [r \in Requests |-> 0]
        /\ state' = [r \in Requests |-> "none"]
        /\ fence' = [r \in Requests |-> NoFence]
    BY <1>5 DEF Restart
  <2>2. LiveTypeOK'
    BY <1>1, <1>3, <2>1, BridgeAssumption DEF LiveTypeOK, States, Fences, NoFence
  <2>3. PendingIffActive' /\ UnsentUnknown' /\ Room'
    BY <2>1 DEF PendingIffActive, UnsentUnknown, Room, Active
  <2> QED  BY <1>1, <1>2, <2>2, <2>3 DEF LiveInv
<1> QED  BY <1>4, <1>5
-----------------------------------------------------------------------------
\* The empty bridge is sound.
LEMMA InitSound == Init => IInv
<1> SUFFICES ASSUME Init PROVE IInv
  OBVIOUS
<1> USE DEF Init
<1>1. LiveTypeOK
  BY BridgeAssumption DEF LiveTypeOK, States, Fences, NoFence
<1>2. PendingIffActive /\ Idle /\ UnsentUnknown /\ Room
  BY DEF PendingIffActive, Idle, UnsentUnknown, Room, Active
<1>3. OneSessionPerTarget /\ LeaseHeldByHandler /\ OneMutationInFlight
  BY DEF OneSessionPerTarget, LeaseHeldByHandler, OneMutationInFlight
<1>4. JournalSound
  BY <1>1 DEF JournalSound, Snapshots, LiveTypeOK, Active
<1> QED  BY <1>1, <1>2, <1>3, <1>4 DEF IInv, LiveInv

\* A journal that is not written stays sound.
LEMMA JournalKept ==
  ASSUME JournalSound, UNCHANGED <<journal, arrival>>
  PROVE  JournalSound'
BY DEF JournalSound

\* One step of Next keeps the invariant: one case for each action.
LEMMA NextKeeps ==
  ASSUME IInv, [Next]_bridgeVars
  PROVE  IInv'
<1> USE DEF IInv
<1>1. ASSUME NEW r \in Requests, SendRequest(r) PROVE IInv'
  BY <1>1, SendRequestKeeps, PersistSound
<1>2. ASSUME NEW r \in Requests, Expire(r) PROVE IInv'
  BY <1>2, ExpireKeeps, PersistSound
<1>3. ASSUME NEW r \in Requests, Cancel(r) PROVE IInv'
  BY <1>3, CancelKeeps, PersistSound
<1>4. ASSUME NEW r \in Requests, NEW f \in FrameFences, Acknowledge(r, f) PROVE IInv'
  BY <1>4, AcknowledgeKeeps, PersistSound
<1>5. ASSUME NEW r \in Requests, NEW f \in FrameFences, Resolve(r, f) \/ Reject(r, f)
      PROVE  IInv'
  BY <1>5, FinishKeeps, PersistSound DEF Resolve, Reject
<1>6. ASSUME NEW s \in Sessions, NEW L \in SUBSET Lapsable(s), NEW r \in Requests,
             Deliver(s, L, r)
      PROVE  IInv'
  <2>1. L \in SUBSET Requests
    BY DEF Lapsable, Mine, LiveInv, LiveTypeOK
  <2> QED  BY <1>6, <2>1, DeliverKeeps, PersistSound
<1>7. ASSUME NEW s \in Sessions, StreamClosed(s) PROVE IInv'
  BY <1>7, ReleaseKeeps, PersistSound DEF StreamClosed
<1>8. ASSUME NEW s \in Sessions, NEW r \in Requests, SendFailed(s, r) PROVE IInv'
  BY <1>8, ReleaseKeeps, PersistSound DEF SendFailed
<1>9. ASSUME NEW s \in Sessions, NEW receipts, NEW e, Reconcile(s, e, receipts)
      PROVE  IInv'
  BY <1>9, ReconcileKeeps, PersistSound
<1>10. ASSUME NEW s \in Sessions, Unregister(s) PROVE IInv'
  BY <1>10, UnregisterKeeps, PersistSound
<1>11. ASSUME NEW s \in Sessions, Register(s) PROVE IInv'
  BY <1>11, RegisterKeeps, PersistSound, JournalKept
<1>12. CASE ClearAll
  BY <1>12, ClearAllKeeps, PersistSound
<1>13. CASE Restart
  BY <1>13, RestartKeeps, JournalKept
<1>14. CASE UNCHANGED bridgeVars
  <2>1. /\ UNCHANGED <<serving, epoch, registered, clock, pending, arrival>>
        /\ UNCHANGED <<holder, attempt, state, fence, journal>>
    BY <1>14 DEF bridgeVars, registryVars, queueVars, statusVars
  <2>2. LiveInv'
    BY <2>1 DEF LiveInv, LiveTypeOK, PendingIffActive, Idle, UnsentUnknown, Room,
                OneSessionPerTarget, LeaseHeldByHandler, OneMutationInFlight
  <2> QED  BY <2>1, <2>2, JournalKept
<1> QED
  BY <1>1, <1>2, <1>3, <1>4, <1>5, <1>6, <1>7, <1>8, <1>9, <1>10, <1>11, <1>12,
     <1>13, <1>14 DEF Next

\* Whatever is sent, delivered, acknowledged, answered, cancelled, lost or
\* restarted, in any order and with any fences, the invariant holds.
THEOREM Invariance == Spec => []IInv
<1>1. Init => IInv
  BY InitSound
<1>2. IInv /\ [Next]_bridgeVars => IInv'
  BY NextKeeps
<1> QED  BY <1>1, <1>2, PTL DEF Spec

\* The bridge and its journal keep their types.
THEOREM TypeCorrect == Spec => []TypeOK
<1>1. IInv => TypeOK
  BY DEF IInv, LiveInv, JournalSound, TypeOK
<1> QED  BY <1>1, Invariance, PTL

\* No caller hangs on a settled request and no settled request is delivered.
THEOREM QueueAgreesWithStatus == Spec => []PendingIffActive
<1>1. IInv => PendingIffActive
  BY DEF IInv, LiveInv
<1> QED  BY <1>1, Invariance, PTL

\* Registration, takeover and disconnects leave one session per target.
THEOREM OneHandler == Spec => []OneSessionPerTarget
<1>1. IInv => OneSessionPerTarget
  BY DEF IInv, LiveInv
<1> QED  BY <1>1, Invariance, PTL

\* A slot in use belongs to a session that can still answer for it.
THEOREM LeasesAreServed == Spec => []LeaseHeldByHandler
<1>1. IInv => LeaseHeldByHandler
  BY DEF IInv, LiveInv
<1> QED  BY <1>1, Invariance, PTL

\* At most one mutation of a target is in flight.
THEOREM MutualExclusion == Spec => []OneMutationInFlight
<1>1. IInv => OneMutationInFlight
  BY DEF IInv, LiveInv
<1> QED  BY <1>1, Invariance, PTL
-----------------------------------------------------------------------------
(* The action properties: how one step changes states, fences and journal *)

\* The states change along the table.
LegalStep ==
  \A r \in Requests : state'[r] = state[r] \/ Legal(state[r], state'[r])

\* A fence changes only as the code writes it, and is numbered by its delivery.
FenceStep ==
  \A r \in Requests :
    \/ /\ attempt'[r] = attempt[r]
       /\ fence'[r] \in {fence[r], Requeued(r), [fence[r] EXCEPT !.epoch = epoch]}
    \/ /\ attempt'[r] = attempt[r] + 1
       /\ \E s \in Sessions : fence'[r] \in {fence[r], NextFence(s, r)}

\* What a step did is on disk when it ends.
Recorded == Persist \/ UNCHANGED <<journal, state, fence, attempt>>

Advance == epoch' = epoch /\ LegalStep /\ FenceStep /\ Recorded

\* Moved never leaves the table.
LEMMA MovedIsLegal ==
  ASSUME NEW r, NEW to
  PROVE  Moved(r, to) = state[r] \/ Legal(state[r], Moved(r, to))
BY DEF Moved

\* A new request advances.
LEMMA SendRequestAdvances ==
  ASSUME LiveInv, NEW r \in Requests, SendRequest(r)
  PROVE  Advance
<1>1. epoch' = epoch /\ attempt' = attempt /\ Persist
      /\ state' = [state EXCEPT ![r] = Moved(r, "queued")]
      /\ fence' = [fence EXCEPT ![r].epoch = epoch]
  BY DEF SendRequest, registryVars
<1>2. LegalStep
  BY <1>1, MovedIsLegal DEF LegalStep, LiveInv, LiveTypeOK
<1>3. FenceStep
  BY <1>1 DEF FenceStep, LiveInv, LiveTypeOK
<1> QED  BY <1>1, <1>2, <1>3 DEF Advance, Recorded

\* A poll advances.
LEMMA DeliverAdvances ==
  ASSUME LiveInv, NEW s \in Sessions, NEW L \in SUBSET Requests, NEW r \in Requests,
         Deliver(s, L, r)
  PROVE  Advance
<1> DEFINE resting == IF r \in L THEN "queued" ELSE state[r]
<1>1. \A q \in L : state[q] = "delivered"
  BY DEF Deliver, Lapsable
<1>2. epoch' = epoch /\ attempt' = [attempt EXCEPT ![r] = @ + 1] /\ Persist
  BY DEF Deliver, registryVars
<1>3. \A q \in Requests \ {r} :
        state'[q] = IF q \in L THEN "queued" ELSE state[q]
  BY DEF Deliver
<1>4. state'[r] = IF Legal(resting, "delivered") THEN "delivered" ELSE resting
  BY DEF Deliver
<1>5. LegalStep
  <2>1. \A q \in L : Legal(state[q], "queued")
    BY <1>1, LegalTable
  <2>2. state'[r] = state[r] \/ Legal(state[r], state'[r])
    BY <1>1, <1>4, <2>1, LegalTable
  <2> QED  BY <1>3, <2>1, <2>2 DEF LegalStep
<1>6. FenceStep
  <2>1. fence' = [q \in Requests |->
               IF q = r
               THEN IF Legal(resting, "delivered") THEN NextFence(s, r) ELSE fence[q]
               ELSE IF q \in L THEN Requeued(q) ELSE fence[q]]
    BY DEF Deliver
  <2>2. \A q \in Requests \ {r} : attempt'[q] = attempt[q] /\ fence'[q] \in {fence[q], Requeued(q)}
    BY <1>2, <2>1 DEF LiveInv, LiveTypeOK
  <2>3. attempt'[r] = attempt[r] + 1 /\ fence'[r] \in {fence[r], NextFence(s, r)}
    BY <1>2, <2>1 DEF LiveInv, LiveTypeOK
  <2> QED  BY <2>2, <2>3 DEF FenceStep
<1> QED  BY <1>2, <1>5, <1>6 DEF Advance, Recorded

\* A release advances.
LEMMA ReleaseAdvances ==
  ASSUME LiveInv, NEW R \in SUBSET pending, Release(R)
  PROVE  Advance
<1>1. epoch' = epoch /\ attempt' = attempt /\ Persist
  BY DEF Release, registryVars
<1>2. LegalStep
  BY DEF Release, LegalStep
<1>3. FenceStep
  BY <1>1 DEF Release, FenceStep
<1> QED  BY <1>1, <1>2, <1>3 DEF Advance, Recorded

\* The steps that leave fences and counts alone.
LEMMA StateOnlyAdvances ==
  ASSUME epoch' = epoch, fence' = fence, attempt' = attempt, Recorded, LegalStep
  PROVE  Advance
BY DEF Advance, FenceStep

\* Losing a session advances.
LEMMA DropOrphansAdvances ==
  ASSUME LiveInv, NEW s, NEW rest, DropOrphans(s, rest)
  PROVE  Advance
<1>1. LegalStep
  BY MovedIsLegal DEF DropOrphans, LegalStep
<1> QED  BY <1>1, StateOnlyAdvances DEF DropOrphans, Dequeue, Recorded

\* Every step but a restart follows the table, numbers its deliveries and
\* records what it did.
LEMMA NextAdvances ==
  ASSUME IInv, Next
  PROVE  Restart \/ Advance
<1> USE DEF IInv
<1>1. ASSUME NEW r \in Requests, SendRequest(r) PROVE Advance
  BY <1>1, SendRequestAdvances
<1>2. ASSUME NEW r \in Requests, Expire(r) PROVE Advance
  <2>1. LegalStep
    BY <1>2, MovedIsLegal DEF Expire, LegalStep, LiveInv, LiveTypeOK
  <2> QED  BY <1>2, <2>1, StateOnlyAdvances DEF Expire, Dequeue, registryVars, Recorded
<1>3. ASSUME NEW r \in Requests, Cancel(r) PROVE Advance
  <2>1. LegalStep
    BY <1>3, MovedIsLegal DEF Cancel, LegalStep, LiveInv, LiveTypeOK
  <2>2. Persist
    BY <1>3, CancelKeeps
  <2> QED  BY <1>3, <2>1, <2>2, StateOnlyAdvances DEF Cancel, Dequeue, registryVars, Recorded
<1>4. ASSUME NEW r \in Requests, NEW f, Acknowledge(r, f) PROVE Advance
  <2>1. LegalStep
    BY <1>4, LegalTable DEF Acknowledge, LegalStep, LiveInv, LiveTypeOK
  <2> QED
    BY <1>4, <2>1, StateOnlyAdvances DEF Acknowledge, registryVars, queueVars, Recorded
<1>5. ASSUME NEW r \in Requests, NEW f, Resolve(r, f) \/ Reject(r, f) PROVE Advance
  <2>1. LegalStep
    BY <1>5 DEF Resolve, Reject, Finish, LegalStep, LiveInv, LiveTypeOK
  <2> QED
    BY <1>5, <2>1, StateOnlyAdvances
       DEF Resolve, Reject, Finish, Dequeue, registryVars, Recorded
<1>6. ASSUME NEW s \in Sessions, NEW L \in SUBSET Lapsable(s), NEW r \in Requests,
             Deliver(s, L, r)
      PROVE  Advance
  <2>1. L \in SUBSET Requests
    BY DEF Lapsable, Mine, LiveInv, LiveTypeOK
  <2> QED  BY <1>6, <2>1, DeliverAdvances
<1>7. ASSUME NEW s \in Sessions, StreamClosed(s) PROVE Advance
  BY <1>7, ReleaseAdvances DEF StreamClosed
<1>8. ASSUME NEW s \in Sessions, NEW r \in Requests, SendFailed(s, r) PROVE Advance
  BY <1>8, ReleaseAdvances DEF SendFailed
<1>9. ASSUME NEW s, NEW receipts, NEW e, Reconcile(s, e, receipts) PROVE Advance
  <2>1. LegalStep
    BY <1>9, LegalTable DEF Reconcile, Proven, LegalStep
  <2> QED
    BY <1>9, <2>1, StateOnlyAdvances DEF Reconcile, registryVars, queueVars, Recorded
<1>10. ASSUME NEW s \in Sessions, Unregister(s) PROVE Advance
  BY <1>10, DropOrphansAdvances DEF Unregister
<1>11. ASSUME NEW s \in Sessions, Register(s) PROVE Advance
  <2>1. CASE UNCHANGED <<serving, epoch, queueVars, statusVars, journal>>
    BY <2>1, StateOnlyAdvances DEF queueVars, statusVars, LegalStep, Recorded
  <2> QED  BY <1>11, <2>1, DropOrphansAdvances DEF Register
<1>12. CASE ClearAll
  <2>1. LegalStep
    BY <1>12, MovedIsLegal DEF ClearAll, LegalStep
  <2> QED  BY <1>12, <2>1, StateOnlyAdvances DEF ClearAll, Dequeue, Recorded
<1> QED
  BY <1>1, <1>2, <1>3, <1>4, <1>5, <1>6, <1>7, <1>8, <1>9, <1>10, <1>11, <1>12 DEF Next

\* What a restart makes of an up-to-date journal.
LEMMA RestartFromJournal ==
  ASSUME JournalCurrent, Restart, LoadJournal
  PROVE  /\ fence' = fence /\ attempt' = attempt
         /\ \A r \in Requests :
              state'[r] = IF state[r] \in Leased THEN "outcome_unknown" ELSE state[r]
BY DEF JournalCurrent, Restart, Leased

\* How one step changes the numbers of a fence.
LEMMA FenceNumbers ==
  ASSUME LiveTypeOK, FenceStep, NEW r \in Requests
  PROVE  \/ /\ attempt'[r] = attempt[r]
            /\ fence'[r].attempt = fence[r].attempt
            /\ fence'[r].lease \in {fence[r].lease, 0}
         \/ attempt'[r] = attempt[r] + 1 /\ fence'[r] = fence[r]
         \/ attempt'[r] = attempt[r] + 1 /\ fence'[r].attempt = attempt[r] + 1
<1>1. fence[r] \in Fences
  BY DEF LiveTypeOK
<1>2. CASE attempt'[r] = attempt[r] /\ fence'[r] = fence[r]
  BY <1>2
<1>3. CASE attempt'[r] = attempt[r] /\ fence'[r] = Requeued(r)
  BY <1>3 DEF Requeued
<1>4. CASE attempt'[r] = attempt[r] /\ fence'[r] = [fence[r] EXCEPT !.epoch = epoch]
  BY <1>1, <1>4 DEF Fences
<1>5. CASE attempt'[r] = attempt[r] + 1 /\ fence'[r] = fence[r]
  BY <1>5
<1>6. ASSUME NEW s \in Sessions, attempt'[r] = attempt[r] + 1, fence'[r] = NextFence(s, r)
      PROVE  attempt'[r] = attempt[r] + 1 /\ fence'[r].attempt = attempt[r] + 1
  BY <1>6 DEF NextFence
<1> QED  BY <1>2, <1>3, <1>4, <1>5, <1>6 DEF FenceStep

\* HInv is inductive.
LEMMA HistoryKept ==
  ASSUME HInv, [Next]_bridgeVars
  PROVE  HInv'
<1>1. IInv'
  BY NextKeeps DEF HInv
<1>2. CASE Advance
  <2>1. JournalCurrent'
    BY <1>2 DEF Advance, Recorded, Persist, HInv, JournalCurrent
  <2>2. FenceBehind'
    <3> SUFFICES ASSUME NEW r \in Requests
                 PROVE  fence'[r].attempt <= attempt'[r]
      BY DEF FenceBehind
    <3>1. /\ attempt[r] \in Nat /\ fence[r] \in Fences /\ fence[r].attempt \in Nat
          /\ fence[r].attempt <= attempt[r]
      BY BridgeAssumption DEF HInv, IInv, LiveInv, LiveTypeOK, Fences, FenceBehind
    <3> QED  BY <1>2, <3>1, FenceNumbers DEF Advance, HInv, IInv, LiveInv
  <2> QED  BY <1>1, <2>1, <2>2 DEF HInv
<1>3. CASE Restart
  <2>1. CASE LoadJournal
    <3>1. JournalCurrent'
      BY <1>3, <2>1, RestartFromJournal DEF HInv, JournalCurrent, Restart, Leased
    <3>2. FenceBehind'
      BY <1>3, <2>1, RestartFromJournal DEF HInv, FenceBehind
    <3> QED  BY <1>1, <3>1, <3>2 DEF HInv
  <2>2. CASE ~LoadJournal
    <3>1. JournalCurrent'
      BY <2>2 DEF JournalCurrent
    <3>2. FenceBehind'
      BY <1>3, <2>2 DEF Restart, FenceBehind, NoFence
    <3> QED  BY <1>1, <3>1, <3>2 DEF HInv
  <2> QED  BY <2>1, <2>2
<1>4. CASE UNCHANGED bridgeVars
  BY <1>1, <1>4 DEF HInv, JournalCurrent, FenceBehind, bridgeVars, queueVars, statusVars
<1> QED  BY <1>2, <1>3, <1>4, NextAdvances DEF HInv

\* The journal stays current and no fence runs ahead of its deliveries.
THEOREM HistoryInvariance == Spec => []HInv
<1>1. Init => HInv
  <2> SUFFICES ASSUME Init PROVE HInv
    OBVIOUS
  <2>1. JournalCurrent /\ FenceBehind
    BY DEF Init, JournalCurrent, FenceBehind, NoFence
  <2> QED  BY <2>1, InitSound DEF HInv
<1>2. HInv /\ [Next]_bridgeVars => HInv'
  BY HistoryKept
<1> QED  BY <1>1, <1>2, PTL DEF Spec

\* A settled request is never settled differently, not even by a restart that
\* reads the journal.
THEOREM OutcomesAreFinal == Spec => OutcomeIsFinal
<1> DEFINE Step ==
      \A r \in Requests :
        state[r] \in Terminal =>
          \/ state'[r] = state[r]
          \/ state[r] = "outcome_unknown" /\ state'[r] \in {"completed", "failed"}
          \/ epoch' # epoch /\ ~LoadJournal
<1>1. HInv /\ [Next]_bridgeVars => [Step]_bridgeVars
  <2> SUFFICES ASSUME HInv, Next PROVE Step
    OBVIOUS
  <2>1. CASE Advance
    BY <2>1, LegalTable DEF Advance, LegalStep, Terminal
  <2>2. CASE Restart
    <3>1. epoch' # epoch
      BY <2>2, BridgeAssumption DEF Restart, HInv, IInv, LiveInv, LiveTypeOK
    <3>2. LoadJournal => \A r \in Requests : state[r] \in Terminal => state'[r] = state[r]
      BY <2>2, RestartFromJournal DEF HInv, Terminal, Leased
    <3> QED  BY <3>1, <3>2
  <2> QED  BY <2>1, <2>2, NextAdvances DEF HInv
<1> QED  BY <1>1, HistoryInvariance, PTL DEF Spec, OutcomeIsFinal

\* With its journal, a server forgets nothing in a crash.
THEOREM RestartsKeepStatus == LoadJournal => (Spec => RestartKeepsStatus)
<1> SUFFICES ASSUME LoadJournal PROVE Spec => RestartKeepsStatus
  OBVIOUS
<1> DEFINE Step ==
      epoch' # epoch =>
        \A r \in Requests :
          state'[r] = IF state[r] \in Leased THEN "outcome_unknown" ELSE state[r]
<1>1. HInv /\ [Next]_bridgeVars => [Step]_bridgeVars
  <2> SUFFICES ASSUME HInv, Next PROVE Step
    OBVIOUS
  <2>1. CASE Advance
    BY <2>1 DEF Advance
  <2>2. CASE Restart
    BY <2>2, RestartFromJournal DEF HInv
  <2> QED  BY <2>1, <2>2, NextAdvances DEF HInv
<1> QED  BY <1>1, HistoryInvariance, PTL DEF Spec, RestartKeepsStatus

\* A lease that is drawn comes with a delivery number never used before, so a
\* late frame matches no later fence.
THEOREM LeasesAreFresh == Spec => LeaseNeverReissued
<1> DEFINE Step ==
      \A r \in Requests :
        state'[r] # "none" =>
          /\ fence'[r].attempt >= fence[r].attempt
          /\ fence'[r].lease \notin {0, fence[r].lease} =>
               fence'[r].attempt > fence[r].attempt
<1>1. HInv /\ [Next]_bridgeVars => [Step]_bridgeVars
  <2> SUFFICES ASSUME HInv, Next PROVE Step
    OBVIOUS
  <2>1. CASE Advance
    <3> SUFFICES ASSUME NEW r \in Requests
                 PROVE  /\ fence'[r].attempt >= fence[r].attempt
                        /\ fence'[r].lease \notin {0, fence[r].lease} =>
                             fence'[r].attempt > fence[r].attempt
      OBVIOUS
    <3>1. /\ attempt[r] \in Nat /\ fence[r] \in Fences /\ fence[r].attempt \in Nat
          /\ fence[r].attempt <= attempt[r]
      BY BridgeAssumption DEF HInv, IInv, LiveInv, LiveTypeOK, Fences, FenceBehind
    <3> QED  BY <2>1, <3>1, FenceNumbers DEF Advance, HInv, IInv, LiveInv
  <2>2. CASE Restart
    <3>1. CASE LoadJournal
      BY <2>2, <3>1, RestartFromJournal, BridgeAssumption
         DEF HInv, IInv, LiveInv, LiveTypeOK, Fences
    <3>2. CASE ~LoadJournal
      BY <2>2, <3>2 DEF Restart
    <3> QED  BY <3>1, <3>2
  <2> QED  BY <2>1, <2>2, NextAdvances DEF HInv
<1> QED  BY <1>1, HistoryInvariance, PTL DEF Spec, LeaseNeverReissued
-----------------------------------------------------------------------------
(* Without streams, slots and leases agree *)

\* Nothing about r changed.
Untouched(r) == /\ state'[r] = state[r] /\ holder'[r] = holder[r]
                /\ fence'[r] = fence[r] /\ attempt'[r] = attempt[r]

\* A step that changes nothing about the requests that stay in the queue.
LEMMA LeavingKeepsLeases ==
  ASSUME LInv, epoch' = epoch, arrival' = arrival, fence' = fence,
         pending' \subseteq pending, \A r \in pending' : Untouched(r)
  PROVE  UnsentUnleased' /\ LeaseIsCurrent'
BY DEF LInv, UnsentUnleased, LeaseIsCurrent, LeasedAsQueued, Untouched

\* A new request has no lease.
LEMMA SendRequestKeepsLeases ==
  ASSUME LInv, NEW r \in Requests, SendRequest(r)
  PROVE  UnsentUnleased' /\ LeaseIsCurrent'
<1> USE DEF LInv, HInv, IInv, LiveInv
<1>1. /\ state[r] = "none" /\ r \notin pending /\ holder[r] = NoSession
      /\ fence[r] \in Fences /\ fence[r].session = NoSession /\ fence[r].lease = 0
  BY DEF UnsentUnknown, UnsentUnleased, PendingIffActive, Idle, SendRequest, Active,
         LiveTypeOK
<1>2. /\ fence' = [fence EXCEPT ![r].epoch = epoch]
      /\ arrival' = [arrival EXCEPT ![r] = clock + 1]
      /\ pending' = pending \cup {r}
      /\ holder' = holder /\ attempt' = attempt /\ epoch' = epoch
  BY DEF SendRequest, registryVars
<1>3. state' = [state EXCEPT ![r] = "queued"]
  BY <1>1, LegalTable DEF SendRequest, Moved, States, Active
<1>4. fence'[r].session = NoSession /\ fence'[r].lease = 0 /\ state'[r] = "queued"
  BY <1>1, <1>2, <1>3 DEF LiveTypeOK, Fences
<1>5. \A q \in Requests \ {r} : Untouched(q) /\ arrival'[q] = arrival[q]
  BY <1>2, <1>3 DEF LiveTypeOK, Untouched
<1>6. UnsentUnleased'
  BY <1>4, <1>5 DEF UnsentUnleased, Untouched
<1>7. LeasedAsQueued(r)'
  BY <1>1, <1>2, <1>4 DEF LeasedAsQueued
<1>8. \A q \in pending : LeasedAsQueued(q)'
  BY <1>1, <1>2, <1>5 DEF LiveTypeOK, LeaseIsCurrent, LeasedAsQueued, Untouched
<1> QED  BY <1>2, <1>6, <1>7, <1>8 DEF LeaseIsCurrent

\* A poll draws the lease of what it delivers and voids those that lapse.
LEMMA DeliverKeepsLeases ==
  ASSUME LInv, NEW s \in Sessions, NEW L \in SUBSET Requests, NEW r \in Requests,
         Deliver(s, L, r)
  PROVE  UnsentUnleased' /\ LeaseIsCurrent'
<1> USE DEF LInv, HInv, IInv, LiveInv
<1>1. /\ r \in pending /\ (holder[r] = NoSession \/ r \in L)
      /\ L \subseteq pending
  BY DEF Deliver, Lapsable, Oldest, Eligible, InFlight, Mine
<1>2. /\ epoch' = epoch /\ arrival' = arrival /\ pending' = pending
      /\ attempt' = [attempt EXCEPT ![r] = @ + 1]
      /\ holder' = [q \in Requests |-> IF q = r THEN s
                                       ELSE IF q \in L THEN NoSession ELSE holder[q]]
  BY DEF Deliver, registryVars
<1>3. (IF r \in L THEN "queued" ELSE state[r]) = "queued"
  BY <1>1 DEF LeaseIsCurrent, LeasedAsQueued
<1>4. Legal("queued", "delivered")
  BY LegalTable
<1>5. /\ state' = [q \in Requests |-> IF q = r THEN "delivered"
                                      ELSE IF q \in L THEN "queued" ELSE state[q]]
      /\ fence' = [q \in Requests |-> IF q = r THEN NextFence(s, r)
                                      ELSE IF q \in L THEN Requeued(q) ELSE fence[q]]
  BY <1>3, <1>4 DEF Deliver
<1>6. LeasedAsQueued(r)'
  BY <1>2, <1>5, BridgeAssumption DEF LiveTypeOK, LeasedAsQueued, NextFence
<1>7. ASSUME NEW q \in L \ {r} PROVE LeasedAsQueued(q)'
  BY <1>2, <1>5, <1>7 DEF LeasedAsQueued, Requeued
<1>8. ASSUME NEW q \in pending, q \notin L, q # r PROVE LeasedAsQueued(q)'
  <2>1. Untouched(q)
    BY <1>2, <1>5, <1>8 DEF LiveTypeOK, Untouched
  <2> QED  BY <1>2, <2>1 DEF LeaseIsCurrent, LeasedAsQueued, Untouched
<1>9. UnsentUnleased'
  <2>1. \A q \in Requests : arrival[q] = 0 => q \notin pending
    BY DEF UnsentUnknown, PendingIffActive, Active
  <2> QED  BY <1>1, <1>2, <1>5, <2>1 DEF UnsentUnleased
<1> QED  BY <1>2, <1>6, <1>7, <1>8, <1>9 DEF LeaseIsCurrent

\* A restart restores only requests without a lease.
LEMMA RestartKeepsLeases ==
  ASSUME LInv, Restart
  PROVE  UnsentUnleased' /\ LeaseIsCurrent'
<1> USE DEF LInv, HInv, IInv, LiveInv
<1>1. arrival' = arrival /\ holder' = [r \in Requests |-> NoSession]
  BY DEF Restart
<1>2. CASE LoadJournal
  <2>1. /\ fence' = fence
        /\ \A r \in Requests :
             state'[r] = IF state[r] \in Leased THEN "outcome_unknown" ELSE state[r]
    BY <1>2, RestartFromJournal
  <2>2. PendingIffActive'
    BY RestartKeeps
  <2>3. UnsentUnleased'
    BY <1>1, <2>1 DEF UnsentUnleased
  <2>4. ASSUME NEW r \in pending' PROVE LeasedAsQueued(r)'
    <3>1. r \in Requests /\ state[r] = "queued" /\ state'[r] = "queued"
      BY <2>1, <2>2, <2>4 DEF PendingIffActive, Active, Leased
    <3>2. r \in pending
      BY <3>1 DEF PendingIffActive, Active
    <3> QED  BY <1>1, <2>1, <3>1, <3>2 DEF LeaseIsCurrent, LeasedAsQueued
  <2> QED  BY <2>3, <2>4 DEF LeaseIsCurrent
<1>3. CASE ~LoadJournal
  BY <1>1, <1>3 DEF Restart, UnsentUnleased, LeaseIsCurrent, NoFence
<1> QED  BY <1>2, <1>3

\* LInv is inductive where there are no streams.
LEMMA LeasesKept ==
  ASSUME Streaming = {}, LInv, [Next]_bridgeVars
  PROVE  LInv'
<1> USE DEF LInv, HInv, IInv, LiveInv
<1> DEFINE Goal == UnsentUnleased' /\ LeaseIsCurrent'
<1>1. HInv'
  BY HistoryKept
<1>2. ASSUME NEW r \in Requests, SendRequest(r) PROVE Goal
  BY <1>2, SendRequestKeepsLeases
<1>3. ASSUME NEW r \in Requests, Expire(r) \/ Cancel(r) PROVE Goal
  BY <1>3, LeavingKeepsLeases
     DEF Expire, Cancel, Dequeue, registryVars, LiveTypeOK, Untouched
<1>4. ASSUME NEW r \in Requests, NEW f, Acknowledge(r, f) PROVE Goal
  <2>1. /\ state[r] = "delivered" /\ state' = [state EXCEPT ![r] = "started"]
        /\ UNCHANGED <<epoch, pending, arrival, holder, attempt, fence>>
    BY <1>4 DEF Acknowledge, registryVars, queueVars
  <2>2. \A q \in pending : LeasedAsQueued(q)'
    BY <2>1 DEF LiveTypeOK, LeaseIsCurrent, LeasedAsQueued
  <2> QED  BY <2>1, <2>2 DEF UnsentUnleased, LeaseIsCurrent
<1>5. ASSUME NEW r \in Requests, NEW f, Resolve(r, f) \/ Reject(r, f) PROVE Goal
  BY <1>5, LeavingKeepsLeases
     DEF Resolve, Reject, Finish, Dequeue, registryVars, LiveTypeOK, Untouched
<1>6. ASSUME NEW s \in Sessions, NEW L \in SUBSET Lapsable(s), NEW r \in Requests,
             Deliver(s, L, r)
      PROVE  Goal
  <2>1. L \in SUBSET Requests
    BY DEF Lapsable, Mine, LiveTypeOK
  <2> QED  BY <1>6, <2>1, DeliverKeepsLeases
<1>7. ASSUME NEW s, NEW receipts, NEW e, Reconcile(s, e, receipts) PROVE Goal
  BY <1>7, LeavingKeepsLeases
     DEF Reconcile, Proven, registryVars, queueVars, PendingIffActive, Active, Untouched
<1>8. ASSUME NEW s, NEW rest, DropOrphans(s, rest) PROVE Goal
  BY <1>8, LeavingKeepsLeases DEF DropOrphans, Dequeue, LiveTypeOK, Untouched
<1>9. ASSUME NEW s \in Sessions, Register(s) \/ Unregister(s) PROVE Goal
  <2>1. CASE UNCHANGED <<serving, epoch, queueVars, statusVars, journal>>
    BY <2>1, LeavingKeepsLeases DEF queueVars, statusVars, Untouched
  <2> QED  BY <1>8, <1>9, <2>1 DEF Register, Unregister
<1>10. ASSUME ClearAll PROVE Goal
  BY <1>10, LeavingKeepsLeases DEF ClearAll, Dequeue
<1>11. ASSUME Restart PROVE Goal
  BY <1>11, RestartKeepsLeases
<1>12. ASSUME UNCHANGED bridgeVars PROVE Goal
  BY <1>12, LeavingKeepsLeases DEF bridgeVars, registryVars, queueVars, statusVars, Untouched
<1>13. \A s \in Sessions : ~StreamClosed(s) /\ \A r \in Requests : ~SendFailed(s, r)
  BY DEF StreamClosed, SendFailed
<1> QED
  BY <1>1, <1>2, <1>3, <1>4, <1>5, <1>6, <1>7, <1>9, <1>10, <1>11, <1>12, <1>13
     DEF Next

\* Where no session streams, leases and slots agree.
THEOREM LeaseInvariance == Streaming = {} => (Spec => []LInv)
<1> SUFFICES ASSUME Streaming = {} PROVE Spec => []LInv
  OBVIOUS
<1>1. Init => LInv
  <2> SUFFICES ASSUME Init PROVE LInv
    OBVIOUS
  <2>1. HInv
    BY InitSound DEF HInv, Init, JournalCurrent, FenceBehind, NoFence
  <2>2. UnsentUnleased /\ LeaseIsCurrent
    BY DEF Init, UnsentUnleased, LeaseIsCurrent, NoFence
  <2> QED  BY <2>1, <2>2 DEF LInv
<1>2. LInv /\ [Next]_bridgeVars => LInv'
  BY LeasesKept
<1> QED  BY <1>1, <1>2, PTL DEF Spec

\* A request in flight has the fence of its last delivery and a queued one has
\* no lease: the server accepts no frames of a request but those of the
\* delivery in force.
THEOREM LeasesAreCurrent == Streaming = {} => (Spec => []LeaseIsCurrent)
<1> SUFFICES ASSUME Streaming = {} PROVE Spec => []LeaseIsCurrent
  OBVIOUS
<1>1. LInv => LeaseIsCurrent
  BY DEF LInv
<1> QED  BY <1>1, LeaseInvariance, PTL
-----------------------------------------------------------------------------
(* The slots of a target: how many reads are in flight, and that a poll in *)
(* which leases lapse finds something to deliver                           *)

\* The reads in flight for target t.
ReadSlots(t) ==
  {r \in pending \ Mutations : RequestTarget[r] = t /\ holder[r] # NoSession}

\* What is in flight was given to a plugin variant that can serve it.
HoldersSupport == \A r \in pending : holder[r] # NoSession => Supports(holder[r], r)

SlotInv == ReadsWithinLimit /\ HoldersSupport

LEMMA SlotsAreFinite ==
  ASSUME LiveTypeOK, NEW t
  PROVE  IsFiniteSet(ReadSlots(t)) /\ Cardinality(ReadSlots(t)) \in Nat
<1>1. ReadSlots(t) \in SUBSET Requests /\ IsFiniteSet(Requests)
  BY BridgeAssumption DEF ReadSlots, LiveTypeOK
<1> QED  BY <1>1, FS_Subset, FS_CardinalityType

\* A step that gives no slot to anybody keeps the slots within their limit.
LEMMA NoSlotGiven ==
  ASSUME LiveTypeOK, SlotInv,
         \A r \in pending' : holder'[r] # NoSession => r \in pending /\ holder'[r] = holder[r]
  PROVE  SlotInv'
<1>1. ASSUME NEW t \in Targets PROVE Cardinality(ReadSlots(t)') <= ReadLimit
  <2>1. ReadSlots(t)' \in SUBSET ReadSlots(t)
    BY DEF ReadSlots
  <2>2. IsFiniteSet(ReadSlots(t)) /\ Cardinality(ReadSlots(t)) \in Nat
    BY SlotsAreFinite
  <2>3. IsFiniteSet(ReadSlots(t)') /\ Cardinality(ReadSlots(t)') <= Cardinality(ReadSlots(t))
    BY <2>1, <2>2, FS_Subset
  <2>4. Cardinality(ReadSlots(t)') \in Nat
    BY <2>3, FS_CardinalityType
  <2>5. Cardinality(ReadSlots(t)) <= ReadLimit
    BY DEF SlotInv, ReadsWithinLimit, ReadSlots
  <2> QED  BY <2>2, <2>3, <2>4, <2>5, BridgeAssumption
<1>2. ReadsWithinLimit'
  BY <1>1 DEF ReadsWithinLimit, ReadSlots
<1>3. HoldersSupport'
  BY DEF SlotInv, HoldersSupport, Supports
<1> QED  BY <1>2, <1>3 DEF SlotInv

\* A delivery takes one slot, of those that the lapses and the limit leave.
LEMMA DeliverySlot ==
  ASSUME LiveInv, SlotInv, NEW s \in Sessions, NEW L \in SUBSET Lapsable(s),
         NEW r \in Requests, Deliver(s, L, r)
  PROVE  SlotInv'
<1> DEFINE busy == InFlight(s, L)
<1>1. /\ r \in Mine(s) \ busy /\ Supports(s, r)
      /\ r \notin Mutations => Cardinality(busy \ Mutations) < ReadLimit
      /\ r \in pending /\ RequestTarget[r] = TargetOf[s]
  BY DEF Deliver, Oldest, Eligible, Mine
<1>2. /\ pending' = pending
      /\ \A q \in Requests : holder'[q] = IF q = r THEN s
                                          ELSE IF q \in L THEN NoSession ELSE holder[q]
  BY DEF Deliver
<1>3. \A q \in pending : holder'[q] # NoSession => q = r \/ holder'[q] = holder[q]
  BY <1>2 DEF LiveInv, LiveTypeOK
<1>4. HoldersSupport'
  BY <1>1, <1>2, <1>3 DEF SlotInv, HoldersSupport, Supports, LiveInv, LiveTypeOK
<1>5. ASSUME NEW t \in Targets PROVE Cardinality(ReadSlots(t)') <= ReadLimit
  <2>1. CASE t # TargetOf[s] \/ r \in Mutations
    <3>1. ReadSlots(t)' \in SUBSET ReadSlots(t)
      BY <1>1, <1>2, <1>3, <2>1 DEF ReadSlots
    <3>2. IsFiniteSet(ReadSlots(t)) /\ Cardinality(ReadSlots(t)) \in Nat
      BY SlotsAreFinite DEF LiveInv
    <3>3. IsFiniteSet(ReadSlots(t)') /\ Cardinality(ReadSlots(t)') <= Cardinality(ReadSlots(t))
      BY <3>1, <3>2, FS_Subset
    <3>4. Cardinality(ReadSlots(t)') \in Nat
      BY <3>3, FS_CardinalityType
    <3>5. Cardinality(ReadSlots(t)) <= ReadLimit
      BY DEF SlotInv, ReadsWithinLimit, ReadSlots
    <3> QED  BY <3>2, <3>3, <3>4, <3>5, BridgeAssumption
  <2>2. CASE t = TargetOf[s] /\ r \notin Mutations
    <3> DEFINE others == busy \ Mutations
    <3>1. ReadSlots(t)' \in SUBSET (others \cup {r})
      BY <1>2, <1>3, <2>2 DEF ReadSlots, InFlight, Mine, LiveInv, LiveTypeOK
    <3>2. IsFiniteSet(others) /\ r \notin others
      <4>1. others \in SUBSET Requests /\ IsFiniteSet(Requests)
        BY BridgeAssumption DEF InFlight, Mine, LiveInv, LiveTypeOK
      <4> QED  BY <1>1, <4>1, FS_Subset
    <3> HIDE DEF others
    <3>3. Cardinality(others) \in Nat /\ Cardinality(others) < ReadLimit
      BY <1>1, <2>2, <3>2, FS_CardinalityType DEF others
    <3>4. IsFiniteSet(others \cup {r}) /\ Cardinality(others \cup {r}) = Cardinality(others) + 1
      BY <3>2, FS_AddElement
    <3>5. /\ IsFiniteSet(ReadSlots(t)')
          /\ Cardinality(ReadSlots(t)') <= Cardinality(others \cup {r})
      BY <3>1, <3>4, FS_Subset
    <3>6. Cardinality(ReadSlots(t)') \in Nat
      BY <3>5, FS_CardinalityType
    <3> QED  BY <3>3, <3>4, <3>5, <3>6, BridgeAssumption
  <2> QED  BY <2>1, <2>2
<1>6. ReadsWithinLimit'
  BY <1>5 DEF ReadsWithinLimit, ReadSlots
<1> QED  BY <1>4, <1>6 DEF SlotInv

\* No other step gives a slot.
LEMMA SlotsKept ==
  ASSUME IInv, SlotInv, [Next]_bridgeVars
  PROVE  SlotInv'
<1> USE DEF IInv, LiveInv
<1>1. ASSUME NEW r \in Requests, SendRequest(r) PROVE SlotInv'
  <2>1. holder[r] = NoSession
    BY <1>1 DEF SendRequest, UnsentUnknown, PendingIffActive, Active, Idle
  <2> QED  BY <1>1, <2>1, NoSlotGiven DEF SendRequest
<1>2. ASSUME NEW R, Dequeue(R) PROVE SlotInv'
  BY <1>2, NoSlotGiven DEF Dequeue, LiveTypeOK
<1>3. ASSUME UNCHANGED <<pending, holder>> PROVE SlotInv'
  BY <1>3, NoSlotGiven
<1>4. ASSUME NEW R, Release(R) PROVE SlotInv'
  BY <1>4, NoSlotGiven DEF Release, LiveTypeOK
<1>5. ASSUME NEW r \in Requests, NEW f,
             \/ Expire(r) \/ Cancel(r) \/ Resolve(r, f) \/ Reject(r, f)
      PROVE  SlotInv'
  BY <1>2, <1>5 DEF Expire, Cancel, Resolve, Reject, Finish
<1>6. ASSUME NEW r \in Requests, NEW f, Acknowledge(r, f) PROVE SlotInv'
  BY <1>3, <1>6 DEF Acknowledge, queueVars
<1>7. ASSUME NEW s \in Sessions, NEW L \in SUBSET Lapsable(s), NEW r \in Requests,
             Deliver(s, L, r)
      PROVE  SlotInv'
  BY <1>7, DeliverySlot
<1>8. ASSUME NEW s, NEW receipts, NEW e, Reconcile(s, e, receipts) PROVE SlotInv'
  BY <1>3, <1>8 DEF Reconcile, queueVars
<1>9. ASSUME NEW s \in Sessions,
             \/ Register(s) \/ Unregister(s) \/ StreamClosed(s)
             \/ \E r \in Requests : SendFailed(s, r)
      PROVE  SlotInv'
  <2>1. CASE \E x, rest : DropOrphans(x, rest)
    BY <1>2, <2>1 DEF DropOrphans
  <2>2. CASE UNCHANGED queueVars
    BY <1>3, <2>2 DEF queueVars
  <2> QED
    BY <1>4, <1>9, <2>1, <2>2 DEF Register, Unregister, StreamClosed, SendFailed
<1>10. ASSUME ClearAll PROVE SlotInv'
  BY <1>2, <1>10 DEF ClearAll
<1>11. ASSUME Restart PROVE SlotInv'
  <2>1. \A r \in pending' : holder'[r] = NoSession
    BY <1>11 DEF Restart, JournalSound, Snapshots
  <2> QED  BY <2>1, NoSlotGiven
<1>12. ASSUME UNCHANGED bridgeVars PROVE SlotInv'
  BY <1>3, <1>12 DEF bridgeVars, queueVars
<1> QED
  BY <1>1, <1>5, <1>6, <1>7, <1>8, <1>9, <1>10, <1>11, <1>12 DEF Next

LEMMA SlotInvariance == Spec => [](IInv /\ SlotInv)
<1>1. Init => IInv /\ SlotInv
  <2> SUFFICES ASSUME Init PROVE SlotInv
    BY InitSound
  <2>1. \A t \in Targets : {r \in pending \ Mutations :
                              RequestTarget[r] = t /\ holder[r] # NoSession} = {}
    BY DEF Init
  <2> QED  BY <2>1, FS_EmptySet, BridgeAssumption DEF Init, SlotInv, ReadsWithinLimit, HoldersSupport
<1>2. IInv /\ SlotInv /\ [Next]_bridgeVars => (IInv /\ SlotInv)'
  BY NextKeeps, SlotsKept
<1> QED  BY <1>1, <1>2, PTL DEF Spec

\* Never more than ReadLimit reads of a target are in flight, in whichever order
\* leases lapse, sessions leave and reads are delivered again.
THEOREM ReadsAreLimited == Spec => []ReadsWithinLimit
<1>1. IInv /\ SlotInv => ReadsWithinLimit
  BY DEF SlotInv
<1> QED  BY <1>1, SlotInvariance, PTL

\* Some request of a set that has one came first.
LEMMA OldestExists ==
  ASSUME LiveTypeOK, NEW R \in SUBSET Requests, R # {}
  PROVE  Oldest(R) # {}
<1> DEFINE times == {arrival[q] : q \in R}
<1>1. times \in SUBSET Nat /\ times # {}
  BY DEF LiveTypeOK
<1>2. PICK n \in times : \A m \in times : n <= m
  BY <1>1, LeastNatural
<1> QED  BY <1>2 DEF Oldest

\* Wherever leases lapse in a poll something can be delivered: what lapsed frees
\* its own slot, and the session it goes to can serve it.
THEOREM LapsesDeliver == Spec => []LapseLeadsToDelivery
<1>1. IInv /\ SlotInv => LapseLeadsToDelivery
  <2> SUFFICES ASSUME IInv, SlotInv, NEW s \in registered, NEW L \in SUBSET Lapsable(s),
                      NEW r \in L
               PROVE  Oldest(Eligible(s, L)) # {}
    BY DEF LapseLeadsToDelivery
  <2> USE DEF IInv, LiveInv
  <2>1. /\ r \in Mine(s) /\ holder[r] # NoSession /\ r \in pending
        /\ RequestTarget[r] = TargetOf[s] /\ s \in Sessions
    BY DEF Lapsable, Mine, LiveTypeOK
  <2>2. holder[r] = s
    BY <2>1 DEF LeaseHeldByHandler, OneSessionPerTarget
  <2>3. Supports(s, r)
    BY <2>1, <2>2 DEF SlotInv, HoldersSupport
  <2>4. r \notin InFlight(s, L)
    BY DEF InFlight
  <2>5. r \in Mutations => InFlight(s, L) \cap Mutations = {}
    BY <2>1, <2>4 DEF InFlight, Mine, OneMutationInFlight
  <2>6. ASSUME r \notin Mutations PROVE Cardinality(InFlight(s, L) \ Mutations) < ReadLimit
    <3> DEFINE t == TargetOf[s]
               others == InFlight(s, L) \ Mutations
    <3>1. others \in SUBSET (ReadSlots(t) \ {r}) /\ r \in ReadSlots(t)
      BY <2>1, <2>4, <2>6 DEF ReadSlots, InFlight, Mine
    <3>2. IsFiniteSet(ReadSlots(t)) /\ Cardinality(ReadSlots(t)) \in Nat
      BY SlotsAreFinite
    <3>3. Cardinality(ReadSlots(t)) <= ReadLimit
      <4>1. t \in Targets
        BY <2>1, BridgeAssumption
      <4> QED  BY <4>1 DEF SlotInv, ReadsWithinLimit, ReadSlots
    <3>4. /\ IsFiniteSet(ReadSlots(t) \ {r})
          /\ Cardinality(ReadSlots(t) \ {r}) = Cardinality(ReadSlots(t)) - 1
      BY <3>1, <3>2, FS_RemoveElement
    <3> HIDE DEF others, t
    <3>5. IsFiniteSet(others) /\ Cardinality(others) <= Cardinality(ReadSlots(t) \ {r})
      BY <3>1, <3>4, FS_Subset
    <3>6. Cardinality(others) \in Nat
      BY <3>5, FS_CardinalityType
    <3>7. Cardinality(others) < ReadLimit
      BY <3>2, <3>3, <3>4, <3>5, <3>6, BridgeAssumption
    <3> QED  BY <3>7 DEF others
  <2>7. r \in Eligible(s, L)
    BY <2>1, <2>3, <2>4, <2>5, <2>6 DEF Eligible
  <2>8. Eligible(s, L) \in SUBSET Requests
    BY DEF Eligible, Mine, LiveTypeOK
  <2> QED  BY <2>7, <2>8, OldestExists
<1> QED  BY <1>1, SlotInvariance, PTL
=============================================================================
