----------------------------- MODULE LeaseProofs -----------------------------
(*****************************************************************************)
(* What the two leases of the server side give: the lock of the Studio       *)
(* registry, and the lease of a project that is reconciled.                  *)
(*****************************************************************************)
EXTENDS RegistryLock, ProjectReconcile, TLAPS

------------------------------------------------------------------------------
(*****************************************************************************)
(* The registry's lock, for any number of writers and of updates: types,     *)
(* exclusion and, from it, that no update that returned is lost.             *)
(*****************************************************************************)

\* A call under way has an update left to make.
Budget == \A w \in Writers : pc[w] # "idle" => returned[w] < Updates

Typed == LockTypeOK /\ Budget

\* Whoever is in the lock made the directory, and it is fresh.
HolderMadeIt == \A w \in Writers : InLock(w) => lock.by = w /\ ~lock.stale

\* A stale directory is a dead writer's.
StaleIsDead == lock.stale => lock.by \in Writers /\ pc[lock.by] = "dead"

\* Whoever is about to remove a stale directory is the last writer alive.
RemoverIsLast ==
  \A v \in Writers : pc[v] = "removing" => \A u \in Writers \ {v} : pc[u] = "dead"

DeadAreMortal == \A w \in Writers : pc[w] = "dead" => w \in Mortal

Exclusion == HolderMadeIt /\ StaleIsDead /\ RemoverIsLast /\ DeadAreMortal

\* What was read under the lock is still on disk when it is written back, and a
\* writer that is about to return has its update there.
RecordsKept ==
  \A w \in Writers :
    /\ pc[w] = "writing" => seen[w] = record
    /\ record[w] >= returned[w]
    /\ pc[w] = "releasing" => record[w] = returned[w] + 1

LockInv == Typed /\ (Reliable => Exclusion /\ RecordsKept)
-----------------------------------------------------------------------------
LEMMA InitTyped == LockInit => Typed
BY LockAssumption DEF LockInit, Typed, LockTypeOK, Budget, PCs, NoLock, Records, Blank

\* Each call into the file system keeps the types and the budget.
LEMMA StepTyped == Typed /\ [LockNext]_lockVars => Typed'
<1> SUFFICES ASSUME Typed, [LockNext]_lockVars PROVE Typed'
  OBVIOUS
<1> USE LockAssumption DEF Typed, LockTypeOK, Budget, PCs, Records, To
<1>1. ASSUME NEW w \in Writers, Enter(w) PROVE Typed'
  BY <1>1 DEF Enter
<1>2. ASSUME NEW w \in Writers, Make(w) PROVE Typed'
  BY <1>2 DEF Make
<1>3. ASSUME NEW w \in Writers, MakeFails(w) PROVE Typed'
  BY <1>3 DEF MakeFails
<1>4. ASSUME NEW w \in Writers, Stat(w) PROVE Typed'
  BY <1>4 DEF Stat
<1>5. ASSUME NEW w \in Writers, RemoveStale(w) PROVE Typed'
  BY <1>5 DEF RemoveStale, NoLock
<1>6. ASSUME NEW w \in Writers, ReadRecord(w) PROVE Typed'
  BY <1>6 DEF ReadRecord
<1>7. ASSUME NEW w \in Writers, WriteRecord(w) PROVE Typed'
  <2>1. returned[w] + 1 \in 0..Updates
    BY <1>7 DEF WriteRecord
  <2>2. record' \in [Writers -> 0..Updates]
    BY <1>7, <2>1 DEF WriteRecord
  <2> QED BY <1>7, <2>2 DEF WriteRecord
<1>8. ASSUME NEW w \in Writers, Release(w) PROVE Typed'
  <2>1. returned[w] + 1 \in 0..Updates
    BY <1>8 DEF Release
  <2>2. returned' \in [Writers -> 0..Updates]
    BY <1>8, <2>1 DEF Release
  <2>3. \A v \in Writers : pc'[v] # "idle" => returned'[v] < Updates
    BY <1>8 DEF Release
  <2> QED BY <1>8, <2>2, <2>3 DEF Release, NoLock
<1>9. ASSUME NEW w \in Writers, TimesOut(w) PROVE Typed'
  BY <1>9 DEF TimesOut
<1>10. ASSUME NEW w \in Writers, Die(w) PROVE Typed'
  BY <1>10 DEF Die, InLock
<1>11. ASSUME GrowStale PROVE Typed'
  BY <1>11 DEF GrowStale
<1>12. ASSUME UNCHANGED lockVars PROVE Typed'
  BY <1>12 DEF lockVars
<1> QED
  BY <1>1, <1>2, <1>3, <1>4, <1>5, <1>6, <1>7, <1>8, <1>9, <1>10, <1>11, <1>12
  DEF LockNext, LockStep
-----------------------------------------------------------------------------
LEMMA InitKept == LockInit => Exclusion /\ RecordsKept
BY LockAssumption
DEF LockInit, Exclusion, HolderMadeIt, StaleIsDead, RemoverIsLast, DeadAreMortal, RecordsKept,
    InLock, NoLock, Blank

\* The heart of the argument: a directory is removed only by its maker or when
\* everybody else is dead.
LEMMA StepExcludes ==
  Reliable /\ Typed /\ Exclusion /\ [LockNext]_lockVars => Exclusion'
<1> SUFFICES ASSUME Reliable, Typed, Exclusion, [LockNext]_lockVars PROVE Exclusion'
  OBVIOUS
<1> USE LockAssumption
    DEF Typed, LockTypeOK, Exclusion, HolderMadeIt, StaleIsDead, RemoverIsLast,
        DeadAreMortal, InLock, To
<1>1. ASSUME NEW w \in Writers, Enter(w) PROVE Exclusion'
  BY <1>1 DEF Enter
<1>2. ASSUME NEW w \in Writers, Make(w) PROVE Exclusion'
  BY <1>2 DEF Make, Makeable, NoLock
<1>3. ASSUME NEW w \in Writers, MakeFails(w) PROVE Exclusion'
  BY <1>3 DEF MakeFails
<1>4. ASSUME NEW w \in Writers, Stat(w) PROVE Exclusion'
  <2>1. ASSUME LooksStale PROVE \A u \in Writers \ {w} : pc[u] = "dead"
    BY <1>4, <2>1 DEF Stat, LooksStale, Reliable, AtMostTwo
  <2>2. CASE LooksStale
    BY <1>4, <2>1, <2>2 DEF Stat
  <2>3. CASE ~LooksStale
    BY <1>4, <2>3 DEF Stat
  <2> QED BY <2>2, <2>3
<1>5. ASSUME NEW w \in Writers, RemoveStale(w) PROVE Exclusion'
  BY <1>5 DEF RemoveStale, NoLock
<1>6. ASSUME NEW w \in Writers, ReadRecord(w) PROVE Exclusion'
  BY <1>6 DEF ReadRecord
<1>7. ASSUME NEW w \in Writers, WriteRecord(w) PROVE Exclusion'
  BY <1>7 DEF WriteRecord
<1>8. ASSUME NEW w \in Writers, Release(w) PROVE Exclusion'
  BY <1>8 DEF Release, NoLock
<1>9. ASSUME NEW w \in Writers, TimesOut(w) PROVE Exclusion'
  BY <1>9 DEF TimesOut
<1>10. ASSUME NEW w \in Writers, Die(w) PROVE Exclusion'
  BY <1>10 DEF Die
<1>11. ASSUME GrowStale PROVE Exclusion'
  <2>1. pc[lock.by] = "dead" /\ lock.by \in Writers
    BY <1>11 DEF GrowStale, Reliable, NoLock
  <2> QED BY <1>11, <2>1 DEF GrowStale
<1>12. ASSUME UNCHANGED lockVars PROVE Exclusion'
  BY <1>12 DEF lockVars
<1> QED
  BY <1>1, <1>2, <1>3, <1>4, <1>5, <1>6, <1>7, <1>8, <1>9, <1>10, <1>11, <1>12
  DEF LockNext, LockStep

\* Alone in the lock, a writer writes back what is on disk.
LEMMA StepKept ==
  Typed /\ Exclusion /\ RecordsKept /\ [LockNext]_lockVars => RecordsKept'
<1> SUFFICES ASSUME Typed, Exclusion, RecordsKept, [LockNext]_lockVars PROVE RecordsKept'
  OBVIOUS
<1>0. \A v, w \in Writers : InLock(v) /\ InLock(w) => v = w
  BY DEF Exclusion, HolderMadeIt
<1> USE LockAssumption DEF Typed, LockTypeOK, RecordsKept, Records, To
<1>1. ASSUME NEW w \in Writers, Enter(w) PROVE RecordsKept'
  BY <1>1 DEF Enter
<1>2. ASSUME NEW w \in Writers, Make(w) PROVE RecordsKept'
  BY <1>2 DEF Make
<1>3. ASSUME NEW w \in Writers, MakeFails(w) PROVE RecordsKept'
  BY <1>3 DEF MakeFails
<1>4. ASSUME NEW w \in Writers, Stat(w) PROVE RecordsKept'
  BY <1>4 DEF Stat
<1>5. ASSUME NEW w \in Writers, RemoveStale(w) PROVE RecordsKept'
  BY <1>5 DEF RemoveStale
<1>6. ASSUME NEW w \in Writers, ReadRecord(w) PROVE RecordsKept'
  BY <1>6 DEF ReadRecord
<1>7. ASSUME NEW w \in Writers, WriteRecord(w) PROVE RecordsKept'
  <2>1. record' = [record EXCEPT ![w] = returned[w] + 1]
    BY <1>7 DEF WriteRecord
  <2>2. \A v \in Writers : v # w => pc'[v] \notin {"writing", "releasing"}
    BY <1>0, <1>7 DEF WriteRecord, InLock
  <2>3. pc'[w] = "releasing" /\ returned' = returned
    BY <1>7 DEF WriteRecord
  <2> QED BY <2>1, <2>2, <2>3
<1>8. ASSUME NEW w \in Writers, Release(w) PROVE RecordsKept'
  <2>1. record[w] = returned[w] + 1
    BY <1>8 DEF Release
  <2> QED BY <1>8, <2>1 DEF Release
<1>9. ASSUME NEW w \in Writers, TimesOut(w) PROVE RecordsKept'
  BY <1>9 DEF TimesOut
<1>10. ASSUME NEW w \in Writers, Die(w) PROVE RecordsKept'
  BY <1>10 DEF Die
<1>11. ASSUME GrowStale PROVE RecordsKept'
  BY <1>11 DEF GrowStale
<1>12. ASSUME UNCHANGED lockVars PROVE RecordsKept'
  BY <1>12 DEF lockVars
<1> QED
  BY <1>1, <1>2, <1>3, <1>4, <1>5, <1>6, <1>7, <1>8, <1>9, <1>10, <1>11, <1>12
  DEF LockNext, LockStep
-----------------------------------------------------------------------------
LEMMA LockInvariance == LockSpec => []LockInv
<1>1. LockInit => LockInv
  BY InitTyped, InitKept DEF LockInv
<1>2. LockInv /\ [LockNext]_lockVars => LockInv'
  <2> SUFFICES ASSUME LockInv, [LockNext]_lockVars PROVE LockInv'
    OBVIOUS
  <2>1. Typed'
    BY StepTyped DEF LockInv
  <2>2. ASSUME Reliable PROVE Exclusion' /\ RecordsKept'
    BY <2>2, StepExcludes, StepKept DEF LockInv
  <2>3. Reliable' = Reliable
    BY DEF Reliable, AtMostTwo
  <2> QED BY <2>1, <2>2, <2>3 DEF LockInv
<1> QED BY <1>1, <1>2, PTL DEF LockSpec

\* Writers, directory and records keep their types whatever dies or is slow.
THEOREM LockTypes == LockSpec => []LockTypeOK
<1>1. LockInv => LockTypeOK
  BY DEF LockInv, Typed
<1> QED BY <1>1, LockInvariance, PTL

\* Where it is relied on, withLock lets one process in at a time.
THEOREM LockIsExclusive == LockSpec => []LockExcludes
<1>1. LockInv => LockExcludes
  BY DEF LockInv, Exclusion, HolderMadeIt, LockExcludes
<1> QED BY <1>1, LockInvariance, PTL

\* An update that returned stays in the record, for any number of writers that
\* neither die nor sleep in the lock, and for two of which one may die.
THEOREM UpdatesAreKept == LockSpec => []NoLostUpdate
<1>1. LockInv => NoLostUpdate
  BY DEF LockInv, RecordsKept, NoLostUpdate
<1> QED BY <1>1, LockInvariance, PTL

------------------------------------------------------------------------------
(*****************************************************************************)
(* The lease of a project, for any agents, projects and plans: types; that   *)
(* no two applies of one server work at a time; and that each step of a run  *)
(* follows what the project lacked when the run last looked.                 *)
(*****************************************************************************)

\* All applies are made by one server, which may be killed and started again.
OneServer == \A q, r \in Runs : HostOf[q] = HostOf[r]

Plans == Seq(StepIds)
StepNames == StepIds \cup Permitted \cup {""}
RunRecords == [phase : Phases, apply : 0 .. MaxApplies, attempt : 0 .. 2, plan : Plans,
               seen : 0 .. MaxChanges, completed : SUBSET StepIds, step : StepNames]
Journals == [plan : Plans, completed : SUBSET StepIds]
Leases == [by : Runs \cup {NoRun}, pid : Nat, whole : BOOLEAN]

ReconcileTyped ==
  /\ project \in ProjectStates
  /\ lease \in Leases
  /\ pid \in [Hosts -> Nat]
  /\ journalOf \in [Runs -> Journals]
  /\ run \in [Runs -> RunRecords]
  /\ changes \in 0 .. MaxChanges

\* No run has seen changes that were not made.
SeenIsPast == \A r \in Runs : run[r].seen <= changes

HasCreated(r) == run[r].phase \in {"writing", "leased", "acting", "verifying"}

\* The process is in one of its runs only, between a look at the project and the
\* next step.
OneTurn ==
  \A q, r \in Runs : run[q].phase \in Synchronous /\ run[r].phase \in Synchronous => q = r

\* Whoever made the lease and works has it; any other lease names an earlier life of
\* the process.
LeaseIsOwn ==
  /\ \A r \in Runs : HasCreated(r) => lease.by = r /\ lease.pid = pid[HostOf[r]]
  /\ \A r \in AtWork : lease.whole
  /\ lease.by = NoRun => lease = NoLease
  /\ \A r \in Runs : lease.by = r =>
       /\ lease.pid <= pid[HostOf[r]]
       /\ lease.pid = pid[HostOf[r]] => HasCreated(r)

\* Whoever is about to remove the lease found that nobody works.
DropperIsAlone ==
  \A q, r \in Runs : run[q].phase = "dropping" => ~ HasCreated(r)

\* Between a look at the project and the next step the plan is what the project
\* needs, unless people have changed it.
PlanIsFresh ==
  \A r \in Runs :
    run[r].phase \in Synchronous /\ run[r].seen = changes => run[r].plan = inspect(project)

LeaseInv == OneTurn /\ LeaseIsOwn /\ DropperIsAlone /\ PlanIsFresh

ReconcileInv == ReconcileTyped /\ SeenIsPast /\ (OneServer => LeaseInv)
-----------------------------------------------------------------------------
LEMMA ShortPlans ==
  /\ <<>> \in Plans
  /\ \A s \in StepIds : <<s>> \in Plans
  /\ \A s, t \in Plans : s \o t \in Plans
BY DEF Plans

LEMMA InspectType == ASSUME NEW p \in ProjectStates PROVE inspect(p) \in Plans
<1>1. ToolchainSteps(p) \in Plans
  BY ShortPlans DEF ToolchainSteps, StepIds
<1>2. WallySteps(p) \in Plans
  <2>1. p.wally \in Wally
    BY DEF ProjectStates
  <2> QED BY <2>1, ShortPlans DEF WallySteps, StepIds, Wally
<1>3. SourcemapSteps(p) \in Plans
  BY ShortPlans DEF SourcemapSteps, StepIds
<1>4. ServeSteps(p) \in Plans
  <2>1. p.serve \in Serve
    BY DEF ProjectStates
  <2> QED BY <2>1, ShortPlans DEF ServeSteps, StepIds, Serve
<1> QED BY <1>1, <1>2, <1>3, <1>4, ShortPlans DEF inspect

LEMMA MendedType ==
  ASSUME NEW p \in ProjectStates, NEW s \in Automatic, NEW q \in Mended(p, s)
  PROVE  q \in ProjectStates
<1> USE DEF ProjectStates, Toolchain, Wally, Serve
<1>1. CASE s = "install-toolchain"
  BY <1>1 DEF Mended
<1>2. CASE s = "install-packages"
  BY <1>2 DEF Mended
<1>3. CASE s = "generate-sourcemap"
  BY <1>3 DEF Mended
<1>4. CASE s \in {"start-rojo", "restart-rojo"}
  BY <1>4 DEF Mended
<1> QED BY <1>1, <1>2, <1>3, <1>4 DEF Automatic, StepIds

LEMMA InitReconcileTyped == ReconcileInit => ReconcileTyped
<1> SUFFICES ASSUME ReconcileInit PROVE ReconcileTyped
  OBVIOUS
<1>1. /\ <<>> \in Plans /\ "idle" \in Phases /\ "" \in StepNames
      /\ 0 \in 0 .. MaxApplies /\ 0 \in 0 .. MaxChanges /\ 0 \in 0 .. 2
  BY ReconcileAssumption, ShortPlans DEF Phases, StepNames
<1>2. Rest("idle", 0) \in RunRecords /\ NoLease \in Leases
      /\ [plan |-> <<>>, completed |-> {}] \in Journals
  BY <1>1 DEF Rest, NoLease, RunRecords, Leases, Journals
<1>3. pid \in [Hosts -> Nat]
  BY DEF ReconcileInit
<1> QED BY <1>1, <1>2, <1>3, BeginningsAssumption DEF ReconcileInit, ReconcileTyped

\* Answering or dying leaves a run with a record of its type.
LEMMA OverType ==
  ASSUME run \in [Runs -> RunRecords], NEW r \in Runs, NEW phase \in Phases
  PROVE  Over(r, phase) \in [Runs -> RunRecords]
<1>1. <<>> \in Plans /\ "" \in StepNames /\ 0 \in 0 .. 2 /\ 0 \in 0 .. MaxChanges
  BY ShortPlans, ReconcileAssumption DEF StepNames
<1>2. run[r].apply \in 0 .. MaxApplies
  BY DEF RunRecords
<1>3. Rest(phase, run[r].apply) \in RunRecords
  BY <1>1, <1>2, ReconcileAssumption DEF Rest, RunRecords
<1> QED BY <1>3 DEF Over

\* So does each of the other changes a step makes to it.
LEMMA RunChanges ==
  ASSUME run \in [Runs -> RunRecords], NEW r \in Runs, NEW phase \in Phases
  PROVE  /\ [run EXCEPT ![r].phase = phase] \in [Runs -> RunRecords]
         /\ \A n \in 0 .. 2, k \in 0 .. MaxChanges :
              [run EXCEPT ![r].phase = phase, ![r].attempt = n, ![r].seen = k] \in [Runs -> RunRecords]
         /\ \A c \in SUBSET StepIds :
              [run EXCEPT ![r].phase = phase, ![r].completed = c] \in [Runs -> RunRecords]
         /\ \A s \in StepNames :
              [run EXCEPT ![r].phase = phase, ![r].step = s] \in [Runs -> RunRecords]
         /\ \A c \in SUBSET StepIds, p \in Plans, k \in 0 .. MaxChanges :
              [run EXCEPT ![r].phase = phase, ![r].completed = c, ![r].plan = p, ![r].seen = k]
              \in [Runs -> RunRecords]
<1>1. [run EXCEPT ![r].phase = phase] \in [Runs -> RunRecords]
  BY DEF RunRecords
<1>2. ASSUME NEW n \in 0 .. 2, NEW k \in 0 .. MaxChanges
      PROVE  [run EXCEPT ![r].phase = phase, ![r].attempt = n, ![r].seen = k] \in [Runs -> RunRecords]
  BY DEF RunRecords
<1>3. ASSUME NEW c \in SUBSET StepIds
      PROVE  [run EXCEPT ![r].phase = phase, ![r].completed = c] \in [Runs -> RunRecords]
  BY DEF RunRecords
<1>4. ASSUME NEW s \in StepNames
      PROVE  [run EXCEPT ![r].phase = phase, ![r].step = s] \in [Runs -> RunRecords]
  BY DEF RunRecords
<1>5. ASSUME NEW c \in SUBSET StepIds, NEW p \in Plans, NEW k \in 0 .. MaxChanges
      PROVE  [run EXCEPT ![r].phase = phase, ![r].completed = c, ![r].plan = p, ![r].seen = k]
             \in [Runs -> RunRecords]
  BY DEF RunRecords
<1> QED BY <1>1, <1>2, <1>3, <1>4, <1>5

\* The types hold after every step of a run, of its agent and of people.
LEMMA StepReconcileTyped == ReconcileTyped /\ [ReconcileNext]_reconcileVars => ReconcileTyped'
<1> SUFFICES ASSUME ReconcileTyped, [ReconcileNext]_reconcileVars PROVE ReconcileTyped'
  OBVIOUS
<1>a. /\ project \in ProjectStates /\ lease \in Leases /\ journalOf \in [Runs -> Journals]
      /\ pid \in [Hosts -> Nat] /\ \A r \in Runs : HostOf[r] \in Hosts
      /\ run \in [Runs -> RunRecords] /\ changes \in 0 .. MaxChanges
      /\ inspect(project) \in Plans
      /\ MaxApplies \in Nat /\ MaxChanges \in Nat
  BY ReconcileAssumption, InspectType DEF ReconcileTyped, Hosts
<1>b. NoLease \in Leases
  BY <1>a DEF NoLease, Leases
<1>c. \A r \in Runs : Released(r) \in Leases
  BY <1>a, <1>b DEF Released
<1>d. "answered" \in Phases /\ "killed" \in Phases
  BY DEF Phases
<1>f. "creating" \in Phases /\ "leased" \in Phases /\ "verifying" \in Phases /\ "acting" \in Phases
  BY DEF Phases
<1>e. \A r \in Runs, phase \in Phases : Over(r, phase) \in [Runs -> RunRecords]
  BY <1>a, OverType
<1> DEFINE Goal == /\ project' \in ProjectStates /\ lease' \in Leases
                   /\ journalOf' \in [Runs -> Journals] /\ pid' \in [Hosts -> Nat]
                   /\ run' \in [Runs -> RunRecords] /\ changes' \in 0 .. MaxChanges
<1>1. ASSUME NEW r \in Runs, Review(r) PROVE Goal
  <2>1. run[r].apply + 1 \in 0 .. MaxApplies
    BY <1>a, <1>1 DEF Review, RunRecords
  <2>2. run' \in [Runs -> RunRecords]
    BY <1>a, <1>1, <2>1 DEF Review, RunRecords, Phases
  <2> QED BY <1>a, <1>1, <2>2 DEF Review
<1>2. ASSUME NEW r \in Runs, Apply(r) PROVE Goal
  <2>1. run' \in [Runs -> RunRecords]
    <3>1. [run EXCEPT ![r].phase = "creating", ![r].attempt = 1, ![r].seen = changes]
          \in [Runs -> RunRecords]
      <4>1. 1 \in 0 .. 2
        OBVIOUS
      <4> QED BY <1>a, <1>f, <4>1, RunChanges
    <3> QED BY <1>2, <3>1, <1>d, <1>e DEF Apply
  <2> QED BY <1>a, <1>2, <2>1 DEF Apply
<1>3. ASSUME NEW r \in Runs, CreateLease(r) PROVE Goal
  <2>1. run' \in [Runs -> RunRecords]
    BY <1>a, <1>3 DEF CreateLease, RunRecords, Phases
  <2>2. lease' \in Leases
    BY <1>a, <1>3 DEF CreateLease, RunRecords, Leases
  <2> QED BY <1>a, <1>3, <2>1, <2>2 DEF CreateLease
<1>4. ASSUME NEW r \in Runs, LeaseExists(r) PROVE Goal
  BY <1>a, <1>4 DEF LeaseExists, RunRecords, Phases
<1>5. ASSUME NEW r \in Runs, WriteLease(r) PROVE Goal
  <2>1. Resumed(r) \in SUBSET StepIds
    BY <1>a DEF Resumed, Journals
  <2>2. run' \in [Runs -> RunRecords]
    <3>1. [run EXCEPT ![r].phase = "leased", ![r].completed = Resumed(r)] \in [Runs -> RunRecords]
      BY <1>a, <1>f, <2>1, RunChanges
    <3> QED BY <1>5, <3>1 DEF WriteLease, Leased
  <2>3. journalOf' \in [Runs -> Journals]
    BY <1>a, <1>5, <2>1 DEF WriteLease, Leased, RunRecords, Journals
  <2>4. lease' \in Leases
    BY <1>a, <1>5 DEF WriteLease, Leases
  <2> QED BY <1>a, <1>5, <2>2, <2>3, <2>4 DEF WriteLease
<1>6. ASSUME NEW r \in Runs, LookAtLease(r) PROVE Goal
  <2>1. [run EXCEPT ![r].phase = "dropping"] \in [Runs -> RunRecords]
    BY <1>a DEF RunRecords, Phases
  <2> QED BY <1>a, <1>6, <2>1, <1>d, <1>e DEF LookAtLease
<1>7. ASSUME NEW r \in Runs, DropLease(r) PROVE Goal
  <2>1. CASE lease = NoLease \/ run[r].attempt = 2
    BY <1>a, <1>b, <1>7, <2>1, <1>d, <1>e DEF DropLease
  <2>2. CASE ~(lease = NoLease \/ run[r].attempt = 2)
    <3>1. run[r].attempt + 1 \in 0 .. 2
      BY <1>a, <2>2 DEF RunRecords
    <3>2. run' = [run EXCEPT ![r].phase = "creating", ![r].attempt = @ + 1]
      BY <1>7, <2>2 DEF DropLease
    <3>3. run' \in [Runs -> RunRecords]
      BY <1>a, <3>1, <3>2 DEF RunRecords, Phases
    <3> QED BY <1>a, <1>b, <1>7, <3>3 DEF DropLease
  <2> QED BY <2>1, <2>2
<1>8. ASSUME NEW r \in Runs, NextStep(r) PROVE Goal
  <2>1. [run EXCEPT ![r].phase = "verifying"] \in [Runs -> RunRecords]
    BY <1>a, <1>f, RunChanges
  <2>2. ASSUME NEW step \in Permitted
        PROVE  [run EXCEPT ![r].phase = "acting", ![r].step = step] \in [Runs -> RunRecords]
    BY <1>a, <1>f, RunChanges DEF StepNames
  <2>3. run' \in [Runs -> RunRecords] /\ lease' \in Leases
    <3> DEFINE first == FirstOf(run[r].plan, run[r].completed)
    <3> HIDE DEF first
    <3>1. CASE NotDone(run[r].plan, run[r].completed) = {}
      BY <1>a, <1>8, <2>1, <3>1 DEF NextStep
    <3>2. CASE NotDone(run[r].plan, run[r].completed) # {} /\ first \in Permitted
      BY <1>a, <1>8, <2>2, <3>2 DEF NextStep, first
    <3>3. CASE NotDone(run[r].plan, run[r].completed) # {} /\ first \notin Permitted
      BY <1>8, <1>c, <1>d, <1>e, <3>3 DEF NextStep, ApplyAnswer, first
    <3> QED BY <3>1, <3>2, <3>3
  <2> QED BY <1>a, <1>8, <2>3 DEF NextStep
<1>9. ASSUME NEW r \in Runs, StepSucceeds(r) PROVE Goal
  <2>1. project' \in ProjectStates
    BY <1>a, <1>9, MendedType DEF StepSucceeds
  <2>2. inspect(project') \in Plans
    BY <2>1, InspectType
  <2>3. CompletedOf(r) \in SUBSET StepIds
    BY <1>a, <1>9 DEF StepSucceeds, CompletedOf, RunRecords, Automatic
  <2>4. run' \in [Runs -> RunRecords]
    <3>1. [run EXCEPT ![r].phase = "leased", ![r].completed = CompletedOf(r),
                      ![r].plan = inspect(project'), ![r].seen = changes] \in [Runs -> RunRecords]
      BY <1>a, <1>f, <2>2, <2>3, RunChanges
    <3> QED BY <1>9, <3>1 DEF StepSucceeds, Replanned
  <2>5. journalOf' \in [Runs -> Journals]
    BY <1>a, <1>9, <2>3 DEF StepSucceeds, Journals
  <2> QED BY <1>a, <1>9, <2>1, <2>4, <2>5 DEF StepSucceeds
<1>10. ASSUME NEW r \in Runs, StepFails(r) PROVE Goal
  BY <1>a, <1>10, <1>c, <1>d, <1>e DEF StepFails, ApplyAnswer
<1>11. ASSUME NEW r \in Runs, Verify(r) PROVE Goal
  BY <1>a, <1>11, <1>c, <1>d, <1>e DEF Verify, ApplyAnswer
<1>12. ASSUME NEW h \in Hosts, KillHost(h) PROVE Goal
  <2>1. \A r \in Runs : Rest("killed", run[r].apply) \in RunRecords
    <3>1. <<>> \in Plans /\ "" \in StepNames /\ 0 \in 0 .. 2 /\ 0 \in 0 .. MaxChanges
      BY <1>a, ShortPlans DEF StepNames
    <3>2. \A r \in Runs : run[r].apply \in 0 .. MaxApplies
      BY <1>a DEF RunRecords
    <3> QED BY <1>d, <3>1, <3>2 DEF Rest, RunRecords
  <2> QED BY <1>a, <1>12, <2>1 DEF KillHost
<1>13. ASSUME PeopleChange PROVE Goal
  <2>1. changes' \in 0 .. MaxChanges
    BY <1>a, <1>13 DEF PeopleChange
  <2>2. project' \in ProjectStates
    BY <1>a, <1>13 DEF PeopleChange, ProjectStates, Toolchain, Wally, Serve
  <2> QED BY <1>a, <1>13, <2>1, <2>2 DEF PeopleChange
<1>14. ASSUME UNCHANGED reconcileVars PROVE Goal
  BY <1>a, <1>14 DEF reconcileVars
<1> HIDE DEF Goal
<1>15. Goal
  BY <1>1, <1>2, <1>3, <1>4, <1>5, <1>6, <1>7, <1>8, <1>9, <1>10, <1>11, <1>12, <1>13, <1>14
  DEF ReconcileNext, RunStep
<1> QED BY <1>15 DEF Goal, ReconcileTyped

LEMMA NextStepCases ==
  ASSUME NEW r \in Runs, NextStep(r)
  PROVE  LET rest  == NotDone(run[r].plan, run[r].completed)
             first == FirstOf(run[r].plan, run[r].completed)
         IN  /\ run[r].phase = "leased" /\ UNCHANGED <<project, pid, journalOf, changes>>
             /\ \/ /\ rest = {} /\ lease' = lease
                   /\ run' = [run EXCEPT ![r].phase = "verifying"]
                \/ /\ rest # {} /\ lease' = lease
                   /\ run' = [run EXCEPT ![r].phase = "acting", ![r].step = first]
                \/ ApplyAnswer(r)
<1> DEFINE rest  == NotDone(run[r].plan, run[r].completed)
           first == FirstOf(run[r].plan, run[r].completed)
           A == run' = [run EXCEPT ![r].phase = "verifying"] /\ UNCHANGED lease
           B == run' = [run EXCEPT ![r].phase = "acting", ![r].step = first] /\ UNCHANGED lease
<1>1. /\ run[r].phase = "leased" /\ UNCHANGED <<project, pid, journalOf, changes>>
      /\ IF rest = {} THEN A ELSE IF first \in Permitted THEN B ELSE ApplyAnswer(r)
  BY DEF NextStep
<1> HIDE DEF rest, first, A, B
<1>2. (rest = {} /\ A) \/ (rest # {} /\ B) \/ ApplyAnswer(r)
  BY <1>1
<1> QED BY <1>1, <1>2 DEF A, B, rest, first

LEMMA OverFacts ==
  ASSUME run \in [Runs -> RunRecords], NEW r \in Runs, NEW phase \in Phases, run' = Over(r, phase)
  PROVE  /\ run'[r].phase = phase /\ run'[r].apply = run[r].apply /\ run'[r].completed = {}
         /\ run'[r].seen = 0
         /\ \A s \in Runs \ {r} : run'[s] = run[s]
BY DEF Over, Rest

\* What each step of a run does to its phase and to what the invariant speaks of.
LEMMA StepFacts ==
  ASSUME ReconcileTyped, NEW r \in Runs, RunStep(r) \/ Review(r)
  PROVE  /\ Turn(r) /\ pid' = pid /\ changes' = changes
         /\ \A s \in Runs \ {r} : run'[s] = run[s]
         /\ run'[r].seen \in {0, run[r].seen, changes}
<1>a. /\ run \in [Runs -> RunRecords] /\ lease \in Leases /\ journalOf \in [Runs -> Journals]
      /\ "answered" \in Phases /\ run[r] \in RunRecords
  BY DEF ReconcileTyped, Phases
<1> DEFINE Goal == /\ pid' = pid /\ changes' = changes
                   /\ \A s \in Runs \ {r} : run'[s] = run[s]
                   /\ run'[r].seen \in {0, run[r].seen, changes}
<1>0. ASSUME run' = Over(r, "answered"), UNCHANGED <<pid, changes>> PROVE Goal
  BY <1>a, <1>0, OverFacts
<1>1. ASSUME Review(r) PROVE Goal
  BY <1>a, <1>1 DEF Review, RunRecords
<1>2. ASSUME Apply(r) PROVE Goal
  <2>1. CASE run' = Over(r, "answered")
    BY <1>0, <1>2, <2>1 DEF Apply
  <2>2. CASE run' # Over(r, "answered")
    BY <1>a, <1>2, <2>2 DEF Apply, RunRecords
  <2> QED BY <2>1, <2>2
<1>3. ASSUME CreateLease(r) \/ LeaseExists(r) \/ WriteLease(r) PROVE Goal
  BY <1>a, <1>3 DEF CreateLease, LeaseExists, WriteLease, Leased, RunRecords
<1>4. ASSUME LookAtLease(r) PROVE Goal
  <2>1. CASE Held
    BY <1>0, <1>4, <2>1 DEF LookAtLease
  <2>2. CASE ~ Held
    BY <1>a, <1>4, <2>2 DEF LookAtLease, RunRecords
  <2> QED BY <2>1, <2>2
<1>5. ASSUME DropLease(r) PROVE Goal
  <2>1. CASE lease = NoLease \/ run[r].attempt = 2
    BY <1>0, <1>5, <2>1 DEF DropLease
  <2>2. CASE ~ (lease = NoLease \/ run[r].attempt = 2)
    BY <1>a, <1>5, <2>2 DEF DropLease, RunRecords
  <2> QED BY <2>1, <2>2
<1>6. ASSUME NextStep(r) PROVE Goal
  <2> DEFINE first == FirstOf(run[r].plan, run[r].completed)
  <2>1. /\ UNCHANGED <<project, pid, journalOf, changes>>
        /\ \/ run' = [run EXCEPT ![r].phase = "verifying"]
           \/ run' = [run EXCEPT ![r].phase = "acting", ![r].step = first]
           \/ run' = Over(r, "answered")
    BY <1>6, NextStepCases DEF ApplyAnswer
  <2> HIDE DEF first
  <2>2. CASE run' = [run EXCEPT ![r].phase = "verifying"]
    BY <1>a, <2>1, <2>2 DEF RunRecords
  <2>3. CASE run' = [run EXCEPT ![r].phase = "acting", ![r].step = first]
    BY <1>a, <2>1, <2>3 DEF RunRecords
  <2>4. CASE run' = Over(r, "answered")
    BY <1>0, <2>1, <2>4
  <2> QED BY <2>1, <2>2, <2>3, <2>4
<1>7. ASSUME StepSucceeds(r) PROVE Goal
  BY <1>a, <1>7 DEF StepSucceeds, RunRecords
<1>8. ASSUME StepFails(r) \/ Verify(r) PROVE Goal
  BY <1>0, <1>8 DEF StepFails, Verify, ApplyAnswer
<1>9. Goal
  BY <1>1, <1>2, <1>3, <1>4, <1>5, <1>6, <1>7, <1>8 DEF RunStep
<1>10. Turn(r)
  BY DEF RunStep, Review
<1> QED BY <1>9, <1>10

LEMMA StepSeenIsPast ==
  ASSUME ReconcileTyped, SeenIsPast, [ReconcileNext]_reconcileVars
  PROVE  SeenIsPast'
<1>a. /\ run \in [Runs -> RunRecords] /\ changes \in Nat
      /\ \A r \in Runs : run[r].seen \in Nat
  BY ReconcileAssumption DEF ReconcileTyped, RunRecords
<1>1. ASSUME NEW r \in Runs, RunStep(r) \/ Review(r) PROVE SeenIsPast'
  BY <1>a, <1>1, StepFacts DEF SeenIsPast
<1>2. ASSUME NEW h \in Hosts, KillHost(h) PROVE SeenIsPast'
  <2>1. \A r \in Runs : run'[r].seen \in {0, run[r].seen} /\ changes' = changes
    BY <1>2 DEF KillHost, Rest
  <2> QED BY <1>a, <2>1 DEF SeenIsPast
<1>3. CASE PeopleChange
  BY <1>a, <1>3 DEF PeopleChange, SeenIsPast
<1>4. CASE UNCHANGED reconcileVars
  BY <1>4 DEF reconcileVars, SeenIsPast
<1> QED BY <1>1, <1>2, <1>3, <1>4 DEF ReconcileNext

LEMMA InitLeaseInv == ReconcileInit => SeenIsPast /\ LeaseInv
<1> SUFFICES ASSUME ReconcileInit PROVE SeenIsPast /\ LeaseInv
  OBVIOUS
<1>1. /\ \A r \in Runs : run[r].phase = "idle" /\ run[r].seen = 0
      /\ lease = NoLease /\ lease.by = NoRun /\ NoRun \notin Runs /\ changes = 0
  BY ReconcileAssumption DEF ReconcileInit, Rest, NoLease
<1> QED BY <1>1 DEF LeaseInv, SeenIsPast, OneTurn, LeaseIsOwn, DropperIsAlone, PlanIsFresh,
                    HasCreated, AtWork, Synchronous

\* The applies of one server: one at most is past the lease at a time.
LEMMA StepLeaseInv ==
  ASSUME OneServer, ReconcileTyped, SeenIsPast, LeaseInv, [ReconcileNext]_reconcileVars
  PROVE  LeaseInv'
<1>a. /\ run \in [Runs -> RunRecords] /\ lease \in Leases /\ pid \in [Hosts -> Nat]
      /\ "answered" \in Phases /\ "killed" \in Phases /\ NoRun \notin Runs
      /\ \A r \in Runs : HostOf[r] \in Hosts /\ run[r] \in RunRecords
  BY ReconcileAssumption DEF ReconcileTyped, Phases, Hosts
<1> USE DEF LeaseInv, OneTurn, LeaseIsOwn, DropperIsAlone, PlanIsFresh, HasCreated, AtWork,
            Synchronous
\* A step of r, as far as the invariant can tell.
<1> DEFINE From(r, phases) == run[r].phase \in phases
           Into(r, phases) == run'[r].phase \in phases
<1>b. ASSUME NEW r \in Runs, RunStep(r) \/ Review(r)
      PROVE  /\ pid' = pid /\ changes' = changes
             /\ \A s \in Runs \ {r} : run'[s] = run[s] /\ run[s].phase \notin Synchronous
  BY <1>b, StepFacts DEF OneServer, Turn
<1>1. ASSUME NEW r \in Runs, Review(r) PROVE LeaseInv'
  <2>1. /\ From(r, {"idle", "answered", "killed"}) /\ Into(r, {"reviewed"})
        /\ lease' = lease /\ project' = project
    BY <1>a, <1>1 DEF Review, RunRecords
  <2> QED BY <1>b, <1>1, <2>1
<1>2. ASSUME NEW r \in Runs, RunStep(r), Apply(r) PROVE LeaseInv'
  <2>1. /\ From(r, {"reviewed"}) /\ lease' = lease /\ project' = project
        /\ \/ Into(r, {"answered"})
           \/ Into(r, {"creating"}) /\ run'[r].plan = inspect(project)
    <3>1. CASE project.ambiguous \/ inspect(project) # run[r].plan
      BY <1>a, <1>2, <3>1, OverFacts DEF Apply
    <3>2. CASE ~ (project.ambiguous \/ inspect(project) # run[r].plan)
      BY <1>a, <1>2, <3>2 DEF Apply, RunRecords
    <3> QED BY <3>1, <3>2
  <2> QED BY <1>b, <1>2, <2>1
<1>3. ASSUME NEW r \in Runs, RunStep(r), CreateLease(r) PROVE LeaseInv'
  <2>1. /\ From(r, {"creating"}) /\ Into(r, {"writing"}) /\ project' = project
        /\ run'[r].plan = run[r].plan /\ run'[r].seen = run[r].seen
        /\ lease = NoLease /\ lease.by = NoRun
        /\ lease'.by = r /\ lease'.pid = pid[HostOf[r]]
    BY <1>a, <1>3 DEF CreateLease, RunRecords, NoLease
  <2> QED BY <1>a, <1>b, <1>3, <2>1
<1>4. ASSUME NEW r \in Runs, RunStep(r), LeaseExists(r) PROVE LeaseInv'
  <2>1. /\ From(r, {"creating"}) /\ Into(r, {"looking"}) /\ project' = project
        /\ run'[r].plan = run[r].plan /\ run'[r].seen = run[r].seen /\ lease' = lease
    BY <1>a, <1>4 DEF LeaseExists, RunRecords
  <2> QED BY <1>b, <1>4, <2>1
<1>5. ASSUME NEW r \in Runs, RunStep(r), WriteLease(r) PROVE LeaseInv'
  <2>1. /\ From(r, {"writing"}) /\ Into(r, {"leased"}) /\ project' = project
        /\ run'[r].plan = run[r].plan /\ run'[r].seen = run[r].seen
    BY <1>a, <1>5 DEF WriteLease, Leased, RunRecords
  <2>2. lease'.by = r /\ lease'.pid = pid[HostOf[r]] /\ lease'.whole /\ lease.by = r
    BY <1>a, <1>5, <2>1 DEF WriteLease, Leases
  <2> QED BY <1>a, <1>b, <1>5, <2>1, <2>2
<1>6. ASSUME NEW r \in Runs, RunStep(r), LookAtLease(r) PROVE LeaseInv'
  <2>1. /\ From(r, {"looking"}) /\ project' = project /\ lease' = lease
        /\ \/ Into(r, {"answered"})
           \/ /\ Into(r, {"dropping"}) /\ ~ Held
              /\ run'[r].plan = run[r].plan /\ run'[r].seen = run[r].seen
    <3>1. CASE Held
      BY <1>a, <1>6, <3>1, OverFacts DEF LookAtLease
    <3>2. CASE ~ Held
      BY <1>a, <1>6, <3>2 DEF LookAtLease, RunRecords
    <3> QED BY <3>1, <3>2
  <2>2. ASSUME NEW s \in Runs, HasCreated(s) PROVE Held
    <3>1. s # r /\ s \in AtWork
      BY <1>b, <1>6, <2>1, <2>2
    <3>2. lease.by = s /\ lease.pid = pid[HostOf[s]] /\ lease.whole /\ lease # NoLease
      BY <1>a, <2>2, <3>1 DEF NoLease
    <3> QED BY <3>2 DEF Held
  <2> QED BY <1>b, <1>6, <2>1, <2>2
<1>7. ASSUME NEW r \in Runs, RunStep(r), DropLease(r) PROVE LeaseInv'
  <2>1. /\ From(r, {"dropping"}) /\ project' = project /\ lease' = NoLease
        /\ \/ Into(r, {"answered"})
           \/ /\ Into(r, {"creating"})
              /\ run'[r].plan = run[r].plan /\ run'[r].seen = run[r].seen
    <3>1. CASE lease = NoLease \/ run[r].attempt = 2
      BY <1>a, <1>7, <3>1, OverFacts DEF DropLease
    <3>2. CASE ~ (lease = NoLease \/ run[r].attempt = 2)
      BY <1>a, <1>7, <3>2 DEF DropLease, RunRecords
    <3> QED BY <3>1, <3>2
  <2>2. \A s \in Runs : ~ HasCreated(s)
    BY <2>1
  <2>3. \A s \in Runs : ~ HasCreated(s)'
    BY <1>b, <1>7, <2>1, <2>2
  <2> QED BY <1>a, <1>b, <1>7, <2>1, <2>3 DEF NoLease
<1>8. ASSUME NEW r \in Runs, RunStep(r), run[r].phase \in {"leased", "acting", "verifying"},
             ApplyAnswer(r), project' = project
      PROVE  LeaseInv'
  <2>1. /\ Into(r, {"answered"}) /\ lease' = NoLease
    BY <1>a, <1>8, OverFacts DEF ApplyAnswer, Released
  <2>2. \A s \in Runs : ~ HasCreated(s)'
    BY <1>b, <1>8, <2>1
  <2> QED BY <1>a, <1>b, <1>8, <2>1, <2>2 DEF NoLease
<1>9. ASSUME NEW r \in Runs, RunStep(r), NextStep(r) PROVE LeaseInv'
  <2> DEFINE first == FirstOf(run[r].plan, run[r].completed)
  <2>1. /\ From(r, {"leased"}) /\ project' = project
        /\ \/ ApplyAnswer(r)
           \/ /\ lease' = lease
              /\ \/ run' = [run EXCEPT ![r].phase = "verifying"]
                 \/ run' = [run EXCEPT ![r].phase = "acting", ![r].step = first]
    BY <1>9, NextStepCases
  <2> HIDE DEF first
  <2>2. CASE ApplyAnswer(r)
    BY <1>8, <1>9, <2>1, <2>2
  <2>3. CASE ~ ApplyAnswer(r)
    <3>1. Into(r, {"acting", "verifying"})
      <4>1. CASE run' = [run EXCEPT ![r].phase = "verifying"]
        BY <1>a, <4>1 DEF RunRecords
      <4>2. CASE run' = [run EXCEPT ![r].phase = "acting", ![r].step = first]
        BY <1>a, <4>2 DEF RunRecords
      <4> QED BY <2>1, <2>3, <4>1, <4>2
    <3> QED BY <1>b, <1>9, <2>1, <2>3, <3>1
  <2> QED BY <2>2, <2>3
<1>10. ASSUME NEW r \in Runs, RunStep(r), StepSucceeds(r) PROVE LeaseInv'
  <2>1. /\ From(r, {"acting"}) /\ Into(r, {"leased"}) /\ lease' = lease
        /\ run'[r].plan = inspect(project')
    BY <1>a, <1>10 DEF StepSucceeds, Replanned, RunRecords
  <2> QED BY <1>b, <1>10, <2>1
<1>11. ASSUME NEW r \in Runs, RunStep(r), StepFails(r) \/ Verify(r) PROVE LeaseInv'
  BY <1>8, <1>11 DEF StepFails, Verify
<1>12. ASSUME NEW h \in Hosts, KillHost(h) PROVE LeaseInv'
  <2>1. \A r \in Runs : run'[r].phase \in {"idle", "answered", "killed"}
    <3>1. \A r \in Runs : HostOf[r] = h
      BY DEF OneServer, Hosts
    <3> QED BY <1>12, <3>1 DEF KillHost, Rest
  <2>2. /\ pid' = [pid EXCEPT ![h] = @ + 1] /\ lease' = lease
    BY <1>12 DEF KillHost
  <2>3. \A r \in Runs : pid'[HostOf[r]] = pid[HostOf[r]] + 1
    <3>1. \A r \in Runs : HostOf[r] = h
      BY DEF OneServer, Hosts
    <3> QED BY <1>a, <2>2, <3>1
  <2>4. ASSUME NEW r \in Runs, lease.by = r PROVE lease.pid < pid'[HostOf[r]]
    <3>1. lease.pid \in Nat /\ pid[HostOf[r]] \in Nat /\ lease.pid <= pid[HostOf[r]]
      BY <1>a, <2>4 DEF Leases
    <3> QED BY <2>3, <3>1
  <2>5. ASSUME NEW r \in Runs, lease.by = r
        PROVE  lease.pid <= pid'[HostOf[r]] /\ lease.pid # pid'[HostOf[r]]
    <3>1. lease.pid \in Nat /\ pid'[HostOf[r]] \in Nat
      BY <1>a, <2>3 DEF Leases
    <3> QED BY <2>4, <2>5, <3>1
  <2> QED BY <2>1, <2>2, <2>5
<1>13. ASSUME PeopleChange PROVE LeaseInv'
  <2>1. run' = run /\ lease' = lease /\ pid' = pid /\ changes' = changes + 1
    BY <1>13 DEF PeopleChange
  <2>2. \A r \in Runs : run[r].seen # changes'
    <3>1. changes \in Nat /\ \A r \in Runs : run[r].seen \in Nat
      BY <1>a, ReconcileAssumption DEF ReconcileTyped, RunRecords
    <3> QED BY <2>1, <3>1 DEF SeenIsPast
  <2> QED BY <2>1, <2>2
<1>14. ASSUME UNCHANGED reconcileVars PROVE LeaseInv'
  BY <1>14 DEF reconcileVars
<1>15. ASSUME NEW r \in Runs, RunStep(r) PROVE LeaseInv'
  BY <1>2, <1>3, <1>4, <1>5, <1>6, <1>7, <1>9, <1>10, <1>11, <1>15 DEF RunStep
<1> QED BY ONLY [ReconcileNext]_reconcileVars, <1>1, <1>12, <1>13, <1>14, <1>15 DEF ReconcileNext

LEMMA ReconcileInvariance == ReconcileSpec => []ReconcileInv
<1>1. ReconcileInit => ReconcileInv
  BY InitReconcileTyped, InitLeaseInv DEF ReconcileInv
<1>2. ReconcileInv /\ [ReconcileNext]_reconcileVars => ReconcileInv'
  <2> SUFFICES ASSUME ReconcileInv, [ReconcileNext]_reconcileVars PROVE ReconcileInv'
    OBVIOUS
  <2>1. ReconcileTyped' /\ SeenIsPast'
    BY StepReconcileTyped, StepSeenIsPast DEF ReconcileInv
  <2>2. ASSUME OneServer PROVE LeaseInv'
    BY <2>2, StepLeaseInv DEF ReconcileInv
  <2>3. OneServer' = OneServer
    BY DEF OneServer
  <2> QED BY <2>1, <2>2, <2>3 DEF ReconcileInv
<1> QED BY <1>1, <1>2, PTL DEF ReconcileSpec

\* The project, the lease, the journals and the runs keep their types, for any
\* servers.
THEOREM ReconcileTypes == ReconcileSpec => []ReconcileTypeOK
<1>1. ReconcileInv => ReconcileTypeOK
  <2> SUFFICES ASSUME ReconcileInv PROVE ReconcileTypeOK
    OBVIOUS
  <2>1. \A r \in Runs : run[r] \in RunRecords /\ run[r].seen <= changes /\ journalOf[r] \in Journals
    BY DEF ReconcileInv, ReconcileTyped, SeenIsPast
  <2>2. \A r \in Runs : run[r].seen \in 0 .. changes
    BY <2>1, ReconcileAssumption DEF ReconcileInv, ReconcileTyped, RunRecords
  <2> QED BY <2>1, <2>2
      DEF ReconcileInv, ReconcileTyped, ReconcileTypeOK, RunRecords, Journals, Leases
<1> QED BY <1>1, ReconcileInvariance, PTL

\* No two applies of one server work on the project at once, when no other server
\* applies: for any number of agents and of applies, also when the server is killed
\* at any point and leaves its lease, and with a lease that is empty until its
\* content is written.
THEOREM NoTwoReconcilers ==
  ASSUME OneServer PROVE ReconcileSpec => []OneReconcilerPerServer
<1>1. ReconcileInv => OneReconcilerPerServer
  BY DEF ReconcileInv, LeaseInv, LeaseIsOwn, OneReconcilerPerServer, AtWork, HasCreated
<1> QED BY <1>1, ReconcileInvariance, PTL

\* Under the same hypothesis a run begins what the project lacks now, in the order
\* of the plan, unless people have changed it since the run looked.
THEOREM PlansAreFresh ==
  ASSUME OneServer PROVE ReconcileSpec => StepsFollowProject
<1> DEFINE Step == \A r \in Runs :
                     /\ run[r].phase = "leased" /\ run'[r].phase = "acting"
                     /\ run[r].seen = changes
                     => /\ NotDone(inspect(project), run[r].completed) # {}
                        /\ run'[r].step = FirstOf(inspect(project), run[r].completed)
<1>1. ReconcileInv /\ [ReconcileNext]_reconcileVars => Step
  <2> SUFFICES ASSUME ReconcileInv, [ReconcileNext]_reconcileVars, NEW r \in Runs,
                      run[r].phase = "leased", run'[r].phase = "acting", run[r].seen = changes
               PROVE  /\ NotDone(inspect(project), run[r].completed) # {}
                      /\ run'[r].step = FirstOf(inspect(project), run[r].completed)
    OBVIOUS
  <2>a. /\ run \in [Runs -> RunRecords] /\ "answered" \in Phases /\ ReconcileTyped
        /\ run[r] \in RunRecords
    BY DEF ReconcileInv, ReconcileTyped, Phases
  <2>1. run[r].plan = inspect(project)
    BY DEF ReconcileInv, LeaseInv, PlanIsFresh, Synchronous
  <2>2. NextStep(r)
    <3>1. ASSUME NEW s \in Runs, s # r, RunStep(s) \/ Review(s) PROVE FALSE
      BY <2>a, <3>1, StepFacts
    <3>2. ASSUME UNCHANGED run PROVE FALSE
      BY <3>2
    <3>3. ASSUME NEW h \in Hosts, KillHost(h) PROVE FALSE
      BY <3>3 DEF KillHost, Rest
    <3>4. RunStep(r) \/ Review(r)
      BY <3>1, <3>2, <3>3 DEF ReconcileNext, reconcileVars, PeopleChange
    <3> QED BY <3>4
        DEF RunStep, Review, Apply, CreateLease, LeaseExists, WriteLease, LookAtLease, DropLease,
            StepSucceeds, StepFails, Verify
  <2>3. run' # Over(r, "answered")
    BY <2>a, OverFacts
  <2>4. run' # [run EXCEPT ![r].phase = "verifying"]
    BY <2>a DEF RunRecords
  <2>5. /\ NotDone(run[r].plan, run[r].completed) # {}
        /\ run' = [run EXCEPT ![r].phase = "acting",
                              ![r].step = FirstOf(run[r].plan, run[r].completed)]
    BY <2>2, <2>3, <2>4, NextStepCases DEF ApplyAnswer
  <2>6. run'[r].step = FirstOf(run[r].plan, run[r].completed)
    BY <2>a, <2>5 DEF RunRecords
  <2> QED BY <2>1, <2>5, <2>6
<1> QED BY <1>1, ReconcileInvariance, PTL DEF ReconcileSpec, StepsFollowProject
==============================================================================
