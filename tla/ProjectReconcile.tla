-------------------------- MODULE ProjectReconcile --------------------------
(***************************************************************************)
(* Bringing a Rojo project into shape: toolchain/project-reconcile.ts of   *)
(* packages/core/src.                                                      *)
(*                                                                         *)
(* A run belongs to a server process.  It executes, one at a time, the     *)
(* steps the project needs, looks at the project again after each, and     *)
(* keeps other runs away with a lease file.  A process does not yield      *)
(* between planning and the next step, but another process runs between    *)
(* any two of its file operations; a step below ends at such an operation  *)
(* or at an await.  A run that answers removes its lease in two operations *)
(* that are one step here.                                                 *)
(***************************************************************************)
EXTENDS Naturals, Sequences

CONSTANTS
  Runs,          \* run ids, each used by one apply at a time
  NoRun,
  HostOf,        \* the server process of each run
  MortalHosts,   \* processes that may be killed, and are started again
  Permitted,     \* the steps bloxforge.toml lets a run make
  Beginnings,    \* the projects to begin with
  MaxApplies,    \* bound on the applies made with one run id
  MaxChanges     \* bound on what people change in the project meanwhile

ASSUME ReconcileAssumption ==
  /\ NoRun \notin Runs /\ DOMAIN HostOf = Runs
  /\ MaxApplies \in Nat /\ MaxChanges \in Nat

VARIABLES
  project,     \* what the project lacks, and whether it is ambiguous
  lease,       \* the lease file: its run, the pid in it, and whether it can be read
  pid,         \* the process id of each server process: one more in each of its lives
  journalOf,   \* the journal of each run id: the plan it began with and completedSteps
  run,         \* each run: phase, apply, attempt at the lease, reviewed and current plan,
               \* the changes it has seen, completedSteps, the step it is at
  changes      \* the number of changes made by people

reconcileVars == <<project, lease, pid, journalOf, run, changes>>
-----------------------------------------------------------------------------
NoLease == [by |-> NoRun, pid |-> 0, whole |-> TRUE]

Hosts == {HostOf[r] : r \in Runs}

Toolchain == {"healthy", "broken"}
Wally     == {"fine", "no lock", "not installed", "not mapped"}
Serve     == {"running", "stopped", "unhealthy"}
ProjectStates == [ambiguous : BOOLEAN, toolchain : Toolchain, wally : Wally,
             sourcemap : BOOLEAN, serve : Serve]

ASSUME BeginningsAssumption == Beginnings \subseteq ProjectStates

\* The steps a project needs, in their order; an ambiguous one gets none.
ToolchainSteps(p) == IF p.toolchain = "broken" THEN <<"install-toolchain">> ELSE <<>>
WallySteps(p) == CASE p.wally = "fine"          -> <<>>
                   [] p.wally = "no lock"       -> <<"resolve-wally-lock">>
                   [] p.wally = "not installed" -> <<"install-packages">>
                   [] p.wally = "not mapped"    -> <<"map-packages">>
SourcemapSteps(p) == IF p.sourcemap THEN <<>> ELSE <<"generate-sourcemap">>
ServeSteps(p) == CASE p.serve = "running"   -> <<>>
                   [] p.serve = "stopped"   -> <<"start-rojo">>
                   [] p.serve = "unhealthy" -> <<"restart-rojo">>

inspect(p) == IF p.ambiguous
              THEN <<>>
              ELSE ToolchainSteps(p) \o WallySteps(p) \o SourcemapSteps(p) \o ServeSteps(p)

StepIds == {"install-toolchain", "resolve-wally-lock", "install-packages", "map-packages",
            "generate-sourcemap", "start-rojo", "restart-rojo"}

Automatic == StepIds \ {"resolve-wally-lock", "map-packages"}

\* What a step that works does; installing tools may change what Wally lacks.
Mended(p, step) ==
  CASE step = "install-toolchain" ->
         {[p EXCEPT !.toolchain = "healthy", !.wally = w] : w \in {p.wally, "fine", "not installed"}}
    [] step = "install-packages" -> {[p EXCEPT !.wally = w] : w \in {"fine", "not mapped"}}
    [] step = "generate-sourcemap" -> {[p EXCEPT !.sourcemap = TRUE]}
    [] step \in {"start-rojo", "restart-rojo"} -> {[p EXCEPT !.serve = "running"]}

NotDone(plan, completed) == {k \in DOMAIN plan : plan[k] \notin completed}
FirstOf(plan, completed) ==
  plan[CHOOSE k \in NotDone(plan, completed) : \A j \in NotDone(plan, completed) : k <= j]

Phases == {"idle", "reviewed", "creating", "writing", "looking", "dropping", "leased", "acting",
           "verifying", "answered", "killed"}

Rest(phase, n) == [phase |-> phase, apply |-> n, attempt |-> 0, plan |-> <<>>, seen |-> 0,
                   completed |-> {}, step |-> ""]
Over(r, phase) == [run EXCEPT ![r] = Rest(phase, @.apply)]

\* From the look at the project to the next step its process runs nothing else.
Synchronous == {"creating", "writing", "looking", "dropping", "leased"}
Turn(r) == \A q \in Runs \ {r} : HostOf[q] = HostOf[r] => run[q].phase \notin Synchronous

ReconcileInit ==
  /\ project \in Beginnings
  /\ lease = NoLease
  /\ pid = [h \in Hosts |-> 1]
  /\ journalOf = [r \in Runs |-> [plan |-> <<>>, completed |-> {}]]
  /\ run = [r \in Runs |-> Rest("idle", 0)]
  /\ changes = 0
-----------------------------------------------------------------------------
\* project_reconcile_plan, for the agent to review.
Review(r) ==
  /\ Turn(r)
  /\ run[r].phase \in {"idle", "answered", "killed"} /\ run[r].apply < MaxApplies
  /\ run' = [run EXCEPT ![r].phase = "reviewed", ![r].plan = inspect(project),
                        ![r].apply = @ + 1]
  /\ UNCHANGED <<project, lease, pid, journalOf, changes>>

\* apply: the plan must still be the reviewed one, and the project not ambiguous.
Apply(r) ==
  /\ run[r].phase = "reviewed"
  /\ run' = IF project.ambiguous \/ inspect(project) # run[r].plan
            THEN Over(r, "answered")
            ELSE [run EXCEPT ![r].phase = "creating", ![r].attempt = 1, ![r].seen = changes]
  /\ UNCHANGED <<project, lease, pid, journalOf, changes>>

\* openJournal: a journal that began with the same plan is resumed.
Resumed(r) == IF journalOf[r].plan = run[r].plan THEN journalOf[r].completed ELSE {}

\* The lease is there: the journal is opened and written.
Leased(r) ==
  /\ run' = [run EXCEPT ![r].phase = "leased", ![r].completed = Resumed(r)]
  /\ journalOf' = [journalOf EXCEPT ![r] = [plan |-> run[r].plan, completed |-> Resumed(r)]]

\* Exclusive creation, which makes an empty file first.
CreateLease(r) ==
  /\ run[r].phase = "creating" /\ lease = NoLease
  /\ lease' = [by |-> r, pid |-> pid[HostOf[r]], whole |-> FALSE]
  /\ run' = [run EXCEPT ![r].phase = "writing"]
  /\ UNCHANGED <<project, pid, journalOf, changes>>

LeaseExists(r) ==
  /\ run[r].phase = "creating" /\ lease # NoLease
  /\ run' = [run EXCEPT ![r].phase = "looking"]
  /\ UNCHANGED <<project, lease, pid, journalOf, changes>>

\* The content goes to the file that was created, which may be unlinked by now.
WriteLease(r) ==
  /\ run[r].phase = "writing"
  /\ lease' = IF lease.by = r /\ lease.pid = pid[HostOf[r]]
              THEN [lease EXCEPT !.whole = TRUE] ELSE lease
  /\ Leased(r)
  /\ UNCHANGED <<project, pid, changes>>

\* Fault: any lease is taken for stale.
HeldNever == FALSE
\* Whether the lease can be read and its process lives.
Held == lease # NoLease /\ lease.whole /\ lease.pid = pid[HostOf[lease.by]]

LookAtLease(r) ==
  /\ run[r].phase = "looking"
  /\ run' = IF Held THEN Over(r, "answered") ELSE [run EXCEPT ![r].phase = "dropping"]
  /\ UNCHANGED <<project, lease, pid, journalOf, changes>>

\* A stale or unreadable lease is unlinked, and the creation tried once more.
DropLease(r) ==
  /\ run[r].phase = "dropping"
  /\ lease' = NoLease
  /\ run' = IF lease = NoLease \/ run[r].attempt = 2
            THEN Over(r, "answered")
            ELSE [run EXCEPT ![r].phase = "creating", ![r].attempt = @ + 1]
  /\ UNCHANGED <<project, pid, journalOf, changes>>
-----------------------------------------------------------------------------
\* releaseLease: what cannot be read counts as one's own.
Released(r) == IF lease.by = r \/ ~lease.whole THEN NoLease ELSE lease

ApplyAnswer(r) ==
  /\ run' = Over(r, "answered")
  /\ lease' = Released(r)

\* The head of the loop: the first step of the plan that this run has not made.
NextStep(r) ==
  /\ run[r].phase = "leased"
  /\ IF NotDone(run[r].plan, run[r].completed) = {}
     THEN run' = [run EXCEPT ![r].phase = "verifying"] /\ UNCHANGED lease
     ELSE LET step == FirstOf(run[r].plan, run[r].completed)
          IN  IF step \in Permitted
              THEN /\ run' = [run EXCEPT ![r].phase = "acting", ![r].step = step]
                   /\ UNCHANGED lease
              ELSE ApplyAnswer(r)
  /\ UNCHANGED <<project, pid, journalOf, changes>>

CompletedOf(r) == run[r].completed \cup {run[r].step}
\* Fault: the plan made before the step goes on.
ReplannedOnce(r, p) == run[r].plan
Replanned(r, p) == inspect(p)

\* A step succeeds, with or without effect; the project is looked at again.
StepSucceeds(r) ==
  /\ run[r].phase = "acting" /\ run[r].step \in Automatic
  /\ project' \in Mended(project, run[r].step) \cup {project}
  /\ run' = [run EXCEPT ![r].phase = "leased", ![r].completed = CompletedOf(r),
                        ![r].plan = Replanned(r, project'), ![r].seen = changes]
  /\ journalOf' = [journalOf EXCEPT ![r].completed = CompletedOf(r)]
  /\ UNCHANGED <<lease, pid, changes>>

StepFails(r) ==
  /\ run[r].phase = "acting"
  /\ ApplyAnswer(r)
  /\ UNCHANGED <<project, pid, journalOf, changes>>

\* The build and the strict verify; their result is the answer.
Verify(r) ==
  /\ run[r].phase = "verifying"
  /\ ApplyAnswer(r)
  /\ UNCHANGED <<project, pid, journalOf, changes>>

\* A killed process is started again, under another pid.
KillHost(h) ==
  LET victims == {r \in Runs : HostOf[r] = h /\ run[r].phase \notin {"idle", "answered", "killed"}}
  IN
  /\ h \in MortalHosts /\ victims # {}
  /\ pid' = [pid EXCEPT ![h] = @ + 1]
  /\ run' = [r \in Runs |-> IF r \in victims THEN Rest("killed", run[r].apply) ELSE run[r]]
  /\ UNCHANGED <<project, lease, journalOf, changes>>

PeopleChange ==
  /\ changes < MaxChanges
  /\ changes' = changes + 1
  /\ \/ project' = [project EXCEPT !.ambiguous = ~@]
     \/ project' = [project EXCEPT !.toolchain = "broken"]
     \/ \E w \in Wally : project' = [project EXCEPT !.wally = w]
     \/ project' = [project EXCEPT !.sourcemap = FALSE]
     \/ \E s \in Serve : project' = [project EXCEPT !.serve = s]
  /\ UNCHANGED <<lease, pid, journalOf, run>>
-----------------------------------------------------------------------------
RunStep(r) ==
  /\ Turn(r)
  /\ \/ Apply(r) \/ CreateLease(r) \/ LeaseExists(r)
     \/ WriteLease(r) \/ LookAtLease(r) \/ DropLease(r)
     \/ NextStep(r) \/ StepSucceeds(r) \/ StepFails(r) \/ Verify(r)

ReconcileNext ==
  \/ PeopleChange
  \/ \E r \in Runs : RunStep(r) \/ Review(r)
  \/ \E h \in Hosts : KillHost(h)

ReconcileSpec == ReconcileInit /\ [][ReconcileNext]_reconcileVars

\* Every command an apply runs has a timeout, and its process goes on or dies.
ReconcileFairness == \A r \in Runs : WF_reconcileVars(RunStep(r))
-----------------------------------------------------------------------------
ReconcileTypeOK ==
  /\ project \in ProjectStates
  /\ lease \in [by : Runs \cup {NoRun}, pid : Nat, whole : BOOLEAN]
  /\ pid \in [Hosts -> Nat]
  /\ \A r \in Runs :
       /\ run[r].phase \in Phases /\ run[r].apply \in 0 .. MaxApplies /\ run[r].attempt \in 0 .. 2
       /\ run[r].seen \in 0 .. changes
       /\ run[r].completed \subseteq StepIds /\ journalOf[r].completed \subseteq StepIds
  /\ changes \in 0 .. MaxChanges

AtWork == {r \in Runs : run[r].phase \in {"leased", "acting", "verifying"}}

\* No two runs work on the project: "two agents starting at the same moment cannot
\* both believe they hold it", and a crashed run's lease is taken over by one.
OneReconciler == \A q, r \in AtWork : q = r

\* "One MCP server can have two applies in flight, and that is precisely the case the
\* lease exists for": in one process, killed and started again or not, no two work.
OneReconcilerPerServer == \A q, r \in AtWork : HostOf[q] = HostOf[r] => q = r

\* A run begins only what the project lacks, in the order of the plan, unless people
\* have changed it since the run last looked: "re-reading state after every mutation".
StepsFollowProject ==
  [][\A r \in Runs : /\ run[r].phase = "leased" /\ run'[r].phase = "acting"
                     /\ run[r].seen = changes
        => /\ NotDone(inspect(project), run[r].completed) # {}
           /\ run'[r].step = FirstOf(inspect(project), run[r].completed)]_reconcileVars

\* Every apply answers or dies with its process, also when a step reports success
\* again and again without effect and when leases of killed runs lie about.
ApplyAnswers ==
  \A r \in Runs : run[r].phase = "creating" ~> run[r].phase \in {"answered", "killed"}
=============================================================================
