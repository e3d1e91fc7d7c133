----------------------------- MODULE MCToolsSide ------------------------------
(***************************************************************************)
(* Small instances for TLC of the six modules about what tools and plugin   *)
(* keep and write: the executor of requests with its cache, the registry of *)
(* jobs, the ring of log lines, plans of edits with their rollback, the     *)
(* pull of scripts to files and the backups of scripts.  They share no      *)
(* state.  A behavior is one of a single module: component says of which,   *)
(* and the variables of the others keep their first values.                 *)
(***************************************************************************)
EXTENDS PluginExecutor, PluginJobs, LogBuffer, MutationPlan, ScriptSync, ScriptBackups

CONSTANT Components

VARIABLE component

\* A delivery is told apart by its attempt number alone.
Attempts == {[attempt |-> n] : n \in 1..2}

\* Scripts are alike, and so are the paths they can be at.
Twins == Permutations(Scripts) \cup Permutations(Paths \ {Stray})

AnyOf(S) == CHOOSE x \in S : TRUE

ToolsInit ==
  /\ component \in Components
  /\ Init /\ JobsInit /\ LogInit /\ PlanInit /\ SyncInit /\ BackupInit
  /\ component # "plan" => /\ atomic
                           /\ \A i \in DOMAIN place :
                                place[i] = [Name |-> AnyOf(Names), attribute |-> Unset, tag |-> FALSE]
  /\ component # "sync" =>
       studio = [i \in Scripts |-> [file |-> <<Stray, AnyOf(Classes)>>, text |-> AnyOf(Texts)]]
  /\ component # "backups" => source = [s \in Scripted |-> AnyOf(Sources)]

ToolsNext ==
  /\ UNCHANGED component
  /\ \/ /\ component = "executor" /\ Next
        /\ UNCHANGED <<jobVars, logVars, planVars, syncVars, backupVars>>
     \/ /\ component = "jobs" /\ JobsNext
        /\ UNCHANGED <<pluginVars, logVars, planVars, syncVars, backupVars>>
     \/ /\ component = "log" /\ LogNext
        /\ UNCHANGED <<pluginVars, jobVars, planVars, syncVars, backupVars>>
     \/ /\ component = "plan" /\ PlanNext
        /\ UNCHANGED <<pluginVars, jobVars, logVars, syncVars, backupVars>>
     \/ /\ component = "sync" /\ SyncNext
        /\ UNCHANGED <<pluginVars, jobVars, logVars, planVars, backupVars>>
     \/ /\ component = "backups" /\ BackupNext
        /\ UNCHANGED <<pluginVars, jobVars, logVars, planVars, syncVars>>

toolsVars == <<component, pluginVars, jobVars, logVars, planVars, syncVars, backupVars>>

ToolsSpec == ToolsInit /\ [][ToolsNext]_toolsVars

\* The variables of the six modules have the values their declarations promise.
ToolsSideTypeOK ==
  /\ component \in Components
  /\ TypeOK /\ JobsTypeOK /\ LogTypeOK /\ PlanTypeOK /\ SyncTypeOK /\ BackupTypeOK
=============================================================================
