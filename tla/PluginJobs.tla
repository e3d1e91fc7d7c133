------------------------------ MODULE PluginJobs ------------------------------
(***************************************************************************)
(* The long-running jobs of the Studio plugin: JobRegistry.ts and          *)
(* handlers/JobHandlers.ts of studio-plugin/src/modules.                   *)
(*                                                                         *)
(* execute_luau_async makes a job and a thread; the thread ends whenever   *)
(* its code does, and cancel only leaves a mark that it may look at.  The  *)
(* table of jobs is bounded by forgetting jobs that finished.              *)
(***************************************************************************)
EXTENDS Integers, Sequences, FiniteSets

CONSTANTS
  Jobs,      \* job ids, each used once
  MaxJobs    \* MAX_JOBS (50 in the code)

ASSUME JobsAssumption == MaxJobs \in Nat /\ IsFiniteSet(Jobs)

VARIABLES
  jobs,      \* the table: the status of each job, "unknown" for those not in it
  marked,    \* jobs with the flag cancelled
  results,   \* jobs whose result is stored
  threads,   \* threadJobs: jobs whose coroutine runs
  finished   \* history: the jobs that finished, in the order of finishedAt

jobVars == <<jobs, marked, results, threads, finished>>
-----------------------------------------------------------------------------
JobStatuses == {"unknown", "running", "done", "error", "cancelled"}

Known     == {j \in Jobs : jobs[j] # "unknown"}
RunningIn(table) == {j \in Jobs : table[j] = "running"}
Ended     == {"done", "error", "cancelled"}

JobsInit ==
  /\ jobs = [j \in Jobs |-> "unknown"]
  /\ marked = {}
  /\ results = {}
  /\ threads = {}
  /\ finished = <<>>

\* Where the finished jobs of a table are among the first i of the history.
FinishedOf(table, i) == {k \in 1 .. i : table[finished[k]] \in Ended}

\* Fault: running jobs are dropped, too.
PrunedAny(table) ==
  IF Cardinality({j \in Jobs : table[j] # "unknown"}) <= MaxJobs THEN {}
  ELSE {CHOOSE j \in Jobs : table[j] # "unknown"}

\* prune: as many of the oldest finished jobs as the table is too large, if
\* there are as many.
Pruned(table) ==
  LET over == Cardinality({j \in Jobs : table[j] # "unknown"}) - MaxJobs
      old  == FinishedOf(table, Len(finished))
  IN  {finished[i] : i \in {i \in old : Cardinality(FinishedOf(table, i)) <= over}}

\* executeLuauAsync: create, prune, and the thread up to its first yield.
StartJob(j) ==
  LET table == [jobs EXCEPT ![j] = "running"] IN
  /\ jobs[j] = "unknown" /\ j \notin threads /\ \A i \in DOMAIN finished : finished[i] # j
  /\ jobs' = [i \in Jobs |-> IF i \in Pruned(table) THEN "unknown" ELSE table[i]]
  /\ threads' = threads \cup {j}
  /\ UNCHANGED <<marked, results, finished>>

\* cancelJob.
CancelJob(j) ==
  /\ jobs[j] = "running"
  /\ marked' = marked \cup {j}
  /\ UNCHANGED <<jobs, results, threads, finished>>

Discarded(j) == j \in marked

\* The code returned or raised, or left its loop because checkCancelled told it
\* so; the thread looks its job up again and writes the outcome.
FinishJob(j) ==
  /\ j \in threads
  /\ threads' = threads \ {j}
  /\ IF jobs[j] = "unknown"
     THEN UNCHANGED <<jobs, results, finished>>
     ELSE \E status \in IF Discarded(j) THEN {"cancelled"} ELSE {"done", "error"} :
            /\ jobs' = [jobs EXCEPT ![j] = status]
            /\ results' = IF status = "cancelled" THEN results ELSE results \cup {j}
            /\ finished' = Append(finished, j)
  /\ UNCHANGED marked

JobsNext == \E j \in Jobs : StartJob(j) \/ CancelJob(j) \/ FinishJob(j)

JobsSpec == JobsInit /\ [][JobsNext]_jobVars

\* Whether the code of a job ends is its author's business: no fairness.
-----------------------------------------------------------------------------
\* The table and the history of the registry are well-formed.
JobsTypeOK ==
  /\ jobs \in [Jobs -> JobStatuses]
  /\ marked \subseteq Jobs
  /\ results \subseteq Jobs
  /\ threads \subseteq Jobs
  /\ finished \in Seq(Jobs)

\* "Drop the oldest finished jobs (never running ones)": a thread always finds
\* its job, so that its status can be polled and its result is not lost.
ThreadsAreKnown == threads = RunningIn(jobs)

\* "The result will be discarded on completion": a job that was cancelled while
\* it ran never shows a result, however its code ended.
CancelledHasNoResult == results \cap marked = {}

\* Of two finished jobs the one that finished first is forgotten first, so what
\* get_job_result can still read is the newest part of the history.
OldestForgottenFirst ==
  \A i, k \in DOMAIN finished :
    i < k /\ jobs[finished[k]] = "unknown" => jobs[finished[i]] = "unknown"

\* What get_job_result says of a job is what became of it, through cancellations
\* that cross its end and the pruning of other jobs.
JobsAreKept == ThreadsAreKnown /\ CancelledHasNoResult /\ OldestForgottenFirst

\* When a job is made the table is within MAX_JOBS, unless all the others run.
TableIsBounded ==
  [][threads \subseteq threads' =>
       \/ Cardinality({j \in Jobs : jobs'[j] # "unknown"}) <= MaxJobs
       \/ \A j \in Jobs : jobs'[j] \in {"unknown", "running"}
       \/ threads = threads']_jobVars
=============================================================================
