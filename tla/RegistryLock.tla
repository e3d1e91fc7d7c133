----------------------------- MODULE RegistryLock -----------------------------
(***************************************************************************)
(* The lock of the registry of managed Studio processes: withLock of       *)
(* packages/core/src/managed-instance-registry.ts, and under it an update  *)
(* that reads a record and writes it back, as attachInstanceId and         *)
(* markClosed do.                                                          *)
(*                                                                         *)
(* The lock is a directory that several server processes make and remove.  *)
(* Each call into the file system is a step.  The directory grows stale,   *)
(* that is older than LOCK_STALE_MS, when its maker died, and when the     *)
(* maker is slow.  A server makes one update at a time and Updates in all. *)
(***************************************************************************)
EXTENDS Naturals

CONSTANTS
  Writers,      \* server processes that share the registry
  NoWriter,     \* the maker of a lock that does not exist
  Updates,      \* bound on the updates of each writer
  Mortal,       \* writers that may die while they hold the lock
  Slow          \* writers that may hold it for more than LOCK_STALE_MS

ASSUME LockAssumption ==
  /\ NoWriter \notin Writers
  /\ Updates \in Nat \ {0}
  /\ Mortal \subseteq Writers /\ Slow \subseteq Writers

VARIABLES
  pc,         \* where each writer is in withLock
  lock,       \* the directory: who made it and whether it is stale
  seen,       \* the record each writer has read
  record,     \* the record on disk: how many updates of each writer it has
  returned    \* history: how many updates of each writer returned

lockVars == <<pc, lock, seen, record, returned>>
-----------------------------------------------------------------------------
PCs == {"idle", "trying", "stating", "removing", "reading", "writing", "releasing", "dead"}

NoLock  == [by |-> NoWriter, stale |-> FALSE]
Blank   == [w \in Writers |-> 0]
Records == [Writers -> 0..Updates]

InLock(w) == pc[w] \in {"reading", "writing", "releasing"}
To(w, at) == pc' = [pc EXCEPT ![w] = at]

LockInit ==
  /\ pc = [w \in Writers |-> "idle"]
  /\ lock = NoLock
  /\ seen = [w \in Writers |-> Blank]
  /\ record = Blank
  /\ returned = Blank
-----------------------------------------------------------------------------
\* A call that updates a record begins.
Enter(w) ==
  /\ pc[w] = "idle" /\ returned[w] < Updates
  /\ To(w, "trying")
  /\ UNCHANGED <<lock, seen, record, returned>>

Makeable == lock = NoLock

\* mkdirSync succeeds.
Make(w) ==
  /\ pc[w] = "trying" /\ Makeable
  /\ To(w, "reading")
  /\ lock' = [by |-> w, stale |-> FALSE]
  /\ UNCHANGED <<seen, record, returned>>

\* EEXIST.
MakeFails(w) ==
  /\ pc[w] = "trying" /\ lock # NoLock
  /\ To(w, "stating")
  /\ UNCHANGED <<lock, seen, record, returned>>

\* Fault: the age of the directory is not looked at.
LooksStaleAlways == lock # NoLock

LooksStale == lock.stale

\* statSync: the directory is gone, or fresh and tried again 25 ms later, or
\* stale and about to be removed.
Stat(w) ==
  /\ pc[w] = "stating"
  /\ To(w, IF LooksStale THEN "removing" ELSE "trying")
  /\ UNCHANGED <<lock, seen, record, returned>>

\* LOCK_TIMEOUT_MS have passed: the call throws.
TimesOut(w) ==
  /\ pc[w] = "stating" /\ lock # NoLock /\ ~lock.stale
  /\ To(w, "idle")
  /\ UNCHANGED <<lock, seen, record, returned>>

\* rmSync removes whatever directory is there by now.
RemoveStale(w) ==
  /\ pc[w] = "removing"
  /\ lock' = NoLock
  /\ To(w, "trying")
  /\ UNCHANGED <<seen, record, returned>>

ReadRecord(w) ==
  /\ pc[w] = "reading"
  /\ seen' = [seen EXCEPT ![w] = record]
  /\ To(w, "writing")
  /\ UNCHANGED <<lock, record, returned>>

\* writeRecordUnlocked: a temporary file renamed over the record.
WriteRecord(w) ==
  /\ pc[w] = "writing"
  /\ record' = [seen[w] EXCEPT ![w] = returned[w] + 1]
  /\ To(w, "releasing")
  /\ UNCHANGED <<lock, seen, returned>>

\* finally: rmSync, of one's own directory or of somebody else's.
Release(w) ==
  /\ pc[w] = "releasing"
  /\ lock' = NoLock
  /\ returned' = [returned EXCEPT ![w] = @ + 1]
  /\ To(w, "idle")
  /\ UNCHANGED <<seen, record>>

\* The process of the holder ends before its finally.
Die(w) ==
  /\ w \in Mortal /\ InLock(w)
  /\ To(w, "dead")
  /\ UNCHANGED <<lock, seen, record, returned>>

\* Ten seconds pass since the directory was made.
GrowStale ==
  /\ lock # NoLock /\ ~lock.stale
  /\ pc[lock.by] = "dead" \/ lock.by \in Slow
  /\ lock' = [lock EXCEPT !.stale = TRUE]
  /\ UNCHANGED <<pc, seen, record, returned>>

LockStep(w) ==
  \/ Make(w) \/ MakeFails(w) \/ Stat(w) \/ RemoveStale(w)
  \/ ReadRecord(w) \/ WriteRecord(w) \/ Release(w)

LockNext ==
  \/ \E w \in Writers : Enter(w) \/ LockStep(w) \/ TimesOut(w) \/ Die(w)
  \/ GrowStale

LockSpec == LockInit /\ [][LockNext]_lockVars

LockFairness ==
  /\ \A w \in Writers : WF_lockVars(LockStep(w))
  /\ WF_lockVars(GrowStale)
-----------------------------------------------------------------------------
\* Every writer is somewhere in withLock, and counts no update twice.
LockTypeOK ==
  /\ pc \in [Writers -> PCs]
  /\ lock \in [by : Writers \cup {NoWriter}, stale : BOOLEAN]
  /\ seen \in [Writers -> Records]
  /\ record \in Records
  /\ returned \in Records

\* What the lock is relied on for: nobody is slower than LOCK_STALE_MS, and if a
\* holder may die there is at most one process left to steal from it.  (Three
\* processes can break it: the second of two that judged the dead holder's lock
\* stale removes the fresh lock of the first.)
AtMostTwo == \A u, v, w \in Writers : u = v \/ v = w \/ u = w
Reliable  == Slow = {} /\ (Mortal = {} \/ AtMostTwo)

\* Two processes are never in the lock: "whatever is there" is never a lock that
\* is in use.
LockExcludes ==
  Reliable => \A v, w \in Writers : InLock(v) /\ InLock(w) => v = w

\* An update that returned is on disk, whatever the others write: no record is
\* written back from a reading that others have overtaken.
NoLostUpdate ==
  Reliable => \A w \in Writers : record[w] >= returned[w]

\* A dead holder does not block the registry for ever: whoever wants the lock
\* gets out of withLock, or dies in it.
LockIsLeft ==
  \A w \in Writers : (pc[w] # "idle") ~> (pc[w] \in {"idle", "dead"})
=============================================================================
