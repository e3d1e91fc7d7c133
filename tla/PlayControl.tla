----------------------------- MODULE PlayControl -----------------------------
(***************************************************************************)
(* Starting and stopping play-tests: handlers/TestHandlers.ts and          *)
(* StopPlayMonitor.ts of studio-plugin/src/modules.                        *)
(*                                                                         *)
(* The edit DataModel starts a session and asks for its end through a      *)
(* plugin setting that the monitor of the play-server DataModel reads once *)
(* a second.  The setting is a mailbox of one message: a request, a result *)
(* or nothing.  A step is the code between two waits.  The two keys of a   *)
(* place that was published after it was opened hold the same and are one. *)
(***************************************************************************)
EXTENDS Naturals

CONSTANTS
  Stops,        \* calls of stop_playtest, each with its own request id
  NoStop,       \* nobody's request
  MaxSessions,  \* bound on the play sessions
  UserPlays     \* whether the user presses Play and Stop in Studio as well

ASSUME PlayAssumption ==
  /\ NoStop \notin Stops
  /\ MaxSessions \in Nat
  /\ UserPlays \in BOOLEAN

VARIABLES
  session,      \* the session: its number, whether it lives, and who started it
  testRunning,  \* the flag of the edit DataModel
  playThreads,      \* playThreads of startPlaytest in ExecutePlayModeAsync
  ending,       \* endTestIssued of the session's DataModel
  mailbox,      \* the setting: kind, the request and whether its age is over the TTL
  stop,         \* what each call of stop_playtest does, or answered
  ended         \* history: for each request the sessions it ended

playVars == <<session, testRunning, playThreads, ending, mailbox, stop, ended>>
-----------------------------------------------------------------------------
Empty   == [kind |-> "none", id |-> NoStop, stale |-> FALSE, ok |-> FALSE]
Request(k) == [kind |-> "request", id |-> k, stale |-> FALSE, ok |-> FALSE]
Result(k, ok) == [kind |-> "result", id |-> k, stale |-> FALSE, ok |-> ok]

Answers == {"stopped", "still ending", "not acknowledged", "end failed", "no playtest"}

PlayInit ==
  /\ session = [number |-> 0, lives |-> FALSE]
  /\ testRunning = FALSE
  /\ playThreads = {}
  /\ ending = FALSE
  /\ mailbox = Empty
  /\ stop = [k \in Stops |-> "none"]
  /\ ended = [k \in Stops |-> {}]

Begins ==
  /\ session' = [number |-> session.number + 1, lives |-> TRUE]
  /\ ending' = FALSE
-----------------------------------------------------------------------------
(* The edit DataModel: startPlaytest *)

\* RunService.IsRunning (outside the repository) is taken to be false in the edit
\* DataModel, so the self-healing reset always applies and a start is never
\* refused.  Its thread begins a session, or fails at once because there is one.
StartPlaytest ==
  /\ session.number < MaxSessions
  /\ IF session.lives
     THEN testRunning' = FALSE /\ UNCHANGED <<session, ending, playThreads>>
     ELSE testRunning' = TRUE /\ Begins /\ playThreads' = playThreads \cup {session.number + 1}
  /\ UNCHANGED <<mailbox, stop, ended>>

UserStarts ==
  /\ UserPlays /\ ~session.lives /\ session.number < MaxSessions
  /\ Begins
  /\ UNCHANGED <<testRunning, playThreads, mailbox, stop, ended>>

\* The session is over, because of EndTest or because the user ended it.
SessionEnds ==
  /\ session.lives
  /\ ending \/ UserPlays
  /\ session' = [session EXCEPT !.lives = FALSE]
  /\ UNCHANGED <<testRunning, playThreads, ending, mailbox, stop, ended>>

\* ExecutePlayModeAsync returns in the thread of session n.
StartReturns(n) ==
  /\ n \in playThreads
  /\ session.number > n \/ ~session.lives
  /\ playThreads' = playThreads \ {n}
  /\ testRunning' = FALSE
  /\ UNCHANGED <<session, ending, mailbox, stop, ended>>
-----------------------------------------------------------------------------
(* The edit DataModel: stopPlaytest *)

StopPlaytest(k) ==
  /\ stop[k] = "none"
  /\ mailbox' = Request(k)
  /\ stop' = [stop EXCEPT ![k] = "waiting"]
  /\ UNCHANGED <<session, testRunning, playThreads, ending, ended>>

ResultFor(k) == mailbox.kind = "result" /\ mailbox.id = k

\* Fault: the request is not withdrawn.
ClearedNever(k) == mailbox
\* clearPending: only one's own message.
Cleared(k) == IF mailbox.kind # "none" /\ mailbox.id # k THEN mailbox ELSE Empty

\* The result came: success, and a wait for the start's thread, or a failure.
StopConsumed(k) ==
  /\ stop[k] = "waiting" /\ ResultFor(k)
  /\ mailbox' = Cleared(k)
  /\ stop' = [stop EXCEPT ![k] = IF mailbox.ok THEN "teardown"
                                 ELSE IF testRunning THEN "not acknowledged" ELSE "end failed"]
  /\ UNCHANGED <<session, testRunning, playThreads, ending, ended>>

TimedOut(k) == ~ResultFor(k)

\* WAIT_FOR_CONSUMPTION_TIMEOUT_SEC are over.
StopTimesOut(k) ==
  /\ stop[k] = "waiting" /\ TimedOut(k)
  /\ mailbox' = Cleared(k)
  /\ stop' = [stop EXCEPT ![k] = IF testRunning THEN "not acknowledged" ELSE "no playtest"]
  /\ UNCHANGED <<session, testRunning, playThreads, ending, ended>>

\* The flag cleared, or ten seconds are over.
StopReturns(k) ==
  /\ stop[k] = "teardown"
  /\ stop' = [stop EXCEPT ![k] = IF testRunning THEN "still ending" ELSE "stopped"]
  /\ UNCHANGED <<session, testRunning, playThreads, ending, mailbox, ended>>

\* The plugin of the edit DataModel is reloaded: its threads and its flag are
\* gone, and its request stays in the setting.
ReloadEdit ==
  /\ testRunning' = FALSE
  /\ playThreads' = {}
  /\ stop' = [k \in Stops |-> IF stop[k] \in {"waiting", "teardown"} THEN "cut off" ELSE stop[k]]
  /\ stop' # stop
  /\ UNCHANGED <<session, ending, mailbox, ended>>
-----------------------------------------------------------------------------
(* The play-server DataModel: the monitor *)

\* REQUEST_TTL_SEC (12) are over: longer than any caller waits.
RequestAges ==
  /\ mailbox.kind = "request" /\ ~mailbox.stale
  /\ stop[mailbox.id] # "waiting"
  /\ mailbox' = [mailbox EXCEPT !.stale = TRUE]
  /\ UNCHANGED <<session, testRunning, playThreads, ending, stop, ended>>

TooOld == mailbox.stale

MonitorDrops ==
  /\ session.lives /\ mailbox.kind = "request" /\ TooOld
  /\ mailbox' = Empty
  /\ UNCHANGED <<session, testRunning, playThreads, ending, stop, ended>>

\* writeResult, in the place of the request.
MailWritten(k, ok) == Result(k, ok)

\* handleStopRequest: EndTest, once for each session.
MonitorEnds ==
  /\ session.lives /\ mailbox.kind = "request" /\ ~TooOld
  /\ ending' = TRUE
  /\ mailbox' = MailWritten(mailbox.id, TRUE)
  /\ ended' = [ended EXCEPT ![mailbox.id] = @ \cup {session.number}]
  /\ UNCHANGED <<session, testRunning, playThreads, stop>>

\* EndTest raises.
MonitorFails ==
  /\ session.lives /\ mailbox.kind = "request" /\ ~TooOld /\ ~ending
  /\ mailbox' = MailWritten(mailbox.id, FALSE)
  /\ UNCHANGED <<session, testRunning, playThreads, ending, stop, ended>>
-----------------------------------------------------------------------------
StopSteps(k) == StopConsumed(k) \/ StopTimesOut(k) \/ StopReturns(k)

PlayNext ==
  \/ StartPlaytest \/ UserStarts \/ SessionEnds \/ \E n \in playThreads : StartReturns(n)
  \/ \E k \in Stops : StopPlaytest(k) \/ StopSteps(k)
  \/ ReloadEdit \/ RequestAges \/ MonitorDrops \/ MonitorEnds \/ MonitorFails

PlaySpec == PlayInit /\ [][PlayNext]_playVars

PlayFairness == \A k \in Stops : WF_playVars(StopSteps(k))
-----------------------------------------------------------------------------
\* The setting, the flag and the calls are well-formed.
PlayTypeOK ==
  /\ session \in [number : 0..MaxSessions, lives : BOOLEAN]
  /\ testRunning \in BOOLEAN
  /\ playThreads \subseteq 1..MaxSessions
  /\ ending \in BOOLEAN
  /\ mailbox \in [kind : {"none", "request", "result"}, id : Stops \cup {NoStop},
                  stale : BOOLEAN, ok : BOOLEAN]
  /\ stop \in [Stops -> {"none", "waiting", "teardown", "cut off"} \cup Answers]
  /\ ended \in [Stops -> SUBSET (1..MaxSessions)]

\* "clean up the pending request so a future playtest's monitor doesn't fire
\* EndTest on startup against a stale signal": a request stays in the mailbox
\* only while its caller waits, or for the TTL after the caller was cut off.
RequestIsAwaited ==
  mailbox.kind = "request" => stop[mailbox.id] \in {"waiting", "cut off"}

\* A request ends at most one session: the one after it is not torn down by a
\* message that was read before, or left behind.
EndsOneSession ==
  \A k \in Stops :
    \A m, n \in ended[k] : m = n

\* What the caller was told happened: a stop that was acknowledged ended a
\* session, its own request and no other having reached the monitor.
AcknowledgedEnded ==
  \A k \in Stops :
    stop[k] \in {"teardown", "stopped", "still ending"} => ended[k] # {}

\* What stop_playtest leaves behind and says is right, also when the session ends
\* by itself, the next one begins, or the caller is gone before the monitor reads.
StopIsTruthful == RequestIsAwaited /\ EndsOneSession /\ AcknowledgedEnded

\* stop_playtest always answers, whether or not anybody reads the mailbox.
StopAnswers == \A k \in Stops : (stop[k] = "waiting") ~> (stop[k] \in Answers \cup {"cut off"})
=============================================================================
