----------------------------- MODULE ScriptSync -----------------------------
(***************************************************************************)
(* Writing the scripts of a Studio place to files: rojo_syncback_plan and  *)
(* rojo_syncback_apply, in tools/sync-tools.ts of packages/core/src, with  *)
(* readManagedScripts of the plugin's ScriptHandlers.ts.                   *)
(*                                                                         *)
(* A pull reads the scripts page by page, compares each with its file and  *)
(* with the state both had at the last sync (the baseline), and then makes *)
(* renames, writes and deletions, undoing them when one fails.  The first  *)
(* page fixes which scripts are read and the path each is known by; the    *)
(* text and the path that names its file are those of the moment a script  *)
(* is read.  An apply that does not find the reviewed plan again changes   *)
(* nothing, so that the plan below is the reviewed one.  Nothing in the    *)
(* apply awaits, but people and their editors do not wait for it: they     *)
(* come between the check of a file and its replacement, and between two   *)
(* steps of the undo.  sync_push is not a tool any more and is left out.   *)
(***************************************************************************)
EXTENDS Naturals, Sequences, FiniteSets

CONSTANTS
  Scripts,       \* script instances, in the place or not
  Paths,         \* where they can be
  Stray,         \* the path of a script that was removed: its name alone
  Classes,       \* what a script can be; it stays what it is
  Texts,
  Gone,          \* no text, no file, no entry
  Large,         \* texts over maxSourceBytes, which are not sent
  MaxStudio,     \* bound on what people change in Studio
  MaxLocal,      \* bound on what they change in files
  Races          \* whether they do it while a pull is applied

ASSUME SyncAssumption ==
  /\ Gone \notin Texts /\ Large \subseteq Texts /\ Stray \in Paths /\ Gone \notin Paths
  /\ IsFiniteSet(Paths) /\ IsFiniteSet(Classes)
  /\ Gone \notin Paths \X Classes
  /\ MaxStudio \in Nat /\ MaxLocal \in Nat
  /\ Races \in BOOLEAN

\* A file is named by the path and the class of its script.
Files == Paths \X Classes

VARIABLES
  studio,      \* each script: the file its path and class name, and its text
  files,       \* the text of each file
  baseline,    \* .bloxforge/rojo-state.json: contentHash, studioHash and studioIdentity by file
  backups,     \* the copies under .bloxforge/backups
  pullPhase,
  pages,       \* what Studio has returned of each script
  seen,        \* the files as _walkLocalScripts found them
  todo,        \* scripts still to read; then renames, writes and deletions still to make
  checked,     \* the one of them whose file was looked at and is to be replaced
  applied,     \* files renamed to or written
  rollback,    \* what to undo, in the order it was done
  tally,       \* people's changes in Studio and in files
  raced,       \* history: whether a file was changed since the plan
  late,        \* history: the files changed since the pull last looked at them
  shifted,     \* history: whether a script was moved between a first page and its own
  unwritable,  \* whether an undo step failed
  hadStudio, hadFiles  \* history: the texts scripts have had at a path, and files at all

syncVars == <<studio, files, baseline, backups, pullPhase, pages, seen, todo, checked, applied,
              rollback, tally, raced, late, shifted, unwritable, hadStudio, hadFiles>>
people  == <<studio, tally, shifted, hadStudio>>
reading == <<pages, seen>>
doing   == <<todo, checked, applied, rollback, unwritable>>
-----------------------------------------------------------------------------
NoEntry == [content |-> Gone, hash |-> Gone, path |-> Gone]
NoPage  == [path |-> Gone, file |-> Gone, text |-> Gone, unchanged |-> FALSE, sent |-> FALSE]

NoPages == [i \in Scripts |-> NoPage]
NoFiles == [f \in Files |-> Gone]

Listed == {i \in Scripts : studio[i].file[1] # Stray}
TextsAt(p) == {studio[i].text : i \in {j \in Scripts : studio[j].file[1] = p}}

SyncInit ==
  /\ studio \in [Scripts -> [file : Files, text : Texts]]
  /\ files = NoFiles
  /\ baseline = [f \in Files |-> NoEntry]
  /\ backups = {}
  /\ pullPhase = "idle"
  /\ pages = NoPages
  /\ seen = NoFiles
  /\ todo = {} /\ checked = {} /\ applied = {} /\ rollback = <<>>
  /\ tally = [studio |-> 0, files |-> 0]
  /\ raced = FALSE /\ late = {} /\ shifted = FALSE /\ unwritable = FALSE
  /\ hadStudio = [p \in Paths |-> TextsAt(p)]
  /\ hadFiles = {}
-----------------------------------------------------------------------------
(* The plan, from pages, seen and baseline *)

Returned  == {i \in Scripts : pages[i].file # Gone}
\* Two scripts that name one file block it.
Blocked   == {f \in Files : \E i, j \in Returned : i # j /\ pages[i].file = f /\ pages[j].file = f}
Mapped    == {pages[i].file : i \in Returned} \ Blocked
PageOf(f) == pages[CHOOSE i \in Returned : pages[i].file = f]
TextOf(f) == PageOf(f).text
Sent(f)   == PageOf(f).sent

\* knownHashes has one text for a path, that of an entry with this identity.
KnownHashes(path) ==
  LET hashes == {baseline[f].hash : f \in {g \in Files : baseline[g].path = path}}
  IN  IF hashes = {} THEN {Gone} ELSE hashes

StudioText(f) == IF Sent(f) THEN TextOf(f) ELSE baseline[f].content
\* Fault: a script whose text was left out counts as unchanged.
ComparedAll == Mapped
\* All but those whose text is too large to be sent.
Compared == {f \in Mapped : Sent(f) \/ PageOf(f).unchanged}

InSync   == {f \in Compared : seen[f] = StudioText(f)}
Added    == {f \in Compared \ InSync : seen[f] = Gone}
Modified == {f \in Compared \ (InSync \cup Added) : seen[f] = baseline[f].content}
DeletedInStudio ==
  {f \in Files \ (Mapped \cup Blocked) :
     baseline[f] # NoEntry /\ seen[f] \in {Gone, baseline[f].content}}

Candidates(from) == {to \in Added : Sent(to) /\ TextOf(to) = baseline[from].content}
Inferable == {r \in DeletedInStudio \X Added : Candidates(r[1]) = {r[2]}}
\* Of two removed files with one text either is taken for the renamed one.
RenameSets == {R \in SUBSET Inferable : \A x \in Inferable : \E r \in R : r[2] = x[2]
                                        /\ \A s \in R : s[2] = r[2] => s = r}

Job(op, f, to) == [op |-> op, file |-> f, to |-> to]
JobsOf(R, deleteMissing) ==
  {Job("rename", r[1], r[2]) : r \in R}
  \cup {Job("write", f, f) : f \in {g \in (Added \cup Modified) \ {r[2] : r \in R} : Sent(g)}}
  \cup (IF deleteMissing
        THEN {Job("delete", f, f) : f \in {g \in DeletedInStudio \ {r[1] : r \in R} : seen[g] # Gone}}
        ELSE {})
-----------------------------------------------------------------------------
\* Nothing of a pull outlives it.
Idle ==
  /\ pullPhase' = "idle"
  /\ pages' = NoPages /\ seen' = NoFiles
  /\ todo' = {} /\ checked' = {} /\ applied' = {} /\ rollback' = <<>>
  /\ raced' = FALSE /\ late' = {} /\ unwritable' = FALSE

\* What is returned of a script that was listed by a path.
Page(path, script, hash) ==
  [path |-> path, file |-> script.file, text |-> script.text, unchanged |-> script.text = hash,
   sent |-> script.text # hash /\ script.text \notin Large]

\* The first page: the scripts are listed and i is read.
BeginPull(i) ==
  /\ pullPhase = "idle" /\ i \in Listed
  /\ \E hash \in KnownHashes(studio[i].file[1]) :
       pages' = [k \in Scripts |->
                   CASE k = i                -> Page(studio[i].file[1], studio[i], hash)
                     [] k \in Listed \ {i}   -> [NoPage EXCEPT !.path = studio[k].file[1]]
                     [] k \in Scripts \ Listed -> NoPage]
  /\ todo' = Listed \ {i}
  /\ pullPhase' = IF Listed = {i} THEN "walking" ELSE "reading"
  /\ UNCHANGED <<people, files, baseline, backups, seen, checked, applied, rollback, raced, late,
                 unwritable, hadFiles>>

BeginEmptyPull ==
  /\ pullPhase = "idle" /\ Listed = {}
  /\ pullPhase' = "walking"
  /\ UNCHANGED <<people, files, baseline, backups, reading, doing, raced, late, hadFiles>>

\* A later page.
ReadScript(i) ==
  /\ pullPhase = "reading" /\ i \in todo
  /\ \E hash \in KnownHashes(pages[i].path) :
       pages' = [pages EXCEPT ![i] = Page(pages[i].path, studio[i], hash)]
  /\ todo' = todo \ {i}
  /\ pullPhase' = IF todo = {i} THEN "walking" ELSE "reading"
  /\ UNCHANGED <<people, files, baseline, backups, seen, checked, applied, rollback, raced, late,
                 unwritable, hadFiles>>

Walk ==
  /\ pullPhase = "walking"
  /\ seen' = files
  /\ raced' = FALSE /\ late' = {}
  /\ pullPhase' = "planned"
  /\ UNCHANGED <<people, files, baseline, backups, pages, doing, hadFiles>>

\* A preview ends here.
EndPreview ==
  /\ pullPhase = "planned"
  /\ Idle
  /\ UNCHANGED <<people, files, baseline, backups, hadFiles>>

BeginApply(R, deleteMissing) ==
  /\ pullPhase = "planned"
  /\ todo' = JobsOf(R, deleteMissing)
  /\ pullPhase' = "applying"
  /\ UNCHANGED <<people, files, baseline, backups, reading, checked, applied, rollback, unwritable,
                 raced, late, hadFiles>>

\* Renames come first, deletions last.
Due(j) == /\ pullPhase = "applying" /\ j \in todo /\ checked = {}
          /\ j.op = "write" => \A k \in todo : k.op # "rename"
          /\ j.op = "delete" => \A k \in todo : k.op = "delete"

\* Fault: the file is not looked at again.
HoldsAlways(j) == files[j.file] # Gone \/ j.op # "rename"
\* The file is as the plan saw it; for a rename it also has to be there.
Holds(j) == files[j.file] = seen[j.file] /\ (j.op = "rename" => files[j.file] # Gone)

Undo(j, text) == [job |-> j, text |-> text]

\* The file is read.  What is written over or removed is copied and noted for the undo
\* before it is.
CheckJob(j) ==
  /\ Due(j) /\ Holds(j) /\ (j.op = "delete" => files[j.file] # Gone)
  /\ checked' = {j}
  /\ late' = late \ {j.file}
  /\ backups' = IF j.op = "rename" \/ files[j.file] = Gone THEN backups
                ELSE backups \cup {<<j.file, files[j.file]>>}
  /\ rollback' = IF j.op = "rename" THEN rollback ELSE Append(rollback, Undo(j, files[j.file]))
  /\ UNCHANGED <<people, files, baseline, pullPhase, reading, todo, applied, raced, unwritable, hadFiles>>

DoRename(j) ==
  /\ pullPhase = "applying" /\ j \in checked /\ j.op = "rename" /\ files[j.file] # Gone
  /\ files' = [files EXCEPT ![j.to] = files[j.file], ![j.file] = Gone]
  /\ rollback' = Append(rollback, Undo(j, Gone))
  /\ applied' = applied \cup {j.to}
  /\ todo' = todo \ {j} /\ checked' = {}
  /\ UNCHANGED <<people, baseline, backups, pullPhase, reading, raced, late, unwritable, hadFiles>>

DoWrite(j) ==
  /\ pullPhase = "applying" /\ j \in checked /\ j.op = "write"
  /\ files' = [files EXCEPT ![j.file] = TextOf(j.file)]
  /\ hadFiles' = hadFiles \cup {TextOf(j.file)}
  /\ applied' = applied \cup {j.file}
  /\ todo' = todo \ {j} /\ checked' = {}
  /\ UNCHANGED <<people, baseline, backups, pullPhase, reading, rollback, raced, late, unwritable>>

DoDelete(j) ==
  /\ pullPhase = "applying" /\ j \in checked /\ j.op = "delete" /\ files[j.file] # Gone
  /\ files' = [files EXCEPT ![j.file] = Gone]
  /\ todo' = todo \ {j} /\ checked' = {}
  /\ UNCHANGED <<people, baseline, backups, pullPhase, reading, applied, rollback, raced, late,
                 unwritable, hadFiles>>

\* A deletion of a file that has gone meanwhile is skipped.
SkipDelete(j) ==
  /\ Due(j) /\ j.op = "delete" /\ files[j.file] = Gone
  /\ todo' = todo \ {j}
  /\ UNCHANGED <<people, files, baseline, backups, pullPhase, reading, checked, applied, rollback,
                 raced, late, unwritable, hadFiles>>

Refuse(j) ==
  /\ Due(j) /\ ~Holds(j) /\ (j.op = "delete" => files[j.file] # Gone)
  /\ pullPhase' = "undoing"
  /\ UNCHANGED <<people, files, baseline, backups, reading, doing, raced, late, hadFiles>>

\* The disk refuses a job, after its undo is noted or before, or the state file.
DiskFails ==
  /\ pullPhase = "applying"
  /\ pullPhase' = "undoing"
  /\ UNCHANGED <<people, files, baseline, backups, reading, doing, raced, late, hadFiles>>

Synced == InSync \cup applied

Entry(f) == [content |-> IF Sent(f) THEN TextOf(f) ELSE seen[f],
             hash |-> TextOf(f), path |-> PageOf(f).path]

\* The state is written last.
Commit ==
  /\ pullPhase = "applying" /\ todo = {}
  /\ baseline' = [f \in Files |->
       IF \E n \in DOMAIN rollback : rollback[n].job.op # "write" /\ rollback[n].job.file = f
       THEN NoEntry
       ELSE IF f \in Synced /\ (Sent(f) \/ seen[f] # Gone) THEN Entry(f) ELSE baseline[f]]
  /\ Idle
  /\ UNCHANGED <<people, files, backups, hadFiles>>
-----------------------------------------------------------------------------
\* Fault: renames are not taken back.
UndoneWrites(u) == IF u.job.op = "rename" THEN files ELSE [files EXCEPT ![u.job.file] = u.text]
Undone(u) == IF u.job.op = "rename"
             THEN [files EXCEPT ![u.job.file] = files[u.job.to], ![u.job.to] = Gone]
             ELSE [files EXCEPT ![u.job.file] = u.text]

\* What was to be moved back or removed is not there (any more, or yet).
Vanished(u) == IF u.job.op = "rename"
               THEN files[u.job.to] = Gone
               ELSE u.text = Gone /\ files[u.job.file] = Gone

\* The jobs are undone from the last to the first, whatever the files have become; each
\* may fail and the rest goes on.
UndoJob ==
  /\ pullPhase = "undoing" /\ rollback # <<>>
  /\ LET u == rollback[Len(rollback)]
     IN  \/ ~Vanished(u) /\ files' = Undone(u) /\ UNCHANGED unwritable
         \/ UNCHANGED files /\ unwritable' = TRUE
  /\ rollback' = SubSeq(rollback, 1, Len(rollback) - 1)
  /\ UNCHANGED <<people, baseline, backups, pullPhase, reading, todo, checked, applied, raced, late, hadFiles>>

EndUnwrite ==
  /\ pullPhase = "undoing" /\ rollback = <<>>
  /\ pullPhase' = "undone"
  /\ UNCHANGED <<people, files, baseline, backups, reading, doing, raced, late, hadFiles>>

\* The error reaches the agent.
Failed ==
  /\ pullPhase = "undone"
  /\ Idle
  /\ UNCHANGED <<people, files, baseline, backups, hadFiles>>

\* Studio does not answer, or the server is killed.
PullDies ==
  /\ pullPhase \in {"reading", "applying", "undoing"}
  /\ Idle
  /\ UNCHANGED <<people, files, baseline, backups, hadFiles>>
-----------------------------------------------------------------------------
\* A script is edited, moved, removed or put back.
EditStudio(i, script) ==
  /\ tally.studio < MaxStudio /\ script # studio[i] /\ script.file[2] = studio[i].file[2]
  /\ studio' = [studio EXCEPT ![i] = script]
  /\ hadStudio' = [hadStudio EXCEPT ![script.file[1]] = @ \cup {script.text}]
  /\ shifted' = (shifted \/ (pullPhase = "reading" /\ i \in todo /\ script.file # studio[i].file))
  /\ tally' = [tally EXCEPT !.studio = @ + 1]
  /\ UNCHANGED <<files, baseline, backups, pullPhase, reading, doing, raced, late, hadFiles>>

EditFile(f, text) ==
  /\ tally.files < MaxLocal /\ text # files[f]
  /\ Races \/ pullPhase \notin {"planned", "applying", "undoing"}
  /\ files' = [files EXCEPT ![f] = text]
  /\ hadFiles' = hadFiles \cup ({text} \ {Gone})
  /\ raced' = (pullPhase # "idle")
  /\ late' = IF pullPhase = "idle" THEN {} ELSE late \cup {f}
  /\ tally' = [tally EXCEPT !.files = @ + 1]
  /\ UNCHANGED <<studio, shifted, hadStudio, baseline, backups, pullPhase, reading, doing>>

SyncNext ==
  \/ BeginEmptyPull \/ Walk \/ EndPreview \/ DiskFails \/ Commit \/ UndoJob \/ EndUnwrite
  \/ Failed \/ PullDies
  \/ \E i \in Scripts : BeginPull(i) \/ \E s \in [file : Files, text : Texts] : EditStudio(i, s)
  \/ pullPhase = "reading" /\ \E i \in todo : ReadScript(i)
  \/ pullPhase = "planned" /\ \E R \in RenameSets, d \in BOOLEAN : BeginApply(R, d)
  \/ \E j \in todo : pullPhase = "applying" /\
       (CheckJob(j) \/ DoRename(j) \/ DoWrite(j) \/ DoDelete(j) \/ SkipDelete(j) \/ Refuse(j))
  \/ \E f \in Files, t \in Texts \cup {Gone} : EditFile(f, t)

SyncSpec == SyncInit /\ [][SyncNext]_syncVars
-----------------------------------------------------------------------------
SyncTypeOK ==
  /\ studio \in [Scripts -> [file : Files, text : Texts]]
  /\ files \in [Files -> Texts \cup {Gone}]
  /\ baseline \in [Files -> [content : Texts, hash : Texts, path : Paths] \cup {NoEntry}]
  /\ backups \subseteq Files \X Texts
  /\ pullPhase \in {"idle", "reading", "walking", "planned", "applying", "undoing", "undone"}
  /\ \A i \in Scripts : pages[i].file = Gone \/ pages[i].file \in Files
  /\ applied \subseteq Files /\ Len(rollback) <= Cardinality(Files)
  /\ late \subseteq Files /\ shifted \in BOOLEAN
  /\ raced \in BOOLEAN /\ unwritable \in BOOLEAN

\* A file the plan calls in sync has the text that Studio returned, whatever texts
\* were left out of the answer because their hash was known.
InSyncIsEqual == pullPhase = "planned" => \A f \in InSync : seen[f] = TextOf(f)

\* The baseline of a file is a text that a script at its path and a file have had, so
\* that "modified" never means an edit of the file that Studio has not seen.
BaselineWasAgreed ==
  \A f \in Files : baseline[f] # NoEntry =>
    /\ baseline[f].path = f[1] /\ baseline[f].content = baseline[f].hash
    /\ baseline[f].content \in hadStudio[f[1]]
    /\ baseline[f].content \in hadFiles

\* The three-way comparison of a plan rests on texts that were there: what it calls
\* in sync is equal, and its baseline is one that script and file agreed on.  This
\* is so until somebody moves a script between the first page of a pull and the page
\* it is on: it is then looked up by its old path and compared under its new one.
BaselineIsAgreed == ~shifted => InSyncIsEqual /\ BaselineWasAgreed

\* The same without that exception.
BaselineIsAlwaysAgreed == InSyncIsEqual /\ BaselineWasAgreed

\* What a pull takes from a file that nobody has changed since the pull last looked at
\* it is the text of the last sync, as the plan saw it, and a copy is left in the
\* backups or under the new name; or, when a pull is undone, what the pull put there.
\* So an edit is lost only if it comes after the look: between the check of a file and
\* its replacement, before an undo, or at the new name of a renamed file.
PullKeepsEdits ==
  [][\A f \in Files :
       tally' = tally /\ files'[f] # files[f] /\ files[f] # Gone /\ f \notin late
       => \/ /\ pullPhase = "applying"
             /\ files[f] = seen[f] /\ files[f] = baseline[f].content
             /\ <<f, files[f]>> \in backups \/ \E g \in Files : files'[g] = files[f]
          \/ /\ pullPhase = "undoing" /\ f \in applied
             /\ files[f] = TextOf(f) \/ \E g \in Files : files'[g] = files[f]]_syncVars

\* The same of every edit ("changed on disk after the plan was produced").
PullKeepsEveryEdit ==
  [][\A f \in Files : tally' = tally /\ files'[f] # files[f] /\ f \in late /\ files[f] # Gone
       => <<f, files[f]>> \in backups \/ \E g \in Files : files'[g] = files[f]]_syncVars

\* A pull that fails leaves the files as the plan found them, unless somebody
\* changed one meanwhile or a restore failed too and the error says so.
FailedPullRestores == pullPhase = "undone" /\ ~raced /\ ~unwritable => files = seen

\* A pull is only refused because a file changed after the plan was made, as the
\* error says ("changed on disk after the plan was produced").
RefusedForAChange ==
  pullPhase = "applying" => \A j \in todo : Due(j) /\ ~Holds(j) /\ j.op # "delete" => raced
=============================================================================
