---------------------------- MODULE ScriptBackups ----------------------------
(***************************************************************************)
(* set_script_source and restore_script_backup: tools/script-tools.ts,     *)
(* tools/safety-tools.ts and safety/safety-manager.ts of packages/core/src *)
(* with getScriptSource and setScriptSource of the plugin's                *)
(* ScriptHandlers.ts.                                                      *)
(*                                                                         *)
(* A call reads the script, keeps what it read as the backup of the path,  *)
(* and writes.  The read, the backup and the write are steps with other    *)
(* calls between them, and with edits of people and of the other tools for *)
(* scripts, which keep no backup; the plugin runs a handler in one.  One   *)
(* server serves several places, whose scripts may have the same path.     *)
(***************************************************************************)
EXTENDS Naturals, Sequences

CONSTANTS
  Places,
  ScriptPaths,
  Sources,      \* texts of scripts
  Long,         \* those over 50000 characters with more than 1000 lines
  Beginning,    \* the first 1000 lines of one
  NoSource,
  Setters,      \* calls of set_script_source
  Restorers,    \* calls of restore_script_backup
  backupLimit

ASSUME BackupAssumption ==
  /\ Long \subseteq Sources /\ Beginning \notin Sources /\ NoSource \notin Sources \cup {Beginning}
  /\ backupLimit \in Nat \ {0} /\ Setters \cap Restorers = {}

SetCalls == Setters \cup Restorers
Scripted == Places \X ScriptPaths

VARIABLES
  source,       \* the text of each script
  kept,         \* SafetyManager.backups in order of insertion: path and text
  call,         \* each call: phase, script, the text to write, the text it read, its warning
  callTexts,    \* history: the texts of its script since a set was called, until it backs up
  backupTexts,  \* history: those of the set that made the backup of each path
  overwritten   \* history: the text that the last set of a script replaced

backupVars == <<source, kept, call, callTexts, backupTexts, overwritten>>
-----------------------------------------------------------------------------
NoCall == [phase |-> "none", script |-> <<>>, text |-> NoSource, read |-> NoSource, warned |-> FALSE]

BackupInit ==
  /\ source \in [Scripted -> Sources]
  /\ kept = <<>>
  /\ call = [c \in SetCalls |-> NoCall]
  /\ callTexts = [c \in Setters |-> {}]
  /\ backupTexts = [path \in ScriptPaths |-> {}]
  /\ overwritten = [s \in Scripted |-> NoSource]

KeptFor(path) == {i \in DOMAIN kept : kept[i].path = path}

\* What getScriptSource answers without a range of lines.
Answered(text) == IF text \in Long THEN Beginning ELSE text

\* A new path goes to the end, a known one keeps its place; the first goes when
\* there are too many.
Trimmed(all) == IF Len(all) > backupLimit THEN Tail(all) ELSE all

\* Fault: a path that has a backup keeps it.
backupScriptOnce(path, text) ==
  IF KeptFor(path) # {} THEN kept ELSE Trimmed(Append(kept, [path |-> path, text |-> text]))

backupScript(path, text) ==
  LET entry == [path |-> path, text |-> text]
  IN  Trimmed(IF KeptFor(path) = {} THEN Append(kept, entry)
              ELSE [i \in DOMAIN kept |-> IF i \in KeptFor(path) THEN entry ELSE kept[i]])

\* A script gets a text while some sets of it are yet to back up.
Becomes(s, text) ==
  /\ source' = [source EXCEPT ![s] = text]
  /\ callTexts' = [c \in Setters |-> IF call[c].script = s /\ call[c].phase \in {"reading", "backing up"}
                                     THEN callTexts[c] \cup {text} ELSE callTexts[c]]
-----------------------------------------------------------------------------
Ask(c, s, text) ==
  /\ c \in Setters /\ call[c].phase = "none" /\ text # NoSource
  /\ call' = [call EXCEPT ![c] = [NoCall EXCEPT !.phase = "reading", !.script = s, !.text = text]]
  /\ callTexts' = [callTexts EXCEPT ![c] = {source[s]}]
  /\ UNCHANGED <<source, kept, backupTexts, overwritten>>

\* The plugin answers get-script-source.
ReadSource(c) ==
  /\ call[c].phase = "reading"
  /\ call' = [call EXCEPT ![c].phase = "backing up", ![c].read = Answered(source[call[c].script])]
  /\ UNCHANGED <<source, kept, callTexts, backupTexts, overwritten>>

\* There is no answer, and the write goes on with a warning; or the answer is an
\* error of the plugin, and it goes on without.
ReadFails(c) ==
  /\ call[c].phase = "reading"
  /\ \E warned \in BOOLEAN : call' = [call EXCEPT ![c].phase = "writing", ![c].warned = warned]
  /\ callTexts' = [callTexts EXCEPT ![c] = {}]
  /\ UNCHANGED <<source, kept, backupTexts, overwritten>>

BackUp(c) ==
  /\ call[c].phase = "backing up"
  /\ kept' = backupScript(call[c].script[2], call[c].read)
  /\ call' = [call EXCEPT ![c].phase = "writing"]
  /\ backupTexts' = [backupTexts EXCEPT ![call[c].script[2]] = callTexts[c]]
  /\ callTexts' = [callTexts EXCEPT ![c] = {}]
  /\ UNCHANGED <<source, overwritten>>

AskRestore(c, s) ==
  /\ c \in Restorers /\ call[c].phase = "none"
  /\ \E i \in KeptFor(s[2]) :
       call' = [call EXCEPT ![c] = [NoCall EXCEPT !.phase = "writing", !.script = s,
                                                  !.text = kept[i].text]]
  /\ UNCHANGED <<source, kept, callTexts, backupTexts, overwritten>>

\* set-script-source in the plugin; it leaves the script untouched when it fails.
WriteSource(c) ==
  /\ call[c].phase = "writing"
  /\ LET s == call[c].script
     IN  /\ Becomes(s, call[c].text)
         /\ overwritten' = IF c \in Setters THEN [overwritten EXCEPT ![s] = source[s]]
                           ELSE overwritten
  /\ call' = [call EXCEPT ![c] = [NoCall EXCEPT !.phase = "done"]]
  /\ UNCHANGED <<kept, backupTexts>>

WriteFails(c) ==
  /\ call[c].phase = "writing"
  /\ call' = [call EXCEPT ![c] = [NoCall EXCEPT !.phase = "done"]]
  /\ UNCHANGED <<source, kept, callTexts, backupTexts, overwritten>>

\* A person, or edit_script_lines and its like.
EditSource(s, text) ==
  /\ text # source[s]
  /\ Becomes(s, text)
  /\ UNCHANGED <<kept, call, backupTexts, overwritten>>

BackupNext ==
  \/ \E c \in SetCalls :
       \/ \E s \in Scripted : AskRestore(c, s) \/ \E t \in Sources : Ask(c, s, t)
       \/ ReadSource(c) \/ ReadFails(c) \/ BackUp(c) \/ WriteSource(c) \/ WriteFails(c)
  \/ \E s \in Scripted, t \in Sources : EditSource(s, t)

BackupSpec == BackupInit /\ [][BackupNext]_backupVars
-----------------------------------------------------------------------------
BackupTypeOK ==
  /\ source \in [Scripted -> Sources \cup {Beginning}]
  /\ \A c \in SetCalls : call[c].phase \in {"none", "reading", "backing up", "writing", "done"}
  /\ Len(kept) <= backupLimit
  /\ \A i, j \in DOMAIN kept : kept[i].path = kept[j].path => i = j
  /\ overwritten \in [Scripted -> Sources \cup {Beginning, NoSource}]

\* The backup of a path is what its script held while the set that made it was at
\* work, neither something older that an earlier set had kept nor the text that a
\* set was about to write: what restore_script_backup brings back, whatever is
\* edited, set, evicted or answered with an error in between.
BackupIsOfItsCall ==
  \A i \in DOMAIN kept :
    \E text \in backupTexts[kept[i].path] : kept[i].text = Answered(text)

\* When a set that has kept a backup overwrites a script, the text that goes is the
\* backup of its path ("The previous source is backed up first").
OverwriteIsKept ==
  \A c \in Setters :
    call[c].phase = "writing" /\ call[c].read # NoSource
    => \E i \in KeptFor(call[c].script[2]) : kept[i].text = Answered(source[call[c].script])

\* A set that goes on without a backup warns of it ("we surface it as a warning so
\* the caller knows undo is unavailable").
SkippedIsWarned ==
  \A c \in Setters : call[c].phase = "writing" /\ call[c].read = NoSource => call[c].warned

\* What restore_script_backup would write is the text that the last set of the script
\* replaced ("the source captured before the most recent set_script_source
\* overwrite"), when no call on it is going on and one server serves one place.
RestoreBringsBack ==
  \A s \in Scripted : \A i \in KeptFor(s[2]) :
    overwritten[s] # NoSource /\ (\A c \in SetCalls : call[c].script # s)
    => kept[i].text = overwritten[s]
=============================================================================
