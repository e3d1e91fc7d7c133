----------------------------- MODULE EditProofs -----------------------------
(*****************************************************************************)
(* Edits that must be undone or kept, of two kinds.                          *)
(*                                                                           *)
(* A pull of scripts into files, for any scripts, paths, texts and edits     *)
(* that come between its steps: types, what a baseline stands for, that a    *)
(* failed pull is undone, and which edits of a file it never overwrites.     *)
(*                                                                           *)
(* A plan of edits in Studio, for any place and any plan: types, that its    *)
(* receipt tells the truth, and that its undo list takes the place back.     *)
(*****************************************************************************)
EXTENDS ScriptSync, MutationPlan, InductionLemmas, FiniteSetTheorems

\* What a page holds of a script, an entry of the baseline, a job of a plan, what
\* undoes a job.
FileTexts     == Texts \cup {Gone}
ScriptRecords == [file : Files, text : Texts]
PageRecords   == [path : Paths \cup {Gone}, file : Files \cup {Gone}, text : FileTexts,
                  unchanged : BOOLEAN, sent : BOOLEAN]
EntryRecords  == [content : Texts, hash : Texts, path : Paths]
JobRecords    == [op : {"rename", "write", "delete"}, file : Files, to : Files]
UndoRecords   == [job : JobRecords, text : FileTexts]
UndoLists     == Seq(UndoRecords)

PullPhases == {"idle", "reading", "walking", "planned", "applying", "undoing", "undone"}

SyncTypes ==
  /\ studio \in [Scripts -> ScriptRecords]
  /\ files \in [Files -> FileTexts] /\ seen \in [Files -> FileTexts]
  /\ baseline \in [Files -> EntryRecords \cup {NoEntry}]
  /\ pages \in [Scripts -> PageRecords]
  /\ \A i \in Scripts : pages[i].file # Gone => pages[i].path \in Paths /\ pages[i].text \in Texts
  /\ backups \subseteq Files \X Texts
  /\ pullPhase \in PullPhases
  /\ pullPhase = "reading" => todo \subseteq Scripts /\ \A i \in todo : pages[i].path \in Paths
  /\ pullPhase = "applying" => todo \subseteq JobRecords /\ checked \subseteq todo
  /\ applied \subseteq Files /\ rollback \in UndoLists
  /\ tally \in [studio : Nat, files : Nat]
  /\ raced \in BOOLEAN /\ unwritable \in BOOLEAN
  /\ late \subseteq Files /\ shifted \in BOOLEAN
  /\ hadStudio \in [Paths -> SUBSET Texts] /\ hadFiles \subseteq Texts
  /\ pullPhase \in {"idle", "reading", "walking", "planned"} => applied = {} /\ checked = {}

\* What the plan says of a job it leaves to do.
Planned(j) ==
  /\ j.op = "rename" => /\ seen[j.file] \in {Gone, baseline[j.file].content}
                        /\ baseline[j.file] # NoEntry
                        /\ seen[j.to] = Gone /\ j.file \notin Mapped /\ j.to \in Mapped
                        /\ Sent(j.to) /\ TextOf(j.to) = baseline[j.file].content
  /\ j.op = "write"  => /\ seen[j.file] \in {Gone, baseline[j.file].content}
                        /\ j.to = j.file /\ j.file \in Mapped /\ Sent(j.file)
  /\ j.op = "delete" => /\ seen[j.file] = baseline[j.file].content
                        /\ j.to = j.file /\ j.file \notin Mapped

TodoIsPlanned   == pullPhase = "applying" => \A j \in todo : Planned(j)
AppliedIsMapped == pullPhase = "applying" => \A f \in applied : f \in Mapped /\ Sent(f)

\* No two jobs share a file, whether they are made or not.
Apart(j, k) == {j.file, j.to} \cap {k.file, k.to} = {}
JobsAreApart ==
  /\ pullPhase = "applying" =>
       /\ \A j, k \in todo : j # k => Apart(j, k)
       /\ \A j, k \in checked : j = k
       /\ \A j \in todo, i \in DOMAIN rollback :
            j \notin checked \/ j.op = "rename" => Apart(j, rollback[i].job)
  /\ \A i, k \in DOMAIN rollback : i # k => Apart(rollback[i].job, rollback[k].job)
  /\ \A i \in DOMAIN rollback : rollback[i].job.op = "rename" <=> rollback[i].job.file # rollback[i].job.to

Touched(f, u) == f \in {u.job.file, u.job.to}
Untouched(f)  == \A i \in DOMAIN rollback : ~Touched(f, rollback[i])

\* What an undo step finds in the files as they are now, when nothing but the pull
\* has changed them since it found them.
Undoable(u, now, found) ==
  IF u.job.op = "rename"
  THEN now[u.job.file] = Gone /\ now[u.job.to] = found[u.job.file] /\ found[u.job.to] = Gone
  ELSE u.text = found[u.job.file]

UndoPhases == {"planned", "applying", "undoing", "undone"}
UndoIsReady ==
  /\ pullPhase \notin {"applying", "undoing"} => rollback = <<>>
  /\ pullPhase \in UndoPhases /\ ~raced /\ ~unwritable
     => /\ \A i \in DOMAIN rollback : Undoable(rollback[i], files, seen)
        /\ \A f \in Files : Untouched(f) => files[f] = seen[f]

\* A file that nobody changed since the pull last looked at it is as the plan saw it,
\* until a job changes it.
PlanStands ==
  pullPhase \in {"planned", "applying"} =>
    \A f \in Files \ late : Untouched(f) => files[f] = seen[f]

\* So is the file of a job that was checked, and what will be overwritten is copied.
CheckStands ==
  pullPhase = "applying" => \A j \in checked :
    /\ j.file \notin late => files[j.file] = seen[j.file]
    /\ j.op # "rename" => /\ \E i \in DOMAIN rollback : rollback[i].job = j
                          /\ j.file \notin late /\ files[j.file] # Gone
                               => <<j.file, files[j.file]>> \in backups

\* A file that nobody edited since is as the job left it, made or not.
TextsRead == [f \in Files |-> TextOf(f)]
Left(u, now, edited, done, texts) ==
  /\ u.job.op = "rename" => u.job.to \in done /\ (u.job.file \notin edited => now[u.job.file] = Gone)
  /\ u.job.op = "write"  => \/ u.job.file \in edited \/ now[u.job.file] = u.text
                            \/ u.job.file \in done /\ now[u.job.file] = texts[u.job.file]
  /\ u.job.op = "delete" => u.job.file \in edited \/ now[u.job.file] \in {Gone, u.text}
JobsStand == pullPhase \in {"applying", "undoing"} =>
  \A i \in DOMAIN rollback : Left(rollback[i], files, late, applied, TextsRead)

\* What a pull has read and seen was there.
HistoriesAreKept ==
  /\ \A i \in Scripts : studio[i].text \in hadStudio[studio[i].file[1]]
  /\ \A i \in Returned : pages[i].text \in hadStudio[pages[i].file[1]]
  /\ \A f \in Files : files[f] # Gone => files[f] \in hadFiles
  /\ \A f \in Files : seen[f] # Gone => seen[f] \in hadFiles
  /\ \A i \in DOMAIN rollback : rollback[i].text # Gone => rollback[i].text \in hadFiles

\* A page is known by the path of its script unless that was moved; what it says of a
\* hash is so.
PathsAreKept ==
  ~shifted => /\ \A i \in Returned : pages[i].file[1] = pages[i].path
              /\ pullPhase = "reading" => \A i \in todo : studio[i].file[1] = pages[i].path
HashesAreKnown ==
  \A i \in Scripts : pages[i].unchanged => pages[i].text \in KnownHashes(pages[i].path)

\* A file that was renamed to or written has had the text of its script.
AppliedWasHad == pullPhase = "applying" /\ ~shifted => \A f \in applied : TextOf(f) \in hadFiles

OneClass == \A c, d \in Classes : c = d

-----------------------------------------------------------------------------
LEMMA JobFacts ==
  /\ \A j \in JobRecords : j.file \in Files /\ j.to \in Files /\ j.op \in {"rename", "write", "delete"}
  /\ \A f, g \in Files : \A op \in {"rename", "write", "delete"} :
       /\ Job(op, f, g) \in JobRecords /\ Job(op, f, g).op = op
       /\ Job(op, f, g).file = f /\ Job(op, f, g).to = g
  /\ \A j, k \in JobRecords : j.op = k.op /\ j.file = k.file /\ j.to = k.to => j = k
BY DEF JobRecords, Job

LEMMA UndoFacts ==
  /\ \A u \in UndoRecords : /\ u.job \in JobRecords /\ u.text \in FileTexts
                            /\ u.job.file \in Files /\ u.job.to \in Files
                            /\ u.job.op \in {"rename", "write", "delete"}
  /\ \A j \in JobRecords, t \in FileTexts :
       Undo(j, t) \in UndoRecords /\ Undo(j, t).job = j /\ Undo(j, t).text = t
<1>1. \A u \in UndoRecords : u.job \in JobRecords /\ u.text \in FileTexts
  BY DEF UndoRecords
<1>2. \A j \in JobRecords, t \in FileTexts :
        Undo(j, t) \in UndoRecords /\ Undo(j, t).job = j /\ Undo(j, t).text = t
  BY DEF UndoRecords, Undo
<1> QED BY <1>1, <1>2, JobFacts

\* No text, path or file is Gone, and each file has a path and a class.
LEMMA FileFacts ==
  /\ Gone \in FileTexts /\ Texts \subseteq FileTexts /\ Gone \notin Texts /\ Gone \notin Paths
  /\ Gone \notin Files
  /\ \A t \in FileTexts : t # Gone => t \in Texts
  /\ \A f \in Files : f[1] \in Paths /\ f[2] \in Classes /\ f = <<f[1], f[2]>>
  /\ NoEntry \notin EntryRecords
  /\ \A e \in EntryRecords : e.content \in Texts /\ e.hash \in Texts /\ e.path \in Paths
  /\ NoEntry.content = Gone /\ NoEntry.hash = Gone /\ NoEntry.path = Gone
<1>1. /\ Gone \notin Files
      /\ \A f \in Files : f[1] \in Paths /\ f[2] \in Classes /\ f = <<f[1], f[2]>>
  BY SyncAssumption DEF Files
<1>2. NoEntry \notin EntryRecords /\ \A e \in EntryRecords : e.content \in Texts /\ e.hash \in Texts /\ e.path \in Paths
  BY SyncAssumption DEF EntryRecords, NoEntry
<1>3. NoEntry.content = Gone /\ NoEntry.hash = Gone /\ NoEntry.path = Gone
  BY DEF NoEntry
<1> QED BY <1>1, <1>2, <1>3, SyncAssumption DEF FileTexts

\* A file the place has a script for has the page of one.
LEMMA MappedFacts ==
  ASSUME SyncTypes
  PROVE  /\ Mapped \subseteq Files
         /\ \A f \in Mapped : \E i \in Returned : i \in Scripts /\ PageOf(f) = pages[i] /\ pages[i].file = f
         /\ \A f \in Mapped : TextOf(f) \in Texts /\ Sent(f) \in BOOLEAN /\ PageOf(f).path \in Paths
<1>1. \A i \in Returned : /\ i \in Scripts /\ pages[i] \in PageRecords /\ pages[i].file # Gone
                          /\ pages[i].path \in Paths /\ pages[i].text \in Texts
  BY DEF Returned, SyncTypes
<1>2. \A i \in Returned : pages[i].file \in Files /\ pages[i].sent \in BOOLEAN
  BY <1>1 DEF PageRecords
<1>3. \A f \in Mapped : \E i \in Returned : pages[i].file = f
  BY DEF Mapped
<1>4. \A f \in Mapped : \E i \in Returned : PageOf(f) = pages[i] /\ pages[i].file = f
  BY <1>3 DEF PageOf
<1> QED BY <1>1, <1>2, <1>3, <1>4 DEF TextOf, Sent

\* The jobs of a plan are as the plan says, and no two of them share a file.
LEMMA JobsOfPlan ==
  ASSUME SyncTypes, NEW R \in RenameSets, NEW d \in BOOLEAN
  PROVE  /\ JobsOf(R, d) \subseteq JobRecords
         /\ \A j \in JobsOf(R, d) : Planned(j)
         /\ \A j, k \in JobsOf(R, d) : j # k => Apart(j, k)
<1> DEFINE froms == {r[1] : r \in R}
           tos   == {r[2] : r \in R}
<1>1. \A r \in R : /\ r[1] \in DeletedInStudio /\ r[2] \in Added
                   /\ r[2] \in Candidates(r[1]) /\ Candidates(r[1]) = {r[2]}
                   /\ r = <<r[1], r[2]>> /\ r \in Inferable
  BY DEF RenameSets, Inferable
<1>2. \A r, s \in R : r[1] = s[1] => r = s
  <2> SUFFICES ASSUME NEW r \in R, NEW s \in R, r[1] = s[1] PROVE r = s
    OBVIOUS
  <2>1. {r[2]} = {s[2]}
    BY <1>1
  <2>2. r[2] = s[2]
    BY <2>1
  <2> QED BY <1>1, <2>2
<1>3. \A r, s \in R : r[2] = s[2] => r = s
  <2> SUFFICES ASSUME NEW r \in R, NEW s \in R, r[2] = s[2] PROVE r = s
    OBVIOUS
  <2>1. PICK t \in R : t[2] = r[2] /\ \A v \in R : v[2] = t[2] => v = t
    BY <1>1 DEF RenameSets
  <2> QED BY <2>1
<1>4. \A f \in DeletedInStudio : f \in Files /\ f \notin Mapped /\ baseline[f] # NoEntry
                                  /\ seen[f] \in {Gone, baseline[f].content}
  BY DEF DeletedInStudio
<1>5. Compared \subseteq Mapped /\ Added \subseteq Mapped /\ Modified \subseteq Mapped
  BY DEF Compared, Added, Modified
<1>6. \A f \in Added : seen[f] = Gone
  BY DEF Added
<1>7. \A f \in Modified : seen[f] = baseline[f].content
  BY DEF Modified
<1>8. Mapped \subseteq Files
  BY MappedFacts
<1>9. \A r \in R : Sent(r[2]) /\ TextOf(r[2]) = baseline[r[1]].content
  BY <1>1 DEF Candidates
<1> DEFINE renames == {Job("rename", r[1], r[2]) : r \in R}
           writes  == {Job("write", f, f) : f \in {g \in (Added \cup Modified) \ tos : Sent(g)}}
           deletes == {Job("delete", f, f) : f \in {g \in DeletedInStudio \ froms : seen[g] # Gone}}
<1>10. \A j \in JobsOf(R, d) : j \in renames \/ j \in writes \/ j \in deletes
  BY DEF JobsOf
<1>11. \A j \in renames : \E r \in R : j = Job("rename", r[1], r[2])
  OBVIOUS
<1>12. \A j \in writes : \E f \in (Added \cup Modified) \ tos : Sent(f) /\ j = Job("write", f, f)
  OBVIOUS
<1>13. \A j \in deletes : \E f \in DeletedInStudio \ froms : seen[f] # Gone /\ j = Job("delete", f, f)
  OBVIOUS
<1>14. \A r \in R : r[1] \in froms /\ r[2] \in tos
  OBVIOUS
<1> HIDE DEF froms, tos, renames, writes, deletes
<1>15. \A j \in renames : \E r \in R : /\ j \in JobRecords /\ j.op = "rename"
                                       /\ j.file = r[1] /\ j.to = r[2]
  BY <1>1, <1>4, <1>5, <1>8, <1>11, JobFacts
<1>16. \A j \in writes : /\ j \in JobRecords /\ j.op = "write" /\ j.to = j.file
                         /\ j.file \in (Added \cup Modified) \ tos /\ Sent(j.file)
  BY <1>5, <1>8, <1>12, JobFacts
<1>17. \A j \in deletes : /\ j \in JobRecords /\ j.op = "delete" /\ j.to = j.file
                          /\ j.file \in DeletedInStudio \ froms /\ seen[j.file] # Gone
  BY <1>4, <1>13, JobFacts
<1>18. JobsOf(R, d) \subseteq JobRecords
  BY <1>10, <1>15, <1>16, <1>17
<1>19. \A j \in JobsOf(R, d) : Planned(j)
  <2>1. \A j \in renames : Planned(j)
    BY <1>1, <1>4, <1>5, <1>6, <1>9, <1>15 DEF Planned
  <2>2. \A j \in writes : Planned(j)
    BY <1>5, <1>6, <1>7, <1>16 DEF Planned
  <2>3. \A j \in deletes : Planned(j)
    BY <1>4, <1>17 DEF Planned
  <2> QED BY <1>10, <2>1, <2>2, <2>3
<1>20. ASSUME NEW j \in JobsOf(R, d), NEW k \in JobsOf(R, d), j # k
       PROVE  Apart(j, k)
  <2>1. ASSUME NEW a \in renames, NEW b \in renames, a # b PROVE Apart(a, b)
    <3>1. PICK r \in R : a \in JobRecords /\ a.op = "rename" /\ a.file = r[1] /\ a.to = r[2]
      BY <1>15
    <3>2. PICK s \in R : b \in JobRecords /\ b.op = "rename" /\ b.file = s[1] /\ b.to = s[2]
      BY <1>15
    <3>3. r # s
      BY <2>1, <3>1, <3>2, JobFacts
    <3>4. r[1] # s[1] /\ r[2] # s[2]
      BY <1>2, <1>3, <3>3
    <3>5. r[1] \notin Mapped /\ s[1] \notin Mapped /\ r[2] \in Mapped /\ s[2] \in Mapped
      BY <1>1, <1>4, <1>5
    <3> QED BY <3>1, <3>2, <3>4, <3>5 DEF Apart
  <2>2. ASSUME NEW a \in renames, NEW b \in writes PROVE Apart(a, b)
    <3>1. PICK r \in R : a.file = r[1] /\ a.to = r[2]
      BY <1>15
    <3>2. b.to = b.file /\ b.file \in Mapped /\ b.file \notin tos
      BY <1>5, <1>16
    <3>3. r[1] \notin Mapped /\ r[2] \in tos
      BY <1>1, <1>4, <1>14
    <3> QED BY <3>1, <3>2, <3>3 DEF Apart
  <2>3. ASSUME NEW a \in renames, NEW b \in deletes PROVE Apart(a, b)
    <3>1. PICK r \in R : a.file = r[1] /\ a.to = r[2]
      BY <1>15
    <3>2. b.to = b.file /\ b.file \notin Mapped /\ b.file \notin froms
      BY <1>4, <1>17
    <3>3. r[2] \in Mapped /\ r[1] \in froms
      BY <1>1, <1>5, <1>14
    <3> QED BY <3>1, <3>2, <3>3 DEF Apart
  <2>4. ASSUME NEW a \in writes, NEW b \in writes, a # b PROVE Apart(a, b)
    BY <1>16, <2>4, JobFacts DEF Apart
  <2>5. ASSUME NEW a \in writes, NEW b \in deletes PROVE Apart(a, b)
    <3>1. a.to = a.file /\ a.file \in Mapped
      BY <1>5, <1>16
    <3>2. b.to = b.file /\ b.file \notin Mapped
      BY <1>4, <1>17
    <3> QED BY <3>1, <3>2 DEF Apart
  <2>6. ASSUME NEW a \in deletes, NEW b \in deletes, a # b PROVE Apart(a, b)
    BY <1>17, <2>6, JobFacts DEF Apart
  <2>7. \A a, b : Apart(a, b) => Apart(b, a)
    BY DEF Apart
  <2> QED BY <1>10, <1>20, <2>1, <2>2, <2>3, <2>4, <2>5, <2>6, <2>7
<1> QED BY <1>18, <1>19, <1>20
-----------------------------------------------------------------------------
(* The steps, by what they leave alone *)

Ends ==
  /\ Idle /\ UNCHANGED <<people, files, backups, hadFiles>>
  /\ Commit \/ UNCHANGED baseline
TurnsBack ==
  /\ \/ pullPhase = "applying" /\ pullPhase' = "undoing"
     \/ pullPhase = "undoing" /\ rollback = <<>> /\ pullPhase' = "undone"
  /\ UNCHANGED <<people, files, baseline, backups, reading, doing, raced, late, hadFiles>>
Reads == BeginEmptyPull \/ \E i \in Scripts : BeginPull(i) \/ (i \in todo /\ ReadScript(i))
MakesJob(j) == DoRename(j) \/ DoWrite(j) \/ DoDelete(j)

LEMMA SyncSteps ==
  ASSUME SyncNext, SyncTypes
  PROVE  \/ Ends \/ TurnsBack \/ Reads \/ Walk \/ UndoJob
         \/ \E R \in RenameSets, d \in BOOLEAN : BeginApply(R, d)
         \/ \E j \in todo : pullPhase = "applying" /\ (CheckJob(j) \/ MakesJob(j) \/ SkipDelete(j))
         \/ \E i \in Scripts, s \in ScriptRecords : EditStudio(i, s)
         \/ \E f \in Files, t \in FileTexts : EditFile(f, t)
<1>1. ASSUME EndPreview \/ Commit \/ Failed \/ PullDies PROVE Ends
  BY <1>1 DEF EndPreview, Commit, Failed, PullDies, Ends
<1>2. ASSUME DiskFails \/ EndUnwrite PROVE TurnsBack
  BY <1>2 DEF DiskFails, EndUnwrite, TurnsBack
<1>3. ASSUME NEW j \in todo, pullPhase = "applying", Refuse(j) PROVE TurnsBack
  BY <1>3 DEF Refuse, TurnsBack
<1>4. ASSUME NEW i \in todo, pullPhase = "reading", ReadScript(i) PROVE Reads
  BY <1>4 DEF Reads, SyncTypes
<1> QED BY <1>1, <1>2, <1>3, <1>4 DEF SyncNext, Reads, MakesJob, FileTexts, ScriptRecords

\* The state of a pull that is over.
LEMMA IdleState ==
  ASSUME Idle
  PROVE  /\ pullPhase' = "idle" /\ todo' = {} /\ checked' = {} /\ applied' = {} /\ rollback' = <<>>
         /\ seen' \in [Files -> FileTexts] /\ pages' \in [Scripts -> PageRecords]
         /\ rollback' \in UndoLists /\ raced' = FALSE /\ late' = {} /\ unwritable' = FALSE
         /\ \A f \in Files : seen'[f] = Gone
         /\ \A i \in Scripts : pages'[i].file = Gone /\ pages'[i].unchanged = FALSE
<1>1. <<>> \in UndoLists
  BY EmptySeq DEF UndoLists
<1>2. NoPage \in PageRecords /\ NoPage.file = Gone /\ NoPage.unchanged = FALSE
  BY FileFacts DEF NoPage, PageRecords
<1> QED BY <1>1, <1>2, FileFacts DEF Idle, NoFiles, NoPages

\* What a page holds.
LEMMA PageFacts ==
  ASSUME NEW path \in Paths, NEW script \in ScriptRecords, NEW hash
  PROVE  /\ Page(path, script, hash) \in PageRecords
         /\ Page(path, script, hash).path = path /\ Page(path, script, hash).file = script.file
         /\ Page(path, script, hash).text = script.text
         /\ Page(path, script, hash).unchanged => script.text = hash
         /\ script.text \in Texts /\ script.file \in Files
<1>1. script.text \in Texts /\ script.file \in Files
  BY DEF ScriptRecords
<1> DEFINE u == script.text = hash
           s == script.text # hash /\ script.text \notin Large
<1>2. u \in BOOLEAN /\ s \in BOOLEAN
  OBVIOUS
<1>3. Page(path, script, hash) = [path |-> path, file |-> script.file, text |-> script.text,
                                  unchanged |-> u, sent |-> s]
  BY DEF Page
<1>4. u => script.text = hash
  OBVIOUS
<1> HIDE DEF u, s
<1> QED BY <1>1, <1>2, <1>3, <1>4 DEF PageRecords, FileTexts

\* What the first page and a later one do to the pages and to what is left to read.
LEMMA FirstPage ==
  ASSUME SyncTypes, NEW i \in Scripts, BeginPull(i)
  PROVE  /\ pages' \in [Scripts -> PageRecords] /\ todo' \subseteq Scripts
         /\ pullPhase = "idle" /\ pullPhase' \in {"reading", "walking"}
         /\ pages'[i].file = studio[i].file /\ pages'[i].text = studio[i].text
         /\ pages'[i].path = studio[i].file[1] /\ pages'[i].path \in Paths /\ pages'[i].text \in Texts
         /\ pages'[i].unchanged => pages'[i].text \in KnownHashes(pages'[i].path)
         /\ \A k \in Scripts \ {i} : pages'[k].file = Gone /\ pages'[k].unchanged = FALSE
         /\ \A k \in todo' : k \in Scripts \ {i} /\ pages'[k].path = studio[k].file[1]
                             /\ pages'[k].path \in Paths
<1>1. \A k \in Scripts : studio[k] \in ScriptRecords /\ studio[k].file[1] \in Paths
  BY FileFacts DEF SyncTypes, ScriptRecords
<1>2. PICK hash \in KnownHashes(studio[i].file[1]) :
        pages' = [k \in Scripts |->
                    CASE k = i                -> Page(studio[i].file[1], studio[i], hash)
                      [] k \in Listed \ {i}   -> [NoPage EXCEPT !.path = studio[k].file[1]]
                      [] k \in Scripts \ Listed -> NoPage]
  BY DEF BeginPull
<1> DEFINE e == Page(studio[i].file[1], studio[i], hash)
           listed(k) == [NoPage EXCEPT !.path = studio[k].file[1]]
<1>3. i \in Listed /\ Listed \subseteq Scripts /\ todo' = Listed \ {i}
  BY DEF BeginPull, Listed
<1>4. /\ e \in PageRecords /\ e.path = studio[i].file[1] /\ e.file = studio[i].file
      /\ e.text = studio[i].text /\ e.text \in Texts /\ (e.unchanged => e.text = hash)
  BY <1>1, PageFacts
<1>5. NoPage \in PageRecords /\ NoPage.file = Gone /\ NoPage.unchanged = FALSE
  BY FileFacts DEF NoPage, PageRecords
<1>6. \A k \in Scripts : /\ listed(k) \in PageRecords /\ listed(k).path = studio[k].file[1]
                         /\ listed(k).file = Gone /\ listed(k).unchanged = FALSE
  BY <1>1, <1>5 DEF NoPage, PageRecords
<1> HIDE DEF e, listed
<1>7. pages' = [k \in Scripts |-> CASE k = i -> e [] k \in Listed \ {i} -> listed(k)
                                    [] k \in Scripts \ Listed -> NoPage]
  BY <1>2 DEF e, listed
<1>8. /\ pages'[i] = e
      /\ \A k \in Listed \ {i} : pages'[k] = listed(k)
      /\ \A k \in Scripts \ Listed : pages'[k] = NoPage
  BY <1>3, <1>7
<1>9. pages' \in [Scripts -> PageRecords]
  <2>1. \A k \in Scripts : k = i \/ k \in Listed \ {i} \/ k \in Scripts \ Listed
    OBVIOUS
  <2>2. \A k \in Scripts : pages'[k] \in PageRecords
    BY <1>3, <1>4, <1>5, <1>6, <1>8, <2>1
  <2>3. pages' = [k \in Scripts |-> pages'[k]]
    BY <1>7
  <2> QED BY <2>2, <2>3
<1>10. \A k \in Scripts \ {i} : pages'[k].file = Gone /\ pages'[k].unchanged = FALSE
  BY <1>3, <1>5, <1>6, <1>8
<1>11. \A k \in todo' : k \in Scripts \ {i} /\ pages'[k].path = studio[k].file[1] /\ pages'[k].path \in Paths
  BY <1>1, <1>3, <1>6, <1>8
<1>12. pages'[i].unchanged => pages'[i].text \in KnownHashes(pages'[i].path)
  BY <1>2, <1>4, <1>8
<1>13. pullPhase = "idle" /\ pullPhase' \in {"reading", "walking"}
  BY DEF BeginPull
<1> QED BY <1>1, <1>3, <1>4, <1>8, <1>9, <1>10, <1>11, <1>12, <1>13

LEMMA NextPage ==
  ASSUME SyncTypes, NEW i \in todo, ReadScript(i)
  PROVE  /\ i \in Scripts /\ pages' \in [Scripts -> PageRecords] /\ todo' = todo \ {i}
         /\ todo' \subseteq Scripts
         /\ pullPhase = "reading" /\ pullPhase' \in {"reading", "walking"}
         /\ pages'[i].file = studio[i].file /\ pages'[i].text = studio[i].text
         /\ pages'[i].path = pages[i].path /\ pages'[i].path \in Paths /\ pages'[i].text \in Texts
         /\ pages'[i].unchanged => pages'[i].text \in KnownHashes(pages'[i].path)
         /\ \A k \in Scripts \ {i} : pages'[k] = pages[k]
<1>1. pullPhase = "reading" /\ pullPhase' \in {"reading", "walking"} /\ todo' = todo \ {i}
  BY DEF ReadScript
<1>2. i \in Scripts /\ studio[i] \in ScriptRecords /\ pages[i].path \in Paths /\ todo \subseteq Scripts
  BY <1>1 DEF SyncTypes
<1>3. PICK hash \in KnownHashes(pages[i].path) :
        pages' = [pages EXCEPT ![i] = Page(pages[i].path, studio[i], hash)]
  BY DEF ReadScript
<1> DEFINE e == Page(pages[i].path, studio[i], hash)
<1>4. /\ e \in PageRecords /\ e.path = pages[i].path /\ e.file = studio[i].file
      /\ e.text = studio[i].text /\ e.text \in Texts /\ (e.unchanged => e.text = hash)
  BY <1>2, PageFacts
<1> HIDE DEF e
<1>5. pages' = [pages EXCEPT ![i] = e]
  BY <1>3 DEF e
<1>6. /\ pages' \in [Scripts -> PageRecords] /\ pages'[i] = e
      /\ \A k \in Scripts \ {i} : pages'[k] = pages[k]
  BY <1>2, <1>4, <1>5 DEF SyncTypes
<1> QED BY <1>1, <1>2, <1>3, <1>4, <1>6
-----------------------------------------------------------------------------
\* What a new entry does to the undo list.
LEMMA Noted ==
  ASSUME SyncTypes, NEW u \in UndoRecords, rollback' = Append(rollback, u)
  PROVE  \E n \in Nat :
           /\ rollback' \in UndoLists /\ DOMAIN rollback = 1 .. n /\ DOMAIN rollback' = 1 .. n + 1
           /\ \A k \in DOMAIN rollback : rollback'[k] = rollback[k] /\ rollback[k] \in UndoRecords
           /\ n + 1 \in DOMAIN rollback' /\ rollback'[n + 1] = u
           /\ DOMAIN rollback \subseteq DOMAIN rollback' /\ n + 1 \notin DOMAIN rollback
           /\ \A k \in DOMAIN rollback' : k \in DOMAIN rollback \/ k = n + 1
<1>1. rollback \in Seq(UndoRecords)
  BY DEF SyncTypes, UndoLists
<1> DEFINE n == Len(rollback)
<1>2. /\ rollback' \in Seq(UndoRecords) /\ Len(rollback') = n + 1
      /\ \A k \in 1 .. n : rollback'[k] = rollback[k]
      /\ rollback'[n + 1] = u
  BY <1>1, AppendProperties
<1>3. /\ n \in Nat /\ DOMAIN rollback = 1 .. n /\ DOMAIN rollback' = 1 .. Len(rollback')
      /\ \A k \in 1 .. n : rollback[k] \in UndoRecords
  BY <1>1, <1>2, LenProperties, ElementOfSeq
<1> HIDE DEF n
<1>4. /\ n + 1 \in 1 .. n + 1 /\ 1 .. n \subseteq 1 .. n + 1 /\ n + 1 \notin 1 .. n
      /\ \A k \in 1 .. n + 1 : k \in 1 .. n \/ k = n + 1
  BY <1>3
<1> QED BY <1>2, <1>3, <1>4 DEF UndoLists

\* What the check of a job does.
LEMMA JobChecked ==
  ASSUME SyncTypes, NEW j \in todo, pullPhase = "applying", CheckJob(j)
  PROVE  /\ j \in JobRecords /\ Holds(j) /\ checked = {} /\ checked' = {j} /\ late' = late \ {j.file}
         /\ Undo(j, files[j.file]) \in UndoRecords
         /\ rollback' = IF j.op = "rename" THEN rollback ELSE Append(rollback, Undo(j, files[j.file]))
         /\ backups \subseteq backups' /\ backups' \subseteq Files \X Texts
         /\ j.op # "rename" /\ files[j.file] # Gone => <<j.file, files[j.file]>> \in backups'
         /\ UNCHANGED <<people, files, baseline, pullPhase, reading, todo, applied, raced, unwritable, hadFiles>>
<1>1. j \in JobRecords /\ j.file \in Files /\ files[j.file] \in FileTexts
  BY JobFacts DEF SyncTypes
<1>2. files[j.file] # Gone => files[j.file] \in Texts
  BY <1>1, FileFacts
<1>3. backups \subseteq Files \X Texts
  BY DEF SyncTypes
<1> QED BY <1>1, <1>2, <1>3, UndoFacts DEF CheckJob, Due

\* What the replacement of a file does.
LEMMA JobMade ==
  ASSUME SyncTypes, NEW j \in todo, pullPhase = "applying", MakesJob(j), Planned(j)
  PROVE  /\ j \in JobRecords /\ j \in checked /\ todo' = todo \ {j} /\ checked' = {}
         /\ Undo(j, Gone) \in UndoRecords
         /\ rollback' = IF j.op = "rename" THEN Append(rollback, Undo(j, Gone)) ELSE rollback
         /\ files' \in [Files -> FileTexts] /\ hadFiles' \subseteq Texts /\ hadFiles \subseteq hadFiles'
         /\ \A f \in Files \ {j.file, j.to} : files'[f] = files[f]
         /\ j.op = "rename" => /\ j.file # j.to /\ files[j.file] # Gone /\ files'[j.file] = Gone
                               /\ files'[j.to] = files[j.file] /\ applied' = applied \cup {j.to}
         /\ j.op = "write"  => /\ j.to = j.file /\ files'[j.file] = TextOf(j.file)
                               /\ TextOf(j.file) \in hadFiles' /\ applied' = applied \cup {j.to}
         /\ j.op = "delete" => /\ j.to = j.file /\ files'[j.file] = Gone /\ applied' = applied
         /\ UNCHANGED <<people, baseline, backups, pullPhase, reading, raced, late, unwritable>>
<1>1. /\ j \in JobRecords /\ j.file \in Files /\ j.to \in Files /\ files[j.file] \in FileTexts
      /\ Undo(j, Gone) \in UndoRecords
  BY JobFacts, UndoFacts, FileFacts DEF SyncTypes
<1>2. CASE DoRename(j)
  <2>1. j.op = "rename" /\ j.file # j.to
    BY <1>2 DEF DoRename, Planned
  <2> QED BY <1>1, <1>2, <2>1, FileFacts DEF DoRename, SyncTypes
<1>3. CASE DoWrite(j)
  <2>1. j.op = "write" /\ j.to = j.file /\ TextOf(j.file) \in Texts
    BY <1>3, MappedFacts DEF DoWrite, Planned
  <2> QED BY <1>1, <1>3, <2>1, FileFacts DEF DoWrite, SyncTypes
<1>4. CASE DoDelete(j)
  <2>1. j.op = "delete" /\ j.to = j.file
    BY <1>4 DEF DoDelete, Planned
  <2> QED BY <1>1, <1>4, <2>1, FileFacts DEF DoDelete, SyncTypes
<1> QED BY <1>2, <1>3, <1>4 DEF MakesJob

\* What an undo step does to the undo list and to the files.
LEMMA JobUndone ==
  ASSUME SyncTypes, UndoJob
  PROVE  \E n \in Nat : \E u \in UndoRecords :
           /\ Len(rollback) = n + 1 /\ DOMAIN rollback = 1 .. n + 1 /\ u = rollback[n + 1]
           /\ rollback' \in UndoLists /\ DOMAIN rollback' = 1 .. n
           /\ \A i \in 1 .. n : rollback'[i] = rollback[i] /\ rollback[i] \in UndoRecords
           /\ \/ ~Vanished(u) /\ files' = Undone(u) /\ unwritable' = unwritable
              \/ files' = files /\ unwritable' = TRUE
           /\ files' \in [Files -> FileTexts]
<1>1. rollback \in Seq(UndoRecords) /\ rollback # <<>>
  BY DEF SyncTypes, UndoLists, UndoJob
<1>2. PICK n \in Nat : Len(rollback) = n + 1
  <2>1. Len(rollback) \in Nat \ {0}
    BY <1>1, EmptySeq
  <2>2. Len(rollback) - 1 \in Nat /\ Len(rollback) = (Len(rollback) - 1) + 1
    BY <2>1
  <2> QED BY <2>2
<1>3. /\ DOMAIN rollback = 1 .. n + 1
      /\ \A i \in 1 .. n + 1 : rollback[i] \in UndoRecords
  BY <1>1, <1>2, LenProperties, ElementOfSeq
<1>4. n + 1 - 1 = n /\ n + 1 \in 1 .. n + 1 /\ \A i \in 1 .. n : i \in 1 .. n + 1
  BY <1>2
<1>5. rollback' = SubSeq(rollback, 1, n)
  BY <1>2, <1>4 DEF UndoJob
<1>6. /\ rollback' \in Seq(UndoRecords) /\ Len(rollback') = IF 1 <= n THEN n - 1 + 1 ELSE 0
      /\ \A i \in 1 .. n - 1 + 1 : rollback'[i] = rollback[1 + i - 1]
  BY <1>2, <1>3, <1>4, <1>5, SubSeqProperties
<1>7. /\ Len(rollback') = n /\ DOMAIN rollback' = 1 .. Len(rollback')
      /\ \A i \in 1 .. n : rollback'[i] = rollback[i]
  BY <1>2, <1>6, LenProperties
<1> DEFINE u == rollback[n + 1]
<1>8. u \in UndoRecords
  BY <1>3, <1>4
<1>9. \/ ~Vanished(u) /\ files' = Undone(u) /\ unwritable' = unwritable
      \/ files' = files /\ unwritable' = TRUE
  BY <1>2 DEF UndoJob
<1> HIDE DEF u
<1>10. /\ u.job.file \in Files /\ u.job.to \in Files /\ u.text \in FileTexts
       /\ files \in [Files -> FileTexts] /\ Gone \in FileTexts
  BY <1>8, UndoFacts, FileFacts DEF SyncTypes
<1>11. files' \in [Files -> FileTexts]
  BY <1>9, <1>10 DEF Undone
<1> QED BY <1>2, <1>3, <1>4, <1>6, <1>7, <1>8, <1>9, <1>11 DEF u, UndoLists
-----------------------------------------------------------------------------
LEMMA TypesAtFirst == SyncInit => SyncTypes
<1> SUFFICES ASSUME SyncInit PROVE SyncTypes
  OBVIOUS
<1>1. <<>> \in UndoLists
  BY EmptySeq DEF UndoLists
<1>2. NoFiles \in [Files -> FileTexts]
  BY FileFacts DEF NoFiles
<1>3. NoPages \in [Scripts -> PageRecords] /\ \A i \in Scripts : NoPages[i].file = Gone
  BY FileFacts DEF NoPages, NoPage, PageRecords
<1>4. studio \in [Scripts -> ScriptRecords] /\ \A i \in Scripts : studio[i].text \in Texts
  BY DEF SyncInit, ScriptRecords
<1>5. hadStudio \in [Paths -> SUBSET Texts]
  BY <1>4 DEF SyncInit, TextsAt
<1> QED BY <1>1, <1>2, <1>3, <1>4, <1>5 DEF SyncInit, SyncTypes, PullPhases

LEMMA TypesKept ==
  ASSUME SyncTypes, TodoIsPlanned, AppliedIsMapped, UndoIsReady, [SyncNext]_syncVars
  PROVE  SyncTypes'
<1>1. CASE Ends
  <2>1. baseline' \in [Files -> EntryRecords \cup {NoEntry}]
    <3>1. CASE Commit
      <4>1. \A f \in Synced : f \in Mapped
        BY <3>1 DEF Commit, AppliedIsMapped, Synced, InSync, Compared
      <4>2. ASSUME NEW f \in Files, f \in Synced, Sent(f) \/ seen[f] # Gone
            PROVE  Entry(f) \in EntryRecords
        <5>1. TextOf(f) \in Texts /\ PageOf(f).path \in Paths /\ (~Sent(f) => seen[f] \in Texts)
          BY <4>1, <4>2, MappedFacts, FileFacts DEF SyncTypes
        <5> DEFINE content == IF Sent(f) THEN TextOf(f) ELSE seen[f]
        <5>2. content \in Texts
          BY <5>1
        <5>3. Entry(f) = [content |-> content, hash |-> TextOf(f), path |-> PageOf(f).path]
          BY DEF Entry
        <5> HIDE DEF content
        <5> QED BY <5>1, <5>2, <5>3 DEF EntryRecords
      <4> QED BY <3>1, <4>2 DEF Commit, SyncTypes
    <3> QED BY <1>1, <3>1 DEF Ends, SyncTypes
  <2> QED BY <1>1, <2>1, IdleState DEF Ends, people, SyncTypes, PullPhases
<1>2. CASE TurnsBack
  BY <1>2 DEF TurnsBack, people, reading, doing, SyncTypes, PullPhases
<1>3. CASE BeginEmptyPull
  BY <1>3 DEF BeginEmptyPull, people, reading, doing, SyncTypes, PullPhases
<1>4. ASSUME NEW i \in Scripts, BeginPull(i) PROVE SyncTypes'
  <2>1. /\ pages' \in [Scripts -> PageRecords] /\ todo' \subseteq Scripts
        /\ \A k \in todo' : pages'[k].path \in Paths
        /\ \A k \in Scripts : pages'[k].file # Gone => pages'[k].path \in Paths /\ pages'[k].text \in Texts
        /\ pullPhase = "idle" /\ pullPhase' \in {"reading", "walking"}
    BY <1>4, FirstPage
  <2> QED BY <1>4, <2>1 DEF BeginPull, people, SyncTypes, PullPhases
<1>5. ASSUME NEW i \in todo, ReadScript(i) PROVE SyncTypes'
  <2>1. /\ pages' \in [Scripts -> PageRecords] /\ todo' \subseteq Scripts
        /\ \A k \in todo' : pages'[k].path \in Paths
        /\ \A k \in Scripts : pages'[k].file # Gone => pages'[k].path \in Paths /\ pages'[k].text \in Texts
        /\ pullPhase = "reading" /\ pullPhase' \in {"reading", "walking"}
    BY <1>5, NextPage DEF SyncTypes
  <2> QED BY <1>5, <2>1 DEF ReadScript, people, SyncTypes, PullPhases
<1>6. CASE Walk
  BY <1>6 DEF Walk, people, doing, SyncTypes, PullPhases
<1>7. CASE UndoJob
  <2>1. rollback' \in UndoLists /\ files' \in [Files -> FileTexts] /\ unwritable' \in BOOLEAN
    BY <1>7, JobUndone DEF SyncTypes
  <2> QED BY <1>7, <2>1 DEF UndoJob, people, reading, SyncTypes
<1>8. ASSUME NEW R \in RenameSets, NEW d \in BOOLEAN, BeginApply(R, d) PROVE SyncTypes'
  <2>1. todo' \subseteq JobRecords /\ checked' \subseteq todo'
    BY <1>8, JobsOfPlan DEF BeginApply, SyncTypes
  <2> QED BY <1>8, <2>1 DEF BeginApply, people, reading, SyncTypes, PullPhases
<1>9. ASSUME NEW j \in todo, pullPhase = "applying", CheckJob(j) PROVE SyncTypes'
  <2>1. rollback' \in UndoLists
    BY <1>9, JobChecked, Noted DEF SyncTypes
  <2>2. late' \subseteq Files /\ backups' \subseteq Files \X Texts /\ checked' \subseteq todo' /\ todo' = todo
    <3>1. backups' \subseteq Files \X Texts /\ late' = late \ {j.file} /\ checked' = {j}
      BY <1>9, JobChecked
    <3>2. todo' = todo
      BY <1>9 DEF CheckJob
    <3> QED BY <3>1, <3>2 DEF SyncTypes
  <2> QED BY <1>9, <2>1, <2>2 DEF CheckJob, people, reading, SyncTypes
<1>10. ASSUME NEW j \in todo, pullPhase = "applying", MakesJob(j) PROVE SyncTypes'
  <2>1. Planned(j) /\ j.to \in Files
    BY <1>10, JobFacts DEF TodoIsPlanned, SyncTypes
  <2>2. rollback' \in UndoLists
    BY <1>10, <2>1, JobMade, Noted DEF SyncTypes
  <2>3. applied' \subseteq Files
    <3>1. j.op \in {"rename", "write", "delete"} /\ j.to \in Files /\ applied \subseteq Files
      BY <1>10, JobFacts DEF SyncTypes
    <3>2. applied' = applied \/ applied' = applied \cup {j.to}
      BY <1>10, <2>1, <3>1, JobMade
    <3> QED BY <3>1, <3>2
  <2>4. /\ todo' = todo \ {j} /\ checked' = {} /\ files' \in [Files -> FileTexts] /\ hadFiles' \subseteq Texts
        /\ UNCHANGED <<people, baseline, backups, pullPhase, reading, raced, late, unwritable>>
    BY <1>10, <2>1, JobMade
  <2> QED BY <1>10, <2>2, <2>3, <2>4 DEF people, reading, SyncTypes
<1>11. ASSUME NEW j \in todo, pullPhase = "applying", SkipDelete(j) PROVE SyncTypes'
  BY <1>11 DEF SkipDelete, Due, people, reading, SyncTypes
<1>12. ASSUME NEW i \in Scripts, NEW s \in ScriptRecords, EditStudio(i, s) PROVE SyncTypes'
  <2>1. s.file[1] \in Paths /\ s.text \in Texts
    BY FileFacts DEF ScriptRecords
  <2>2. /\ studio' \in [Scripts -> ScriptRecords] /\ hadStudio' \in [Paths -> SUBSET Texts]
        /\ tally' \in [studio : Nat, files : Nat]
    BY <1>12, <2>1 DEF EditStudio, SyncTypes
  <2>3. shifted' \in BOOLEAN
    BY <1>12 DEF EditStudio, SyncTypes
  <2> QED BY <1>12, <2>2, <2>3 DEF EditStudio, reading, doing, SyncTypes
<1>13. ASSUME NEW f \in Files, NEW t \in FileTexts, EditFile(f, t) PROVE SyncTypes'
  <2>1. files' \in [Files -> FileTexts] /\ hadFiles' \subseteq Texts /\ tally' \in [studio : Nat, files : Nat]
    BY <1>13, FileFacts DEF EditFile, SyncTypes
  <2>2. raced' \in BOOLEAN /\ late' \subseteq Files
    BY <1>13 DEF EditFile, SyncTypes
  <2> QED BY <1>13, <2>1, <2>2 DEF EditFile, reading, doing, SyncTypes
<1>14. CASE UNCHANGED syncVars
  BY <1>14 DEF syncVars, SyncTypes
<1> QED
  BY <1>1, <1>2, <1>3, <1>4, <1>5, <1>6, <1>7, <1>8, <1>9, <1>10, <1>11, <1>12, <1>13, <1>14, SyncSteps
  DEF Reads

-----------------------------------------------------------------------------
\* The jobs that are left are those of the plan, and those made are mapped.
LEMMA PlanKept ==
  ASSUME SyncTypes, TodoIsPlanned, AppliedIsMapped, UndoIsReady, [SyncNext]_syncVars
  PROVE  TodoIsPlanned' /\ AppliedIsMapped'
<1> USE DEF TodoIsPlanned, AppliedIsMapped
<1>1. ASSUME UNCHANGED <<pages, seen, baseline>>
      PROVE  /\ \A j : Planned(j)' <=> Planned(j)
             /\ \A f : (f \in Mapped' <=> f \in Mapped) /\ (Sent(f)' <=> Sent(f))
  BY <1>1 DEF Planned, Mapped, Blocked, Returned, PageOf, Sent, TextOf
<1>2. ASSUME pullPhase' # "applying" PROVE TodoIsPlanned' /\ AppliedIsMapped'
  BY <1>2
<1>3. ASSUME UNCHANGED <<pages, seen, baseline, applied, pullPhase>>, todo' \subseteq todo
      PROVE  TodoIsPlanned' /\ AppliedIsMapped'
  BY <1>1, <1>3
<1>4. ASSUME Ends \/ TurnsBack \/ Walk \/ UndoJob PROVE TodoIsPlanned' /\ AppliedIsMapped'
  BY <1>2, <1>4 DEF Ends, Idle, TurnsBack, Walk, UndoJob
<1>5. ASSUME Reads PROVE TodoIsPlanned' /\ AppliedIsMapped'
  BY <1>2, <1>5 DEF Reads, BeginEmptyPull, BeginPull, ReadScript
<1>6. ASSUME NEW R \in RenameSets, NEW d \in BOOLEAN, BeginApply(R, d)
      PROVE  TodoIsPlanned' /\ AppliedIsMapped'
  <2>1. UNCHANGED <<pages, seen, baseline>> /\ applied' = {} /\ todo' = JobsOf(R, d)
    BY <1>6 DEF BeginApply, reading, SyncTypes
  <2> QED BY <1>1, <2>1, JobsOfPlan
<1>7. ASSUME NEW j \in todo, pullPhase = "applying", CheckJob(j)
      PROVE  TodoIsPlanned' /\ AppliedIsMapped'
  BY <1>3, <1>7 DEF CheckJob, reading
<1>8. ASSUME NEW j \in todo, pullPhase = "applying", MakesJob(j)
      PROVE  TodoIsPlanned' /\ AppliedIsMapped'
  <2>1. Planned(j) /\ j.op \in {"rename", "write", "delete"}
    BY <1>8, JobFacts DEF SyncTypes
  <2>2. /\ todo' = todo \ {j} /\ UNCHANGED <<pages, seen, baseline>>
        /\ applied' = applied \/ (j.op \in {"rename", "write"} /\ applied' = applied \cup {j.to})
    BY <1>8, <2>1, JobMade DEF reading
  <2>3. j.op \in {"rename", "write"} => j.to \in Mapped /\ Sent(j.to)
    BY <2>1 DEF Planned
  <2> QED BY <1>1, <1>8, <2>2, <2>3
<1>9. ASSUME NEW j \in todo, pullPhase = "applying", SkipDelete(j)
      PROVE  TodoIsPlanned' /\ AppliedIsMapped'
  BY <1>3, <1>9 DEF SkipDelete, reading
<1>10. ASSUME NEW i \in Scripts, NEW s \in ScriptRecords, EditStudio(i, s)
       PROVE  TodoIsPlanned' /\ AppliedIsMapped'
  BY <1>3, <1>10 DEF EditStudio, reading, doing
<1>11. ASSUME NEW f \in Files, NEW t \in FileTexts, EditFile(f, t)
       PROVE  TodoIsPlanned' /\ AppliedIsMapped'
  BY <1>3, <1>11 DEF EditFile, reading, doing
<1>12. CASE UNCHANGED syncVars
  BY <1>3, <1>12 DEF syncVars
<1> QED
  BY <1>4, <1>5, <1>6, <1>7, <1>8, <1>9, <1>10, <1>11, <1>12, SyncSteps
-----------------------------------------------------------------------------
\* Jobs stay apart: one that is made goes from the plan to the undo list.
LEMMA ApartKept ==
  ASSUME SyncTypes, TodoIsPlanned, UndoIsReady, JobsAreApart, [SyncNext]_syncVars
  PROVE  JobsAreApart'
<1> USE DEF JobsAreApart
<1>0. \A j, k : Apart(j, k) <=> Apart(k, j)
  BY DEF Apart
<1>1. ASSUME UNCHANGED <<rollback, checked, pullPhase>>, todo' \subseteq todo PROVE JobsAreApart'
  BY <1>1
<1>2. ASSUME UNCHANGED rollback, pullPhase' # "applying" PROVE JobsAreApart'
  BY <1>2
<1>3. ASSUME Ends PROVE JobsAreApart'
  BY <1>3 DEF Ends, Idle
<1>4. ASSUME TurnsBack \/ Walk \/ Reads PROVE JobsAreApart'
  BY <1>2, <1>4 DEF TurnsBack, Walk, Reads, BeginEmptyPull, BeginPull, ReadScript, doing
<1>5. CASE UndoJob
  <2>1. PICK n \in Nat : /\ DOMAIN rollback = 1 .. n + 1 /\ DOMAIN rollback' = 1 .. n
                         /\ \A i \in 1 .. n : rollback'[i] = rollback[i]
    BY <1>5, JobUndone
  <2>2. \A i \in 1 .. n : i \in 1 .. n + 1
    BY <2>1
  <2>3. pullPhase' = "undoing"
    BY <1>5 DEF UndoJob
  <2> QED BY <2>1, <2>2, <2>3
<1>6. ASSUME NEW R \in RenameSets, NEW d \in BOOLEAN, BeginApply(R, d) PROVE JobsAreApart'
  <2>1. todo' = JobsOf(R, d) /\ rollback' = <<>> /\ checked' = {}
    BY <1>6 DEF BeginApply, SyncTypes, UndoIsReady
  <2> QED BY <2>1, JobsOfPlan
<1>7. ASSUME NEW j \in todo, pullPhase = "applying", NEW u \in UndoRecords, u.job = j,
             rollback' = Append(rollback, u), \A i \in DOMAIN rollback : Apart(j, rollback[i].job)
      PROVE  /\ \A k \in todo \ {j} : (\A i \in DOMAIN rollback : Apart(k, rollback[i].job))
                                      => \A i \in DOMAIN rollback' : Apart(k, rollback'[i].job)
             /\ \A i, k \in DOMAIN rollback' : i # k => Apart(rollback'[i].job, rollback'[k].job)
             /\ \A i \in DOMAIN rollback' :
                  rollback'[i].job.op = "rename" <=> rollback'[i].job.file # rollback'[i].job.to
  <2>1. PICK n \in Nat :
           /\ \A k \in DOMAIN rollback : rollback'[k] = rollback[k]
           /\ rollback'[n + 1] = u
           /\ \A k \in DOMAIN rollback' : k \in DOMAIN rollback \/ k = n + 1
    BY <1>7, Noted
  <2>2. \A k \in todo \ {j} : Apart(k, j)
    BY <1>7
  <2>3. j.op = "rename" <=> j.file # j.to
    <3>1. Planned(j) /\ j.op \in {"rename", "write", "delete"}
      BY <1>7, JobFacts DEF TodoIsPlanned, SyncTypes
    <3> QED BY <3>1 DEF Planned
  <2>4. \A i, k \in DOMAIN rollback' : i # k => Apart(rollback'[i].job, rollback'[k].job)
    BY <1>0, <1>7, <2>1
  <2>5. \A i \in DOMAIN rollback' :
          rollback'[i].job.op = "rename" <=> rollback'[i].job.file # rollback'[i].job.to
    BY <1>7, <2>1, <2>3
  <2>6. \A k \in todo \ {j} : (\A i \in DOMAIN rollback : Apart(k, rollback[i].job))
                              => \A i \in DOMAIN rollback' : Apart(k, rollback'[i].job)
    BY <1>7, <2>1, <2>2
  <2> QED BY <2>4, <2>5, <2>6
<1>8. ASSUME NEW j \in todo, pullPhase = "applying", CheckJob(j) PROVE JobsAreApart'
  <2>1. /\ checked = {} /\ checked' = {j} /\ todo' = todo /\ pullPhase' = pullPhase
        /\ Undo(j, files[j.file]) \in UndoRecords /\ Undo(j, files[j.file]).job = j
        /\ rollback' = IF j.op = "rename" THEN rollback ELSE Append(rollback, Undo(j, files[j.file]))
    BY <1>8, JobChecked DEF Undo
  <2>2. \A k \in todo, i \in DOMAIN rollback : Apart(k, rollback[i].job)
    BY <1>8, <2>1
  <2>3. CASE j.op = "rename"
    BY <1>8, <2>1, <2>2, <2>3
  <2>4. CASE j.op # "rename"
    BY <1>7, <1>8, <2>1, <2>2, <2>4
  <2> QED BY <2>3, <2>4
<1>9. ASSUME NEW j \in todo, pullPhase = "applying", MakesJob(j) PROVE JobsAreApart'
  <2>1. Planned(j)
    BY <1>9 DEF TodoIsPlanned
  <2>2. /\ j \in checked /\ todo' = todo \ {j} /\ checked' = {} /\ pullPhase' = pullPhase
        /\ Undo(j, Gone) \in UndoRecords /\ Undo(j, Gone).job = j
        /\ rollback' = IF j.op = "rename" THEN Append(rollback, Undo(j, Gone)) ELSE rollback
    BY <1>9, <2>1, JobMade DEF Undo
  <2>3. \A k \in todo \ {j} : \A i \in DOMAIN rollback : Apart(k, rollback[i].job)
    BY <1>9, <2>2
  <2>4. CASE j.op = "rename"
    BY <1>7, <1>9, <2>2, <2>3, <2>4
  <2>5. CASE j.op # "rename"
    BY <1>9, <2>2, <2>3, <2>5
  <2> QED BY <2>4, <2>5
<1>10. ASSUME NEW j \in todo, pullPhase = "applying", SkipDelete(j) PROVE JobsAreApart'
  BY <1>1, <1>10 DEF SkipDelete
<1>11. ASSUME NEW i \in Scripts, NEW s \in ScriptRecords, EditStudio(i, s) PROVE JobsAreApart'
  BY <1>1, <1>11 DEF EditStudio, doing
<1>12. ASSUME NEW f \in Files, NEW t \in FileTexts, EditFile(f, t) PROVE JobsAreApart'
  BY <1>1, <1>12 DEF EditFile, doing
<1>13. CASE UNCHANGED syncVars
  BY <1>1, <1>13 DEF syncVars
<1> QED
  BY <1>3, <1>4, <1>5, <1>6, <1>8, <1>9, <1>10, <1>11, <1>12, <1>13, SyncSteps
-----------------------------------------------------------------------------
\* It depends on the files of the job alone.
LEMMA UndoableIsLocal ==
  ASSUME NEW u, NEW now, NEW next, NEW found, Undoable(u, now, found),
         next[u.job.file] = now[u.job.file], next[u.job.to] = now[u.job.to]
  PROVE  Undoable(u, next, found)
BY DEF Undoable

\* The jobs of the undo list, and what a step that changes the files of one job does to
\* the others.
LEMMA UndoJobs ==
  ASSUME SyncTypes
  PROVE  \A i \in DOMAIN rollback :
           /\ rollback[i] \in UndoRecords /\ rollback[i].job \in JobRecords
           /\ rollback[i].job.file \in Files /\ rollback[i].job.to \in Files
           /\ rollback[i].job.op \in {"rename", "write", "delete"}
<1>1. rollback \in Seq(UndoRecords)
  BY DEF SyncTypes, UndoLists
<1>2. \A i \in DOMAIN rollback : rollback[i] \in UndoRecords
  BY <1>1, ElementOfSeq, LenProperties
<1> QED BY <1>2, UndoFacts

\* While nobody else changes files they are those of the plan, but for the jobs made.
LEMMA UndoKept ==
  ASSUME SyncTypes, TodoIsPlanned, JobsAreApart, CheckStands, UndoIsReady, [SyncNext]_syncVars
  PROVE  UndoIsReady'
<1> USE DEF UndoIsReady
<1>1. ASSUME UNCHANGED <<files, seen, rollback>>, raced' = FALSE => raced = FALSE,
             unwritable' = FALSE => unwritable = FALSE,
             pullPhase' \in UndoPhases => pullPhase \in UndoPhases,
             pullPhase' \notin {"applying", "undoing"} => rollback = <<>>
      PROVE  UndoIsReady'
  BY <1>1 DEF SyncTypes, UndoPhases, Untouched
<1>2. ASSUME pullPhase' \notin UndoPhases, rollback' = <<>> PROVE UndoIsReady'
  BY <1>2 DEF UndoPhases
<1>3. ASSUME Ends PROVE UndoIsReady'
  BY <1>2, <1>3 DEF Ends, Idle, UndoPhases
<1>4. ASSUME Reads PROVE UndoIsReady'
  <2>1. rollback' = rollback /\ pullPhase \in {"idle", "reading"} /\ pullPhase' \in {"reading", "walking"}
    BY <1>4 DEF Reads, BeginEmptyPull, BeginPull, ReadScript, doing
  <2> QED BY <1>2, <2>1 DEF UndoPhases
<1>5. CASE Walk
  <2>1. rollback' = <<>> /\ seen' = files /\ files' = files
    BY <1>5 DEF Walk, doing
  <2> QED BY <2>1, <1>5 DEF Walk
<1>6. ASSUME TurnsBack PROVE UndoIsReady'
  BY <1>1, <1>6 DEF TurnsBack, reading, doing, UndoPhases
<1>7. CASE UndoJob
  <2> PICK n \in Nat, u \in UndoRecords :
           /\ DOMAIN rollback = 1 .. n + 1 /\ u = rollback[n + 1]
           /\ DOMAIN rollback' = 1 .. n
           /\ \A i \in 1 .. n : rollback'[i] = rollback[i] /\ rollback[i] \in UndoRecords
           /\ \/ ~Vanished(u) /\ files' = Undone(u) /\ unwritable' = unwritable
              \/ files' = files /\ unwritable' = TRUE
    BY <1>7, JobUndone
  <2>1. pullPhase' = "undoing" /\ pullPhase = "undoing" /\ raced' = raced /\ seen' = seen
    BY <1>7 DEF UndoJob, reading
  <2> SUFFICES ASSUME ~raced', ~unwritable'
               PROVE  /\ \A i \in 1 .. n : Undoable(rollback[i], files', seen)
                      /\ \A f \in Files : (\A i \in 1 .. n : ~Touched(f, rollback[i]))
                                          => files'[f] = seen[f]
    BY <2>1 DEF Untouched
  <2>2. /\ files' = Undone(u) /\ ~unwritable /\ ~raced
        /\ n + 1 \in 1 .. n + 1 /\ \A i \in 1 .. n : i \in 1 .. n + 1 /\ i # n + 1
        /\ \A i \in 1 .. n + 1 : i \in 1 .. n \/ i = n + 1
    BY <2>1
  <2>3. /\ \A i \in DOMAIN rollback : Undoable(rollback[i], files, seen)
        /\ \A f \in Files : Untouched(f) => files[f] = seen[f]
    BY <2>1, <2>2 DEF UndoPhases
  <2>4. /\ Undoable(u, files, seen) /\ u.job.file \in Files /\ u.job.to \in Files
        /\ u.job.op = "rename" <=> u.job.file # u.job.to
    BY <2>2, <2>3, UndoFacts DEF JobsAreApart
  <2>5. /\ files'[u.job.file] = seen[u.job.file] /\ files'[u.job.to] = seen[u.job.to]
        /\ \A f \in Files \ {u.job.file, u.job.to} : files'[f] = files[f]
    BY <2>2, <2>4 DEF Undone, Undoable, SyncTypes
  <2>6. ASSUME NEW i \in 1 .. n PROVE Undoable(rollback[i], files', seen)
    <3>1. Undoable(rollback[i], files, seen)
      BY <2>2, <2>3
    <3>2. /\ rollback[i].job.file \in Files \ {u.job.file, u.job.to}
          /\ rollback[i].job.to \in Files \ {u.job.file, u.job.to}
      <4>1. Apart(rollback[i].job, u.job)
        BY <2>2 DEF JobsAreApart
      <4>2. rollback[i].job.file \in Files /\ rollback[i].job.to \in Files
        BY UndoFacts
      <4> QED BY <4>1, <4>2 DEF Apart
    <3> QED BY <2>5, <3>1, <3>2, UndoableIsLocal
  <2>7. ASSUME NEW f \in Files, \A i \in 1 .. n : ~Touched(f, rollback[i])
        PROVE  files'[f] = seen[f]
    <3>1. CASE f \in {u.job.file, u.job.to}
      BY <2>5, <3>1
    <3>2. CASE f \notin {u.job.file, u.job.to}
      <4>1. Untouched(f)
        BY <2>2, <2>7, <3>2 DEF Untouched, Touched
      <4> QED BY <2>3, <2>5, <3>2, <4>1
    <3> QED BY <3>1, <3>2
  <2> QED BY <2>6, <2>7
<1>8. ASSUME NEW R \in RenameSets, NEW d \in BOOLEAN, BeginApply(R, d) PROVE UndoIsReady'
  <2>1. /\ pullPhase = "planned" /\ pullPhase' = "applying"
        /\ UNCHANGED <<files, seen, rollback, raced, unwritable>>
    BY <1>8 DEF BeginApply, reading
  <2> QED BY <1>1, <2>1 DEF UndoPhases
<1>9. ASSUME NEW j \in todo, pullPhase = "applying", NEW u \in UndoRecords, u.job = j,
             rollback' = Append(rollback, u), UNCHANGED <<seen, raced, unwritable, pullPhase>>,
             \A i \in DOMAIN rollback : Apart(j, rollback[i].job),
             \A f \in Files \ {j.file, j.to} : files'[f] = files[f],
             ~raced /\ ~unwritable => Undoable(u, files', seen)
      PROVE  UndoIsReady'
  <2>1. PICK n \in Nat :
           /\ \A k \in DOMAIN rollback : rollback'[k] = rollback[k] /\ k \in DOMAIN rollback'
           /\ rollback'[n + 1] = u /\ n + 1 \in DOMAIN rollback'
           /\ \A k \in DOMAIN rollback' : k \in DOMAIN rollback \/ k = n + 1
    BY <1>9, Noted
  <2> SUFFICES ASSUME ~raced, ~unwritable
               PROVE  /\ \A i \in DOMAIN rollback' : Undoable(rollback'[i], files', seen)
                      /\ \A f \in Files : (\A i \in DOMAIN rollback' : ~Touched(f, rollback'[i]))
                                          => files'[f] = seen[f]
    BY <1>9 DEF Untouched
  <2>2. /\ \A i \in DOMAIN rollback : Undoable(rollback[i], files, seen)
        /\ \A f \in Files : Untouched(f) => files[f] = seen[f]
    BY <1>9 DEF UndoPhases
  <2>3. ASSUME NEW i \in DOMAIN rollback PROVE Undoable(rollback[i], files', seen)
    <3>1. /\ Undoable(rollback[i], files, seen) /\ Apart(j, rollback[i].job)
          /\ rollback[i].job.file \in Files /\ rollback[i].job.to \in Files
      BY <1>9, <2>2, UndoJobs
    <3>2. rollback[i].job.file \in Files \ {j.file, j.to} /\ rollback[i].job.to \in Files \ {j.file, j.to}
      BY <3>1 DEF Apart
    <3> QED BY <1>9, <3>1, <3>2, UndoableIsLocal
  <2>4. ASSUME NEW f \in Files, \A i \in DOMAIN rollback' : ~Touched(f, rollback'[i])
        PROVE  files'[f] = seen[f]
    <3>1. f \notin {j.file, j.to}
      BY <1>9, <2>1, <2>4 DEF Touched
    <3>2. Untouched(f)
      BY <2>1, <2>4 DEF Untouched
    <3> QED BY <1>9, <2>2, <3>1, <3>2
  <2> QED BY <1>9, <2>1, <2>3, <2>4
<1>10. ASSUME NEW j \in todo, pullPhase = "applying", CheckJob(j) PROVE UndoIsReady'
  <2> DEFINE u == Undo(j, files[j.file])
  <2>1. /\ checked = {} /\ u \in UndoRecords /\ u.job = j /\ u.text = files[j.file] /\ Holds(j)
        /\ rollback' = IF j.op = "rename" THEN rollback ELSE Append(rollback, u)
        /\ UNCHANGED <<files, seen, raced, unwritable, pullPhase>>
    BY <1>10, JobChecked DEF reading, Undo
  <2> HIDE DEF u
  <2>2. \A i \in DOMAIN rollback : Apart(j, rollback[i].job)
    BY <1>10, <2>1 DEF JobsAreApart
  <2>3. CASE j.op = "rename"
    BY <1>1, <1>10, <2>1, <2>3
  <2>4. CASE j.op # "rename"
    <3>1. Undoable(u, files', seen)
      BY <2>1, <2>4 DEF Undoable, Holds
    <3> QED BY <1>9, <1>10, <2>1, <2>2, <2>4, <3>1
  <2> QED BY <2>3, <2>4
<1>11. ASSUME NEW j \in todo, pullPhase = "applying", MakesJob(j) PROVE UndoIsReady'
  <2> DEFINE u == Undo(j, Gone)
  <2>1. Planned(j) /\ j.file \in Files /\ j.to \in Files /\ j.op \in {"rename", "write", "delete"}
    BY <1>11, JobFacts DEF TodoIsPlanned, SyncTypes
  <2>2. /\ j \in checked /\ u \in UndoRecords /\ u.job = j
        /\ rollback' = IF j.op = "rename" THEN Append(rollback, u) ELSE rollback
        /\ \A f \in Files \ {j.file, j.to} : files'[f] = files[f]
        /\ j.op = "rename" => /\ j.file # j.to /\ files'[j.file] = Gone
                              /\ files'[j.to] = files[j.file]
        /\ j.op # "rename" => j.to = j.file
        /\ UNCHANGED <<seen, raced, unwritable, pullPhase>>
    BY <1>11, <2>1, JobMade DEF reading, Undo
  <2> HIDE DEF u
  <2>3. CASE j.op = "rename"
    <3>1. \A i \in DOMAIN rollback : Apart(j, rollback[i].job)
      BY <1>11, <2>3 DEF JobsAreApart
    <3>2. Untouched(j.file)
      BY <3>1 DEF Untouched, Touched, Apart
    <3>3. ~raced /\ ~unwritable => files[j.file] = seen[j.file]
      BY <1>11, <2>1, <3>2 DEF UndoPhases
    <3>4. seen[j.to] = Gone
      BY <2>1, <2>3 DEF Planned
    <3>5. ~raced /\ ~unwritable => Undoable(u, files', seen)
      BY <2>2, <2>3, <3>3, <3>4 DEF Undoable
    <3> QED BY <1>9, <1>11, <2>2, <2>3, <3>1, <3>5
  <2>4. CASE j.op # "rename"
    <3>1. PICK k \in DOMAIN rollback : rollback[k].job = j
      BY <1>11, <2>2, <2>4 DEF CheckStands
    <3> SUFFICES ASSUME ~raced, ~unwritable
                 PROVE  /\ \A i \in DOMAIN rollback : Undoable(rollback[i], files', seen)
                        /\ \A f \in Files : Untouched(f) => files'[f] = seen[f]
      BY <1>11, <2>2, <2>4 DEF Untouched
    <3>2. /\ \A i \in DOMAIN rollback : Undoable(rollback[i], files, seen)
          /\ \A f \in Files : Untouched(f) => files[f] = seen[f]
      BY <1>11 DEF UndoPhases
    <3>3. ASSUME NEW i \in DOMAIN rollback PROVE Undoable(rollback[i], files', seen)
      <4>1. CASE i = k
        BY <2>4, <3>1, <3>2, <4>1 DEF Undoable
      <4>2. CASE i # k
        <5>1. /\ Apart(rollback[i].job, j)
              /\ rollback[i].job.file \in Files /\ rollback[i].job.to \in Files
          BY <3>1, <4>2, UndoJobs DEF JobsAreApart
        <5>2. rollback[i].job.file \in Files \ {j.file, j.to} /\ rollback[i].job.to \in Files \ {j.file, j.to}
          BY <5>1 DEF Apart
        <5> QED BY <2>2, <3>2, <5>2, UndoableIsLocal
      <4> QED BY <4>1, <4>2
    <3>4. ASSUME NEW f \in Files, Untouched(f) PROVE files'[f] = seen[f]
      <4>1. f \notin {j.file, j.to}
        BY <3>1, <3>4 DEF Untouched, Touched
      <4> QED BY <2>2, <3>2, <3>4, <4>1
    <3> QED BY <3>3, <3>4
  <2> QED BY <2>3, <2>4
<1>12. ASSUME NEW j \in todo, pullPhase = "applying", SkipDelete(j) PROVE UndoIsReady'
  BY <1>1, <1>12 DEF SkipDelete, reading, UndoPhases
<1>13. ASSUME NEW i \in Scripts, NEW s \in ScriptRecords, EditStudio(i, s) PROVE UndoIsReady'
  BY <1>1, <1>13 DEF EditStudio, reading, doing
<1>14. ASSUME NEW f \in Files, NEW t \in FileTexts, EditFile(f, t) PROVE UndoIsReady'
  <2>1. rollback' = rollback /\ pullPhase' = pullPhase /\ raced' = (pullPhase # "idle")
    BY <1>14 DEF EditFile, doing
  <2> QED BY <2>1 DEF UndoPhases
<1>15. CASE UNCHANGED syncVars
  BY <1>1, <1>15 DEF syncVars
<1> QED
  BY <1>3, <1>4, <1>5, <1>6, <1>7, <1>8, <1>10, <1>11, <1>12, <1>13, <1>14, <1>15, SyncSteps
-----------------------------------------------------------------------------
\* A file that nobody touches stays as the plan saw it.
LEMMA StandsKept ==
  ASSUME SyncTypes, TodoIsPlanned, JobsAreApart, UndoIsReady, PlanStands, CheckStands,
         [SyncNext]_syncVars
  PROVE  PlanStands' /\ CheckStands'
<1> USE DEF PlanStands, CheckStands
<1>1. ASSUME pullPhase' \notin {"planned", "applying"} PROVE PlanStands' /\ CheckStands'
  BY <1>1
<1>2. ASSUME UNCHANGED <<files, seen, late, rollback, checked, backups, pullPhase>>
      PROVE  PlanStands' /\ CheckStands'
  BY <1>2 DEF Untouched
<1>3. ASSUME Ends \/ TurnsBack \/ Reads \/ UndoJob PROVE PlanStands' /\ CheckStands'
  <2>1. pullPhase' \notin {"planned", "applying"}
    BY <1>3 DEF Ends, Idle, TurnsBack, Reads, BeginEmptyPull, BeginPull, ReadScript, UndoJob
  <2> QED BY <1>1, <2>1
<1>4. CASE Walk
  BY <1>4 DEF Walk
<1>5. ASSUME NEW R \in RenameSets, NEW d \in BOOLEAN, BeginApply(R, d)
      PROVE  PlanStands' /\ CheckStands'
  BY <1>5 DEF BeginApply, reading, SyncTypes, Untouched
<1>6. ASSUME NEW j \in todo, pullPhase = "applying", CheckJob(j) PROVE PlanStands' /\ CheckStands'
  <2> DEFINE u == Undo(j, files[j.file])
  <2>1. /\ u \in UndoRecords /\ u.job = j /\ Holds(j) /\ j.file \in Files
        /\ checked' = {j} /\ late' = late \ {j.file}
        /\ rollback' = IF j.op = "rename" THEN rollback ELSE Append(rollback, u)
        /\ j.op # "rename" /\ files[j.file] # Gone => <<j.file, files[j.file]>> \in backups'
        /\ UNCHANGED <<files, seen, pullPhase>>
    BY <1>6, JobChecked, JobFacts DEF reading, Undo
  <2> HIDE DEF u
  <2>2. files[j.file] = seen[j.file]
    BY <2>1 DEF Holds
  <2>3. /\ \A f \in Files : Untouched(f)' => Untouched(f)
        /\ j.op # "rename" => \E i \in DOMAIN rollback' : rollback'[i].job = j
    <3>1. CASE j.op = "rename"
      BY <2>1, <3>1 DEF Untouched
    <3>2. CASE j.op # "rename"
      <4>1. PICK n \in Nat :
             /\ \A k \in DOMAIN rollback : rollback'[k] = rollback[k] /\ k \in DOMAIN rollback'
             /\ rollback'[n + 1] = u /\ n + 1 \in DOMAIN rollback'
        BY <2>1, <3>2, Noted
      <4> QED BY <2>1, <4>1 DEF Untouched
    <3> QED BY <3>1, <3>2
  <2>4. PlanStands'
    BY <1>6, <2>1, <2>2, <2>3
  <2>5. CheckStands'
    BY <1>6, <2>1, <2>2, <2>3
  <2> QED BY <2>4, <2>5
<1>7. ASSUME NEW j \in todo, pullPhase = "applying", MakesJob(j) PROVE PlanStands' /\ CheckStands'
  <2> DEFINE u == Undo(j, Gone)
  <2>1. Planned(j)
    BY <1>7 DEF TodoIsPlanned
  <2>2. /\ j \in checked /\ checked' = {} /\ u \in UndoRecords /\ u.job = j
        /\ rollback' = IF j.op = "rename" THEN Append(rollback, u) ELSE rollback
        /\ \A f \in Files \ {j.file, j.to} : files'[f] = files[f]
        /\ j.op # "rename" => j.to = j.file
        /\ UNCHANGED <<seen, late, pullPhase>>
    BY <1>7, <2>1, JobMade, JobFacts DEF reading, Undo, Planned, SyncTypes
  <2> HIDE DEF u
  <2>3. \A f \in Files : Untouched(f)' => Untouched(f) /\ f \notin {j.file, j.to}
    <3>1. CASE j.op = "rename"
      <4>1. PICK n \in Nat :
             /\ \A k \in DOMAIN rollback : rollback'[k] = rollback[k] /\ k \in DOMAIN rollback'
             /\ rollback'[n + 1] = u /\ n + 1 \in DOMAIN rollback'
        BY <2>2, <3>1, Noted
      <4> QED BY <2>2, <4>1 DEF Untouched, Touched
    <3>2. CASE j.op # "rename"
      <4>1. PICK k \in DOMAIN rollback : rollback[k].job = j
        BY <1>7, <2>2, <3>2
      <4> QED BY <2>2, <3>2, <4>1 DEF Untouched, Touched
    <3> QED BY <3>1, <3>2
  <2> QED BY <1>7, <2>2, <2>3
<1>8. ASSUME NEW j \in todo, pullPhase = "applying", SkipDelete(j) PROVE PlanStands' /\ CheckStands'
  BY <1>2, <1>8 DEF SkipDelete, reading
<1>9. ASSUME NEW i \in Scripts, NEW s \in ScriptRecords, EditStudio(i, s)
      PROVE  PlanStands' /\ CheckStands'
  BY <1>2, <1>9 DEF EditStudio, reading, doing
<1>10. ASSUME NEW f \in Files, NEW t \in FileTexts, EditFile(f, t) PROVE PlanStands' /\ CheckStands'
  <2>1. /\ UNCHANGED <<seen, rollback, checked, backups, pullPhase>>
        /\ \A g \in Files \ {f} : files'[g] = files[g]
        /\ pullPhase # "idle" => late' = late \cup {f}
    BY <1>10 DEF EditFile, reading, doing, SyncTypes
  <2>2. pullPhase = "applying" => \A j \in checked : j.file \in Files
    BY JobFacts DEF SyncTypes
  <2>3. PlanStands'
    BY <2>1 DEF Untouched
  <2>4. CheckStands'
    BY <2>1, <2>2
  <2> QED BY <2>3, <2>4
<1>11. CASE UNCHANGED syncVars
  BY <1>2, <1>11 DEF syncVars
<1> QED
  BY <1>3, <1>4, <1>5, <1>6, <1>7, <1>8, <1>9, <1>10, <1>11, SyncSteps
-----------------------------------------------------------------------------
\* It depends on the files of the job alone.
LEMMA LeftIsLocal ==
  ASSUME NEW u, NEW now, NEW next, NEW edited, NEW later, NEW done, NEW more, NEW texts,
         Left(u, now, edited, done, texts), done \subseteq more,
         next[u.job.file] = now[u.job.file] \/ u.job.file \in later,
         u.job.file \in edited => u.job.file \in later
  PROVE  Left(u, next, later, more, texts)
BY DEF Left

\* What a job has left stays until somebody changes it or it is undone.
LEMMA JobsStandKept ==
  ASSUME SyncTypes, TodoIsPlanned, JobsAreApart, UndoIsReady, CheckStands, JobsStand,
         [SyncNext]_syncVars
  PROVE  JobsStand'
<1> DEFINE Stood(u)  == Left(u, files, late, applied, TextsRead)
           Stands(u) == Left(u, files', late', applied', TextsRead)
<1>0. /\ pages' = pages => TextsRead' = TextsRead
      /\ \A f \in Files : TextsRead[f] = TextOf(f)
  <2>1. pages' = pages => \A f : TextOf(f)' = TextOf(f)
    BY DEF TextOf, PageOf, Returned
  <2>2. pages' = pages => TextsRead' = TextsRead
    BY <2>1 DEF TextsRead
  <2>3. \A f \in Files : TextsRead[f] = TextOf(f)
    BY DEF TextsRead
  <2> QED BY <2>2, <2>3
<1> USE DEF JobsStand
<1>1. ASSUME UNCHANGED <<files, late, rollback, applied, pages>>,
             pullPhase' \in {"applying", "undoing"} => pullPhase \in {"applying", "undoing"} \/ rollback = <<>>
      PROVE  JobsStand'
  <2>1. CASE rollback = <<>>
    <3>1. DOMAIN rollback' = {}
      BY <1>1, <2>1
    <3> QED BY <3>1
  <2>2. CASE rollback # <<>>
    <3> SUFFICES ASSUME pullPhase' \in {"applying", "undoing"}, NEW i \in DOMAIN rollback'
                 PROVE  Left(rollback'[i], files', late', applied', TextsRead')
      OBVIOUS
    <3>1. rollback' = rollback /\ TextsRead' = TextsRead /\ Stood(rollback[i])
      BY <1>0, <1>1, <2>2
    <3> QED BY <1>1, <3>1
  <2> QED BY <2>1, <2>2
<1>2. ASSUME Ends \/ Walk \/ Reads PROVE JobsStand'
  <2>1. pullPhase' \notin {"applying", "undoing"}
    BY <1>2 DEF Ends, Idle, Walk, Reads, BeginEmptyPull, BeginPull, ReadScript
  <2> QED BY <2>1
<1>3. CASE TurnsBack
  <2>1. UNCHANGED <<files, late, rollback, applied, pages>> /\ pullPhase \in {"applying", "undoing"}
    BY <1>3 DEF TurnsBack, reading, doing
  <2> QED BY <1>1, <2>1
<1>4. CASE UndoJob
  <2> PICK n \in Nat, u \in UndoRecords :
           /\ DOMAIN rollback = 1 .. n + 1 /\ u = rollback[n + 1]
           /\ DOMAIN rollback' = 1 .. n
           /\ \A i \in 1 .. n : rollback'[i] = rollback[i] /\ rollback[i] \in UndoRecords
           /\ files' = Undone(u) \/ files' = files
    BY <1>4, JobUndone
  <2>1. pullPhase = "undoing" /\ UNCHANGED <<late, applied, pages>>
    BY <1>4 DEF UndoJob, reading
  <2>2. \A i \in 1 .. n : i \in 1 .. n + 1 /\ i # n + 1 /\ n + 1 \in 1 .. n + 1
    OBVIOUS
  <2>3. u.job.file \in Files /\ u.job.to \in Files
    BY UndoFacts
  <2>4. \A f \in Files \ {u.job.file, u.job.to} : files'[f] = files[f]
    BY <2>3 DEF Undone, SyncTypes
  <2> SUFFICES ASSUME NEW i \in 1 .. n PROVE Stands(rollback[i])
    BY <1>0, <2>1
  <2>5. Stood(rollback[i]) /\ Apart(rollback[i].job, u.job) /\ rollback[i].job.file \in Files
    BY <2>1, <2>2, UndoJobs DEF JobsAreApart
  <2>6. files'[rollback[i].job.file] = files[rollback[i].job.file]
    BY <2>4, <2>5 DEF Apart
  <2> QED BY <2>1, <2>5, <2>6, LeftIsLocal
<1>5. ASSUME NEW R \in RenameSets, NEW d \in BOOLEAN, BeginApply(R, d) PROVE JobsStand'
  <2>1. UNCHANGED <<files, late, rollback, applied, pages>> /\ pullPhase = "planned"
    BY <1>5 DEF BeginApply, reading
  <2> QED BY <1>1, <2>1 DEF UndoIsReady
<1>6. ASSUME NEW j \in todo, pullPhase = "applying", CheckJob(j) PROVE JobsStand'
  <2> DEFINE u == Undo(j, files[j.file])
  <2>1. /\ u \in UndoRecords /\ u.job = j /\ u.text = files[j.file] /\ checked = {}
        /\ late' = late \ {j.file}
        /\ rollback' = IF j.op = "rename" THEN rollback ELSE Append(rollback, u)
        /\ UNCHANGED <<files, applied, pages>>
    BY <1>6, JobChecked DEF reading, Undo
  <2> HIDE DEF u
  <2>2. ASSUME NEW i \in DOMAIN rollback PROVE Stands(rollback[i])
    <3>1. Stood(rollback[i]) /\ rollback[i] \in UndoRecords /\ Apart(j, rollback[i].job)
      BY <1>6, <2>1, UndoJobs DEF JobsAreApart
    <3>2. rollback[i].job.file # j.file
      BY <3>1 DEF Apart
    <3> QED BY <2>1, <3>1, <3>2, LeftIsLocal
  <2>3. CASE j.op = "rename"
    BY <1>0, <2>1, <2>2, <2>3
  <2>4. CASE j.op # "rename"
    <3>1. PICK n \in Nat :
             /\ \A k \in DOMAIN rollback : rollback'[k] = rollback[k]
             /\ rollback'[n + 1] = u
             /\ \A k \in DOMAIN rollback' : k \in DOMAIN rollback \/ k = n + 1
      BY <2>1, <2>4, Noted
    <3>2. Stands(u)
      BY <2>1, <2>4 DEF Left
    <3> QED BY <1>0, <2>1, <2>2, <3>1, <3>2
  <2> QED BY <2>3, <2>4
<1>7. ASSUME NEW j \in todo, pullPhase = "applying", MakesJob(j) PROVE JobsStand'
  <2> DEFINE u == Undo(j, Gone)
  <2>1. Planned(j) /\ j \in JobRecords /\ j.op \in {"rename", "write", "delete"}
    BY <1>7, JobFacts DEF TodoIsPlanned, SyncTypes
  <2>2. /\ j \in checked /\ u \in UndoRecords /\ u.job = j
        /\ rollback' = IF j.op = "rename" THEN Append(rollback, u) ELSE rollback
        /\ \A f \in Files \ {j.file, j.to} : files'[f] = files[f]
        /\ j.op = "rename" => files'[j.file] = Gone /\ applied' = applied \cup {j.to}
        /\ j.op = "write"  => /\ j.to = j.file /\ files'[j.file] = TextOf(j.file)
                              /\ applied' = applied \cup {j.to}
        /\ j.op = "delete" => j.to = j.file /\ files'[j.file] = Gone /\ applied' = applied
        /\ UNCHANGED <<late, pages>>
    BY <1>7, <2>1, JobMade DEF reading, Undo
  <2> HIDE DEF u
  <2>3. applied \subseteq applied'
    BY <2>1, <2>2
  <2>4. ASSUME NEW i \in DOMAIN rollback, Apart(rollback[i].job, j)
        PROVE  Stands(rollback[i])
    <3>1. /\ Stood(rollback[i]) /\ rollback[i] \in UndoRecords /\ rollback[i].job.file \in Files
      BY <1>7, UndoJobs
    <3>2. files'[rollback[i].job.file] = files[rollback[i].job.file]
      BY <2>2, <2>4, <3>1 DEF Apart
    <3> QED BY <2>2, <2>3, <3>1, <3>2, LeftIsLocal
  <2>5. TextsRead[j.file] = TextOf(j.file)
    BY <1>0, <2>1, JobFacts
  <2>6. CASE j.op = "rename"
    <3>1. PICK n \in Nat :
             /\ \A k \in DOMAIN rollback : rollback'[k] = rollback[k]
             /\ rollback'[n + 1] = u
             /\ \A k \in DOMAIN rollback' : k \in DOMAIN rollback \/ k = n + 1
      BY <2>2, <2>6, Noted
    <3>2. Stands(u)
      BY <2>2, <2>6 DEF Left
    <3>3. \A i \in DOMAIN rollback : Apart(rollback[i].job, j)
      BY <1>7, <2>6 DEF JobsAreApart, Apart
    <3> QED BY <1>0, <2>2, <2>4, <3>1, <3>2, <3>3
  <2>7. CASE j.op # "rename"
    <3>1. PICK k \in DOMAIN rollback : rollback[k].job = j
      BY <1>7, <2>2, <2>7 DEF CheckStands
    <3>2. Stands(rollback[k])
      BY <2>1, <2>2, <2>5, <2>7, <3>1 DEF Left
    <3>3. \A i \in DOMAIN rollback : i # k => Apart(rollback[i].job, j)
      BY <3>1 DEF JobsAreApart
    <3> QED BY <1>0, <2>2, <2>4, <2>7, <3>2, <3>3
  <2> QED BY <2>6, <2>7
<1>8. ASSUME NEW j \in todo, pullPhase = "applying", SkipDelete(j) PROVE JobsStand'
  BY <1>1, <1>8 DEF SkipDelete, reading
<1>9. ASSUME NEW i \in Scripts, NEW s \in ScriptRecords, EditStudio(i, s) PROVE JobsStand'
  BY <1>1, <1>9 DEF EditStudio, reading, doing
<1>10. ASSUME NEW f \in Files, NEW t \in FileTexts, EditFile(f, t) PROVE JobsStand'
  <2>1. /\ UNCHANGED <<rollback, applied, pages, pullPhase>>
        /\ \A g \in Files \ {f} : files'[g] = files[g]
        /\ pullPhase # "idle" => late' = late \cup {f}
    BY <1>10 DEF EditFile, reading, doing, SyncTypes
  <2> SUFFICES ASSUME pullPhase \in {"applying", "undoing"}, NEW i \in DOMAIN rollback
               PROVE  Stands(rollback[i])
    BY <1>0, <2>1
  <2>2. Stood(rollback[i]) /\ rollback[i] \in UndoRecords /\ rollback[i].job.file \in Files
    BY UndoJobs
  <2>3. files'[rollback[i].job.file] = files[rollback[i].job.file] \/ rollback[i].job.file \in late'
    BY <2>1, <2>2
  <2> QED BY <2>1, <2>2, <2>3, LeftIsLocal
<1>11. CASE UNCHANGED syncVars
  BY <1>1, <1>11 DEF syncVars
<1> QED
  BY <1>2, <1>3, <1>4, <1>5, <1>6, <1>7, <1>8, <1>9, <1>10, <1>11, SyncSteps
-----------------------------------------------------------------------------
\* Histories grow, and only a commit changes the baseline.
LEMMA HistoriesGrow ==
  ASSUME SyncTypes, TodoIsPlanned, [SyncNext]_syncVars
  PROVE  /\ \A p \in Paths : hadStudio[p] \subseteq hadStudio'[p]
         /\ hadFiles \subseteq hadFiles'
         /\ Commit \/ UNCHANGED baseline
         /\ shifted => shifted'
<1>1. ASSUME Ends \/ TurnsBack \/ Walk \/ UndoJob
      PROVE  UNCHANGED <<hadStudio, hadFiles, shifted>> /\ (Commit \/ UNCHANGED baseline)
  BY <1>1 DEF Ends, TurnsBack, Walk, UndoJob, people
<1>2. CASE Reads
  BY <1>2 DEF Reads, BeginEmptyPull, BeginPull, ReadScript, people
<1>3. ASSUME NEW R \in RenameSets, NEW d \in BOOLEAN, BeginApply(R, d)
      PROVE  UNCHANGED <<hadStudio, hadFiles, shifted, baseline>>
  BY <1>3 DEF BeginApply, people
<1>4. ASSUME NEW j \in todo, pullPhase = "applying", CheckJob(j) \/ SkipDelete(j)
      PROVE  UNCHANGED <<hadStudio, hadFiles, shifted, baseline>>
  BY <1>4 DEF CheckJob, SkipDelete, people
<1>5. ASSUME NEW j \in todo, pullPhase = "applying", MakesJob(j)
      PROVE  UNCHANGED <<hadStudio, shifted, baseline>> /\ hadFiles \subseteq hadFiles'
  <2>1. Planned(j)
    BY <1>5 DEF TodoIsPlanned
  <2> QED BY <1>5, <2>1, JobMade DEF people
<1>6. ASSUME NEW i \in Scripts, NEW s \in ScriptRecords, EditStudio(i, s)
      PROVE  /\ UNCHANGED <<hadFiles, baseline>> /\ \A p \in Paths : hadStudio[p] \subseteq hadStudio'[p]
             /\ shifted => shifted'
  BY <1>6 DEF EditStudio, SyncTypes
<1>7. ASSUME NEW f \in Files, NEW t \in FileTexts, EditFile(f, t)
      PROVE  UNCHANGED <<hadStudio, shifted, baseline>> /\ hadFiles \subseteq hadFiles'
  BY <1>7 DEF EditFile
<1>8. CASE UNCHANGED syncVars
  BY <1>8 DEF syncVars
<1> QED BY <1>1, <1>2, <1>3, <1>4, <1>5, <1>6, <1>7, <1>8, SyncSteps

\* What a step of reading, and every other step, leaves of the pages.
LEMMA PagesKept ==
  ASSUME SyncTypes, TodoIsPlanned, [SyncNext]_syncVars
  PROVE  \/ Reads
         \/ \A i \in Scripts : pages'[i].file = Gone /\ pages'[i].unchanged = FALSE
         \/ pages' = pages /\ baseline' = baseline
<1>1. CASE Ends
  BY <1>1, IdleState DEF Ends
<1>2. ASSUME TurnsBack \/ Walk \/ UndoJob PROVE UNCHANGED <<pages, baseline>>
  BY <1>2 DEF TurnsBack, Walk, UndoJob, reading
<1>3. ASSUME NEW R \in RenameSets, NEW d \in BOOLEAN, BeginApply(R, d) PROVE UNCHANGED <<pages, baseline>>
  BY <1>3 DEF BeginApply, reading
<1>4. ASSUME NEW j \in todo, pullPhase = "applying", CheckJob(j) \/ MakesJob(j) \/ SkipDelete(j)
      PROVE  UNCHANGED <<pages, baseline>>
  BY <1>4 DEF CheckJob, MakesJob, DoRename, DoWrite, DoDelete, SkipDelete, reading
<1>5. ASSUME NEW i \in Scripts, NEW s \in ScriptRecords, EditStudio(i, s) PROVE UNCHANGED <<pages, baseline>>
  BY <1>5 DEF EditStudio, reading
<1>6. ASSUME NEW f \in Files, NEW t \in FileTexts, EditFile(f, t) PROVE UNCHANGED <<pages, baseline>>
  BY <1>6 DEF EditFile, reading
<1>7. CASE UNCHANGED syncVars
  BY <1>7 DEF syncVars
<1> QED BY <1>1, <1>2, <1>3, <1>4, <1>5, <1>6, <1>7, SyncSteps

\* What a page says of a hash is so while the pull lasts.
LEMMA HashesKept ==
  ASSUME SyncTypes, TodoIsPlanned, HashesAreKnown, [SyncNext]_syncVars
  PROVE  HashesAreKnown'
<1> USE DEF HashesAreKnown
<1>1. ASSUME baseline' = baseline PROVE \A p : KnownHashes(p)' = KnownHashes(p)
  BY <1>1 DEF KnownHashes
<1>2. CASE pages' = pages /\ baseline' = baseline
  BY <1>1, <1>2
<1>3. CASE \A i \in Scripts : pages'[i].file = Gone /\ pages'[i].unchanged = FALSE
  BY <1>3
<1>4. CASE BeginEmptyPull
  BY <1>2, <1>4 DEF BeginEmptyPull, reading
<1>5. ASSUME NEW i \in Scripts, BeginPull(i) PROVE HashesAreKnown'
  <2>1. baseline' = baseline
    BY <1>5 DEF BeginPull
  <2>2. \A k \in Scripts : pages'[k].unchanged => pages'[k].text \in KnownHashes(pages'[k].path)
    BY <1>5, FirstPage
  <2> QED BY <1>1, <2>1, <2>2
<1>6. ASSUME NEW i \in todo, ReadScript(i) PROVE HashesAreKnown'
  <2>1. baseline' = baseline
    BY <1>6 DEF ReadScript
  <2>2. \A k \in Scripts : pages'[k].unchanged => pages'[k].text \in KnownHashes(pages'[k].path)
    BY <1>6, NextPage
  <2> QED BY <1>1, <2>1, <2>2
<1> QED BY <1>2, <1>3, <1>4, <1>5, <1>6, PagesKept DEF Reads

\* So is the path it is known by, unless the script was moved.
LEMMA PathsKept ==
  ASSUME SyncTypes, TodoIsPlanned, PathsAreKept, [SyncNext]_syncVars
  PROVE  PathsAreKept'
<1> USE DEF PathsAreKept
<1>1. SUFFICES ASSUME ~shifted' PROVE PathsAreKept'
  BY <1>1
<1>2. ~shifted
  BY <1>1, HistoriesGrow
<1>3. \A i \in Returned : i \in Scripts /\ pages[i].file[1] = pages[i].path
  BY <1>2 DEF Returned
<1>4. ASSUME NEW i \in Scripts, BeginPull(i) PROVE PathsAreKept'
  <2>1. studio' = studio /\ shifted' = shifted
    BY <1>4 DEF BeginPull, people
  <2>2. \A k \in Returned' : k = i
    BY <1>4, FirstPage DEF Returned
  <2>3. pages'[i].file[1] = pages'[i].path /\ \A k \in todo' : pages'[k].path = studio[k].file[1]
    BY <1>4, FirstPage
  <2> QED BY <2>1, <2>2, <2>3
<1>5. ASSUME NEW i \in todo, ReadScript(i) PROVE PathsAreKept'
  <2>1. studio' = studio /\ pullPhase = "reading" /\ studio[i].file[1] = pages[i].path
    BY <1>2, <1>5, NextPage DEF ReadScript, people
  <2>2. /\ pages'[i].file[1] = pages'[i].path
        /\ \A k \in Scripts \ {i} : pages'[k] = pages[k]
        /\ todo' = todo \ {i} /\ todo \subseteq Scripts
    BY <1>5, <2>1, NextPage DEF SyncTypes
  <2>3. \A k \in Returned' : k \in Scripts /\ (k = i \/ k \in Returned)
    BY <2>2 DEF Returned
  <2>4. \A k \in Returned' : pages'[k].file[1] = pages'[k].path
    BY <1>3, <2>2, <2>3
  <2>5. \A k \in todo' : studio'[k].file[1] = pages'[k].path
    BY <1>2, <2>1, <2>2
  <2> QED BY <2>4, <2>5
<1>6. ASSUME pages' = pages, pullPhase' = "reading" => pullPhase = "reading" /\ todo' = todo /\ studio' = studio
      PROVE  PathsAreKept'
  BY <1>2, <1>6 DEF Returned
<1>7. CASE BeginEmptyPull
  BY <1>6, <1>7 DEF BeginEmptyPull, reading
<1>8. CASE Ends
  <2>1. pullPhase' = "idle" /\ Returned' = {}
    BY <1>8, IdleState DEF Ends, Returned
  <2> QED BY <2>1
<1>9. ASSUME TurnsBack \/ Walk \/ UndoJob PROVE PathsAreKept'
  BY <1>6, <1>9 DEF TurnsBack, Walk, UndoJob, reading
<1>10. ASSUME NEW R \in RenameSets, NEW d \in BOOLEAN, BeginApply(R, d) PROVE PathsAreKept'
  BY <1>6, <1>10 DEF BeginApply, reading
<1>11. ASSUME NEW j \in todo, pullPhase = "applying", CheckJob(j) \/ MakesJob(j) \/ SkipDelete(j)
       PROVE  PathsAreKept'
  BY <1>6, <1>11 DEF CheckJob, MakesJob, DoRename, DoWrite, DoDelete, SkipDelete, reading
<1>12. ASSUME NEW i \in Scripts, NEW s \in ScriptRecords, EditStudio(i, s) PROVE PathsAreKept'
  <2>1. /\ UNCHANGED <<pages, todo, pullPhase>>
        /\ pullPhase = "reading" /\ i \in todo => s.file = studio[i].file
        /\ studio' = [studio EXCEPT ![i] = s]
    BY <1>1, <1>12 DEF EditStudio, reading, doing
  <2>2. pullPhase = "reading" => \A k \in todo : studio'[k].file = studio[k].file
    BY <2>1 DEF SyncTypes
  <2> QED BY <1>2, <2>1, <2>2 DEF Returned
<1>13. ASSUME NEW f \in Files, NEW t \in FileTexts, EditFile(f, t) PROVE PathsAreKept'
  BY <1>6, <1>13 DEF EditFile, reading, doing
<1>14. CASE UNCHANGED syncVars
  BY <1>6, <1>14 DEF syncVars
<1> QED
  BY <1>4, <1>5, <1>7, <1>8, <1>9, <1>10, <1>11, <1>12, <1>13, <1>14, SyncSteps DEF Reads

\* What a pull reads and sees was there.
LEMMA HistoriesKept ==
  ASSUME SyncTypes, SyncTypes', TodoIsPlanned, HistoriesAreKept, [SyncNext]_syncVars
  PROVE  HistoriesAreKept'
<1> DEFINE InStudio == \A i \in Scripts : studio[i].text \in hadStudio[studio[i].file[1]]
           InPages  == \A i \in Returned : pages[i].text \in hadStudio[pages[i].file[1]]
           InFiles  == \A f \in Files : files[f] # Gone => files[f] \in hadFiles
           InSeen   == \A f \in Files : seen[f] # Gone => seen[f] \in hadFiles
           InUndo   == \A i \in DOMAIN rollback : rollback[i].text # Gone => rollback[i].text \in hadFiles
<1>0. InStudio /\ InPages /\ InFiles /\ InSeen /\ InUndo
  BY DEF HistoriesAreKept
<1>1. /\ \A i \in Scripts : studio[i].file \in Files /\ studio[i].file[1] \in Paths /\ studio[i].text \in Texts
      /\ \A i \in Returned : i \in Scripts /\ pages[i].file \in Files /\ pages[i].file[1] \in Paths
  BY FileFacts DEF SyncTypes, ScriptRecords, Returned, PageRecords
<1>2. /\ \A p \in Paths : hadStudio[p] \subseteq hadStudio'[p]
      /\ hadFiles \subseteq hadFiles'
  BY HistoriesGrow
<1>3. InStudio'
  <2>1. CASE UNCHANGED studio
    BY <1>0, <1>1, <1>2, <2>1
  <2>2. ASSUME NEW i \in Scripts, NEW s \in ScriptRecords, EditStudio(i, s) PROVE InStudio'
    <3>1. s.file[1] \in Paths
      BY FileFacts DEF ScriptRecords
    <3>2. /\ studio' = [studio EXCEPT ![i] = s]
          /\ hadStudio' = [hadStudio EXCEPT ![s.file[1]] = @ \cup {s.text}]
      BY <2>2 DEF EditStudio
    <3>3. s.text \in hadStudio'[s.file[1]]
      BY <3>1, <3>2 DEF SyncTypes
    <3>4. \A k \in Scripts : studio'[k] = IF k = i THEN s ELSE studio[k]
      BY <3>2 DEF SyncTypes
    <3> QED BY <1>0, <1>1, <1>2, <3>3, <3>4
  <2>3. UNCHANGED studio \/ \E i \in Scripts, s \in ScriptRecords : EditStudio(i, s)
    BY SyncSteps DEF Ends, TurnsBack, Reads, BeginEmptyPull, BeginPull, ReadScript, Walk, UndoJob, BeginApply,
       CheckJob, MakesJob, DoRename, DoWrite, DoDelete, SkipDelete, EditFile, people, syncVars
  <2> QED BY <2>1, <2>2, <2>3
<1>4. InPages'
  <2>1. CASE pages' = pages
    BY <1>0, <1>1, <1>2, <2>1 DEF Returned
  <2>2. CASE \A i \in Scripts : pages'[i].file = Gone /\ pages'[i].unchanged = FALSE
    BY <2>2 DEF Returned
  <2>3. ASSUME NEW i \in Scripts, pages'[i].file = studio[i].file, pages'[i].text = studio[i].text,
               \A k \in Scripts \ {i} : pages'[k] = pages[k] \/ pages'[k].file = Gone
        PROVE  InPages'
    <3>1. pages'[i].text \in hadStudio'[pages'[i].file[1]]
      BY <1>0, <1>1, <1>2, <2>3
    <3>2. ASSUME NEW k \in Returned', k # i PROVE k \in Returned /\ pages'[k] = pages[k]
      BY <2>3, <3>2 DEF Returned
    <3> QED BY <1>0, <1>1, <1>2, <3>1, <3>2
  <2>4. ASSUME NEW i \in Scripts, BeginPull(i) PROVE InPages'
    BY <2>3, <2>4, FirstPage
  <2>5. ASSUME NEW i \in todo, ReadScript(i) PROVE InPages'
    BY <2>3, <2>5, NextPage
  <2>6. CASE BeginEmptyPull
    BY <2>1, <2>6 DEF BeginEmptyPull, reading
  <2> QED BY <2>1, <2>2, <2>4, <2>5, <2>6, PagesKept DEF Reads
<1>5. InFiles'
  <2>1. CASE UNCHANGED files
    BY <1>0, <1>2, <2>1
  <2>2. ASSUME NEW j \in todo, pullPhase = "applying", MakesJob(j) PROVE InFiles'
    <3>1. Planned(j) /\ j.op \in {"rename", "write", "delete"} /\ j.file \in Files /\ j.to \in Files
      BY <2>2, JobFacts DEF TodoIsPlanned, SyncTypes
    <3>2. /\ \A f \in Files \ {j.file, j.to} : files'[f] = files[f]
          /\ j.op = "rename" => files'[j.file] = Gone /\ files'[j.to] = files[j.file]
          /\ j.op = "write"  => /\ j.to = j.file /\ files'[j.file] = TextOf(j.file)
                                /\ TextOf(j.file) \in hadFiles'
          /\ j.op = "delete" => j.to = j.file /\ files'[j.file] = Gone
      BY <2>2, <3>1, JobMade
    <3> QED BY <1>0, <1>2, <3>1, <3>2
  <2>3. CASE UndoJob
    <3>1. PICK n \in Nat, u \in UndoRecords :
             u = rollback[n + 1] /\ DOMAIN rollback = 1 .. n + 1 /\ (files' = Undone(u) \/ files' = files)
      BY <2>3, JobUndone
    <3>2. u.job.file \in Files /\ u.job.to \in Files
      BY UndoFacts
    <3>3. hadFiles' = hadFiles
      BY <2>3 DEF UndoJob
    <3>4. \A f \in Files : files'[f] \in {Gone, files[f], files[u.job.to], u.text}
      BY <3>1, <3>2 DEF Undone, SyncTypes
    <3>5. u.text # Gone => u.text \in hadFiles
      <4>1. n + 1 \in 1 .. n + 1
        OBVIOUS
      <4> QED BY <1>0, <3>1, <4>1
    <3>6. files[u.job.to] # Gone => files[u.job.to] \in hadFiles
      BY <1>0, <3>2
    <3> HIDE DEF InFiles
    <3> QED
      <4> SUFFICES ASSUME NEW f \in Files, files'[f] # Gone PROVE files'[f] \in hadFiles
        BY <3>3 DEF InFiles
      <4>1. files[f] # Gone => files[f] \in hadFiles
        BY <1>0 DEF InFiles
      <4> QED BY <3>4, <3>5, <3>6, <4>1
  <2>4. ASSUME NEW f \in Files, NEW t \in FileTexts, EditFile(f, t) PROVE InFiles'
    BY <1>0, <2>4 DEF EditFile, SyncTypes
  <2>5. \/ UNCHANGED files \/ UndoJob
        \/ \E j \in todo : pullPhase = "applying" /\ MakesJob(j)
        \/ \E f \in Files, t \in FileTexts : EditFile(f, t)
    BY SyncSteps DEF Ends, TurnsBack, Reads, BeginEmptyPull, BeginPull, ReadScript, Walk, BeginApply,
       CheckJob, SkipDelete, EditStudio, syncVars
  <2> QED BY <2>1, <2>2, <2>3, <2>4, <2>5
<1>6. InSeen'
  <2>1. seen' = seen \/ seen' = files \/ \A f \in Files : seen'[f] = Gone
    BY SyncSteps, IdleState DEF Ends, TurnsBack, Reads, BeginEmptyPull, BeginPull, ReadScript, Walk, UndoJob,
       BeginApply, CheckJob, MakesJob, DoRename, DoWrite, DoDelete, SkipDelete, EditStudio, EditFile,
       reading, syncVars
  <2> QED BY <1>0, <1>2, <2>1
<1>7. InUndo'
  <2>1. CASE rollback' = rollback
    BY <1>0, <1>2, <2>1
  <2>2. CASE rollback' = <<>>
    BY <2>2
  <2>3. CASE UndoJob
    <3>1. PICK n \in Nat : /\ DOMAIN rollback = 1 .. n + 1 /\ DOMAIN rollback' = 1 .. n
                           /\ \A i \in 1 .. n : rollback'[i] = rollback[i]
      BY <2>3, JobUndone
    <3>2. \A i \in 1 .. n : i \in 1 .. n + 1
      OBVIOUS
    <3> QED BY <1>0, <1>2, <3>1, <3>2
  <2>4. ASSUME NEW u \in UndoRecords, rollback' = Append(rollback, u), u.text # Gone => u.text \in hadFiles
        PROVE  InUndo'
    <3>1. PICK n \in Nat :
           /\ \A k \in DOMAIN rollback : rollback'[k] = rollback[k]
           /\ rollback'[n + 1] = u
           /\ \A k \in DOMAIN rollback' : k \in DOMAIN rollback \/ k = n + 1
      BY <2>4, Noted
    <3> QED BY <1>0, <1>2, <2>4, <3>1
  <2>5. ASSUME NEW j \in todo, pullPhase = "applying", CheckJob(j) PROVE InUndo'
    <3>1. /\ Undo(j, files[j.file]) \in UndoRecords /\ Undo(j, files[j.file]).text = files[j.file]
          /\ rollback' = rollback \/ rollback' = Append(rollback, Undo(j, files[j.file]))
          /\ j.file \in Files
      BY <2>5, JobChecked, JobFacts DEF Undo
    <3> QED BY <1>0, <2>1, <2>4, <3>1
  <2>6. ASSUME NEW j \in todo, pullPhase = "applying", MakesJob(j) PROVE InUndo'
    <3>1. /\ Undo(j, Gone) \in UndoRecords /\ Undo(j, Gone).text = Gone
          /\ rollback' = rollback \/ rollback' = Append(rollback, Undo(j, Gone))
      BY <2>6, JobMade DEF Undo, TodoIsPlanned
    <3> QED BY <2>1, <2>4, <3>1
  <2>7. \/ rollback' = rollback \/ rollback' = <<>> \/ UndoJob
        \/ \E j \in todo : pullPhase = "applying" /\ (CheckJob(j) \/ MakesJob(j))
    BY SyncSteps, IdleState DEF Ends, TurnsBack, Reads, BeginEmptyPull, BeginPull, ReadScript, Walk, BeginApply,
       SkipDelete, EditStudio, EditFile, doing, syncVars
  <2> QED BY <2>1, <2>2, <2>3, <2>5, <2>6, <2>7
<1> HIDE DEF InStudio, InPages, InFiles, InSeen, InUndo
<1>8. (InStudio /\ InPages /\ InFiles /\ InSeen /\ InUndo)'
  BY <1>3, <1>4, <1>5, <1>6, <1>7
<1> QED BY <1>8 DEF HistoriesAreKept, InStudio, InPages, InFiles, InSeen, InUndo
-----------------------------------------------------------------------------
\* With one class for every path, a text that was left out of a page is that of the
\* baseline of its own file.
LEMMA InSyncMeansEqual ==
  ASSUME SyncTypes, OneClass, ~shifted, PathsAreKept, HashesAreKnown, BaselineWasAgreed, NEW f \in InSync
  PROVE  seen[f] = TextOf(f) /\ f \in Mapped
<1>1. f \in Mapped /\ seen[f] = StudioText(f) /\ (Sent(f) \/ PageOf(f).unchanged)
  BY DEF InSync, Compared
<1>2. CASE Sent(f)
  BY <1>1, <1>2 DEF StudioText
<1>3. CASE ~Sent(f)
  <2> PICK i \in Returned : i \in Scripts /\ PageOf(f) = pages[i] /\ pages[i].file = f
    BY <1>1, MappedFacts
  <2>1. pages[i].unchanged /\ seen[f] = baseline[f].content /\ TextOf(f) = pages[i].text
    BY <1>1, <1>3 DEF StudioText, TextOf
  <2>2. pages[i].text \in KnownHashes(f[1]) /\ pages[i].text \in Texts /\ f \in Files
    BY <1>1, <2>1, MappedFacts DEF PathsAreKept, HashesAreKnown, TextOf
  <2>3. pages[i].text # Gone
    BY <2>2, FileFacts
  <2>4. PICK g \in Files : baseline[g].path = f[1] /\ baseline[g].hash = pages[i].text
    BY <2>2, <2>3 DEF KnownHashes
  <2>5. baseline[g] # NoEntry
    BY <2>2, <2>3, <2>4, FileFacts
  <2>6. g[1] = f[1] /\ baseline[g].content = baseline[g].hash
    BY <2>4, <2>5 DEF BaselineWasAgreed
  <2>7. g = f
    BY <2>2, <2>6, FileFacts DEF OneClass
  <2> QED BY <1>1, <2>1, <2>4, <2>6, <2>7
<1> QED BY <1>2, <1>3

\* What is applied was had.
LEMMA AppliedKept ==
  ASSUME SyncTypes, TodoIsPlanned, AppliedWasHad, ~shifted => BaselineWasAgreed, [SyncNext]_syncVars
  PROVE  AppliedWasHad'
<1> USE DEF AppliedWasHad
<1>1. SUFFICES ASSUME ~shifted', pullPhase' = "applying" PROVE \A f \in applied' : TextOf(f)' \in hadFiles'
  BY <1>1
<1>2. ~shifted /\ hadFiles \subseteq hadFiles'
  BY <1>1, HistoriesGrow
<1>3. ASSUME pages' = pages PROVE \A f : TextOf(f)' = TextOf(f)
  BY <1>3 DEF TextOf, PageOf, Returned
<1>4. CASE pages' = pages /\ applied' = applied /\ pullPhase = "applying"
  BY <1>2, <1>3, <1>4
<1>5. CASE applied' = {}
  BY <1>5
<1>6. ASSUME NEW j \in todo, pullPhase = "applying", MakesJob(j)
      PROVE  \A f \in applied' : TextOf(f)' \in hadFiles'
  <2>1. Planned(j) /\ j.op \in {"rename", "write", "delete"} /\ j.file \in Files
    BY <1>6, JobFacts DEF TodoIsPlanned, SyncTypes
  <2>2. pages' = pages
    BY <1>6, <2>1, JobMade DEF reading
  <2>3. CASE j.op = "rename"
    <3>1. applied' = applied \cup {j.to}
      BY <1>6, <2>1, <2>3, JobMade
    <3>2. TextOf(j.to) = baseline[j.file].content /\ baseline[j.file] # NoEntry
      BY <2>1, <2>3 DEF Planned
    <3>3. TextOf(j.to) \in hadFiles
      BY <1>2, <2>1, <3>2 DEF BaselineWasAgreed
    <3> QED BY <1>2, <1>3, <1>6, <2>2, <3>1, <3>3
  <2>4. CASE j.op = "write"
    <3>1. applied' = applied \cup {j.file} /\ TextOf(j.file) \in hadFiles'
      BY <1>6, <2>1, <2>4, JobMade
    <3> QED BY <1>2, <1>3, <1>6, <2>2, <3>1
  <2>5. CASE j.op = "delete"
    <3>1. applied' = applied
      BY <1>6, <2>1, <2>5, JobMade
    <3> QED BY <1>2, <1>3, <1>6, <2>2, <3>1
  <2> QED BY <2>1, <2>3, <2>4, <2>5
<1>7. \/ pages' = pages /\ applied' = applied /\ pullPhase = "applying"
      \/ applied' = {}
      \/ \E j \in todo : pullPhase = "applying" /\ MakesJob(j)
  BY <1>1, SyncSteps DEF Ends, Idle, TurnsBack, Reads, BeginEmptyPull, BeginPull, ReadScript, Walk, UndoJob,
     BeginApply, CheckJob, SkipDelete, EditStudio, EditFile, reading, doing, syncVars, SyncTypes
<1> QED BY <1>4, <1>5, <1>6, <1>7

\* An entry that is written is of a text that script and file had.
LEMMA BaselineKept ==
  ASSUME OneClass, SyncTypes, TodoIsPlanned, AppliedIsMapped, HistoriesAreKept, PathsAreKept, HashesAreKnown,
         AppliedWasHad, ~shifted => BaselineWasAgreed, [SyncNext]_syncVars
  PROVE  ~shifted' => BaselineWasAgreed'
<1> SUFFICES ASSUME ~shifted' PROVE BaselineWasAgreed'
  OBVIOUS
<1> USE DEF BaselineWasAgreed
<1>1. ~shifted /\ BaselineWasAgreed
  BY HistoriesGrow
<1>2. \A f \in Files : f[1] \in Paths
  BY FileFacts
<1>3. CASE UNCHANGED baseline
  BY <1>1, <1>2, <1>3, HistoriesGrow
<1>4. CASE Commit
  <2> SUFFICES ASSUME NEW f \in Files, baseline'[f] # NoEntry
               PROVE  /\ baseline'[f].path = f[1] /\ baseline'[f].content = baseline'[f].hash
                      /\ baseline'[f].content \in hadStudio[f[1]] /\ baseline'[f].content \in hadFiles
    BY <1>4 DEF Commit, people
  <2>1. baseline'[f] \in {NoEntry, baseline[f]} \/ (f \in Synced /\ baseline'[f] = Entry(f))
    BY <1>4 DEF Commit
  <2>2. CASE baseline'[f] = baseline[f]
    BY <1>1, <2>2
  <2>3. CASE f \in Synced /\ baseline'[f] = Entry(f)
    <3>1. f \in Mapped /\ (Sent(f) \/ seen[f] = TextOf(f)) /\ TextOf(f) \in hadFiles
      <4>1. CASE f \in applied
        BY <1>1, <1>4, <4>1 DEF AppliedIsMapped, AppliedWasHad, Commit
      <4>2. CASE f \in InSync
        <5>1. seen[f] = TextOf(f) /\ f \in Mapped
          BY <1>1, <4>2, InSyncMeansEqual
        <5>2. seen[f] # Gone
          BY <5>1, MappedFacts, FileFacts
        <5> QED BY <5>1, <5>2 DEF HistoriesAreKept
      <4> QED BY <2>3, <4>1, <4>2 DEF Synced
    <3>2. PICK i \in Returned : i \in Scripts /\ PageOf(f) = pages[i] /\ pages[i].file = f
      BY <3>1, MappedFacts
    <3>3. PageOf(f).path = f[1] /\ TextOf(f) \in hadStudio[f[1]]
      BY <1>1, <3>2 DEF PathsAreKept, HistoriesAreKept, TextOf
    <3>4. Entry(f).content = TextOf(f) /\ Entry(f).hash = TextOf(f) /\ Entry(f).path = PageOf(f).path
      BY <3>1 DEF Entry
    <3> QED BY <2>3, <3>1, <3>3, <3>4
  <2> QED BY <2>1, <2>2, <2>3
<1> QED BY <1>3, <1>4, HistoriesGrow
-----------------------------------------------------------------------------
\* Every undo has a file of its own.
LEMMA UndoListIsShort ==
  SyncTypes /\ JobsAreApart => Len(rollback) <= Cardinality(Files)
<1> SUFFICES ASSUME SyncTypes, JobsAreApart PROVE Len(rollback) <= Cardinality(Files)
  OBVIOUS
<1> DEFINE n == Len(rollback)
           S == 1 .. n
           first == [i \in S |-> rollback[i].job.file]
<1>1. n \in Nat /\ DOMAIN rollback = S /\ \A i \in S : rollback[i] \in UndoRecords
  BY LenProperties, ElementOfSeq DEF SyncTypes, UndoLists
<1>2. IsFiniteSet(Files)
  BY FS_Product, SyncAssumption DEF Files
<1>3. IsFiniteSet(S) /\ Cardinality(S) = n
  BY <1>1, FS_Interval
<1>4. first \in [S -> Files]
  BY <1>1, UndoFacts
<1>5. \A i, k \in S : first[i] = first[k] => i = k
  BY <1>1 DEF JobsAreApart, Apart
<1>6. first \in Injection(S, Files)
  BY <1>4, <1>5 DEF Injection, IsInjective
<1> HIDE DEF first, S
<1>7. Cardinality(S) <= Cardinality(Files)
  BY <1>2, <1>6, FS_Injection
<1> QED BY <1>3, <1>7
-----------------------------------------------------------------------------
PullInv ==
  /\ SyncTypes /\ TodoIsPlanned /\ AppliedIsMapped /\ JobsAreApart /\ UndoIsReady
  /\ PlanStands /\ CheckStands /\ JobsStand
ReadInv ==
  /\ HistoriesAreKept /\ PathsAreKept /\ HashesAreKnown /\ AppliedWasHad
  /\ ~shifted => BaselineWasAgreed

LEMMA PullInvAtFirst == SyncInit => PullInv
<1> SUFFICES ASSUME SyncInit PROVE PullInv
  OBVIOUS
<1>1. SyncTypes
  BY TypesAtFirst
<1>2. /\ TodoIsPlanned /\ AppliedIsMapped /\ JobsAreApart /\ UndoIsReady
      /\ PlanStands /\ CheckStands /\ JobsStand
  BY DEF SyncInit, TodoIsPlanned, AppliedIsMapped, JobsAreApart, UndoIsReady, PlanStands, CheckStands,
         JobsStand, UndoPhases
<1> QED BY <1>1, <1>2 DEF PullInv

LEMMA PullInvKept == PullInv /\ [SyncNext]_syncVars => PullInv'
<1> SUFFICES ASSUME PullInv, [SyncNext]_syncVars PROVE PullInv'
  OBVIOUS
<1> USE DEF PullInv
<1>1. SyncTypes'
  BY TypesKept
<1>2. TodoIsPlanned' /\ AppliedIsMapped'
  BY PlanKept
<1>3. JobsAreApart'
  BY ApartKept
<1>4. UndoIsReady'
  BY UndoKept
<1>5. PlanStands' /\ CheckStands'
  BY StandsKept
<1>6. JobsStand'
  BY JobsStandKept
<1> QED BY <1>1, <1>2, <1>3, <1>4, <1>5, <1>6

LEMMA PullInvAlways == SyncSpec => []PullInv
BY PullInvAtFirst, PullInvKept, PTL DEF SyncSpec

LEMMA ReadInvAtFirst == SyncInit => ReadInv
<1> SUFFICES ASSUME SyncInit PROVE ReadInv
  OBVIOUS
<1>1. Returned = {} /\ HashesAreKnown
  BY DEF SyncInit, Returned, HashesAreKnown, NoPages, NoPage
<1>2. \A i \in Scripts : studio[i].text \in hadStudio[studio[i].file[1]]
  <2>1. \A i \in Scripts : studio[i].file \in Files /\ studio[i].file[1] \in Paths
    BY FileFacts DEF SyncInit
  <2> QED BY <2>1 DEF SyncInit, TextsAt
<1>3. HistoriesAreKept
  BY <1>1, <1>2 DEF SyncInit, HistoriesAreKept, NoFiles
<1>4. PathsAreKept /\ AppliedWasHad /\ BaselineWasAgreed
  BY <1>1 DEF SyncInit, PathsAreKept, AppliedWasHad, BaselineWasAgreed
<1> QED BY <1>1, <1>3, <1>4 DEF ReadInv

LEMMA ReadInvKept ==
  ASSUME OneClass
  PROVE  PullInv /\ PullInv' /\ ReadInv /\ [SyncNext]_syncVars => ReadInv'
<1> SUFFICES ASSUME PullInv, PullInv', ReadInv, [SyncNext]_syncVars PROVE ReadInv'
  OBVIOUS
<1>1. HistoriesAreKept'
  BY HistoriesKept DEF PullInv, ReadInv
<1>2. PathsAreKept'
  BY PathsKept DEF PullInv, ReadInv
<1>3. HashesAreKnown'
  BY HashesKept DEF PullInv, ReadInv
<1>4. AppliedWasHad'
  BY AppliedKept DEF PullInv, ReadInv
<1>5. ~shifted' => BaselineWasAgreed'
  BY BaselineKept DEF PullInv, ReadInv
<1> QED BY <1>1, <1>2, <1>3, <1>4, <1>5 DEF ReadInv

\* The variables of a pull have the values their declarations promise, and an undo
\* list has at most one entry for each file.
THEOREM SyncTypesAreKept == SyncSpec => []SyncTypeOK
<1>1. PullInv => SyncTypeOK
  <2> SUFFICES ASSUME PullInv PROVE SyncTypeOK
    OBVIOUS
  <2>1. SyncTypes /\ Len(rollback) <= Cardinality(Files)
    BY UndoListIsShort DEF PullInv
  <2>2. \A i \in Scripts : pages[i].file = Gone \/ pages[i].file \in Files
    BY <2>1 DEF SyncTypes, PageRecords
  <2> QED BY <2>1, <2>2 DEF SyncTypes, SyncTypeOK, PullPhases, FileTexts, ScriptRecords, EntryRecords
<1> QED BY <1>1, PullInvAlways, PTL

\* rojo_syncback_apply compares with texts that were there: when every path has one
\* class, and until somebody moves a script while its page is awaited, a baseline is
\* one that a script at this path and a file both have had, and a file that counts as
\* in sync has the text of its script.
THEOREM BaselinesAreAgreed == OneClass => (SyncSpec => []BaselineIsAgreed)
<1> SUFFICES ASSUME OneClass PROVE SyncSpec => []BaselineIsAgreed
  OBVIOUS
<1>1. SyncSpec => []ReadInv
  BY ReadInvAtFirst, ReadInvKept, PullInvAlways, PTL DEF SyncSpec
<1>2. PullInv /\ ReadInv => BaselineIsAgreed
  BY InSyncMeansEqual DEF PullInv, ReadInv, BaselineIsAgreed, InSyncIsEqual
<1> QED BY <1>1, <1>2, PullInvAlways, PTL

\* A pull that fails and can undo its jobs leaves the files as its plan found them,
\* however many jobs were made and whichever it was that failed.
THEOREM FailedPullsRestore == SyncSpec => []FailedPullRestores
<1>1. PullInv => FailedPullRestores
  <2> SUFFICES ASSUME PullInv, pullPhase = "undone", ~raced, ~unwritable PROVE files = seen
    BY DEF FailedPullRestores
  <2>1. rollback = <<>> /\ \A f \in Files : Untouched(f) => files[f] = seen[f]
    BY DEF PullInv, UndoIsReady, UndoPhases
  <2>2. \A f \in Files : files[f] = seen[f]
    BY <2>1 DEF Untouched
  <2> QED BY <2>2 DEF PullInv, SyncTypes
<1> QED BY <1>1, PullInvAlways, PTL

\* What a step of a pull may do to a file that is there.
KeepsEditsStep ==
  \A f \in Files :
       tally' = tally /\ files'[f] # files[f] /\ files[f] # Gone /\ f \notin late
       => \/ /\ pullPhase = "applying"
             /\ files[f] = seen[f] /\ files[f] = baseline[f].content
             /\ <<f, files[f]>> \in backups \/ \E g \in Files : files'[g] = files[f]
          \/ /\ pullPhase = "undoing" /\ f \in applied
             /\ files[f] = TextOf(f) \/ \E g \in Files : files'[g] = files[f]

\* Of a file that nobody has changed since the pull last looked at it, applying takes
\* only the text of the last sync, and leaves a copy of it; undoing takes only what
\* this pull put there.
THEOREM EditsAreKept == SyncSpec => PullKeepsEdits
<1>1. PullInv /\ [SyncNext]_syncVars => [KeepsEditsStep]_syncVars
  <2> SUFFICES ASSUME PullInv, SyncNext, NEW f \in Files,
                      tally' = tally, files'[f] # files[f], files[f] # Gone, f \notin late
               PROVE  \/ /\ pullPhase = "applying"
                         /\ files[f] = seen[f] /\ files[f] = baseline[f].content
                         /\ <<f, files[f]>> \in backups \/ \E g \in Files : files'[g] = files[f]
                      \/ /\ pullPhase = "undoing" /\ f \in applied
                         /\ files[f] = TextOf(f) \/ \E g \in Files : files'[g] = files[f]
    BY DEF KeepsEditsStep
  <2> USE DEF PullInv
  <2>1. UndoJob \/ \E j \in todo : pullPhase = "applying" /\ MakesJob(j)
    <3>1. \A g \in Files, t \in FileTexts : EditFile(g, t) => tally'.files = tally.files + 1
      BY DEF EditFile, SyncTypes
    <3>2. tally.files + 1 # tally.files
      BY DEF SyncTypes
    <3> QED BY <3>1, <3>2, SyncSteps DEF Ends, TurnsBack, Reads, BeginEmptyPull, BeginPull, ReadScript, Walk,
          BeginApply, CheckJob, SkipDelete, EditStudio
  <2>2. CASE UndoJob
    <3> PICK n \in Nat, u \in UndoRecords :
           /\ DOMAIN rollback = 1 .. n + 1 /\ u = rollback[n + 1]
           /\ (~Vanished(u) /\ files' = Undone(u)) \/ files' = files
      BY <2>2, JobUndone
    <3>1. n + 1 \in DOMAIN rollback /\ pullPhase = "undoing" /\ files' = Undone(u)
      BY <2>2 DEF UndoJob
    <3>2. /\ u.job.file \in Files /\ u.job.to \in Files /\ Left(u, files, late, applied, TextsRead)
          /\ u.job.op \in {"rename", "write", "delete"} /\ (u.job.op = "rename" <=> u.job.file # u.job.to)
      BY <3>1, UndoFacts DEF JobsStand, JobsAreApart
    <3>3. CASE u.job.op = "rename"
      <4>1. f = u.job.to \/ f = u.job.file
        BY <3>1, <3>2, <3>3 DEF Undone, SyncTypes
      <4>2. f # u.job.file /\ u.job.to \in applied
        BY <3>2, <3>3 DEF Left
      <4>3. files'[u.job.file] = files[u.job.to]
        BY <3>1, <3>2, <3>3 DEF Undone, SyncTypes
      <4> QED BY <3>1, <3>2, <4>1, <4>2, <4>3
    <3>4. CASE u.job.op # "rename"
      <4>1. f = u.job.file /\ files[f] # u.text
        BY <3>1, <3>2, <3>4 DEF Undone, SyncTypes
      <4>2. f \in applied /\ files[f] = TextsRead[f]
        BY <3>2, <3>4, <4>1 DEF Left
      <4> QED BY <3>1, <4>2 DEF TextsRead
    <3> QED BY <3>3, <3>4
  <2>3. ASSUME NEW j \in todo, pullPhase = "applying", MakesJob(j)
        PROVE  /\ files[f] = seen[f] /\ files[f] = baseline[f].content
               /\ <<f, files[f]>> \in backups \/ \E g \in Files : files'[g] = files[f]
    <3>1. Planned(j) /\ j.file \in Files /\ j.to \in Files /\ j.op \in {"rename", "write", "delete"}
      BY <2>3, JobFacts DEF TodoIsPlanned, SyncTypes
    <3>2. /\ j \in checked /\ f \in {j.file, j.to}
          /\ j.op = "rename" => files'[j.to] = files[j.file]
          /\ j.op # "rename" => j.to = j.file
      BY <2>3, <3>1, JobMade
    <3>3. CASE j.op = "rename"
      <4>1. \A i \in DOMAIN rollback : Apart(j, rollback[i].job)
        BY <2>3, <3>3 DEF JobsAreApart
      <4>2. Untouched(j.file) /\ Untouched(j.to)
        BY <4>1 DEF Untouched, Touched, Apart
      <4>3. files[f] = seen[f]
        BY <2>3, <3>2, <4>2 DEF PlanStands
      <4>4. f = j.file
        BY <3>1, <3>2, <3>3, <4>3 DEF Planned
      <4> QED BY <3>1, <3>2, <3>3, <4>3, <4>4 DEF Planned
    <3>4. CASE j.op # "rename"
      <4>1. f = j.file /\ files[f] = seen[f] /\ <<f, files[f]>> \in backups
        BY <2>3, <3>2, <3>4 DEF CheckStands
      <4> QED BY <3>1, <3>4, <4>1 DEF Planned
    <3> QED BY <3>3, <3>4
  <2> QED BY <2>1, <2>2, <2>3
<1>2. SyncSpec => [][KeepsEditsStep]_syncVars
  BY <1>1, PullInvAlways, PTL DEF SyncSpec
<1> QED BY <1>2 DEF PullKeepsEdits, KeepsEditsStep

-----------------------------------------------------------------------------
\* An edit that writes a field of an instance with a value of that field.
Attributes == Plain \cup Rich \cup {AsText, Unset}
ValuesOf(f) == IF f = "Name" THEN Names ELSE IF f = "attribute" THEN Attributes ELSE BOOLEAN
AnyEdits == [target : Names, field : Fields, value : Names \cup Attributes \cup BOOLEAN,
             expected : {Unchecked, Unset}]
WellValued(op) == op \in AnyEdits /\ op.value \in ValuesOf(op.field)

PlaceValues == [1 .. Children -> Instances]

\* The parts of the program's state by the step it has reached.
PlanTypes ==
  /\ place \in PlaceValues /\ before \in PlaceValues
  /\ plan \in Seq(Edits) /\ undo \in Seq(AnyEdits)
  /\ \A k \in 1 .. Len(undo) : WellValued(undo[k])
  /\ planPhase \in {"asked", "conflict", "editing", "undoing", "applied", "rolledBack"}
  /\ atomic \in BOOLEAN /\ index \in Nat /\ unrestored \in Nat
  /\ made \subseteq 1 .. Len(plan)

PhasesAreKept ==
  /\ planPhase \in {"asked", "conflict"} =>
       index = 1 /\ made = {} /\ undo = <<>> /\ unrestored = 0 /\ place = before
  /\ planPhase = "editing" =>
       /\ index \in 1 .. Len(plan) + 1 /\ Len(undo) < index /\ unrestored = 0
       /\ \A k \in made : k < index
  /\ planPhase = "applied" => index = Len(undo) /\ unrestored = 0
  /\ planPhase = "undoing" => unrestored + index <= Len(undo)
  /\ planPhase = "rolledBack" => index = 0 /\ unrestored <= Len(undo)
  /\ planPhase \in {"undoing", "rolledBack"} => made # DOMAIN plan
  /\ planPhase \in {"undoing", "applied", "rolledBack"} => Len(undo) <= Len(plan)

NamesLeftAlone == \A k \in DOMAIN plan : plan[k].field # "Name"
Target(t) == \E k \in DOMAIN plan : plan[k].target = t

\* Names are unique before the plan and stay if no edit writes one.  If renames are
\* fresh, an instance that goes by a name an edit goes by has had it all along, and
\* nothing goes by the old name of a renamed one.
NamesStay ==
  /\ \A i, j \in 1 .. Children : before[i].Name = before[j].Name => i = j
  /\ NamesLeftAlone => \A i \in 1 .. Children : place[i].Name = before[i].Name

OldNamesGo ==
  RenamesAreFresh /\ planPhase \in {"editing", "undoing"} =>
    /\ \A i \in 1 .. Children : Target(place[i].Name) => place[i].Name = before[i].Name
    /\ \A k \in 1 .. Len(undo) : undo[k].field = "Name" =>
         \A i \in 1 .. Children : place[i].Name # undo[k].target

\* An entry of the undo list takes back an edit that was made.
EntriesAreOfEdits ==
  \A k \in 1 .. Len(undo) : \E j \in made : undo[k].target = plan[j].target /\ undo[k].field = plan[j].field

\* h leads from before, edit by edit, to the place p; each undo entry goes a step back,
\* up to what it makes of a value.
Back(b, f, v) == b.value = oldValue(f, v)
StepsBack(p, b, q) ==
  \A i \in 1 .. Children : p[i].Name = b.target =>
    /\ Back(b, b.field, q[i][b.field])
    /\ \A f \in Fields \ {b.field} : q[i][f] = p[i][f]
    /\ \A j \in 1 .. Children : j # i => q[j] = p[j]
LeadsTo(h, n, p) ==
  /\ h[0] = before /\ AsSerialized(p, h[n])
  /\ \A k \in 1 .. n : StepsBack(h[k], undo[k], h[k - 1])

UndoLeadsBack ==
  /\ planPhase = "editing" /\ RenamesAreFresh
       => \E h \in [0 .. Len(undo) -> PlaceValues] : LeadsTo(h, Len(undo), place) /\ h[Len(undo)] = place
  /\ planPhase = "undoing" /\ RenamesAreFresh /\ unrestored = 0
       => \E h \in [0 .. index -> PlaceValues] : LeadsTo(h, index, place)
  /\ planPhase = "rolledBack" /\ RenamesAreFresh /\ unrestored = 0 => AsSerialized(place, before)
  /\ planPhase \in {"editing", "applied"} /\ made = {} => place = before

\* The undo list of a plan that writes no field twice has the old value of every
\* field it writes, once.
OneWriteEach ==
  \A j, k \in DOMAIN plan : plan[j].target = plan[k].target /\ plan[j].field = plan[k].field => j = k

About(k, i, f) == undo[k].target = before[i].Name /\ undo[k].field = f

OldValues ==
  /\ \A k \in 1 .. Len(undo), i \in 1 .. Children :
       undo[k].target = before[i].Name => Back(undo[k], undo[k].field, before[i][undo[k].field])
  /\ \A k, l \in 1 .. Len(undo) :
       undo[k].target = undo[l].target /\ undo[k].field = undo[l].field => k = l

UndoHasOldValues ==
  planPhase \in {"editing", "applied"} /\ NamesLeftAlone =>
    /\ \A i \in 1 .. Children, f \in Fields :
         place[i][f] # before[i][f] => \E k \in 1 .. Len(undo) : About(k, i, f)
    /\ OneWriteEach => OldValues

PlanInv == PlanTypes /\ PhasesAreKept
ReceiptInv == PlanInv /\ NamesStay /\ OldNamesGo /\ EntriesAreOfEdits
              /\ UndoLeadsBack /\ UndoHasOldValues

\* The value of a field of an instance, and what an edit does to it.
LEMMA InstanceFields ==
  ASSUME NEW r \in Instances
  PROVE  /\ \A f \in Fields : r[f] \in ValuesOf(f)
         /\ \A s \in Instances : (\A f \in Fields : r[f] = s[f]) => r = s
<1>1. \A q \in Instances : /\ q = [Name |-> q["Name"], attribute |-> q["attribute"], tag |-> q["tag"]]
                           /\ q["Name"] \in Names /\ q["attribute"] \in Attributes /\ q["tag"] \in BOOLEAN
  BY DEF Instances, Attributes
<1>2. \A f \in Fields : r[f] \in ValuesOf(f)
  <2>1. CASE TRUE
    <3>1. r["Name"] \in ValuesOf("Name") /\ r["attribute"] \in ValuesOf("attribute") /\ r["tag"] \in ValuesOf("tag")
      BY <1>1 DEF ValuesOf
    <3> QED BY <3>1 DEF Fields
  <2> QED BY <2>1
<1>3. ASSUME NEW s \in Instances, \A f \in Fields : r[f] = s[f] PROVE r = s
  <2>1. r["Name"] = s["Name"] /\ r["attribute"] = s["attribute"] /\ r["tag"] = s["tag"]
    BY <1>3 DEF Fields
  <2> QED BY <1>1, <2>1
<1> QED BY <1>2, <1>3

\* What an edit makes of a place: one field of one instance, and places still.
WrittenOnly(p, i, op, q) ==
  /\ q \in PlaceValues
  /\ q[i][op.field] = op.value
  /\ \A f \in Fields \ {op.field} : q[i][f] = p[i][f]
  /\ \A j \in 1 .. Children : j # i => q[j] = p[j]

LEMMA WrittenFacts ==
  ASSUME NEW p \in PlaceValues, NEW i \in 1 .. Children, NEW op, WellValued(op)
  PROVE  WrittenOnly(p, i, op, Written(p, i, op))
<1> DEFINE q == Written(p, i, op)
<1> DEFINE r == [p[i] EXCEPT ![op.field] = op.value]
<1>1. op.field \in Fields /\ op.value \in ValuesOf(op.field)
  BY DEF WellValued, AnyEdits
<1>2. p[i] \in Instances
  BY DEF PlaceValues
<1>3. /\ p[i] = [Name |-> p[i]["Name"], attribute |-> p[i]["attribute"], tag |-> p[i]["tag"]]
      /\ p[i]["Name"] \in Names /\ p[i]["attribute"] \in Attributes /\ p[i]["tag"] \in BOOLEAN
  BY <1>2 DEF Instances, Attributes
<1>4. r \in Instances /\ r[op.field] = op.value /\ \A f \in Fields \ {op.field} : r[f] = p[i][f]
  <2>1. CASE op.field = "Name"
    <3>1. r = [Name |-> op.value, attribute |-> p[i]["attribute"], tag |-> p[i]["tag"]]
      BY <1>3, <2>1
    <3>2. op.value \in Names
      BY <1>1, <2>1 DEF ValuesOf
    <3> HIDE DEF r
    <3> QED BY <1>3, <2>1, <3>1, <3>2 DEF Instances, Attributes, Fields
  <2>2. CASE op.field = "attribute"
    <3>1. r = [Name |-> p[i]["Name"], attribute |-> op.value, tag |-> p[i]["tag"]]
      BY <1>3, <2>2
    <3>2. op.value \in Attributes
      BY <1>1, <2>2 DEF ValuesOf
    <3> HIDE DEF r
    <3> QED BY <1>3, <2>2, <3>1, <3>2 DEF Instances, Attributes, Fields
  <2>3. CASE op.field = "tag"
    <3>1. r = [Name |-> p[i]["Name"], attribute |-> p[i]["attribute"], tag |-> op.value]
      BY <1>3, <2>3
    <3>2. op.value \in BOOLEAN
      BY <1>1, <2>3 DEF ValuesOf
    <3> HIDE DEF r
    <3> QED BY <1>3, <2>3, <3>1, <3>2 DEF Instances, Attributes, Fields
  <2> QED BY <1>1, <2>1, <2>2, <2>3 DEF Fields
<1>5. q = [p EXCEPT ![i] = r]
  BY DEF Written
<1>6. q \in PlaceValues /\ q[i] = r /\ \A j \in 1 .. Children : j # i => q[j] = p[j]
  <2> HIDE DEF q, r
  <2> QED BY <1>4, <1>5 DEF PlaceValues
<1> HIDE DEF q, r
<1>7. WrittenOnly(p, i, op, q)
  BY <1>4, <1>6 DEF WrittenOnly
<1> QED BY <1>7 DEF q

\* PlaceValues that agree in every field are one.
LEMMA SamePlace ==
  ASSUME NEW p \in PlaceValues, NEW q \in PlaceValues,
         \A i \in 1 .. Children, f \in Fields : p[i][f] = q[i][f]
  PROVE  p = q
<1>1. ASSUME NEW i \in 1 .. Children PROVE p[i] = q[i]
  <2>1. p[i] \in Instances /\ q[i] \in Instances
    BY DEF PlaceValues
  <2>2. \A f \in Fields : p[i][f] = q[i][f]
    OBVIOUS
  <2> QED BY <2>1, <2>2, InstanceFields
<1>2. p = [i \in 1 .. Children |-> p[i]] /\ q = [i \in 1 .. Children |-> q[i]]
  BY DEF PlaceValues
<1> QED BY <1>1, <1>2

\* An edit of a plan is an edit.
LEMMA EditFacts ==
  ASSUME NEW op \in Edits
  PROVE  WellValued(op)
<1>1. PICK f \in Fields : op \in [target : Names, field : {f}, value : Writable(f), expected : {Unchecked, Unset}]
  BY DEF Edits
<1>2. op.field = f /\ op.value \in Writable(f) /\ op.target \in Names /\ op.expected \in {Unchecked, Unset}
      /\ op = [target |-> op.target, field |-> op.field, value |-> op.value, expected |-> op.expected]
  BY <1>1
<1>3. CASE f = "Name"
  <2>2. op.value \in Names
    BY <1>2, <1>3 DEF Writable
  <2>3. op \in AnyEdits
    BY <1>2, <2>2 DEF AnyEdits
  <2> QED BY <1>2, <1>3, <2>2, <2>3 DEF WellValued, ValuesOf
<1>4. CASE f = "attribute"
  <2>1. op.value \in Plain
    BY <1>2, <1>4 DEF Writable
  <2>2. op \in AnyEdits
    BY <1>2, <2>1 DEF AnyEdits, Attributes
  <2> QED BY <1>2, <1>4, <2>1, <2>2 DEF WellValued, ValuesOf, Attributes
<1>5. CASE f = "tag"
  <2>1. op.value \in BOOLEAN
    BY <1>2, <1>5 DEF Writable
  <2>2. op \in AnyEdits
    BY <1>2, <2>1 DEF AnyEdits
  <2> QED BY <1>2, <1>5, <2>1, <2>2 DEF WellValued, ValuesOf
<1> QED BY <1>3, <1>4, <1>5 DEF Fields

\* What takes an edit back writes the value of now in the field.
LEMMA TakebackFacts ==
  ASSUME place \in PlaceValues, NEW op \in Edits, NEW i \in 1 .. Children
  PROVE  \/ Takeback(op, i) = <<>> /\ op.field = "tag" /\ place[i]["tag"] = op.value
         \/ \E b : /\ Takeback(op, i) = <<b>> /\ WellValued(b)
                   /\ b.target = op.target /\ b.field = op.field
                   /\ b.value = oldValue(op.field, place[i][op.field])
<1> DEFINE b == [op EXCEPT !.value = oldValue(op.field, place[i][op.field]), !.expected = Unchecked]
<1>1. WellValued(op) /\ op \in AnyEdits /\ op.field \in Fields
  BY EditFacts DEF WellValued, AnyEdits
<1>2. place[i] \in Instances
  BY DEF PlaceValues
<1>3. oldValue(op.field, place[i][op.field]) \in ValuesOf(op.field)
  <2>1. place[i][op.field] \in ValuesOf(op.field)
    BY <1>1, <1>2, InstanceFields
  <2> QED BY <1>1, <2>1, PlanAssumption DEF oldValue, ser, ValuesOf, Attributes, Fields
<1>4. b = [target |-> op.target, field |-> op.field, value |-> oldValue(op.field, place[i][op.field]), expected |-> Unchecked]
  <2>1. op = [target |-> op.target, field |-> op.field, value |-> op.value, expected |-> op.expected]
    BY <1>1 DEF AnyEdits
  <2>2. \A v : [op EXCEPT !.value = v]
               = [target |-> op.target, field |-> op.field, value |-> v, expected |-> op.expected]
    BY <2>1
  <2>3. PICK v : v = oldValue(op.field, place[i][op.field])
    OBVIOUS
  <2>4. [op EXCEPT !.value = v, !.expected = Unchecked]
        = [target |-> op.target, field |-> op.field, value |-> v, expected |-> Unchecked]
    <3> DEFINE c == [op EXCEPT !.value = v]
    <3>1. c = [target |-> op.target, field |-> op.field, value |-> v, expected |-> op.expected]
      BY <2>2
    <3>2. [op EXCEPT !.value = v, !.expected = Unchecked] = [c EXCEPT !.expected = Unchecked]
      OBVIOUS
    <3> HIDE DEF c
    <3>3. c.target = op.target /\ c.field = op.field /\ c.value = v
      BY <3>1
    <3>4. [c EXCEPT !.expected = Unchecked]
          = [target |-> c.target, field |-> c.field, value |-> c.value, expected |-> Unchecked]
      BY <3>1
    <3> QED BY <3>2, <3>3, <3>4
  <2> QED BY <2>3, <2>4
<1>5. /\ b.target = op.target /\ b.field = op.field /\ b.value = oldValue(op.field, place[i][op.field])
      /\ b.expected = Unchecked
  <2> HIDE DEF b
  <2> QED BY <1>4
<1>6. op.target \in Names
  BY <1>1 DEF AnyEdits
<1>7. WellValued(b)
  <2>1. oldValue(op.field, place[i][op.field]) \in Names \cup Attributes \cup BOOLEAN
    BY <1>3 DEF ValuesOf
  <2>2. b \in AnyEdits
    <3> HIDE DEF b
    <3> QED BY <1>1, <1>4, <1>6, <2>1 DEF AnyEdits
  <2> HIDE DEF b
  <2> QED BY <1>3, <1>5, <2>2 DEF WellValued
<1>8. CASE op.field = "tag" /\ place[i].tag = op.value
  BY <1>8 DEF Takeback
<1>9. CASE ~ (op.field = "tag" /\ place[i].tag = op.value)
  <2>1. Takeback(op, i) = <<b>>
    BY <1>9 DEF Takeback
  <2> HIDE DEF b
  <2> QED BY <1>5, <1>7, <2>1
<1> QED BY <1>8, <1>9

\* The plan's edits and the undo list as sequences.
LEMMA PlanSequences ==
  ASSUME PlanTypes
  PROVE  /\ Len(plan) \in Nat /\ Len(undo) \in Nat
         /\ DOMAIN plan = 1 .. Len(plan) /\ DOMAIN undo = 1 .. Len(undo)
         /\ \A k \in 1 .. Len(plan) : plan[k] \in Edits
         /\ \A k \in 1 .. Len(undo) : undo[k] \in AnyEdits /\ WellValued(undo[k])
<1>1. plan \in Seq(Edits) /\ undo \in Seq(AnyEdits) /\ \A k \in 1 .. Len(undo) : WellValued(undo[k])
  BY DEF PlanTypes
<1> QED BY <1>1, LenProperties, ElementOfSeq

\* The undo list has one more entry, b.
Longer(b) ==
  /\ undo' \in Seq(AnyEdits) /\ Len(undo') = Len(undo) + 1
  /\ \A k \in 1 .. Len(undo) : undo'[k] = undo[k]
  /\ undo'[Len(undo) + 1] = b

\* An edit that succeeds: what it writes and what the undo list has for it.
MadeFacts(i, op) ==
  /\ planPhase = "editing" /\ index \in 1 .. Len(plan) /\ op = plan[index]
  /\ op \in Edits /\ WellValued(op)
  /\ place[i].Name = op.target
  /\ WrittenOnly(place, i, op, place')
  /\ \/ undo' = undo /\ place' = place
     \/ \E b : /\ Longer(b) /\ WellValued(b) /\ b.target = op.target /\ b.field = op.field
               /\ b.value = oldValue(op.field, place[i][op.field])
  /\ made' = made \cup {index} /\ index' = index + 1
  /\ UNCHANGED <<before, plan, atomic, planPhase, unrestored>>

LEMMA MadeEdit ==
  ASSUME PlanInv, NEW i \in 1 .. Children, MakeEdit(i)
  PROVE  MadeFacts(i, plan[index])
<1> DEFINE op == plan[index]
<1>0. PlanTypes /\ PhasesAreKept
  BY DEF PlanInv
<1>1. /\ planPhase = "editing" /\ index <= Len(plan) /\ i \in resolvePath(op.target)
      /\ place' = Written(place, i, op) /\ undo' = undo \o Takeback(op, i)
      /\ made' = made \cup {index} /\ index' = index + 1
      /\ UNCHANGED <<before, plan, atomic, planPhase, unrestored>>
  BY DEF MakeEdit
<1>2. index \in 1 .. Len(plan) /\ op \in Edits
  BY <1>0, <1>1, PlanSequences DEF PhasesAreKept
<1>3. WellValued(op) /\ place \in PlaceValues /\ place[i].Name = op.target
  BY <1>0, <1>1, <1>2, EditFacts DEF PlanTypes, resolvePath
<1> HIDE DEF op
<1>4. WrittenOnly(place, i, op, place')
  <2>1. WrittenOnly(place, i, op, Written(place, i, op))
    BY <1>3, WrittenFacts
  <2> QED BY <1>1, <2>1
<1>5. CASE Takeback(op, i) = <<>> /\ op.field = "tag" /\ place[i]["tag"] = op.value
  <2>1. undo' = undo
    BY <1>0, <1>1, <1>5, ConcatEmptySeq DEF PlanTypes
  <2>2. place' = place
    <3>1. place' \in PlaceValues /\ place'[i]["tag"] = place[i]["tag"]
          /\ (\A f \in Fields \ {"tag"} : place'[i][f] = place[i][f])
          /\ (\A j \in 1 .. Children : j # i => place'[j] = place[j])
      BY <1>4, <1>5 DEF WrittenOnly
    <3>2. \A j \in 1 .. Children, f \in Fields : place'[j][f] = place[j][f]
      BY <3>1
    <3> QED BY <1>3, <3>1, <3>2, SamePlace
  <2> QED BY <1>1, <1>2, <1>3, <1>4, <2>1, <2>2 DEF MadeFacts, op
<1>6. ASSUME NEW b, Takeback(op, i) = <<b>>, WellValued(b), b.target = op.target, b.field = op.field,
             b.value = oldValue(op.field, place[i][op.field])
      PROVE  MadeFacts(i, plan[index])
  <2>1. undo \in Seq(AnyEdits) /\ b \in AnyEdits
    BY <1>0, <1>6 DEF PlanTypes, WellValued
  <2>2. undo' = Append(undo, b)
    BY <1>1, <1>6, <2>1, AppendIsConcat
  <2>3. Longer(b)
    BY <2>1, <2>2, AppendProperties DEF Longer
  <2>4. \E c : /\ Longer(c) /\ WellValued(c) /\ c.target = op.target /\ c.field = op.field
               /\ c.value = oldValue(op.field, place[i][op.field])
    BY <1>6, <2>3
  <2> QED BY <1>1, <1>2, <1>3, <1>4, <2>4 DEF MadeFacts, op
<1>7. \/ Takeback(op, i) = <<>> /\ op.field = "tag" /\ place[i]["tag"] = op.value
      \/ \E b : /\ Takeback(op, i) = <<b>> /\ WellValued(b)
                /\ b.target = op.target /\ b.field = op.field
                /\ b.value = oldValue(op.field, place[i][op.field])
  BY <1>2, <1>3, TakebackFacts DEF op
<1> QED BY <1>5, <1>6, <1>7

\* An undo entry whose target is there.
LEMMA Restored ==
  ASSUME PlanInv, NEW i \in 1 .. Children, Restore(i)
  PROVE  /\ planPhase = "undoing" /\ index \in 1 .. Len(undo)
         /\ WellValued(undo[index]) /\ place[i].Name = undo[index].target
         /\ place' = Written(place, i, undo[index])
         /\ WrittenOnly(place, i, undo[index], place')
         /\ index' = index - 1
         /\ UNCHANGED <<before, plan, atomic, planPhase, made, undo, unrestored>>
<1>0. PlanTypes /\ PhasesAreKept
  BY DEF PlanInv
<1>1. /\ planPhase = "undoing" /\ index > 0 /\ i \in resolvePath(undo[index].target)
      /\ place' = Written(place, i, undo[index]) /\ index' = index - 1
      /\ UNCHANGED <<before, plan, atomic, planPhase, made, undo, unrestored>>
  BY DEF Restore
<1>2. index \in 1 .. Len(undo)
  BY <1>0, <1>1, PlanSequences DEF PhasesAreKept, PlanTypes
<1>3. WellValued(undo[index]) /\ place \in PlaceValues /\ place[i].Name = undo[index].target
  BY <1>0, <1>1, <1>2 DEF PlanTypes, resolvePath
<1>4. WrittenOnly(place, i, undo[index], Written(place, i, undo[index]))
  BY <1>3, WrittenFacts
<1> QED BY <1>1, <1>2, <1>3, <1>4

LEMMA InitPlanInv == PlanInit => PlanInv
<1> SUFFICES ASSUME PlanInit PROVE PlanInv
  OBVIOUS
<1>1. /\ place \in PlaceValues /\ before = place /\ plan = <<>> /\ undo = <<>> /\ made = {}
      /\ atomic \in BOOLEAN /\ planPhase = "asked" /\ index = 1 /\ unrestored = 0
  <2>1. place \in [1 .. Children -> {r \in Instances : r.attribute # AsText}]
    BY DEF PlanInit
  <2>2. place \in PlaceValues
    BY <2>1 DEF PlaceValues
  <2> QED BY <2>2 DEF PlanInit
<1>2. plan \in Seq(Edits) /\ undo \in Seq(AnyEdits) /\ Len(undo) = 0
  BY <1>1, EmptySeq
<1>3. PlanTypes
  BY <1>1, <1>2 DEF PlanTypes
<1>4. PhasesAreKept
  BY <1>1 DEF PhasesAreKept
<1> QED BY <1>3, <1>4 DEF PlanInv

LEMMA StepPlanInv == PlanInv /\ [PlanNext]_planVars => PlanInv'
<1> SUFFICES ASSUME PlanInv, [PlanNext]_planVars PROVE PlanInv'
  OBVIOUS
<1>0. PlanTypes /\ PhasesAreKept
  BY DEF PlanInv
<1>a. /\ Len(plan) \in Nat /\ Len(undo) \in Nat
      /\ DOMAIN plan = 1 .. Len(plan) /\ DOMAIN undo = 1 .. Len(undo)
  BY <1>0, PlanSequences
<1>b. /\ place \in PlaceValues /\ before \in PlaceValues /\ plan \in Seq(Edits) /\ undo \in Seq(AnyEdits)
      /\ \A k \in 1 .. Len(undo) : WellValued(undo[k])
      /\ planPhase \in {"asked", "conflict", "editing", "undoing", "applied", "rolledBack"}
      /\ atomic \in BOOLEAN /\ index \in Nat /\ unrestored \in Nat
      /\ made \subseteq 1 .. Len(plan)
  BY <1>0 DEF PlanTypes
<1>1. ASSUME NEW op \in Edits, AddEdit(op) PROVE PlanInv'
  <2>1. /\ planPhase = "asked" /\ plan' = Append(plan, op)
        /\ UNCHANGED <<place, before, atomic, planPhase, index, made, undo, unrestored>>
    BY <1>1 DEF AddEdit
  <2>2. plan' \in Seq(Edits) /\ Len(plan') = Len(plan) + 1
    BY <1>b, <2>1, AppendProperties
  <2>3. made' = {}
    BY <1>0, <2>1 DEF PhasesAreKept
  <2>4. PlanTypes'
    BY <1>b, <2>1, <2>2, <2>3 DEF PlanTypes
  <2>5. PhasesAreKept'
    BY <1>0, <2>1 DEF PhasesAreKept
  <2> QED BY <2>4, <2>5 DEF PlanInv
<1>2. CASE CheckEdits
  <2>1. /\ planPhase = "asked" /\ planPhase' \in {"conflict", "editing"}
        /\ UNCHANGED <<place, before, plan, atomic, index, made, undo, unrestored>>
    BY <1>2 DEF CheckEdits
  <2>2. index = 1 /\ made = {} /\ undo = <<>> /\ Len(undo) = 0 /\ unrestored = 0 /\ place = before
    BY <1>0, <2>1 DEF PhasesAreKept
  <2>3. PlanTypes'
    BY <1>b, <2>1 DEF PlanTypes
  <2>4. PhasesAreKept'
    BY <1>a, <2>1, <2>2 DEF PhasesAreKept
  <2> QED BY <2>3, <2>4 DEF PlanInv
<1>3. ASSUME NEW i \in 1 .. Children, MakeEdit(i) PROVE PlanInv'
  <2>1. MadeFacts(i, plan[index])
    BY <1>3, MadeEdit
  <2>2. /\ planPhase = "editing" /\ index \in 1 .. Len(plan) /\ place' \in PlaceValues
        /\ made' = made \cup {index} /\ index' = index + 1
        /\ UNCHANGED <<before, plan, atomic, planPhase, unrestored>>
    BY <2>1 DEF MadeFacts, WrittenOnly
  <2>3. /\ undo' \in Seq(AnyEdits) /\ Len(undo') \in Nat /\ Len(undo') <= Len(undo) + 1
        /\ \A k \in 1 .. Len(undo') : WellValued(undo'[k])
    <3>1. CASE undo' = undo
      BY <1>a, <1>b, <3>1
    <3>2. ASSUME NEW b, Longer(b), WellValued(b)
          PROVE  /\ undo' \in Seq(AnyEdits) /\ Len(undo') \in Nat /\ Len(undo') <= Len(undo) + 1
                 /\ \A k \in 1 .. Len(undo') : WellValued(undo'[k])
      <4>1. /\ undo' \in Seq(AnyEdits) /\ Len(undo') = Len(undo) + 1
            /\ \A k \in 1 .. Len(undo) : undo'[k] = undo[k]
            /\ undo'[Len(undo) + 1] = b
        BY <3>2 DEF Longer
      <4>2. \A k \in 1 .. Len(undo') : k \in 1 .. Len(undo) \/ k = Len(undo) + 1
        BY <1>a, <4>1
      <4> QED BY <1>a, <1>b, <3>2, <4>1, <4>2
    <3> QED BY <2>1, <3>1, <3>2 DEF MadeFacts
  <2>4. Len(undo) < index /\ unrestored = 0 /\ \A k \in made : k < index
    BY <1>0, <2>2 DEF PhasesAreKept
  <2>5. PlanTypes'
    BY <1>a, <1>b, <2>2, <2>3 DEF PlanTypes
  <2>6. PhasesAreKept'
    <3>1. index' \in 1 .. Len(plan') + 1 /\ Len(undo') < index'
      BY <1>a, <1>b, <2>2, <2>3, <2>4
    <3>2. \A k \in made' : k < index'
      <4>1. \A k \in made : k \in Nat
        BY <1>a, <1>b
      <4> QED BY <1>b, <2>2, <2>4, <4>1
    <3> QED BY <2>2, <2>4, <3>1, <3>2 DEF PhasesAreKept
  <2> QED BY <2>5, <2>6 DEF PlanInv
<1>4. CASE FailEdit
  <2>1. /\ planPhase = "editing" /\ index <= Len(plan) /\ index' = index + 1
        /\ UNCHANGED <<place, before, plan, atomic, planPhase, made, undo, unrestored>>
    BY <1>4 DEF FailEdit
  <2>2. index \in 1 .. Len(plan) + 1 /\ Len(undo) < index /\ unrestored = 0 /\ \A k \in made : k < index
    BY <1>0, <2>1 DEF PhasesAreKept
  <2>3. PlanTypes'
    BY <1>b, <2>1 DEF PlanTypes
  <2>4. \A k \in made : k < index + 1
    <3>1. \A k \in made : k \in Nat
      BY <1>a, <1>b
    <3> QED BY <1>b, <2>2, <3>1
  <2>5. PhasesAreKept'
    <3>1. index' \in 1 .. Len(plan') + 1 /\ Len(undo') < index'
      BY <1>a, <1>b, <2>1, <2>2
    <3> QED BY <2>1, <2>2, <2>4, <3>1 DEF PhasesAreKept
  <2> QED BY <2>3, <2>5 DEF PlanInv
<1>5. CASE EndEdits
  <2>1. /\ planPhase = "editing" /\ index > Len(plan) /\ index' = Len(undo)
        /\ planPhase' = IF atomic /\ made # DOMAIN plan THEN "undoing" ELSE "applied"
        /\ UNCHANGED <<place, before, plan, atomic, made, undo, unrestored>>
    BY <1>5 DEF EndEdits
  <2>2. Len(undo) < index /\ index \in 1 .. Len(plan) + 1 /\ unrestored = 0
    BY <1>0, <2>1 DEF PhasesAreKept
  <2>3. PlanTypes'
    BY <1>a, <1>b, <2>1 DEF PlanTypes
  <2>4. PhasesAreKept'
    <3>1. Len(undo) <= Len(plan)
      BY <1>a, <2>2
    <3>2. unrestored' + index' <= Len(undo')
      BY <1>a, <2>1, <2>2
    <3> QED BY <2>1, <2>2, <3>1, <3>2 DEF PhasesAreKept
  <2> QED BY <2>3, <2>4 DEF PlanInv
<1>6. ASSUME NEW i \in 1 .. Children, Restore(i) PROVE PlanInv'
  <2>1. /\ planPhase = "undoing" /\ index \in 1 .. Len(undo)
        /\ WrittenOnly(place, i, undo[index], place')
        /\ index' = index - 1
        /\ UNCHANGED <<before, plan, atomic, planPhase, made, undo, unrestored>>
    BY <1>6, Restored
  <2>2. place' \in PlaceValues /\ index' \in Nat
    BY <1>a, <2>1 DEF WrittenOnly
  <2>3. PlanTypes'
    BY <1>b, <2>1, <2>2 DEF PlanTypes
  <2>4. unrestored + index <= Len(undo) /\ made # DOMAIN plan /\ Len(undo) <= Len(plan)
    BY <1>0, <2>1 DEF PhasesAreKept
  <2>5. PhasesAreKept'
    <3>1. unrestored' + index' <= Len(undo')
      BY <1>a, <1>b, <2>1, <2>4
    <3> QED BY <2>1, <2>4, <3>1 DEF PhasesAreKept
  <2> QED BY <2>3, <2>5 DEF PlanInv
<1>7. CASE FailRestore
  <2>1. /\ planPhase = "undoing" /\ index > 0 /\ unrestored' = unrestored + 1 /\ index' = index - 1
        /\ UNCHANGED <<place, before, plan, atomic, planPhase, made, undo>>
    BY <1>7 DEF FailRestore
  <2>2. unrestored + index <= Len(undo) /\ made # DOMAIN plan /\ Len(undo) <= Len(plan)
    BY <1>0, <2>1 DEF PhasesAreKept
  <2>3. PlanTypes'
    BY <1>b, <2>1 DEF PlanTypes
  <2>4. PhasesAreKept'
    <3>1. unrestored' + index' <= Len(undo')
      BY <1>a, <1>b, <2>1, <2>2
    <3> QED BY <2>1, <2>2, <3>1 DEF PhasesAreKept
  <2> QED BY <2>3, <2>4 DEF PlanInv
<1>8. CASE EndUndo
  <2>1. /\ planPhase = "undoing" /\ index = 0 /\ planPhase' = "rolledBack"
        /\ UNCHANGED <<place, before, plan, atomic, index, made, undo, unrestored>>
    BY <1>8 DEF EndUndo
  <2>2. unrestored + index <= Len(undo) /\ made # DOMAIN plan /\ Len(undo) <= Len(plan)
    BY <1>0, <2>1 DEF PhasesAreKept
  <2>3. PlanTypes'
    BY <1>b, <2>1 DEF PlanTypes
  <2>4. PhasesAreKept'
    <3>1. unrestored <= Len(undo)
      BY <1>a, <1>b, <2>1, <2>2
    <3> QED BY <2>1, <2>2, <3>1 DEF PhasesAreKept
  <2> QED BY <2>3, <2>4 DEF PlanInv
<1>9. CASE UNCHANGED planVars
  BY <1>0, <1>9 DEF planVars, PlanInv, PlanTypes, PhasesAreKept
<1> QED BY <1>1, <1>2, <1>3, <1>4, <1>5, <1>6, <1>7, <1>8, <1>9 DEF PlanNext

LEMMA PlanInvariance == PlanSpec => []PlanInv
BY InitPlanInv, StepPlanInv, PTL DEF PlanSpec

\* mutation-plan.ts: the place, the plan, the undo list and the counters of the
\* receipt have their types, whatever the plan edits.
THEOREM PlanTypesAreKept == PlanSpec => []PlanTypeOK
<1>1. PlanInv => PlanTypeOK
  <2> SUFFICES ASSUME PlanInv PROVE PlanTypeOK
    OBVIOUS
  <2>0. PlanTypes /\ PhasesAreKept
    BY DEF PlanInv
  <2> DEFINE Ops == [target : Names, field : Fields, value : Names \cup Plain \cup BOOLEAN,
                     expected : {Unchecked, Unset}]
  <2>1. /\ Len(plan) \in Nat /\ Len(undo) \in Nat
        /\ DOMAIN plan = 1 .. Len(plan) /\ DOMAIN undo = 1 .. Len(undo)
    BY <2>0, PlanSequences
  <2>2. plan \in Seq(Ops)
    <3>1. ASSUME NEW op \in Edits PROVE op \in Ops
      <4>1. PICK f \in Fields : op \in [target : Names, field : {f}, value : Writable(f), expected : {Unchecked, Unset}]
        BY DEF Edits
      <4>2. Writable(f) \subseteq Names \cup Plain \cup BOOLEAN
        BY DEF Writable, Fields
      <4> QED BY <4>1, <4>2
    <3>2. \A k \in 1 .. Len(plan) : plan[k] \in Ops
      <4> HIDE DEF Ops
      <4> QED BY <2>0, <3>1, PlanSequences
    <3>3. plan = [k \in 1 .. Len(plan) |-> plan[k]]
      BY <2>0, <2>1, LenProperties DEF PlanTypes
    <3> HIDE DEF Ops
    <3> QED BY <2>1, <3>2, <3>3, SeqDef
  <2>3. \A k \in DOMAIN undo : undo[k].field \in Fields
    BY <2>0, <2>1, PlanSequences DEF AnyEdits
  <2>4. index \in Nat /\ unrestored \in Nat
        /\ planPhase \in {"asked", "conflict", "editing", "undoing", "applied", "rolledBack"}
    BY <2>0 DEF PlanTypes
  <2>5. index \in 0 .. Len(plan) + 1 /\ unrestored \in 0 .. Len(undo)
    <3>1. CASE planPhase \in {"asked", "conflict"}
      <4>1. index = 1 /\ unrestored = 0
        BY <2>0, <3>1 DEF PhasesAreKept
      <4> QED BY <2>1, <4>1
    <3>2. CASE planPhase = "editing"
      <4>1. index \in 1 .. Len(plan) + 1 /\ unrestored = 0
        BY <2>0, <3>2 DEF PhasesAreKept
      <4> QED BY <2>1, <4>1
    <3>3. CASE planPhase = "undoing"
      <4>1. unrestored + index <= Len(undo) /\ Len(undo) <= Len(plan)
        BY <2>0, <3>3 DEF PhasesAreKept
      <4> QED BY <2>1, <2>4, <4>1
    <3>4. CASE planPhase = "applied"
      <4>1. index = Len(undo) /\ unrestored = 0 /\ Len(undo) <= Len(plan)
        BY <2>0, <3>4 DEF PhasesAreKept
      <4> QED BY <2>1, <4>1
    <3>5. CASE planPhase = "rolledBack"
      <4>1. index = 0 /\ unrestored <= Len(undo)
        BY <2>0, <3>5 DEF PhasesAreKept
      <4> QED BY <2>1, <2>4, <4>1
    <3> QED BY <2>4, <3>1, <3>2, <3>3, <3>4, <3>5
  <2> QED BY <2>0, <2>1, <2>2, <2>3, <2>5 DEF PlanTypes, PlanTypeOK, PlaceValues
<1> QED BY <1>1, PlanInvariance, PTL

\* An edit that is not of a name leaves the names.
LEMMA NamesLeft ==
  ASSUME NEW p, NEW i, NEW op, NEW q, WrittenOnly(p, i, op, q), op.field # "Name"
  PROVE  \A j \in 1 .. Children : q[j].Name = p[j].Name
<1>1. "Name" \in Fields \ {op.field}
  BY DEF Fields
<1>2. q[i]["Name"] = p[i]["Name"]
  BY <1>1 DEF WrittenOnly
<1>3. \A j \in 1 .. Children : j # i => q[j]["Name"] = p[j]["Name"]
  BY DEF WrittenOnly
<1> QED BY <1>2, <1>3

LEMMA InitReceiptInv == PlanInit => ReceiptInv
<1> SUFFICES ASSUME PlanInit PROVE ReceiptInv
  OBVIOUS
<1>1. PlanInv
  BY InitPlanInv
<1>2. Len(undo) = 0 /\ planPhase = "asked" /\ before = place
      /\ \A i, j \in 1 .. Children : place[i].Name = place[j].Name => i = j
  BY DEF PlanInit
<1>3. NamesStay
  BY <1>2 DEF NamesStay
<1>4. OldNamesGo /\ EntriesAreOfEdits /\ UndoLeadsBack /\ UndoHasOldValues
  BY <1>2 DEF OldNamesGo, EntriesAreOfEdits, UndoLeadsBack, UndoHasOldValues
<1> QED BY <1>1, <1>3, <1>4 DEF ReceiptInv

\* The numbers up to n + 1 are those up to n, and n + 1.
LEMMA OneMore == \A n \in Nat : \A k \in 1 .. n + 1 : k \in 1 .. n \/ k = n + 1
OBVIOUS

\* What is kept of the undo list when an edit succeeds: its entries, and one at most
\* for this edit.
LEMMA EntriesMade ==
  ASSUME PlanInv, NEW i \in 1 .. Children, MadeFacts(i, plan[index])
  PROVE  \A k \in 1 .. Len(undo') :
           \/ k \in 1 .. Len(undo) /\ undo'[k] = undo[k]
           \/ undo'[k].target = plan[index].target /\ undo'[k].field = plan[index].field
<1>1. Len(undo) \in Nat
  BY PlanSequences DEF PlanInv
<1>2. ASSUME NEW b, Longer(b), b.target = plan[index].target, b.field = plan[index].field
      PROVE  \A k \in 1 .. Len(undo') :
               \/ k \in 1 .. Len(undo) /\ undo'[k] = undo[k]
               \/ undo'[k].target = plan[index].target /\ undo'[k].field = plan[index].field
  <2>1. \A k \in 1 .. Len(undo') : k \in 1 .. Len(undo) \/ k = Len(undo) + 1
    BY <1>1, <1>2, OneMore DEF Longer
  <2> QED BY <1>2, <2>1 DEF Longer
<1>3. CASE undo' = undo
  BY <1>3
<1> QED BY <1>2, <1>3 DEF MadeFacts

LEMMA EntriesStep ==
  ASSUME ReceiptInv, [PlanNext]_planVars
  PROVE  EntriesAreOfEdits'
<1>0. PlanInv /\ PlanTypes /\ PhasesAreKept /\ EntriesAreOfEdits
  BY DEF ReceiptInv, PlanInv
<1>1. ASSUME NEW i \in 1 .. Children, MakeEdit(i) PROVE EntriesAreOfEdits'
  <2>1. MadeFacts(i, plan[index])
    BY <1>0, <1>1, MadeEdit
  <2>2. made' = made \cup {index} /\ plan' = plan
    BY <2>1 DEF MadeFacts
  <2> QED BY <1>0, <2>1, <2>2, EntriesMade DEF EntriesAreOfEdits
<1>2. ASSUME NEW op \in Edits, AddEdit(op) PROVE EntriesAreOfEdits'
  <2>1. undo' = undo /\ Len(undo) = 0
    BY <1>0, <1>2 DEF AddEdit, PhasesAreKept
  <2> QED BY <2>1 DEF EntriesAreOfEdits
<1>3. CASE UNCHANGED <<plan, made, undo>>
  BY <1>0, <1>3 DEF EntriesAreOfEdits
<1>4. CheckEdits \/ FailEdit \/ EndEdits \/ FailRestore \/ EndUndo \/ (\E i \in 1 .. Children : Restore(i))
      \/ UNCHANGED planVars => UNCHANGED <<plan, made, undo>>
  BY DEF CheckEdits, FailEdit, EndEdits, FailRestore, EndUndo, Restore, planVars
<1> QED BY <1>1, <1>2, <1>3, <1>4 DEF PlanNext

LEMMA NamesStayStep ==
  ASSUME ReceiptInv, [PlanNext]_planVars
  PROVE  NamesStay'
<1>0. PlanInv /\ NamesStay /\ EntriesAreOfEdits /\ PlanTypes /\ PhasesAreKept
  BY DEF ReceiptInv, PlanInv
<1>1. ASSUME NEW i \in 1 .. Children, MakeEdit(i) PROVE NamesStay'
  <2>1. MadeFacts(i, plan[index])
    BY <1>0, <1>1, MadeEdit
  <2>2. /\ index \in DOMAIN plan /\ WrittenOnly(place, i, plan[index], place')
        /\ before' = before /\ plan' = plan
    BY <1>0, <2>1, PlanSequences DEF MadeFacts
  <2>3. ASSUME NamesLeftAlone PROVE \A j \in 1 .. Children : place'[j].Name = before'[j].Name
    <3>1. plan[index].field # "Name"
      BY <2>2, <2>3 DEF NamesLeftAlone
    <3> QED BY <1>0, <2>2, <2>3, <3>1, NamesLeft DEF NamesStay
  <2> QED BY <1>0, <2>2, <2>3 DEF NamesStay, NamesLeftAlone
<1>2. ASSUME NEW i \in 1 .. Children, Restore(i) PROVE NamesStay'
  <2>1. /\ planPhase = "undoing" /\ index \in 1 .. Len(undo) /\ WrittenOnly(place, i, undo[index], place')
        /\ before' = before /\ undo' = undo /\ plan' = plan
    BY <1>0, <1>2, Restored
  <2>2. ASSUME NamesLeftAlone PROVE \A j \in 1 .. Children : place'[j].Name = before'[j].Name
    <3>1. undo[index].field # "Name"
      BY <1>0, <2>1, <2>2, PlanSequences DEF EntriesAreOfEdits, NamesLeftAlone, PlanTypes
    <3> QED BY <1>0, <2>1, <2>2, <3>1, NamesLeft DEF NamesStay
  <2> QED BY <1>0, <2>1, <2>2 DEF NamesStay, NamesLeftAlone
<1>3. ASSUME NEW op \in Edits, AddEdit(op) PROVE NamesStay'
  <2>1. place = before /\ UNCHANGED <<place, before>>
    BY <1>0, <1>3 DEF AddEdit, PhasesAreKept
  <2> QED BY <1>0, <2>1 DEF NamesStay
<1>4. CASE UNCHANGED <<place, before, plan>>
  BY <1>0, <1>4 DEF NamesStay, NamesLeftAlone
<1>5. CheckEdits \/ FailEdit \/ EndEdits \/ FailRestore \/ EndUndo \/ UNCHANGED planVars
      => UNCHANGED <<place, before, plan>>
  BY DEF CheckEdits, FailEdit, EndEdits, FailRestore, EndUndo, planVars
<1> QED BY <1>1, <1>2, <1>3, <1>4, <1>5 DEF PlanNext

\* The same for the names that edits go by.
LEMMA OldNamesMade ==
  ASSUME ReceiptInv, EntriesAreOfEdits', NEW i \in 1 .. Children, MadeFacts(i, plan[index])
  PROVE  OldNamesGo'
<1> DEFINE op == plan[index]
<1>0. PlanInv /\ PlanTypes /\ NamesStay /\ OldNamesGo /\ EntriesAreOfEdits
  BY DEF ReceiptInv, PlanInv
<1>1. /\ planPhase = "editing" /\ op \in Edits /\ place[i].Name = op.target
      /\ WrittenOnly(place, i, op, place') /\ plan' = plan /\ before' = before
      /\ index \in DOMAIN plan
  BY <1>0, PlanSequences DEF MadeFacts
<1>2. SUFFICES ASSUME RenamesAreFresh
               PROVE /\ \A j \in 1 .. Children : Target(place'[j].Name) => place'[j].Name = before[j].Name
                     /\ \A k \in 1 .. Len(undo') : undo'[k].field = "Name" =>
                          \A j \in 1 .. Children : place'[j].Name # undo'[k].target
  BY <1>1 DEF OldNamesGo, RenamesAreFresh, Target
<1>3. /\ \A j \in 1 .. Children : Target(place[j].Name) => place[j].Name = before[j].Name
      /\ \A k \in 1 .. Len(undo) : undo[k].field = "Name" =>
           \A j \in 1 .. Children : place[j].Name # undo[k].target
  BY <1>0, <1>1, <1>2 DEF OldNamesGo
<1>4. Target(op.target)
  BY <1>1 DEF Target
<1>5. \A k \in 1 .. Len(undo) : Target(undo[k].target)
  BY <1>0, PlanSequences DEF EntriesAreOfEdits, Target, PlanTypes
<1>6. \A k \in 1 .. Len(undo') :
        \/ k \in 1 .. Len(undo) /\ undo'[k] = undo[k]
        \/ undo'[k].target = op.target /\ undo'[k].field = op.field
  BY <1>0, EntriesMade
<1> HIDE DEF op
<1>7. CASE op.field = "Name"
  <2>1. place'[i].Name = op.value /\ \A j \in 1 .. Children : j # i => place'[j] = place[j]
    <3>1. PICK q : q = place'
      OBVIOUS
    <3>2. q[i][op.field] = op.value
      BY <1>1, <3>1 DEF WrittenOnly
    <3>3. q[i]["Name"] = op.value
      BY <1>7, <3>2
    <3> QED BY <1>1, <3>1, <3>3 DEF WrittenOnly
  <2>2. ~ Target(op.value)
    BY <1>1, <1>2, <1>7 DEF op, RenamesAreFresh, Target
  <2>3. \A j \in 1 .. Children : place'[j].Name # op.target
    <3>1. ASSUME NEW j \in 1 .. Children, j # i, place[j].Name = op.target PROVE FALSE
      BY <1>0, <1>1, <1>3, <1>4, <3>1 DEF NamesStay
    <3> QED BY <1>4, <2>1, <2>2, <3>1
  <2>4. \A k \in 1 .. Len(undo) : undo[k].field = "Name" =>
           \A j \in 1 .. Children : place'[j].Name # undo[k].target
    BY <1>3, <1>5, <2>1, <2>2
  <2> QED BY <1>3, <1>6, <2>1, <2>2, <2>3, <2>4
<1>8. CASE op.field # "Name"
  <2>1. \A j \in 1 .. Children : place'[j].Name = place[j].Name
    BY <1>1, <1>8, NamesLeft
  <2> QED BY <1>3, <1>6, <1>8, <2>1
<1> QED BY <1>7, <1>8

LEMMA OldNamesStep ==
  ASSUME ReceiptInv, EntriesAreOfEdits', [PlanNext]_planVars
  PROVE  OldNamesGo'
<1>0. PlanInv /\ OldNamesGo /\ PlanTypes /\ PhasesAreKept
  BY DEF ReceiptInv, PlanInv
<1>1. ASSUME NEW i \in 1 .. Children, MakeEdit(i) PROVE OldNamesGo'
  <2>1. MadeFacts(i, plan[index])
    BY <1>0, <1>1, MadeEdit
  <2> QED BY <2>1, OldNamesMade
<1>2. ASSUME NEW i \in 1 .. Children, Restore(i) PROVE OldNamesGo'
  <2>1. /\ planPhase = "undoing" /\ index \in 1 .. Len(undo) /\ WrittenOnly(place, i, undo[index], place')
        /\ place[i].Name = undo[index].target
        /\ before' = before /\ undo' = undo /\ plan' = plan
    BY <1>0, <1>2, Restored
  <2>2. ASSUME RenamesAreFresh PROVE \A j \in 1 .. Children : place'[j].Name = place[j].Name
    <3>1. undo[index].field # "Name"
      BY <1>0, <2>1, <2>2 DEF OldNamesGo
    <3> QED BY <2>1, <3>1, NamesLeft
  <2> QED BY <1>0, <2>1, <2>2 DEF OldNamesGo, RenamesAreFresh, Target
<1>3. CASE CheckEdits
  <2>1. /\ planPhase = "asked" /\ UNCHANGED <<place, before, undo>>
    BY <1>3 DEF CheckEdits
  <2>2. Len(undo) = 0 /\ place = before
    BY <1>0, <2>1 DEF PhasesAreKept
  <2> QED BY <2>1, <2>2 DEF OldNamesGo
<1>4. CASE FailEdit \/ EndEdits \/ FailRestore
  <2>1. planPhase \in {"editing", "undoing"} /\ UNCHANGED <<place, before, plan, undo>>
    BY <1>4 DEF FailEdit, EndEdits, FailRestore
  <2> QED BY <1>0, <2>1 DEF OldNamesGo, RenamesAreFresh, Target
<1>5. ASSUME planPhase' \notin {"editing", "undoing"} PROVE OldNamesGo'
  BY <1>5 DEF OldNamesGo
<1>6. (\E op \in Edits : AddEdit(op)) \/ EndUndo => planPhase' \notin {"editing", "undoing"}
  BY DEF AddEdit, EndUndo
<1>7. CASE UNCHANGED planVars
  BY <1>0, <1>7 DEF planVars, OldNamesGo, RenamesAreFresh, Target
<1> QED BY <1>1, <1>2, <1>3, <1>4, <1>5, <1>6, <1>7 DEF PlanNext

\* An edit that succeeds lengthens the way back by a step, or leaves it.
LEMMA WayGrows ==
  ASSUME ReceiptInv, OldNamesGo', RenamesAreFresh, NEW i \in 1 .. Children, MadeFacts(i, plan[index])
  PROVE  \E h \in [0 .. Len(undo') -> PlaceValues] :
           /\ h[0] = before /\ h[Len(undo')] = place'
           /\ \A k \in 1 .. Len(undo') : StepsBack(h[k], undo'[k], h[k - 1])
<1> DEFINE op == plan[index]
<1> DEFINE n == Len(undo)
<1>0. PlanTypes /\ NamesStay /\ OldNamesGo /\ UndoLeadsBack /\ place \in PlaceValues
  BY DEF ReceiptInv, PlanInv, PlanTypes
<1>1. /\ planPhase = "editing" /\ op \in Edits /\ WellValued(op) /\ place[i].Name = op.target
      /\ WrittenOnly(place, i, op, place')
      /\ \/ undo' = undo /\ place' = place
         \/ \E b : /\ Longer(b) /\ WellValued(b) /\ b.target = op.target /\ b.field = op.field
                   /\ b.value = oldValue(op.field, place[i][op.field])
      /\ index \in DOMAIN plan /\ plan' = plan /\ planPhase' = planPhase /\ before' = before
  BY <1>0, PlanSequences DEF MadeFacts
<1>2. n \in Nat
  BY <1>0, PlanSequences
<1>3. PICK h \in [0 .. n -> PlaceValues] : LeadsTo(h, n, place) /\ h[n] = place
  BY <1>0, <1>1 DEF UndoLeadsBack
<1>4. /\ h[0] = before /\ h[n] = place
      /\ \A k \in 1 .. n : StepsBack(h[k], undo[k], h[k - 1])
  BY <1>3 DEF LeadsTo
<1>t. Target(op.target)
  BY <1>1 DEF Target
<1> HIDE DEF op
<1>5. CASE undo' = undo /\ place' = place
  BY <1>3, <1>4, <1>5
<1>6. ASSUME NEW b, Longer(b), WellValued(b), b.target = op.target, b.field = op.field,
             b.value = oldValue(op.field, place[i][op.field])
      PROVE  \E g \in [0 .. Len(undo') -> PlaceValues] :
               /\ g[0] = before /\ g[Len(undo')] = place'
               /\ \A k \in 1 .. Len(undo') : StepsBack(g[k], undo'[k], g[k - 1])
  <2>4. /\ Len(undo') = n + 1 /\ \A k \in 1 .. n : undo'[k] = undo[k]
        /\ undo'[n + 1] = b
    BY <1>6 DEF Longer
  <2>3. StepsBack(place', b, place)
    <3> SUFFICES ASSUME NEW j \in 1 .. Children, place'[j].Name = op.target
                 PROVE  /\ Back(b, b.field, place[j][b.field])
                        /\ \A f \in Fields \ {b.field} : place[j][f] = place'[j][f]
                        /\ \A l \in 1 .. Children : l # j => place[l] = place'[l]
      BY <1>6 DEF StepsBack
    <3>1. op.field # "Name"
      <4>1. ASSUME op.field = "Name" PROVE FALSE
        <5>1. n + 1 \in 1 .. Len(undo') /\ undo'[n + 1].field = "Name" /\ undo'[n + 1].target = op.target
          BY <1>2, <1>6, <2>4, <4>1
        <5> QED BY <1>1, <5>1 DEF OldNamesGo, RenamesAreFresh
      <4> QED BY <4>1
    <3>2. place'[j].Name = place[j].Name
      BY <1>1, <3>1, NamesLeft
    <3>3. j = i
      <4>1. place[j].Name = before[j].Name /\ place[i].Name = before[i].Name
        BY <1>0, <1>1, <1>t, <3>2 DEF OldNamesGo
      <4> QED BY <1>0, <1>1, <3>2, <4>1 DEF NamesStay
    <3> QED BY <1>1, <1>6, <3>3 DEF WrittenOnly, Back
  <2> DEFINE g == [k \in 0 .. n + 1 |-> IF k = n + 1 THEN place' ELSE h[k]]
  <2>5. g \in [0 .. n + 1 -> PlaceValues]
    <3>1. place' \in PlaceValues
      BY <1>1 DEF WrittenOnly
    <3>2. \A k \in 0 .. n + 1 : k # n + 1 => k \in 0 .. n
      BY <1>2
    <3> QED BY <1>3, <3>1, <3>2
  <2>6. g[0] = before /\ g[n + 1] = place' /\ (\A k \in 0 .. n : g[k] = h[k])
    <3>1. 0 \in 0 .. n + 1 /\ 0 # n + 1 /\ n + 1 \in 0 .. n + 1
          /\ \A k \in 0 .. n : k \in 0 .. n + 1 /\ k # n + 1
      BY <1>2
    <3> QED BY <1>4, <3>1
  <2> HIDE DEF g, n
  <2>7. \A k \in 1 .. n + 1 : StepsBack(g[k], undo'[k], g[k - 1])
    <3> SUFFICES ASSUME NEW k \in 1 .. n + 1 PROVE StepsBack(g[k], undo'[k], g[k - 1])
      OBVIOUS
    <3>1. CASE k \in 1 .. n
      <4>1. k \in 0 .. n /\ k - 1 \in 0 .. n
        BY <1>2, <3>1
      <4>2. g[k] = h[k] /\ g[k - 1] = h[k - 1] /\ undo'[k] = undo[k]
        BY <2>4, <2>6, <3>1, <4>1
      <4>3. StepsBack(h[k], undo[k], h[k - 1])
        BY <1>4, <3>1
      <4> QED BY <4>2, <4>3
    <3>2. CASE k = n + 1
      <4>1. k - 1 = n /\ n \in 0 .. n
        BY <1>2, <3>2
      <4>2. g[k] = place' /\ g[k - 1] = place /\ undo'[k] = b
        BY <1>4, <2>4, <2>6, <3>2, <4>1
      <4> QED BY <2>3, <4>2
    <3> QED BY <1>2, <3>1, <3>2, OneMore
  <2> QED BY <2>4, <2>5, <2>6, <2>7
<1> QED BY <1>1, <1>5, <1>6 DEF op

\* A restore that finds its target goes a step of the way.
LEMMA WayGone ==
  ASSUME PlanInv, NEW i \in 1 .. Children, Restore(i),
         NEW q \in PlaceValues, AsSerialized(place, q), NEW r \in PlaceValues, StepsBack(q, undo[index], r)
  PROVE  AsSerialized(place', r)
<1> DEFINE b == undo[index]
<1>1. /\ WellValued(b) /\ place[i].Name = b.target /\ WrittenOnly(place, i, b, place')
  BY Restored
<1>2. /\ place'[i][b.field] = b.value
      /\ \A f \in Fields \ {b.field} : place'[i][f] = place[i][f]
      /\ \A j \in 1 .. Children : j # i => place'[j] = place[j]
  BY <1>1 DEF WrittenOnly
<1>3. q[i].Name = b.target
  <2>1. q[i]["Name"] \in Names /\ "Name" \in Fields
    BY DEF PlaceValues, Instances, Fields
  <2>2. oldValue("Name", q[i]["Name"]) = q[i]["Name"]
    BY <2>1, PlanAssumption DEF oldValue, ser
  <2>3. place[i]["Name"] \in {q[i]["Name"], oldValue("Name", q[i]["Name"])}
    BY <2>1 DEF AsSerialized
  <2> QED BY <1>1, <2>2, <2>3
<1>4. /\ b.value = oldValue(b.field, r[i][b.field])
      /\ \A f \in Fields \ {b.field} : r[i][f] = q[i][f]
      /\ \A j \in 1 .. Children : j # i => r[j] = q[j]
  BY <1>3 DEF StepsBack, Back
<1> HIDE DEF b
<1>5. ASSUME NEW j \in 1 .. Children, NEW f \in Fields PROVE place'[j][f] \in {r[j][f], oldValue(f, r[j][f])}
  <2>1. place[j][f] \in {q[j][f], oldValue(f, q[j][f])}
    BY DEF AsSerialized
  <2>2. CASE j = i /\ f = b.field
    BY <1>2, <1>4, <2>2
  <2>3. CASE j = i /\ f # b.field
    BY <1>2, <1>4, <2>1, <2>3
  <2>4. CASE j # i
    BY <1>2, <1>4, <2>1, <2>4
  <2> QED BY <2>2, <2>3, <2>4
<1> QED BY <1>5 DEF AsSerialized

LEMMA WayBackStep ==
  ASSUME ReceiptInv, OldNamesGo', [PlanNext]_planVars
  PROVE  UndoLeadsBack'
<1>0. PlanInv /\ PlanTypes /\ PhasesAreKept /\ UndoLeadsBack
      /\ place \in PlaceValues /\ unrestored \in Nat /\ index \in Nat /\ Len(undo) \in Nat
  BY PlanSequences DEF ReceiptInv, PlanInv, PlanTypes
<1>s. \A p : AsSerialized(p, p)
  BY DEF AsSerialized
<1>1. ASSUME NEW i \in 1 .. Children, MakeEdit(i) PROVE UndoLeadsBack'
  <2>1. MadeFacts(i, plan[index])
    BY <1>0, <1>1, MadeEdit
  <2>2. planPhase' = "editing" /\ made' # {} /\ before' = before /\ plan' = plan
    BY <2>1 DEF MadeFacts
  <2>3. ASSUME RenamesAreFresh
        PROVE  \E h \in [0 .. Len(undo') -> PlaceValues] :
                 /\ h[0] = before' /\ AsSerialized(place', h[Len(undo')]) /\ h[Len(undo')] = place'
                 /\ \A k \in 1 .. Len(undo') : StepsBack(h[k], undo'[k], h[k - 1])
    <3>1. PICK h \in [0 .. Len(undo') -> PlaceValues] :
            /\ h[0] = before /\ h[Len(undo')] = place'
            /\ \A k \in 1 .. Len(undo') : StepsBack(h[k], undo'[k], h[k - 1])
      BY <2>1, <2>3, WayGrows
    <3>2. AsSerialized(place', place')
      BY <1>s
    <3> QED BY <2>2, <3>1, <3>2
  <2>4. RenamesAreFresh' <=> RenamesAreFresh
    BY <2>2 DEF RenamesAreFresh
  <2>5. planPhase' # "undoing" /\ planPhase' # "rolledBack"
    BY <2>2
  <2> QED BY <2>2, <2>3, <2>4, <2>5 DEF UndoLeadsBack, LeadsTo, AsSerialized
<1>2. ASSUME NEW i \in 1 .. Children, Restore(i) PROVE UndoLeadsBack'
  <2>1. /\ planPhase = "undoing" /\ index \in 1 .. Len(undo)
        /\ index' = index - 1
        /\ UNCHANGED <<before, plan, atomic, planPhase, made, undo, unrestored>>
    BY <1>0, <1>2, Restored
  <2>2. ASSUME unrestored' = 0, RenamesAreFresh
        PROVE  \E h \in [0 .. index' -> PlaceValues] :
                 /\ h[0] = before' /\ AsSerialized(place', h[index'])
                 /\ \A k \in 1 .. index' : StepsBack(h[k], undo'[k], h[k - 1])
    <3>1. PICK h \in [0 .. index -> PlaceValues] : LeadsTo(h, index, place)
      BY <1>0, <2>1, <2>2 DEF UndoLeadsBack
    <3>2. /\ h[0] = before /\ AsSerialized(place, h[index])
          /\ \A k \in 1 .. index : StepsBack(h[k], undo[k], h[k - 1])
      BY <3>1 DEF LeadsTo
    <3>5. index - 1 \in Nat /\ (\A k \in 0 .. index - 1 : k \in 0 .. index) /\ index - 1 \in 0 .. index - 1
          /\ 0 \in 0 .. index - 1 /\ index \in 1 .. index /\ index \in 0 .. index
      BY <1>0, <2>1
    <3>4. AsSerialized(place', h[index - 1])
      <4>1. h[index] \in PlaceValues /\ h[index - 1] \in PlaceValues
        BY <3>1, <3>5
      <4>2. StepsBack(h[index], undo[index], h[index - 1])
        BY <3>2, <3>5
      <4> QED BY <1>0, <1>2, <3>2, <4>1, <4>2, WayGone
    <3> DEFINE g == [k \in 0 .. index - 1 |-> h[k]]
    <3>6. g \in [0 .. index - 1 -> PlaceValues] /\ \A k \in 0 .. index - 1 : g[k] = h[k]
      BY <3>1, <3>5
    <3> HIDE DEF g
    <3>7. ASSUME NEW k \in 1 .. index - 1 PROVE StepsBack(g[k], undo[k], g[k - 1])
      <4>1. k \in 0 .. index - 1 /\ k - 1 \in 0 .. index - 1 /\ k \in 1 .. index
        BY <1>0
      <4>2. StepsBack(h[k], undo[k], h[k - 1])
        BY <3>2, <4>1
      <4> QED BY <3>6, <4>1, <4>2
    <3>8. g[0] = before /\ AsSerialized(place', g[index - 1])
      BY <3>2, <3>4, <3>5, <3>6
    <3> QED BY <2>1, <3>6, <3>7, <3>8
  <2>3. RenamesAreFresh' <=> RenamesAreFresh
    BY <2>1 DEF RenamesAreFresh
  <2> QED BY <2>1, <2>2, <2>3 DEF UndoLeadsBack, LeadsTo, AsSerialized
<1>3. CASE CheckEdits
  <2>1. /\ planPhase = "asked" /\ UNCHANGED <<place, before, made, undo>>
        /\ planPhase' \in {"conflict", "editing"}
    BY <1>3 DEF CheckEdits
  <2>2. Len(undo) = 0 /\ place = before
    BY <1>0, <2>1 DEF PhasesAreKept
  <2> DEFINE h == [k \in 0 .. 0 |-> place]
  <2>3. h \in [0 .. 0 -> PlaceValues] /\ h[0] = place /\ 1 .. 0 = {}
    BY <1>0
  <2> HIDE DEF h
  <2>4. \E g \in [0 .. Len(undo') -> PlaceValues] :
           /\ g[0] = before' /\ AsSerialized(place', g[Len(undo')]) /\ g[Len(undo')] = place'
           /\ \A k \in 1 .. Len(undo') : StepsBack(g[k], undo'[k], g[k - 1])
    <3>1. AsSerialized(place, place)
      BY <1>s
    <3> QED BY <2>1, <2>2, <2>3, <3>1
  <2> QED BY <2>1, <2>2, <2>4 DEF UndoLeadsBack, LeadsTo, AsSerialized
<1>4. CASE EndEdits
  <2>1. /\ planPhase = "editing" /\ index' = Len(undo)
        /\ planPhase' \in {"undoing", "applied"}
        /\ UNCHANGED <<place, before, plan, atomic, made, undo, unrestored>>
    BY <1>4 DEF EndEdits
  <2>2. RenamesAreFresh => \E h \in [0 .. Len(undo) -> PlaceValues] : LeadsTo(h, Len(undo), place)
    BY <1>0, <2>1 DEF UndoLeadsBack
  <2>3. made = {} => place = before
    BY <1>0, <2>1 DEF UndoLeadsBack
  <2>4. RenamesAreFresh => \E h \in [0 .. index' -> PlaceValues] :
           /\ h[0] = before' /\ AsSerialized(place', h[index'])
           /\ \A k \in 1 .. index' : StepsBack(h[k], undo'[k], h[k - 1])
    BY <2>1, <2>2 DEF LeadsTo
  <2>5. RenamesAreFresh' <=> RenamesAreFresh
    BY <2>1 DEF RenamesAreFresh
  <2> QED BY <2>1, <2>3, <2>4, <2>5 DEF UndoLeadsBack, LeadsTo, AsSerialized
<1>5. CASE FailRestore
  <2>1. planPhase' = "undoing" /\ unrestored' = unrestored + 1
    BY <1>5 DEF FailRestore
  <2>2. unrestored' # 0
    BY <1>0, <2>1
  <2> QED BY <2>1, <2>2 DEF UndoLeadsBack
<1>6. CASE EndUndo
  <2>1. /\ planPhase = "undoing" /\ index = 0 /\ planPhase' = "rolledBack"
        /\ UNCHANGED <<place, before, plan, unrestored>>
    BY <1>6 DEF EndUndo
  <2>2. ASSUME unrestored = 0, RenamesAreFresh PROVE AsSerialized(place, before)
    <3>1. PICK h \in [0 .. index -> PlaceValues] : LeadsTo(h, index, place)
      BY <1>0, <2>1, <2>2 DEF UndoLeadsBack
    <3> QED BY <2>1, <3>1 DEF LeadsTo
  <2>3. RenamesAreFresh' <=> RenamesAreFresh
    BY <2>1 DEF RenamesAreFresh
  <2> QED BY <2>1, <2>2, <2>3 DEF UndoLeadsBack, AsSerialized
<1>7. CASE FailEdit
  <2>1. planPhase = "editing" /\ UNCHANGED <<place, before, plan, planPhase, made, undo, unrestored>>
    BY <1>7 DEF FailEdit
  <2>2. RenamesAreFresh =>
          \E h \in [0 .. Len(undo) -> PlaceValues] : LeadsTo(h, Len(undo), place) /\ h[Len(undo)] = place
    BY <1>0, <2>1 DEF UndoLeadsBack
  <2>3. made = {} => place = before
    BY <1>0, <2>1 DEF UndoLeadsBack
  <2>4. RenamesAreFresh => \E h \in [0 .. Len(undo') -> PlaceValues] :
           /\ h[0] = before' /\ AsSerialized(place', h[Len(undo')]) /\ h[Len(undo')] = place'
           /\ \A k \in 1 .. Len(undo') : StepsBack(h[k], undo'[k], h[k - 1])
    BY <2>1, <2>2 DEF LeadsTo
  <2>5. RenamesAreFresh' <=> RenamesAreFresh
    BY <2>1 DEF RenamesAreFresh
  <2> QED BY <2>1, <2>3, <2>4, <2>5 DEF UndoLeadsBack, LeadsTo, AsSerialized
<1>8. ASSUME NEW op \in Edits, AddEdit(op) PROVE UndoLeadsBack'
  <2>1. planPhase' = "asked"
    BY <1>8 DEF AddEdit
  <2> QED BY <2>1 DEF UndoLeadsBack
<1>9. CASE UNCHANGED planVars
  <2>1. UNCHANGED <<place, before, plan, planPhase, index, made, undo, unrestored>>
    BY <1>9 DEF planVars
  <2>2. ASSUME planPhase = "editing", RenamesAreFresh
        PROVE  \E h \in [0 .. Len(undo') -> PlaceValues] :
                 /\ h[0] = before' /\ AsSerialized(place', h[Len(undo')]) /\ h[Len(undo')] = place'
                 /\ \A k \in 1 .. Len(undo') : StepsBack(h[k], undo'[k], h[k - 1])
    <3>1. \E h \in [0 .. Len(undo) -> PlaceValues] : LeadsTo(h, Len(undo), place) /\ h[Len(undo)] = place
      BY <1>0, <2>2 DEF UndoLeadsBack
    <3> QED BY <2>1, <3>1 DEF LeadsTo
  <2>3. ASSUME planPhase = "undoing", unrestored = 0, RenamesAreFresh
        PROVE  \E h \in [0 .. index' -> PlaceValues] :
                 /\ h[0] = before' /\ AsSerialized(place', h[index'])
                 /\ \A k \in 1 .. index' : StepsBack(h[k], undo'[k], h[k - 1])
    <3>1. \E h \in [0 .. index -> PlaceValues] : LeadsTo(h, index, place)
      BY <1>0, <2>3 DEF UndoLeadsBack
    <3> QED BY <2>1, <3>1 DEF LeadsTo
  <2>4. /\ planPhase = "rolledBack" /\ RenamesAreFresh /\ unrestored = 0 => AsSerialized(place, before)
        /\ planPhase \in {"editing", "applied"} /\ made = {} => place = before
    BY <1>0 DEF UndoLeadsBack
  <2>5. RenamesAreFresh' <=> RenamesAreFresh
    BY <2>1 DEF RenamesAreFresh
  <2> QED BY <2>1, <2>2, <2>3, <2>4, <2>5 DEF UndoLeadsBack, LeadsTo, AsSerialized
<1> QED BY <1>1, <1>2, <1>3, <1>4, <1>5, <1>6, <1>7, <1>8, <1>9 DEF PlanNext

\* An edit that succeeds: the undo list has its old value, and none twice.
LEMMA OldValuesGrow ==
  ASSUME ReceiptInv, NEW i \in 1 .. Children, MadeFacts(i, plan[index])
  PROVE  UndoHasOldValues'
<1> SUFFICES ASSUME NamesLeftAlone PROVE UndoHasOldValues'
  BY DEF MadeFacts, NamesLeftAlone, UndoHasOldValues
<1> DEFINE op == plan[index]
<1> DEFINE n == Len(undo)
<1>0. PlanTypes /\ PhasesAreKept /\ NamesStay /\ EntriesAreOfEdits /\ UndoHasOldValues /\ n \in Nat
      /\ (\A k \in made : k < index)
      /\ made \subseteq 1 .. Len(plan) /\ DOMAIN plan = 1 .. Len(plan)
  BY PlanSequences DEF ReceiptInv, PlanInv, PlanTypes, MadeFacts, PhasesAreKept
<1>1. /\ planPhase = "editing" /\ index \in 1 .. Len(plan) /\ op \in Edits /\ WellValued(op)
      /\ place[i].Name = op.target
      /\ WrittenOnly(place, i, op, place')
      /\ \/ undo' = undo /\ place' = place
         \/ \E b : /\ Longer(b) /\ WellValued(b) /\ b.target = op.target /\ b.field = op.field
                   /\ b.value = oldValue(op.field, place[i][op.field])
      /\ made' = made \cup {index} /\ planPhase' = planPhase
      /\ before' = before /\ plan' = plan
  BY DEF MadeFacts
<1>2. /\ \A j \in 1 .. Children, f \in Fields :
           place[j][f] # before[j][f] => \E k \in 1 .. n : About(k, j, f)
      /\ \A k \in 1 .. n : \E j \in made : undo[k].target = plan[j].target /\ undo[k].field = plan[j].field
      /\ OneWriteEach => OldValues
  BY <1>0, <1>1 DEF UndoHasOldValues, EntriesAreOfEdits
<1>3. op.field \in Fields /\ before[i].Name = op.target
  BY <1>0, <1>1 DEF WellValued, AnyEdits, NamesStay
<1>4. CASE undo' = undo /\ place' = place
  <2>1. OneWriteEach' => OldValues'
    BY <1>1, <1>2, <1>4 DEF OneWriteEach, OldValues
  <2>3. \A j \in 1 .. Children, f \in Fields :
           place'[j][f] # before'[j][f] => \E k \in 1 .. Len(undo') : About(k, j, f)'
    BY <1>1, <1>2, <1>4 DEF About
  <2> QED BY <2>1, <2>3 DEF UndoHasOldValues
<1>5. ASSUME NEW b, Longer(b), b.target = op.target, b.field = op.field, b.value = oldValue(op.field, place[i][op.field])
      PROVE  UndoHasOldValues'
  <2>0. /\ Len(undo') = n + 1 /\ (\A k \in 1 .. n : undo'[k] = undo[k]) /\ undo'[n + 1] = b
        /\ n + 1 \in 1 .. n + 1 /\ \A k \in 1 .. n : k \in 1 .. n + 1
    BY <1>0, <1>5 DEF Longer
  <2>f. ASSUME OneWriteEach, NEW j \in made, plan[j].target = op.target, plan[j].field = op.field
        PROVE  FALSE
    <3>1. j = index
      BY <1>0, <1>1, <2>f DEF OneWriteEach
    <3>2. j < index /\ j \in Nat
      BY <1>0
    <3> QED BY <3>1, <3>2
  <2> HIDE DEF op, n
  <2>1. ASSUME NEW j \in 1 .. Children, NEW f \in Fields, place'[j][f] # before[j][f]
        PROVE  \E k \in 1 .. n + 1 : undo'[k].target = before[j].Name /\ undo'[k].field = f
    <3>1. CASE j = i /\ f = op.field
      BY <1>3, <1>5, <2>0, <3>1
    <3>2. CASE ~ (j = i /\ f = op.field)
      <4>1. place'[j][f] = place[j][f]
        BY <1>1, <3>2 DEF WrittenOnly
      <4>2. PICK k \in 1 .. n : About(k, j, f)
        BY <1>2, <2>1, <4>1
      <4>3. k \in 1 .. n + 1 /\ undo'[k] = undo[k]
        BY <2>0
      <4> QED BY <4>2, <4>3 DEF About
    <3> QED BY <3>1, <3>2
  <2>3. ASSUME OneWriteEach, NEW k \in 1 .. n + 1, NEW j \in 1 .. Children, undo'[k].target = before[j].Name
        PROVE  Back(undo'[k], undo'[k].field, before[j][undo'[k].field])
    <3>1. CASE k \in 1 .. n
      BY <1>2, <2>0, <2>3, <3>1 DEF OldValues, n
    <3>2. CASE k = n + 1
      <4>1. undo'[k] = b
        BY <2>0, <3>2
      <4>2. j = i
        BY <1>0, <1>3, <1>5, <2>3, <4>1 DEF NamesStay
      <4>3. ASSUME place[i][op.field] # before[i][op.field] PROVE FALSE
        <5>1. PICK l \in 1 .. n : About(l, i, op.field)
          BY <1>2, <1>3, <4>3
        <5>2. PICK m \in made : undo[l].target = plan[m].target /\ undo[l].field = plan[m].field
          BY <1>2
        <5> QED BY <1>3, <2>3, <2>f, <5>1, <5>2 DEF About
      <4> QED BY <1>5, <4>1, <4>2, <4>3 DEF Back
    <3> QED BY <1>0, <3>1, <3>2, OneMore
  <2>4. ASSUME OneWriteEach, NEW k \in 1 .. n, undo[k].target = b.target, undo[k].field = b.field
        PROVE  FALSE
    <3>1. PICK m \in made : undo[k].target = plan[m].target /\ undo[k].field = plan[m].field
      BY <1>2
    <3> QED BY <1>5, <2>4, <2>f, <3>1
  <2>5. ASSUME OneWriteEach, NEW k \in 1 .. n + 1, NEW l \in 1 .. n + 1,
               undo'[k].target = undo'[l].target, undo'[k].field = undo'[l].field
        PROVE  k = l
    <3>1. CASE k \in 1 .. n /\ l \in 1 .. n
      BY <1>2, <2>0, <2>5, <3>1 DEF OldValues, n
    <3>2. CASE k \in 1 .. n /\ l = n + 1
      BY <2>0, <2>4, <2>5, <3>2
    <3>3. CASE k = n + 1 /\ l \in 1 .. n
      BY <2>0, <2>4, <2>5, <3>3
    <3>4. CASE k = n + 1 /\ l = n + 1
      BY <3>4
    <3> QED BY <1>0, <3>1, <3>2, <3>3, <3>4, OneMore
  <2>6. OneWriteEach' => OldValues'
    <3>1. OneWriteEach' <=> OneWriteEach
      BY <1>1 DEF OneWriteEach
    <3>2. OneWriteEach => \A k \in 1 .. n + 1, j \in 1 .. Children :
             undo'[k].target = before[j].Name => Back(undo'[k], undo'[k].field, before[j][undo'[k].field])
      BY <2>3
    <3>3. OneWriteEach => \A k, l \in 1 .. n + 1 :
             undo'[k].target = undo'[l].target /\ undo'[k].field = undo'[l].field => k = l
      BY <2>5
    <3> QED BY <1>1, <2>0, <3>1, <3>2, <3>3 DEF OldValues
  <2>7. \A j \in 1 .. Children, f \in Fields :
           place'[j][f] # before'[j][f] => \E k \in 1 .. Len(undo') : About(k, j, f)'
    BY <1>1, <2>0, <2>1 DEF About
  <2> QED BY <2>6, <2>7 DEF UndoHasOldValues
<1> QED BY <1>1, <1>4, <1>5 DEF op

LEMMA OldValuesStep ==
  ASSUME ReceiptInv, [PlanNext]_planVars
  PROVE  UndoHasOldValues'
<1>0. PlanInv /\ PlanTypes /\ PhasesAreKept /\ UndoHasOldValues
  BY DEF ReceiptInv, PlanInv
<1>1. ASSUME NEW i \in 1 .. Children, MakeEdit(i) PROVE UndoHasOldValues'
  BY <1>0, <1>1, MadeEdit, OldValuesGrow
<1>2. CASE CheckEdits
  <2>1. planPhase = "asked" /\ UNCHANGED <<place, before, undo>>
    BY <1>2 DEF CheckEdits
  <2>2. place = before /\ Len(undo) = 0
    BY <1>0, <2>1 DEF PhasesAreKept
  <2> QED BY <2>1, <2>2 DEF UndoHasOldValues, OldValues
<1>3. CASE FailEdit \/ EndEdits
  <2>1. planPhase = "editing" /\ UNCHANGED <<place, before, plan, made, undo>>
    BY <1>3 DEF FailEdit, EndEdits
  <2> QED BY <1>0, <2>1 DEF UndoHasOldValues, NamesLeftAlone, OldValues, OneWriteEach, About
<1>4. ASSUME planPhase' \notin {"editing", "applied"} PROVE UndoHasOldValues'
  BY <1>4 DEF UndoHasOldValues
<1>5. (\E op \in Edits : AddEdit(op)) \/ FailRestore \/ EndUndo \/ (\E i \in 1 .. Children : Restore(i))
      => planPhase' \notin {"editing", "applied"}
  BY DEF AddEdit, FailRestore, EndUndo, Restore
<1>6. CASE UNCHANGED planVars
  BY <1>0, <1>6 DEF planVars, UndoHasOldValues, NamesLeftAlone, OldValues, OneWriteEach, About
<1> QED BY <1>1, <1>2, <1>3, <1>4, <1>5, <1>6 DEF PlanNext

LEMMA ReceiptInvariance == PlanSpec => []ReceiptInv
<1>1. ReceiptInv /\ [PlanNext]_planVars => ReceiptInv'
  <2> SUFFICES ASSUME ReceiptInv, [PlanNext]_planVars PROVE ReceiptInv'
    OBVIOUS
  <2>1. PlanInv'
    BY StepPlanInv DEF ReceiptInv
  <2> QED BY <2>1, EntriesStep, NamesStayStep, OldNamesStep, WayBackStep, OldValuesStep DEF ReceiptInv
<1> QED BY <1>1, InitReceiptInv, PTL DEF PlanSpec

\* mutation-plan.ts, the rollback and its receipt: a receipt that reports neither a
\* conflict nor a partial application is of a place that is as it was (up to what the
\* undo list makes of values), or that has every edit, whichever edits and restores
\* fail, for any plan that hands no name on and any number of instances.
THEOREM ReceiptsAreTruthful == PlanSpec => []ReceiptIsTruthful
<1>1. ReceiptInv => ReceiptIsTruthful
  <2> SUFFICES ASSUME ReceiptInv PROVE ReceiptIsTruthful
    OBVIOUS
  <2>0. PhasesAreKept /\ UndoLeadsBack /\ unrestored \in Nat
    BY DEF ReceiptInv, PlanInv, PlanTypes
  <2>1. planPhase = "conflict" => place = before
    BY <2>0 DEF PhasesAreKept
  <2>2. ASSUME planPhase = "applied", ~partiallyApplied, made # DOMAIN plan PROVE AsSerialized(place, before)
    <3>1. made = {}
      BY <2>2 DEF partiallyApplied
    <3>2. place = before
      BY <2>0, <2>2, <3>1 DEF UndoLeadsBack
    <3> QED BY <3>2 DEF AsSerialized
  <2>3. ASSUME planPhase = "rolledBack", ~partiallyApplied, RenamesAreFresh PROVE AsSerialized(place, before)
    <3>1. unrestored = 0
      BY <2>0, <2>3 DEF partiallyApplied
    <3> QED BY <2>0, <2>3, <3>1 DEF UndoLeadsBack
  <2> QED BY <2>1, <2>2, <2>3 DEF ReceiptIsTruthful
<1> QED BY <1>1, ReceiptInvariance, PTL

\* What an edit does to a place: one field of an instance of that name, or nothing.
LEMMA AppliedFacts ==
  ASSUME NEW p \in PlaceValues, NEW op, WellValued(op)
  PROVE  /\ Applied(p, op) \in PlaceValues
         /\ \/ \E i \in 1 .. Children : p[i].Name = op.target /\ WrittenOnly(p, i, op, Applied(p, op))
            \/ (\A i \in 1 .. Children : p[i].Name # op.target) /\ Applied(p, op) = p
<1>1. CASE \E i \in 1 .. Children : p[i].Name = op.target
  <2> DEFINE c == CHOOSE i \in 1 .. Children : p[i].Name = op.target
  <2>1. c \in 1 .. Children /\ p[c].Name = op.target
    BY <1>1
  <2>2. Applied(p, op) = Written(p, c, op)
    BY <1>1 DEF Applied
  <2> HIDE DEF c
  <2>3. WrittenOnly(p, c, op, Applied(p, op))
    BY <2>1, <2>2, WrittenFacts
  <2> QED BY <2>1, <2>3 DEF WrittenOnly
<1>2. CASE ~ \E i \in 1 .. Children : p[i].Name = op.target
  BY <1>2 DEF Applied
<1> QED BY <1>1, <1>2

\* r are the places that the first edits of a list make of p.
Passes(r, p, edits) ==
  /\ r[0] = p
  /\ \A k \in 0 .. Len(edits) : r[k] \in PlaceValues
  /\ \A k \in 1 .. Len(edits) : r[k] = Applied(r[k - 1], edits[k])

LEMMA RunPasses ==
  ASSUME NEW p \in PlaceValues, NEW edits, Len(edits) \in Nat, \A k \in 1 .. Len(edits) : WellValued(edits[k])
  PROVE  Passes(PlacesOf(p, edits), p, edits)
<1> DEFINE n == Len(edits)
<1> DEFINE apply == [k \in 1 .. n |-> [q \in PlaceValues |-> Applied(q, edits[k])]]
<1>1. \A k \in 1 .. n : apply[k] \in [PlaceValues -> PlaceValues]
  <2>1. \A k \in 1 .. n : \A q \in PlaceValues : Applied(q, edits[k]) \in PlaceValues
    BY AppliedFacts
  <2> QED BY <2>1
<1>2. PICK f \in [0 .. n -> PlaceValues] : Recursion(f, n, p, apply)
  <2> HIDE DEF apply
  <2> QED BY <1>1, RecursionExists
<1>3. \A i \in 0 .. n : i # 0 => i \in 1 .. n /\ i - 1 \in 0 .. n
  OBVIOUS
<1>4. \A i \in 0 .. n : i # 0 => apply[i][f[i - 1]] = Applied(f[i - 1], edits[i])
  BY <1>2, <1>3
<1>5. f = [i \in 0 .. n |-> IF i = 0 THEN p ELSE Applied(f[i - 1], edits[i])]
  <2> HIDE DEF apply
  <2> QED BY <1>2, <1>4 DEF Recursion
<1> DEFINE ran == PlacesOf(p, edits)
<1>6. ran = CHOOSE g : g = [i \in 0 .. n |-> IF i = 0 THEN p ELSE Applied(g[i - 1], edits[i])]
  BY DEF PlacesOf
<1>7. ran = [i \in 0 .. n |-> IF i = 0 THEN p ELSE Applied(ran[i - 1], edits[i])]
  <2> HIDE DEF n, apply, ran
  <2> QED BY <1>5, <1>6
<1> HIDE DEF apply, ran
<1>8. \A i \in 0 .. n : ran[i] = IF i = 0 THEN p ELSE Applied(ran[i - 1], edits[i])
  BY <1>7
<1>9. ran[0] = p
  BY <1>8
<1>10. \A k \in 1 .. n : ran[k] = Applied(ran[k - 1], edits[k])
  BY <1>8
<1>11. \A k \in 0 .. n : ran[k] \in PlaceValues
  <2> DEFINE T == {k \in 0 .. n : ran[k] \in PlaceValues}
  <2>1. 0 \in T
    BY <1>9
  <2>2. ASSUME NEW k \in 1 .. n, k - 1 \in T PROVE k \in T
    <3>1. ran[k - 1] \in PlaceValues /\ k \in 0 .. n
      BY <2>2
    <3>2. Applied(ran[k - 1], edits[k]) \in PlaceValues
      BY <3>1, AppliedFacts
    <3> QED BY <1>10, <3>1, <3>2
  <2>3. \A k \in 0 .. n : k \in T
    <3> HIDE DEF T
    <3> QED BY <2>1, <2>2, UpTo
  <2> QED BY <2>3
<1> QED BY <1>9, <1>10, <1>11 DEF ran, Passes

\* After k undo entries, names are as they were and every field has its old value
\* or is as the plan left it, and then none of the entries was about it.
Returning(q, k) ==
  /\ \A i \in 1 .. Children : q[i].Name = before[i].Name
  /\ \A i \in 1 .. Children, f \in Fields :
       q[i][f] \notin {before[i][f], oldValue(f, before[i][f])}
         => q[i][f] = place[i][f] /\ \A l \in 1 .. k : ~ About(l, i, f)

LEMMA UndoReturns ==
  ASSUME NamesStay, OldValues, NEW k \in 1 .. Len(undo), undo[k].field # "Name", Len(undo) \in Nat, WellValued(undo[k]),
         NEW p \in PlaceValues, Returning(p, k - 1)
  PROVE  Returning(Applied(p, undo[k]), k)
<1> DEFINE op == undo[k]
<1> DEFINE q == Applied(p, undo[k])
<1>1. op.field # "Name" /\ \A i, j \in 1 .. Children : before[i].Name = before[j].Name => i = j
  BY DEF NamesStay
<1>2. \A l \in 1 .. k : l \in 1 .. k - 1 \/ l = k
  OBVIOUS
<1>3. /\ \A i \in 1 .. Children : p[i].Name = before[i].Name
      /\ \A i \in 1 .. Children, f \in Fields :
           p[i][f] \notin {before[i][f], oldValue(f, before[i][f])}
             => p[i][f] = place[i][f] /\ \A l \in 1 .. k - 1 : ~ About(l, i, f)
  BY DEF Returning
<1>4. \/ \E i \in 1 .. Children : p[i].Name = op.target /\ WrittenOnly(p, i, op, q)
      \/ (\A i \in 1 .. Children : p[i].Name # op.target) /\ q = p
  BY AppliedFacts
<1> HIDE DEF q
<1>5. ASSUME NEW i \in 1 .. Children, p[i].Name = op.target, WrittenOnly(p, i, op, q)
      PROVE  Returning(q, k)
  <2>1. /\ q[i][op.field] = op.value
        /\ \A f \in Fields \ {op.field} : q[i][f] = p[i][f]
        /\ \A j \in 1 .. Children : j # i => q[j] = p[j]
    BY <1>5 DEF WrittenOnly
  <2>2. op.value = oldValue(op.field, before[i][op.field])
    BY <1>3, <1>5 DEF OldValues, Back
  <2>3. \A j \in 1 .. Children : q[j].Name = before[j].Name
    BY <1>1, <1>3, <1>5, NamesLeft
  <2>4. ASSUME NEW j \in 1 .. Children, NEW f \in Fields,
               q[j][f] \notin {before[j][f], oldValue(f, before[j][f])}
        PROVE  q[j][f] = place[j][f] /\ \A l \in 1 .. k : ~ About(l, j, f)
    <3>1. q[j][f] = p[j][f] /\ (j # i \/ f # op.field)
      BY <2>1, <2>2, <2>4
    <3>2. ~ About(k, j, f)
      BY <1>1, <1>3, <1>5, <3>1 DEF About
    <3> QED BY <1>2, <1>3, <2>4, <3>1, <3>2
  <2> QED BY <2>3, <2>4 DEF Returning
<1>6. ASSUME \A i \in 1 .. Children : p[i].Name # op.target, q = p
      PROVE  Returning(q, k)
  <2>1. \A i \in 1 .. Children, f \in Fields : ~ About(k, i, f)
    BY <1>3, <1>6 DEF About
  <2> QED BY <1>2, <1>3, <1>6, <2>1 DEF Returning
<1>7. Returning(q, k)
  BY <1>4, <1>5, <1>6
<1> QED BY <1>7 DEF q

\* mutation-plan.ts, "the rollback IS another mutation plan": for any plan that leaves
\* names alone and writes no field twice, and for any place, the undo list run as a plan
\* takes the place back to what it was, up to what the list makes of values.
THEOREM ReceiptsUndoPlans == PlanSpec => []ReceiptUndoesPlan
<1>1. ReceiptInv => ReceiptUndoesPlan
  <2> SUFFICES ASSUME ReceiptInv, OneWriteEach, NamesLeftAlone, planPhase = "applied"
               PROVE AsSerialized(Run(place, undo), before)
    BY DEF ReceiptUndoesPlan, Applies, OneWriteEach, NamesLeftAlone
  <2>0. PlanTypes /\ NamesStay /\ EntriesAreOfEdits /\ UndoHasOldValues /\ place \in PlaceValues /\ before \in PlaceValues
    BY DEF ReceiptInv, PlanInv, PlanTypes
  <2>1. Len(undo) \in Nat /\ \A k \in 1 .. Len(undo) : WellValued(undo[k])
    BY <2>0, PlanSequences
  <2>2. OldValues
    BY <2>0 DEF UndoHasOldValues
  <2>a. ASSUME NEW k \in 1 .. Len(undo) PROVE undo[k].field # "Name"
    <3>1. PICK j \in made : undo[k].field = plan[j].field
      BY <2>0 DEF EntriesAreOfEdits
    <3>2. j \in DOMAIN plan
      BY <2>0, PlanSequences DEF PlanTypes
    <3> QED BY <3>1, <3>2 DEF NamesLeftAlone
  <2> DEFINE n == Len(undo)
  <2> DEFINE r == PlacesOf(place, undo)
  <2>3. /\ r[0] = place
        /\ \A k \in 0 .. n : r[k] \in PlaceValues
        /\ \A k \in 1 .. n : r[k] = Applied(r[k - 1], undo[k])
    BY <2>0, <2>1, RunPasses DEF Passes
  <2> HIDE DEF r
  <2> DEFINE T == {k \in 0 .. n : Returning(r[k], k)}
  <2>4. 0 \in T
    <3>1. Returning(place, 0)
      BY <2>0 DEF Returning, NamesStay
    <3> QED BY <2>1, <2>3, <3>1
  <2>5. ASSUME NEW k \in 1 .. n, k - 1 \in T PROVE k \in T
    <3>1. Returning(r[k - 1], k - 1) /\ k \in 0 .. n /\ k - 1 \in 0 .. n
      BY <2>5
    <3>2. Returning(Applied(r[k - 1], undo[k]), k)
      BY <2>0, <2>1, <2>2, <2>3, <2>a, <3>1, UndoReturns
    <3> QED BY <2>3, <3>1, <3>2
  <2>6. \A k \in 0 .. n : k \in T
    <3> HIDE DEF T
    <3> QED BY <2>1, <2>4, <2>5, UpTo
  <2>7. Returning(r[n], n) /\ r[n] \in PlaceValues
    BY <2>1, <2>3, <2>6
  <2>8. ASSUME NEW i \in 1 .. Children, NEW f \in Fields PROVE r[n][i][f] \in {before[i][f], oldValue(f, before[i][f])}
    <3>1. place[i][f] # before[i][f] => \E k \in 1 .. n : About(k, i, f)
      BY <2>0 DEF UndoHasOldValues
    <3> QED BY <2>7, <3>1 DEF Returning
  <2> QED BY <2>8 DEF r, Run, AsSerialized
<1> QED BY <1>1, ReceiptInvariance, PTL
=============================================================================
