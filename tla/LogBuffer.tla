------------------------------- MODULE LogBuffer -------------------------------
(***************************************************************************)
(* The log ring of a Studio plugin peer, RuntimeLogBuffer.ts of            *)
(* studio-plugin/src/modules, and a caller of get_runtime_logs that reads  *)
(* it piece by piece with the cursor nextSince.                            *)
(*                                                                         *)
(* A message is its size; MaxBytes and EntryCap stand for 64 KiB and       *)
(* 50000 entries.  A play session that ends takes its buffer with it.      *)
(***************************************************************************)
EXTENDS Integers, Sequences, SequencesExt, FiniteSetsExt

CONSTANTS
  Sizes,       \* sizes of messages in bytes
  MaxBytes,    \* MAX_BYTES
  EntryCap,    \* HARD_ENTRY_CAP
  MaxPushed    \* bound on the messages that are logged

ASSUME LogAssumption ==
  /\ Sizes \subseteq Nat /\ MaxBytes \in Nat
  /\ EntryCap \in Nat \ {0} /\ MaxPushed \in Nat

VARIABLES
  entries,       \* the ring, oldest first
  totalBytes,    \* the running count of bytes in it
  totalDropped,  \* messages that were dropped
  nextSeq,       \* the number of the next entry
  since,         \* the cursor of the reader, or 0
  read,          \* history: numbers the reader was given, in order
  pushed         \* history: messages logged

logVars == <<entries, totalBytes, totalDropped, nextSeq, since, read, pushed>>
-----------------------------------------------------------------------------
Entries == [seq : 1..MaxPushed, bytes : Sizes]

\* The bytes of the first i entries of s, for every i.
SizesOf(s) ==
  LET size[i \in 0..Len(s)] == IF i = 0 THEN 0 ELSE size[i - 1] + s[i].bytes
  IN  size

BytesOf(s) == SizesOf(s)[Len(s)]

LogInit ==
  /\ entries = <<>>
  /\ totalBytes = 0
  /\ totalDropped = 0
  /\ nextSeq = 1
  /\ since = 0
  /\ read = <<>>
  /\ pushed = 0

\* Fault: an entry that goes is not subtracted from the count.
BytesAfterAll(k) == totalBytes
BytesAfter(k) == totalBytes - SizesOf(entries)[k]

\* The ring has room for bytes more when its k oldest entries are gone.
Fits(k, bytes) == BytesAfter(k) + bytes <= MaxBytes /\ Len(entries) - k < EntryCap

\* dropOldestUntilFits: how many entries go.
Dropped(bytes) ==
  Min({k \in 0..Len(entries) : k = Len(entries) \/ Fits(k, bytes)})

\* pushEntry of a message that can never fit: it gets no number.
PushTooLarge(bytes) ==
  /\ pushed < MaxPushed /\ bytes > MaxBytes
  /\ totalDropped' = totalDropped + 1
  /\ pushed' = pushed + 1
  /\ UNCHANGED <<entries, totalBytes, nextSeq, since, read>>

PushEntry(bytes) ==
  LET k == Dropped(bytes) IN
  /\ pushed < MaxPushed /\ bytes <= MaxBytes
  /\ entries' = Append(SubSeq(entries, k + 1, Len(entries)), [seq |-> nextSeq, bytes |-> bytes])
  /\ totalBytes' = BytesAfter(k) + bytes
  /\ totalDropped' = totalDropped + k
  /\ nextSeq' = nextSeq + 1
  /\ pushed' = pushed + 1
  /\ UNCHANGED <<since, read>>

\* The first i entries without those the cursor s has passed, for every i.
Passing(s) ==
  LET passed[i \in 0..Len(entries)] ==
        IF i = 0 THEN <<>>
        ELSE IF entries[i].seq > s THEN Append(passed[i - 1], entries[i])
        ELSE passed[i - 1]
  IN  passed

After(s) == Passing(s)[Len(entries)]

\* Fault: the cursor counts entries instead of naming the last one.
NextSinceByCount == since + Len(After(since))

NextSince == IF entries = <<>> THEN since ELSE Last(entries).seq

\* query with the cursor of the last answer, and no tail: the same cursor comes
\* back with a tail, so what a tail leaves out is never shown.
Query ==
  /\ read' = read \o [i \in DOMAIN After(since) |-> After(since)[i].seq]
  /\ since' = NextSince
  /\ UNCHANGED <<entries, totalBytes, totalDropped, nextSeq, pushed>>

LogNext == Query \/ \E bytes \in Sizes : PushEntry(bytes) \/ PushTooLarge(bytes)

LogSpec == LogInit /\ [][LogNext]_logVars
-----------------------------------------------------------------------------
\* Ring, counters and cursor have their types.
LogTypeOK ==
  /\ entries \in Seq(Entries)
  /\ totalBytes \in 0..MaxBytes
  /\ totalDropped \in 0..MaxPushed
  /\ nextSeq \in 1..MaxPushed + 1
  /\ since \in 0..MaxPushed
  /\ read \in Seq(1..MaxPushed)
  /\ pushed \in 0..MaxPushed

\* The running count that decides what is dropped is the size of the ring, and
\* the ring is within both its limits, message after message.
CountIsExact ==
  /\ totalBytes = BytesOf(entries)
  /\ totalBytes <= MaxBytes /\ Len(entries) <= EntryCap

\* A reader that passes nextSince back is given no entry twice, and is given
\* every entry that the ring did not drop before it came.
ReadOnceInOrder ==
  /\ \A i, j \in DOMAIN read : i < j => read[i] < read[j]
  /\ \A i \in DOMAIN entries : entries[i].seq <= since =>
       \E j \in DOMAIN read : read[j] = entries[i].seq

\* Every message is in the ring, or was counted as dropped, so a reader can tell
\* from totalDropped that it missed something.
NothingVanishes == pushed = Len(entries) + totalDropped

\* A reader that follows the cursor gets what the ring kept, once and in order, and
\* can tell what it did not keep, whichever of the two limits dropped it.
ReadersMissNothing == ReadOnceInOrder /\ CountIsExact /\ NothingVanishes
=============================================================================
