---------------------------- MODULE MetricsStore ----------------------------
(***************************************************************************)
(* The raw metrics log (metricsStore): record() queues a sample, one flush *)
(* at a time appends a batch to the file, syncs it and drops it from the   *)
(* queue, close() drains.  A write may fail and be rolled back, fail and   *)
(* stay, or be cut by a crash; a file is rotated once it is long enough.   *)
(*                                                                         *)
(* A file is [lines, torn, swallowed]: its samples in order, whether it    *)
(* ends in half a line, and the samples whose line was written behind half *)
(* a line, which no reader can decode.                                     *)
(***************************************************************************)
EXTENDS Integers, Sequences, FiniteSets, SequencesExt

CONSTANTS Samples,       \* metric samples, by EventID
          QueueCap,      \* pendingCapacity
          BatchSize,     \* 256 in flushBatchLocked
          SegmentLines,  \* maxSamples, in lines of a file
          Archives       \* metricsArchiveCount + 1

ASSUME MetricsAssumption ==
  /\ QueueCap \in Nat /\ BatchSize \in Nat /\ SegmentLines \in Nat
  /\ Archives \in Nat /\ Archives >= 2

VARIABLES queue,    \* pending
          dropped,  \* the samples counted in dropped
          mclosed,  \* closed
          mtimer,   \* flushTimer is set
          io,       \* who holds ioMu: "none", "flush", "close" or "done"
          files,    \* the file, path.1, path.2 ...
          lines,    \* persistedLines
          lost,     \* samples a crash took
          aged      \* samples of an archive that was removed

mvars == <<queue, dropped, mclosed, mtimer, io, files, lines, lost, aged>>

Files == [lines : Seq(Samples), torn : BOOLEAN, swallowed : SUBSET Samples]

MTypeOK ==
  /\ queue \in Seq(Samples) /\ dropped \subseteq Samples /\ lost \subseteq Samples /\ aged \subseteq Samples
  /\ mclosed \in BOOLEAN /\ mtimer \in BOOLEAN /\ io \in {"none", "flush", "close", "done"}
  /\ files \in Seq(Files) /\ Len(files) \in 1..Archives
  /\ lines \in Nat

Empty == [lines |-> <<>>, torn |-> FALSE, swallowed |-> {}]

MInit ==
  /\ queue = <<>> /\ dropped = {} /\ mclosed = FALSE /\ mtimer = FALSE /\ io = "none"
  /\ files = <<Empty>> /\ lines = 0 /\ lost = {} /\ aged = {}

Batch == SubSeq(queue, 1, IF Len(queue) < BatchSize THEN Len(queue) ELSE BatchSize)
Decoded(f) == ToSet(f.lines)
Kept(f) == Decoded(f) \cup f.swallowed

\* Whole lines appended: the first one behind half a line is lost to it.
Appended(f, batch) ==
  IF batch = <<>> THEN f
  ELSE IF f.torn THEN [lines |-> f.lines \o Tail(batch), torn |-> FALSE, swallowed |-> f.swallowed \cup {Head(batch)}]
  ELSE [f EXCEPT !.lines = @ \o batch]

\* What a write that was cut leaves: some lines, and perhaps half of the next.
Cut(f, batch) ==
  {Appended(f, SubSeq(batch, 1, n)) : n \in 0..Len(batch)}
    \cup {[Appended(f, SubSeq(batch, 1, n)) EXCEPT !.torn = TRUE] : n \in 0..(Len(batch) - 1)}

\* record, after the sample is in memory and in the rollups
Enqueue(s) ==
  /\ ~mclosed
  /\ IF Len(queue) >= QueueCap
     THEN dropped' = dropped \cup {s} /\ UNCHANGED <<queue, mtimer>>
     ELSE /\ queue' = Append(queue, s)
          /\ mtimer' = (mtimer \/ io # "flush")
          /\ UNCHANGED dropped
  /\ UNCHANGED <<mclosed, io, files, lines, lost, aged>>

FlushStarts ==
  /\ mtimer /\ io = "none" /\ ~mclosed
  /\ io' = "flush" /\ mtimer' = FALSE
  /\ UNCHANGED <<queue, dropped, mclosed, files, lines, lost, aged>>

\* rotateMetricsArchives: the oldest archive goes when there is one too many.
Rotated(fs) ==
  <<Empty, fs[1]>> \o SubSeq(fs, 2, IF Len(fs) < Archives THEN Len(fs) ELSE Archives - 1)

\* A batch written: it leaves the queue, and a file that is full is rotated
\* unless a rename fails.
Written(moved) ==
  LET fs == [files EXCEPT ![1] = Appended(@, Batch)]
      rotates == lines + Len(Batch) >= SegmentLines /\ moved
  IN /\ queue' = SubSeq(queue, Len(Batch) + 1, Len(queue))
     /\ files' = IF rotates THEN Rotated(fs) ELSE fs
     /\ lines' = IF rotates THEN 0 ELSE lines + Len(Batch)
     /\ aged' = aged \cup IF rotates /\ Len(fs) = Archives THEN Kept(Last(fs)) ELSE {}
     /\ UNCHANGED <<dropped, lost>>

\* A batch that failed: truncated away, or the truncation failed too.
Unwritten(left) ==
  /\ left \in {files[1]} \cup Cut(files[1], Batch)
  /\ files' = [files EXCEPT ![1] = left]
  /\ UNCHANGED <<lines, lost, aged>>

\* The rest of flush: the timer is set again while something waits.
FlushEnds ==
  /\ io = "flush" /\ io' = "none"
  /\ mtimer' = (~mclosed /\ queue' # <<>>)
  /\ UNCHANGED mclosed

FlushWrites(moved) == queue # <<>> /\ Written(moved) /\ FlushEnds
FaultFlushFails(left) ==
  queue # <<>> /\ Unwritten(left) /\ queue' = SubSeq(queue, Len(Batch) + 1, Len(queue)) /\ UNCHANGED dropped /\ FlushEnds

FlushFails(left) == queue # <<>> /\ Unwritten(left) /\ UNCHANGED <<queue, dropped>> /\ FlushEnds

\* close: no new records, then wait for the writer and drain; a batch that
\* fails gives up what is left.
CloseStarts ==
  /\ ~mclosed
  /\ mclosed' = TRUE /\ mtimer' = FALSE
  /\ UNCHANGED <<queue, dropped, io, files, lines, lost, aged>>

CloseLocks ==
  /\ mclosed /\ io = "none"
  /\ io' = "close"
  /\ UNCHANGED <<queue, dropped, mclosed, mtimer, files, lines, lost, aged>>

CloseWrites(moved) ==
  /\ io = "close" /\ queue # <<>>
  /\ Written(moved)
  /\ UNCHANGED <<mclosed, mtimer, io>>

CloseFails(left) ==
  /\ io = "close" /\ queue # <<>>
  /\ Unwritten(left)
  /\ dropped' = dropped \cup ToSet(queue) /\ queue' = <<>>
  /\ UNCHANGED <<mclosed, mtimer, io>>

CloseDone ==
  /\ io = "close" /\ queue = <<>>
  /\ io' = "done"
  /\ UNCHANGED <<queue, dropped, mclosed, mtimer, files, lines, lost, aged>>

\* The process dies, in the middle of a write or not, and the next one loads
\* the file; the queue is gone.
MCrash(left) ==
  /\ left \in {files[1]} \cup (IF io \in {"flush", "close"} THEN Cut(files[1], Batch) ELSE {})
  /\ files' = [files EXCEPT ![1] = left]
  /\ lines' = Cardinality(Decoded(left))
  /\ lost' = lost \cup (ToSet(queue) \ Decoded(left))
  /\ queue' = <<>> /\ mclosed' = FALSE /\ mtimer' = FALSE /\ io' = "none"
  /\ UNCHANGED <<dropped, aged>>
-----------------------------------------------------------------------------
OnDisk == UNION {Decoded(files[k]) : k \in DOMAIN files}
Swallowed == UNION {files[k].swallowed : k \in DOMAIN files}

=============================================================================
