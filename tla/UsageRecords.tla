---------------------------- MODULE UsageRecords ----------------------------
(***************************************************************************)
(* The two stores of one process: record() puts a sample into the rollups  *)
(* and into the raw log's queue under one lock, and close() ends the       *)
(* rollups after the raw log.  The process may crash at any step and a new *)
(* one starts on the same files.                                           *)
(***************************************************************************)
EXTENDS MetricsStore, Rollups

CONSTANTS Attribution,               \* each sample's day and session
          MaxFailures, MaxCrashes    \* bounds: failed writes, crashes

ASSUME AttributionAssumption ==
  /\ Samples \subseteq Observations
  /\ Attribution \in [Samples -> [day : Days, session : Sessions]]
  /\ MaxFailures \in Nat /\ MaxCrashes \in Nat

VARIABLES recorded,  \* samples of every process so far
          failures, crashes

vars == <<mvars, rvars, recorded, failures, crashes>>

TypeOK ==
  /\ MTypeOK /\ RTypeOK
  /\ recorded \subseteq Samples
  /\ failures \in 0..MaxFailures /\ crashes \in 0..MaxCrashes

Init == MInit /\ RInit /\ recorded = {} /\ failures = 0 /\ crashes = 0

\* Samples come in a fixed order: they differ only in their identity.
Record(s) ==
  /\ s \notin recorded /\ \A t \in Samples : t < s => t \in recorded
  /\ Enqueue(s) /\ Observes(s, Attribution[s].day, Attribution[s].session)
  /\ recorded' = recorded \cup {s}
  /\ UNCHANGED <<failures, crashes>>

Quiet == UNCHANGED <<recorded, failures, crashes>>
Failure == failures < MaxFailures /\ failures' = failures + 1 /\ UNCHANGED <<recorded, crashes>>

Metrics ==
  /\ FlushStarts \/ CloseStarts \/ CloseLocks \/ CloseDone \/ (\E m \in BOOLEAN : FlushWrites(m) \/ CloseWrites(m))
  /\ UNCHANGED rvars /\ Quiet

MetricsFail ==
  /\ \E f \in {files[1]} \cup Cut(files[1], Batch) : FlushFails(f) \/ CloseFails(f)
  /\ UNCHANGED rvars /\ Failure

RollupFlush ==
  /\ Snapshot \/ (\E k \in batch : AppendOk(k)) \/ Flushed
  /\ UNCHANGED mvars /\ Quiet

RollupsFail ==
  /\ \E k \in batch : \E f \in Unappended(k) : AppendFails(k, f)
  /\ UNCHANGED mvars /\ Failure

RollupsClose ==
  /\ io = "done" /\ RClose
  /\ UNCHANGED mvars /\ Quiet

Crash ==
  /\ crashes < MaxCrashes /\ crashes' = crashes + 1
  /\ \E f \in {files[1]} \cup Cut(files[1], Batch) : MCrash(f)
  /\ \E k \in Keys : \E f \in {history[k.day]} \cup (IF k \in batch THEN Unappended(k) ELSE {}) : RCrash(k, f)
  /\ UNCHANGED <<recorded, failures>>

Ended == closing = "done" /\ ~flushing /\ ~rtimer /\ UNCHANGED vars

Next ==
  \/ (\E s \in Samples : Record(s)) \/ Metrics \/ MetricsFail \/ RollupFlush \/ RollupsFail \/ RollupsClose \/ Crash
  \/ Ended

\* The timers fire and the flush they start proceeds; the disk fails at most
\* MaxFailures times.
Spec == Init /\ [][Next]_vars /\ WF_vars(RollupFlush)
-----------------------------------------------------------------------------
(***************************************************************************)
(* Properties.                                                             *)
(***************************************************************************)
\* Every sample record() took is in a file, waits, was counted as dropped, or
\* fell to a crash, to half a line or to the age of its archive: a failed
\* write, a full queue and a close during a flush lose none unseen.
NothingVanishes ==
  recorded \subseteq OnDisk \cup ToSet(queue) \cup dropped \cup lost \cup Swallowed \cup aged

\* An instance that ends with close() after appends that all worked leaves
\* nothing it observed uncounted, also what arrived during the last flush.
CleanCloseCountsAll ==
  closing = "done" /\ ~flushing /\ ~failed => \A o \in observed \ gone : Counted(o) = 1

\* The summed history is a correct count: a delta retried after an ambiguous
\* failure, a torn line or a restart is counted once.
CountsOnce == Promise!Spec

\* Again and again, everything observed has been counted, unless the process
\* crashed or was closed: the flush that clears the timer sets it again for
\* what failed and for what arrived meanwhile.
EventuallyCounted ==
  []<>(closing # "open" \/ \A o \in observed \ gone : Counted(o) = 1)
=============================================================================
