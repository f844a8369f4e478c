------------------------------ MODULE AccountPins ------------------------------
(***************************************************************************)
(* The writer of the Claude account pins (account_affinity.go).  Requests  *)
(* pin their conversation to an account in a live map; one goroutine       *)
(* copies the map and replaces the file, coalescing the changes it has not *)
(* got to.  flushClaudeAccountPins waits for the changes made so far,      *)
(* closeClaudeAccountPins ends the writer after a last replacement, and a  *)
(* crash leaves the file only.                                             *)
(*                                                                         *)
(* The contents of the map are its version: every change that is queued    *)
(* makes a new one, and a snapshot, the file and a restarted process hold  *)
(* one of them.  A repeated request on an unchanged account queues nothing *)
(* and is no change here.  The file is replaced by a rename, so it is      *)
(* always whole.  The mutex claudeAccountMu makes each critical section    *)
(* one step.                                                               *)
(***************************************************************************)
EXTENDS Integers

CONSTANTS
  Flushers,    \* callers of flushClaudeAccountPins
  Tries,       \* attempts at one replacement, 3
  MaxVersion   \* bound: versions of the map that are told apart

ASSUME PinsAssumption == Tries \in Nat \ {0} /\ MaxVersion \in Nat

VARIABLES
  live,        \* the version of claudePersistentPins
  saved,       \* the version in the file
  generation,  \* accountPinWriter.generation
  attempted,   \* accountPinWriter.attempted
  err,         \* accountPinWriter.err # nil
  wake,        \* a token is in the wake channel
  closed,      \* claudePinsClosed
  stop,        \* the stop channel is closed
  writer,      \* where the writer goroutine is; "none" before the first change
  stopping,    \* its local variable
  snapshot,    \* the generation and the version it has copied
  failures,    \* failed attempts at the current replacement
  flusher,     \* where each flush is
  target,      \* the generation it waits for
  closer       \* where closeClaudeAccountPins is

writerVars == <<writer, stopping, snapshot, failures>>
vars == <<live, saved, generation, attempted, err, wake, closed, stop, writerVars,
          flusher, target, closer>>

Versions == 0..MaxVersion

TypeOK ==
  /\ live \in Versions /\ saved \in Versions
  /\ generation \in Versions /\ attempted \in Versions
  /\ err \in BOOLEAN /\ wake \in BOOLEAN /\ closed \in BOOLEAN /\ stop \in BOOLEAN
  /\ writer \in {"none", "waiting", "looking", "writing", "written", "done"}
  /\ stopping \in BOOLEAN
  /\ snapshot \in [generation : Versions, pins : Versions]
  /\ failures \in 0..Tries
  /\ flusher \in [Flushers -> {"idle", "checking", "asleep", "flushed", "failed"}]
  /\ target \in [Flushers -> Versions]
  /\ closer \in {"idle", "stopping", "joining", "closed", "failed"}

\* A process that has just loaded version file of the pins.
Started(file) ==
  /\ live = file /\ saved = file
  /\ generation = 0 /\ attempted = 0
  /\ err = FALSE /\ wake = FALSE /\ closed = FALSE /\ stop = FALSE
  /\ writer = "none" /\ stopping = FALSE
  /\ snapshot = [generation |-> 0, pins |-> 0]
  /\ failures = 0
  /\ flusher = [f \in Flushers |-> "idle"]
  /\ target = [f \in Flushers |-> 0]
  /\ closer = "idle"

Init == Started(0)

-----------------------------------------------------------------------------
(* Requests *)

\* rememberClaudeAccountLocked with a new or changed account, and
\* queueClaudeAccountPinsLocked: the writer is created by the first change.
Remember ==
  /\ ~closed
  /\ live < MaxVersion
  /\ live' = live + 1
  /\ generation' = generation + 1
  /\ wake' = TRUE
  /\ writer' = IF writer = "none" THEN "waiting" ELSE writer
  /\ UNCHANGED <<saved, attempted, err, closed, stop, stopping, snapshot, failures,
                 flusher, target, closer>>

-----------------------------------------------------------------------------
(* runClaudeAccountPinWriter *)

\* The select: either case when both are ready.
Woken ==
  /\ writer = "waiting"
  /\ \/ wake /\ wake' = FALSE /\ stopping' = FALSE
     \/ stop /\ stopping' = TRUE /\ UNCHANGED wake
  /\ writer' = "looking"
  /\ UNCHANGED <<live, saved, generation, attempted, err, closed, stop, snapshot, failures,
                 flusher, target, closer>>

\* Seeded fault for CloseDrains: a writer that is stopping writes no more.
FaultNothingWhenStopping == stopping \/ generation = attempted

NothingToDo == generation = attempted /\ (~stopping \/ ~err)

\* Under the mutex: nothing to write, or a copy of the live map.
Look ==
  /\ writer = "looking"
  /\ IF NothingToDo
     THEN /\ writer' = IF stopping THEN "done" ELSE "waiting"
          /\ UNCHANGED <<snapshot, failures>>
     ELSE /\ snapshot' = [generation |-> generation, pins |-> live]
          /\ failures' = 0
          /\ writer' = "writing"
  /\ UNCHANGED <<live, saved, generation, attempted, err, wake, closed, stop, stopping,
                 flusher, target, closer>>

\* saveClaudeAccountPins replaces the file ...
Replace ==
  /\ writer = "writing"
  /\ saved' = snapshot.pins
  /\ writer' = "written"
  /\ UNCHANGED <<live, generation, attempted, err, wake, closed, stop, stopping, snapshot,
                 failures, flusher, target, closer>>

\* Seeded fault for Durable: a failed write has truncated the file in place.
FaultFailToReplaceTruncates ==
  /\ writer = "writing"
  /\ saved' = 0
  /\ failures' = failures + 1
  /\ writer' = IF failures' = Tries THEN "written" ELSE "writing"
  /\ UNCHANGED <<live, generation, attempted, err, wake, closed, stop, stopping, snapshot,
                 flusher, target, closer>>

\* ... or fails and leaves it, for the last time or not.
FailToReplace ==
  /\ writer = "writing"
  /\ failures' = failures + 1
  /\ writer' = IF failures' = Tries THEN "written" ELSE "writing"
  /\ UNCHANGED <<live, saved, generation, attempted, err, wake, closed, stop, stopping, snapshot,
                 flusher, target, closer>>

\* Seeded fault for BothReturn: the waiting flushes are not woken.
FaultPublishWakesNobody ==
  /\ writer = "written"
  /\ attempted' = snapshot.generation
  /\ err' = (failures = Tries)
  /\ writer' = IF stopping THEN "done" ELSE "waiting"
  /\ UNCHANGED <<live, saved, generation, wake, closed, stop, stopping, snapshot, failures,
                 flusher, target, closer>>

\* The outcome is published and the flushes that wait for it wake up.
Publish ==
  /\ writer = "written"
  /\ attempted' = snapshot.generation
  /\ err' = (failures = Tries)
  /\ flusher' = [f \in Flushers |-> IF flusher[f] = "asleep" THEN "checking" ELSE flusher[f]]
  /\ writer' = IF stopping THEN "done" ELSE "waiting"
  /\ UNCHANGED <<live, saved, generation, wake, closed, stop, stopping, snapshot, failures,
                 target, closer>>

Write == Woken \/ Look \/ Replace \/ FailToReplace \/ Publish

-----------------------------------------------------------------------------
(* Flush, close and crash *)

flushUnchanged == <<live, saved, generation, attempted, err, wake, closed, stop, writerVars, closer>>

StartFlush(f) ==
  /\ flusher[f] = "idle"
  /\ flusher' = [flusher EXCEPT ![f] = IF writer = "none" THEN "flushed" ELSE "checking"]
  /\ target' = [target EXCEPT ![f] = generation]
  /\ UNCHANGED flushUnchanged

\* Seeded fault for FlushIsDurable: the outcome of the write is not looked at.
FaultCheckFlushBlind(f) ==
  /\ flusher[f] = "checking"
  /\ flusher' = [flusher EXCEPT ![f] = IF attempted < target[f] THEN "asleep" ELSE "flushed"]
  /\ UNCHANGED <<target, flushUnchanged>>

CheckFlush(f) ==
  /\ flusher[f] = "checking"
  /\ flusher' = [flusher EXCEPT ![f] = IF attempted < target[f] THEN "asleep"
                                       ELSE IF err THEN "failed" ELSE "flushed"]
  /\ UNCHANGED <<target, flushUnchanged>>

EndFlush(f) ==
  /\ flusher[f] \in {"flushed", "failed"}
  /\ flusher' = [flusher EXCEPT ![f] = "idle"]
  /\ UNCHANGED <<target, flushUnchanged>>

closeUnchanged == <<live, saved, generation, attempted, err, wake, writerVars, flusher, target>>

\* Late handlers cannot enqueue from here on.
StartClose ==
  /\ closer = "idle"
  /\ closed' = TRUE
  /\ closer' = IF writer = "none" THEN "closed" ELSE "stopping"
  /\ UNCHANGED <<stop, closeUnchanged>>

CloseStop ==
  /\ closer = "stopping"
  /\ stop' = TRUE
  /\ closer' = "joining"
  /\ UNCHANGED <<closed, closeUnchanged>>

EndClose ==
  /\ closer = "joining" /\ writer = "done"
  /\ closer' = IF err THEN "failed" ELSE "closed"
  /\ UNCHANGED <<closed, stop, closeUnchanged>>

\* The process dies, or exits after its close, and another one loads the file.
Restart ==
  /\ live' = saved /\ saved' = saved
  /\ generation' = 0 /\ attempted' = 0
  /\ err' = FALSE /\ wake' = FALSE /\ closed' = FALSE /\ stop' = FALSE
  /\ writer' = "none" /\ stopping' = FALSE
  /\ snapshot' = [generation |-> 0, pins |-> 0]
  /\ failures' = 0
  /\ flusher' = [f \in Flushers |-> "idle"]
  /\ target' = [f \in Flushers |-> 0]
  /\ closer' = "idle"

Close == StartClose \/ CloseStop \/ EndClose

Next ==
  \/ Remember
  \/ Write
  \/ \E f \in Flushers : StartFlush(f) \/ CheckFlush(f) \/ EndFlush(f)
  \/ Close
  \/ Restart

\* The goroutines run; a storage that fails does so at most Tries times in a
\* row before the writer gives up.
Fairness ==
  /\ WF_vars(Write)
  /\ \A f \in Flushers : WF_vars(CheckFlush(f))
  /\ WF_vars(CloseStop \/ EndClose)

Spec == Init /\ [][Next]_vars /\ Fairness

-----------------------------------------------------------------------------
(* Properties *)

\* What the pins promise across restarts (module DurablePins).
Promise == INSTANCE DurablePins WITH MaxVersion <- MaxVersion, live <- live, saved <- saved

\* The writer, its retries and its shutdown implement the promise: the file
\* holds whole versions, in order, and never one that was not pinned.
Durable == Promise!Spec

\* A flush that returns without an error means what it says: every change made
\* before it was called is in the file, whatever was written or failed since.
FlushIsDurable ==
  \A f \in Flushers :
    flusher[f] = "flushed" => saved + generation >= live + target[f]

\* "Shutdown drains the latest state": after a close without an error nothing
\* is left to lose, and nothing is added afterwards.
CloseDrains == closer = "closed" => saved = live

\* No flush and no close waits for ever, not even when they race each other.
FlushReturns ==
  \A f \in Flushers : flusher[f] \in {"checking", "asleep"} ~> flusher[f] \notin {"checking", "asleep"}
CloseReturns == closer \in {"stopping", "joining"} ~> closer \notin {"stopping", "joining"}
BothReturn == FlushReturns /\ CloseReturns
=============================================================================
