---------------------------- MODULE AccountProofs ----------------------------
(***************************************************************************)
(* The pin writer, for any number of flushes, of tries and of versions.    *)
(*                                                                         *)
(* The strengthening counts in two currencies.  The map and the file hold  *)
(* versions, which survive a restart; the writer counts generations, which *)
(* start again with the process.  live - generation is the version the     *)
(* process was started with, so a generation g stands for the version      *)
(* live - generation + g.  Stated with additions, the file has reached     *)
(* generation g when saved + generation >= live + g.                       *)
(***************************************************************************)
EXTENDS AccountPins, AccountAuth, TLAPS

\* The file has every change up to generation g of this process.
Reached(g) == saved + generation >= live + g

Copying == writer \in {"writing", "written"}

Counters ==
  /\ saved <= live
  /\ generation <= live
  /\ attempted <= generation
  /\ \A f \in Flushers : target[f] <= generation

\* What the writer is writing is one version of the map, not older than the
\* file, and labelled with its generation.
CopyIsAVersion ==
  Copying =>
    /\ snapshot.generation <= generation
    /\ snapshot.pins + generation = live + snapshot.generation
    /\ saved <= snapshot.pins

Outcome ==
  /\ ~err => Reached(attempted)
  /\ writer = "writing" => failures < Tries
  /\ writer = "written" /\ failures # Tries => saved = snapshot.pins

Shutdown ==
  /\ stopping => stop
  /\ stop => closed
  /\ closer # "idle" => closed
  /\ Copying /\ stopping => snapshot.generation = generation
  /\ writer = "done" => stop /\ attempted = generation
  /\ writer = "none" => live = saved
  /\ closer = "closed" => writer \in {"none", "done"}

IInv == TypeOK /\ Counters /\ CopyIsAVersion /\ Outcome /\ Shutdown /\ FlushIsDurable /\ CloseDrains

LEMMA InitIInv == ASSUME Init PROVE IInv
<1> USE DEF Init, Started
<1>0. 0 \in Versions /\ 0 \in 0..Tries
  BY PinsAssumption DEF Versions
<1>1. TypeOK
  <2>1. snapshot \in [generation : Versions, pins : Versions]
    BY <1>0
  <2>2. flusher \in [Flushers -> {"idle", "checking", "asleep", "flushed", "failed"}]
    OBVIOUS
  <2>3. target \in [Flushers -> Versions]
    BY <1>0
  <2> QED BY <1>0, <2>1, <2>2, <2>3 DEF TypeOK
<1>2. Counters /\ CopyIsAVersion
  BY DEF Init, Started, Counters, CopyIsAVersion, Copying
<1>3. Outcome /\ Shutdown
  BY DEF Init, Started, Copying, Outcome, Reached, Shutdown
<1>4. FlushIsDurable /\ CloseDrains
  BY DEF Init, Started, FlushIsDurable, CloseDrains
<1> QED BY <1>1, <1>2, <1>3, <1>4 DEF IInv

LEMMA RememberIInv == ASSUME IInv, Remember PROVE IInv'
<1>1. TypeOK'
  BY PinsAssumption DEF IInv, TypeOK, Remember, Versions, Counters
<1>2. (Counters /\ CopyIsAVersion)'
  BY DEF IInv, TypeOK, Remember, Versions, Counters, CopyIsAVersion, Copying
<1>3. (Outcome /\ Shutdown)'
  BY DEF IInv, TypeOK, Remember, Versions, Counters, Copying, Outcome, Reached, Shutdown
<1>4. (FlushIsDurable /\ CloseDrains)'
  BY DEF IInv, TypeOK, Remember, Versions, FlushIsDurable, CloseDrains, Shutdown
<1> QED BY <1>1, <1>2, <1>3, <1>4 DEF IInv

LEMMA WokenIInv == ASSUME IInv, Woken PROVE IInv'
BY DEF IInv, TypeOK, Woken, Versions, Counters, CopyIsAVersion, Copying, Outcome, Reached, Shutdown,
       FlushIsDurable, CloseDrains

LEMMA LookIInv == ASSUME IInv, Look PROVE IInv'
<1>1. TypeOK'
  BY PinsAssumption DEF IInv, TypeOK, Look, Versions
<1>2. (Counters /\ CopyIsAVersion)'
  BY DEF IInv, TypeOK, Look, Versions, Counters, CopyIsAVersion, Copying
<1>3. (Outcome /\ Shutdown)'
  BY PinsAssumption
     DEF IInv, TypeOK, Look, NothingToDo, Versions, Counters, Copying, Outcome, Reached, Shutdown
<1>4. (FlushIsDurable /\ CloseDrains)'
  BY DEF IInv, TypeOK, Look, Versions, FlushIsDurable, CloseDrains
<1> QED BY <1>1, <1>2, <1>3, <1>4 DEF IInv

LEMMA ReplaceIInv == ASSUME IInv, Replace PROVE IInv'
<1>1. TypeOK'
  BY DEF IInv, TypeOK, Replace, Versions
<1>2. (Counters /\ CopyIsAVersion)'
  BY DEF IInv, TypeOK, Replace, Versions, Counters, CopyIsAVersion, Copying
<1>3. (Outcome /\ Shutdown)'
  BY DEF IInv, TypeOK, Replace, Versions, Counters, CopyIsAVersion, Copying, Outcome, Reached, Shutdown
<1>4. (FlushIsDurable /\ CloseDrains)'
  BY DEF IInv, TypeOK, Replace, Versions, CopyIsAVersion, Copying, FlushIsDurable, CloseDrains, Shutdown
<1> QED BY <1>1, <1>2, <1>3, <1>4 DEF IInv

LEMMA FailToReplaceIInv == ASSUME IInv, FailToReplace PROVE IInv'
<1>1. TypeOK'
  BY PinsAssumption DEF IInv, TypeOK, FailToReplace, Versions, Outcome
<1>2. (Counters /\ CopyIsAVersion)'
  BY DEF IInv, TypeOK, FailToReplace, Versions, Counters, CopyIsAVersion, Copying
<1>3. (Outcome /\ Shutdown)'
  BY PinsAssumption DEF IInv, TypeOK, FailToReplace, Versions, Copying, Outcome, Reached, Shutdown
<1>4. (FlushIsDurable /\ CloseDrains)'
  BY DEF IInv, TypeOK, FailToReplace, Versions, FlushIsDurable, CloseDrains
<1> QED BY <1>1, <1>2, <1>3, <1>4 DEF IInv

LEMMA PublishIInv == ASSUME IInv, Publish PROVE IInv'
<1>1. TypeOK'
  <2>1. snapshot.generation \in Versions
    BY DEF IInv, TypeOK
  <2>2. flusher' \in [Flushers -> {"idle", "checking", "asleep", "flushed", "failed"}]
    BY DEF IInv, TypeOK, Publish
  <2>3. err' \in BOOLEAN
    BY DEF Publish
  <2>4. writer' \in {"none", "waiting", "looking", "writing", "written", "done"}
    BY DEF Publish
  <2> QED BY <2>1, <2>2, <2>3, <2>4 DEF IInv, TypeOK, Publish, Versions
<1>2. (Counters /\ CopyIsAVersion)'
  BY DEF IInv, TypeOK, Publish, Versions, Counters, CopyIsAVersion, Copying
<1>3. (Outcome /\ Shutdown)'
  <2>1. snapshot.generation \in Int /\ snapshot.pins \in Int /\ live \in Int /\ generation \in Int
    BY DEF IInv, TypeOK, Versions
  <2>2. failures # Tries => saved + generation >= live + snapshot.generation
    BY <2>1 DEF IInv, Publish, CopyIsAVersion, Copying, Outcome
  <2>3. (~err => Reached(attempted))'
    BY <2>2 DEF Publish, Reached
  <2>4. writer' \in {"waiting", "done"}
    BY DEF Publish
  <2>5. Outcome'
    BY <2>3, <2>4 DEF Outcome
  <2>6. Shutdown'
    BY <2>4 DEF IInv, TypeOK, Publish, Copying, Shutdown
  <2> QED BY <2>5, <2>6
<1>4. (FlushIsDurable /\ CloseDrains)'
  BY DEF IInv, TypeOK, Publish, Versions, FlushIsDurable, CloseDrains
<1> QED BY <1>1, <1>2, <1>3, <1>4 DEF IInv

LEMMA FlushIInv ==
  ASSUME IInv, NEW f \in Flushers, StartFlush(f) \/ CheckFlush(f) \/ EndFlush(f)
  PROVE  IInv'
<1> USE DEF flushUnchanged, writerVars
<1>1. TypeOK'
  BY DEF IInv, TypeOK, StartFlush, CheckFlush, EndFlush, Versions
<1>2. (Counters /\ CopyIsAVersion)'
  BY DEF IInv, TypeOK, StartFlush, CheckFlush, EndFlush, Versions, Counters, CopyIsAVersion, Copying
<1>3. (Outcome /\ Shutdown /\ CloseDrains)'
  BY DEF IInv, TypeOK, StartFlush, CheckFlush, EndFlush, Outcome, Reached, Shutdown, CloseDrains, Copying
<1>4. FlushIsDurable'
  \* A flush succeeds when the writer does not exist yet, or when the outcome
  \* it reads is good and covers its target.
  <2>1. CASE StartFlush(f)
    BY <2>1 DEF IInv, TypeOK, StartFlush, FlushIsDurable, Shutdown, Versions
  <2>2. CASE CheckFlush(f)
    BY <2>2 DEF IInv, TypeOK, CheckFlush, FlushIsDurable, Outcome, Reached, Counters, Versions
  <2>3. CASE EndFlush(f)
    BY <2>3 DEF IInv, TypeOK, EndFlush, FlushIsDurable
  <2> QED BY <2>1, <2>2, <2>3
<1> QED BY <1>1, <1>2, <1>3, <1>4 DEF IInv

LEMMA CloseIInv == ASSUME IInv, Close PROVE IInv'
<1> USE DEF closeUnchanged, writerVars
<1>1. TypeOK'
  BY DEF IInv, TypeOK, Close, StartClose, CloseStop, EndClose
<1>2. (Counters /\ CopyIsAVersion /\ Outcome /\ FlushIsDurable)'
  BY DEF IInv, Close, StartClose, CloseStop, EndClose, Counters, CopyIsAVersion, Copying, Outcome,
         Reached, FlushIsDurable
<1>3. Shutdown'
  BY DEF IInv, TypeOK, Close, StartClose, CloseStop, EndClose, Shutdown, Copying
<1>4. CloseDrains'
  BY DEF IInv, TypeOK, Close, StartClose, CloseStop, EndClose, CloseDrains, Shutdown, Outcome, Reached,
         Counters, Versions
<1> QED BY <1>1, <1>2, <1>3, <1>4 DEF IInv

LEMMA RestartIInv == ASSUME IInv, Restart PROVE IInv'
<1>0. 0 \in Versions /\ 0 \in 0..Tries
  BY PinsAssumption DEF Versions
<1>1. TypeOK'
  <2>1. snapshot' \in [generation : Versions, pins : Versions]
    BY <1>0 DEF Restart
  <2>2. flusher' \in [Flushers -> {"idle", "checking", "asleep", "flushed", "failed"}]
    BY DEF Restart
  <2>3. target' \in [Flushers -> Versions]
    BY <1>0 DEF Restart
  <2> QED BY <1>0, <2>1, <2>2, <2>3 DEF IInv, TypeOK, Restart, Versions
<1>2. (Counters /\ CopyIsAVersion)'
  BY DEF IInv, TypeOK, Restart, Versions, Counters, CopyIsAVersion, Copying
<1>3. (Outcome /\ Shutdown)'
  BY DEF IInv, TypeOK, Restart, Versions, Copying, Outcome, Reached, Shutdown
<1>4. (FlushIsDurable /\ CloseDrains)'
  BY DEF IInv, TypeOK, Restart, Versions, FlushIsDurable, CloseDrains
<1> QED BY <1>1, <1>2, <1>3, <1>4 DEF IInv

LEMMA NextIInv == ASSUME IInv, [Next]_vars PROVE IInv'
<1>1. CASE UNCHANGED vars
  BY <1>1 DEF vars, writerVars, IInv, TypeOK, Counters, CopyIsAVersion, Copying, Outcome, Reached,
              Shutdown, FlushIsDurable, CloseDrains
<1>2. CASE Next
  BY <1>2, RememberIInv, WokenIInv, LookIInv, ReplaceIInv, FailToReplaceIInv, PublishIInv, FlushIInv,
     CloseIInv, RestartIInv
     DEF Next, Write
<1> QED BY <1>1, <1>2

LEMMA SpecIInv == Spec => []IInv
BY InitIInv, NextIInv, PTL DEF Spec

\* Every variable of the writer, the flushes and the close keeps its type.
THEOREM TypeCorrect == Spec => []TypeOK
<1>1. IInv => TypeOK
  BY DEF IInv
<1> QED BY <1>1, SpecIInv, PTL

\* A flush without an error has every change it was called for in the file.
THEOREM FlushesAreDurable == Spec => []FlushIsDurable
<1>1. IInv => FlushIsDurable
  BY DEF IInv
<1> QED BY <1>1, SpecIInv, PTL

\* After a close without an error the file holds the latest version.
THEOREM ShutdownDrains == Spec => []CloseDrains
<1>1. IInv => CloseDrains
  BY DEF IInv
<1> QED BY <1>1, SpecIInv, PTL

-----------------------------------------------------------------------------
(* The writer implements the promise of DurablePins. *)

LEMMA InitPromise == Init => Promise!Init
BY DEF Init, Started, Promise!Init

\* Only a change, a replacement and a restart touch the map or the file, and
\* each of them is the promise's own step.
LEMMA StepPromise ==
  ASSUME IInv, [Next]_vars
  PROVE  [Promise!Change \/ Promise!Save \/ Promise!Crash]_<<live, saved>>
<1>1. CASE Remember
  BY <1>1, PinsAssumption DEF Remember, Promise!Change, Promise!Versions, IInv, TypeOK, Versions
<1>2. CASE Replace
  BY <1>2 DEF Replace, Promise!Save, IInv, TypeOK, Versions, CopyIsAVersion, Copying
<1>3. CASE Restart
  BY <1>3 DEF Restart, Promise!Crash
<1>4. CASE Woken \/ Look \/ FailToReplace \/ Publish
  BY <1>4 DEF Woken, Look, FailToReplace, Publish
<1>5. CASE (\E f \in Flushers : StartFlush(f) \/ CheckFlush(f) \/ EndFlush(f)) \/ Close
  BY <1>5 DEF StartFlush, CheckFlush, EndFlush, flushUnchanged, Close, StartClose, CloseStop, EndClose,
              closeUnchanged
<1>6. CASE UNCHANGED vars
  BY <1>6 DEF vars
<1> QED BY <1>1, <1>2, <1>3, <1>4, <1>5, <1>6 DEF Next, Write

\* The file is always a whole version of the map, it never goes back, and a
\* crash loses no more than what was not yet in it.
THEOREM Implements == Spec => Durable
<1>1. IInv /\ [Next]_vars => [Promise!Change \/ Promise!Save \/ Promise!Crash]_<<live, saved>>
  BY StepPromise
<1> QED BY <1>1, InitPromise, SpecIInv, PTL DEF Spec, Durable, Promise!Spec

------------------------------------------------------------------------------
(***************************************************************************)
(* Proofs about AccountAuth, for any requests, strikes, durations and any  *)
(* horizon: an authentication block is lifted by newer proofs only, and a  *)
(* quota block that shows keeps its end.                                   *)
(*                                                                         *)
(* Invariant (AuthInv): the record notes an authentication failure at once,*)
(* so that what compares itself with the record compares itself with it.   *)
(***************************************************************************)

\* The record notes every auth failure at once, so the latest one is never
\* newer than the failure it shows.
FailuresAreNoted ==
  /\ authAt <= account.lastFailure
  /\ account.lastFailure <= now

AuthInv == AuthTypeOK /\ FailuresAreNoted

\* A new process has no failure to show.
LEMMA InitAuthInv == ASSUME AuthInit PROVE AuthInv
BY AccountAuthAssumption DEF AuthInit, AuthInv, AuthTypeOK, FailuresAreNoted, Accounts, Instants, AuthReasons

\* The clock goes on with every step that reads it.
LEMMA AdvanceGrows ==
  ASSUME AuthInv, Advance
  PROVE  now' \in Instants /\ now < now'
BY AccountAuthAssumption DEF AuthInv, AuthTypeOK, Advance, Instants

\* markProviderBlocked notes the failure and never shortens a block.
LEMMA MarkedNotes ==
  ASSUME AuthInv, NEW reason \in AuthReasons \union {"quota"}, NEW t \in Instants,
         NEW duration \in Nat \ {0}
  PROVE  /\ Marked(account, reason, t, duration) \in Accounts
         /\ Marked(account, reason, t, duration).lastFailure = t
         /\ Marked(account, reason, t, duration).until >= account.until
         /\ Marked(account, reason, t, duration).until # 0
BY AccountAuthAssumption DEF AuthInv, AuthTypeOK, Accounts, Instants, Marked, AuthReasons

\* The other ways to write the record leave its failure alone.
LEMMA WritesKeepFailure ==
  ASSUME AuthInv, NEW t \in Instants
  PROVE  /\ Unblocked(account) \in Accounts /\ Unblocked(account).lastFailure = account.lastFailure
         /\ Expired(account, t) \in Accounts /\ Expired(account, t).lastFailure = account.lastFailure
         /\ AfterSuccess(account, t) \in Accounts
         /\ AfterSuccess(account, t).lastFailure = account.lastFailure
         /\ AfterRefresh(account, t) \in Accounts
         /\ AfterRefresh(account, t).lastFailure = account.lastFailure
BY DEF AuthInv, AuthTypeOK, Accounts, Instants, Unblocked, Expired, AfterSuccess, AfterRefresh, AuthReasons

\* What a request does keeps the invariant.
LEMMA RequestAuthInv ==
  ASSUME AuthInv, NEW r \in Requests, Send(r) \/ Deliver(r) \/ AuthError(r) \/ QuotaError(r)
  PROVE  AuthInv'
<1>1. now' \in Instants /\ now < now'
  BY AdvanceGrows DEF Send, Deliver, AuthError, QuotaError, Answered
<1>2. sent[r] \in Instants /\ sent' \in [Requests -> Instants]
  <2>1. sent' = sent \/ sent' = [sent EXCEPT ![r] = now'] \/ sent' = [sent EXCEPT ![r] = 0]
    BY DEF Send, Deliver, AuthError, QuotaError, Answered
  <2>2. 0 \in Instants
    BY AccountAuthAssumption DEF Instants
  <2> QED BY <1>1, <2>1, <2>2 DEF AuthInv, AuthTypeOK
<1>3. UNCHANGED <<strikes, verified, phase, since>>
  BY DEF Send, Deliver, AuthError, QuotaError, Answered
<1>4. account' \in Accounts /\ FailuresAreNoted' /\ authAt' \in Instants
  <2>1. CASE Send(r)
    BY <2>1, <1>1, WritesKeepFailure DEF AuthInv, AuthTypeOK, FailuresAreNoted, Send, Accounts, Instants
  <2>2. CASE Deliver(r)
    BY <2>2, <1>1, <1>2, WritesKeepFailure DEF AuthInv, AuthTypeOK, FailuresAreNoted, Deliver, Accounts, Instants
  <2>3. CASE AuthError(r)
    <3>1. "inference" \in AuthReasons \union {"quota"} /\ AuthTime \in Nat \ {0}
      BY AccountAuthAssumption DEF AuthReasons
    <3> QED BY <2>3, <3>1, <1>1, MarkedNotes DEF FailuresAreNoted, AuthError, Instants
  <2>4. CASE QuotaError(r)
    <3>1. PICK duration \in QuotaTimes : account' = Marked(account, "quota", now', duration)
      BY <2>4 DEF QuotaError
    <3>2. duration \in Nat \ {0} /\ "quota" \in AuthReasons \union {"quota"}
      BY AccountAuthAssumption
    <3>3. account' \in Accounts /\ account'.lastFailure = now'
      BY <3>1, <3>2, <1>1, MarkedNotes
    <3> QED BY <2>4, <3>3, <1>1 DEF AuthInv, AuthTypeOK, FailuresAreNoted, QuotaError, Accounts, Instants
  <2> QED BY <2>1, <2>2, <2>3, <2>4
<1> QED BY <1>1, <1>2, <1>3, <1>4 DEF AuthInv, AuthTypeOK

\* A refresh run or a usage fetch that ends leaves the monitors typed.
LEMMA FinishedTypes ==
  ASSUME AuthInv, NEW m \in Monitors, Finished(m)
  PROVE  /\ phase' \in [Monitors -> {"idle", "running", "clearing"}]
         /\ since' \in [Monitors -> Instants]
BY AccountAuthAssumption DEF AuthInv, AuthTypeOK, Finished, Instants

\* What a monitor does keeps the invariant.
LEMMA MonitorAuthInv ==
  ASSUME AuthInv, NEW m \in Monitors,
         Start(m) \/ Inconclusive(m) \/ RefreshSucceeds(m) \/ ClearBlock(m) \/ RefreshFails(m)
  PROVE  AuthInv'
<1>1. CASE Start(m)
  BY <1>1, AdvanceGrows DEF AuthInv, AuthTypeOK, FailuresAreNoted, Start, Accounts, Instants
<1>2. CASE Inconclusive(m)
  BY <1>2, FinishedTypes DEF AuthInv, AuthTypeOK, FailuresAreNoted, Inconclusive
<1>3. CASE RefreshSucceeds(m)
  BY <1>3 DEF AuthInv, AuthTypeOK, FailuresAreNoted, RefreshSucceeds
<1>4. CASE ClearBlock(m)
  <2>1. now' \in Instants /\ now < now' /\ since[m] \in Instants
    BY <1>4, AdvanceGrows DEF ClearBlock, AuthInv, AuthTypeOK
  <2>2. account' \in Accounts /\ account'.lastFailure = account.lastFailure
    BY <1>4, <2>1, WritesKeepFailure DEF ClearBlock
  <2> QED BY <1>4, <2>1, <2>2, FinishedTypes
          DEF AuthInv, AuthTypeOK, FailuresAreNoted, ClearBlock, Accounts, Instants
<1>5. CASE RefreshFails(m)
  <2>1. now' \in Instants /\ now < now'
    BY <1>5, AdvanceGrows DEF RefreshFails
  <2>2. strikes' \in Nat
    BY <1>5 DEF RefreshFails, AuthInv, AuthTypeOK
  <2>3. account' \in Accounts /\ FailuresAreNoted' /\ authAt' \in Instants
    <3>1. CASE UNCHANGED <<account, authAt>>
      BY <3>1, <2>1 DEF AuthInv, AuthTypeOK, FailuresAreNoted, Accounts, Instants
    <3>2. CASE account' = Marked(account, "quarantined", now', QuarantineTime) /\ authAt' = now'
      <4>1. "quarantined" \in AuthReasons \union {"quota"} /\ QuarantineTime \in Nat \ {0}
        BY AccountAuthAssumption DEF AuthReasons
      <4> QED BY <3>2, <4>1, <2>1, MarkedNotes DEF FailuresAreNoted, Instants
    <3> QED BY <1>5, <3>1, <3>2 DEF RefreshFails
  <2> QED BY <1>5, <2>1, <2>2, <2>3, FinishedTypes DEF AuthInv, AuthTypeOK, RefreshFails
<1> QED BY <1>1, <1>2, <1>3, <1>4, <1>5

\* A usage fetch that proves the login keeps the invariant.
LEMMA UsageAuthInv == ASSUME AuthInv, UsageVerified PROVE AuthInv'
<1>1. now' \in Instants /\ now < now'
  BY AdvanceGrows DEF UsageVerified
<1>2. "usage" \in Monitors /\ since["usage"] \in Instants
  BY DEF AuthInv, AuthTypeOK, Monitors
<1>3. verified' \in Instants /\ strikes' \in Nat
  BY <1>2 DEF UsageVerified, AuthInv, AuthTypeOK, LaterOf
<1>4. account' \in Accounts /\ account'.lastFailure = account.lastFailure
  BY <1>1, WritesKeepFailure DEF UsageVerified, AuthInv, AuthTypeOK
<1> QED BY <1>1, <1>2, <1>3, <1>4, FinishedTypes
        DEF AuthInv, AuthTypeOK, FailuresAreNoted, UsageVerified, Accounts, Instants

\* Every step keeps the invariant.
LEMMA NextAuthInv == ASSUME AuthInv, [AuthNext]_authVars PROVE AuthInv'
<1>1. CASE UNCHANGED authVars
  BY <1>1 DEF authVars, AuthInv, AuthTypeOK, FailuresAreNoted
<1>2. CASE AuthNext
  BY <1>2, RequestAuthInv, MonitorAuthInv, UsageAuthInv DEF AuthNext
<1> QED BY <1>1, <1>2

\* The invariant holds throughout.
LEMMA SpecAuthInv == AuthSpec => []AuthInv
BY InitAuthInv, NextAuthInv, PTL DEF AuthSpec

\* A block for authentication that still runs is only lifted by a monitor that
\* began no earlier than the latest failure.
LEMMA LiftStep ==
  ASSUME AuthInv, [AuthNext]_authVars, account.reason \in AuthReasons, now' < account.until,
         account'.until < account.until
  PROVE  \E m \in Monitors : phase[m] # "idle" /\ phase'[m] = "idle" /\ since[m] >= authAt
<1>0. /\ account.until # 0 /\ account.until \in Nat
      /\ account'.until \in Nat /\ ~(account'.until >= account.until)
  <2>1. now' \in Nat /\ account'.until \in Nat
    BY NextAuthInv DEF AuthInv, AuthTypeOK, Instants, Accounts
  <2> QED BY <2>1 DEF AuthInv, AuthTypeOK, Accounts
<1>1. ASSUME NEW r \in Requests, Send(r) \/ Deliver(r) \/ AuthError(r) \/ QuotaError(r) PROVE FALSE
  <2>1. now' \in Instants
    BY <1>1, AdvanceGrows DEF Send, Deliver, AuthError, QuotaError, Answered
  <2>2. ~Send(r) /\ ~Deliver(r)
    BY <1>0, <2>1 DEF Send, Deliver, Expired, AfterSuccess, Instants
  <2>3. ~AuthError(r)
    BY <1>0, <2>1, MarkedNotes, AccountAuthAssumption DEF AuthError, AuthReasons
  <2>4. ~QuotaError(r)
    BY <1>0, <2>1, MarkedNotes, AccountAuthAssumption DEF QuotaError, AuthReasons
  <2> QED BY <1>1, <2>2, <2>3, <2>4
<1>2. ASSUME NEW m \in Monitors, ClearBlock(m)
      PROVE  phase[m] # "idle" /\ phase'[m] = "idle" /\ since[m] >= authAt
  <2>1. account.lastFailure <= since[m]
    BY <1>2, <1>0 DEF ClearBlock, AfterRefresh, AuthInv, AuthTypeOK, Accounts, Instants
  <2> QED BY <1>2, <2>1 DEF ClearBlock, Finished, AuthInv, AuthTypeOK, FailuresAreNoted, Accounts, Instants
<1>3. ASSUME NEW m \in Monitors, Start(m) \/ Inconclusive(m) \/ RefreshSucceeds(m) \/ RefreshFails(m)
      PROVE  FALSE
  <2>1. ~Start(m) /\ ~Inconclusive(m) /\ ~RefreshSucceeds(m)
    BY <1>0 DEF Start, Inconclusive, RefreshSucceeds
  <2>2. ~RefreshFails(m)
    BY <1>0, AdvanceGrows, MarkedNotes, AccountAuthAssumption DEF RefreshFails, AuthReasons
  <2> QED BY <1>3, <2>1, <2>2
<1>4. CASE UsageVerified
  <2>1. Proves(account, since["usage"])
    BY <1>4, <1>0 DEF UsageVerified
  <2>2. "usage" \in Monitors
    BY DEF Monitors
  <2> QED BY <1>4, <2>1, <2>2 DEF UsageVerified, Finished, Proves, AuthInv, AuthTypeOK, FailuresAreNoted, Accounts, Instants
<1>5. CASE UNCHANGED authVars
  BY <1>5, <1>0 DEF authVars
<1> QED BY <1>1, <1>2, <1>3, <1>4, <1>5 DEF AuthNext

\* What replaces a quota block ends no earlier.
LEMMA QuotaStep ==
  ASSUME AuthInv, [AuthNext]_authVars, account.reason = "quota", now' < account.until
  PROVE  account'.until >= account.until
<1>0. account.until \in Nat /\ account.reason \notin AuthReasons /\ account.reason # "none"
  BY DEF AuthInv, AuthTypeOK, Accounts, AuthReasons
<1>1. ASSUME NEW r \in Requests, Send(r) \/ Deliver(r) \/ AuthError(r) \/ QuotaError(r)
      PROVE  account'.until >= account.until
  <2>1. now' \in Instants
    BY <1>1, AdvanceGrows DEF Send, Deliver, AuthError, QuotaError, Answered
  <2>2. CASE Send(r) \/ Deliver(r)
    BY <2>2, <1>0, <2>1 DEF Send, Deliver, Expired, AfterSuccess, Instants
  <2>3. CASE AuthError(r)
    BY <2>3, <2>1, MarkedNotes, AccountAuthAssumption DEF AuthError, AuthReasons
  <2>4. CASE QuotaError(r)
    BY <2>4, <2>1, MarkedNotes, AccountAuthAssumption DEF QuotaError, AuthReasons
  <2> QED BY <1>1, <2>2, <2>3, <2>4
<1>2. ASSUME NEW m \in Monitors,
             Start(m) \/ Inconclusive(m) \/ RefreshSucceeds(m) \/ ClearBlock(m) \/ RefreshFails(m)
      PROVE  account'.until >= account.until
  <2>1. CASE Start(m) \/ Inconclusive(m) \/ RefreshSucceeds(m)
    BY <2>1, <1>0 DEF Start, Inconclusive, RefreshSucceeds
  <2>2. CASE ClearBlock(m)
    BY <2>2, <1>0 DEF ClearBlock, AfterRefresh
  <2>3. CASE RefreshFails(m)
    BY <2>3, <1>0, AdvanceGrows, MarkedNotes, AccountAuthAssumption DEF RefreshFails, AuthReasons
  <2> QED BY <1>2, <2>1, <2>2, <2>3
<1>3. CASE UsageVerified
  BY <1>3, <1>0 DEF UsageVerified, Proves, AuthReasons
<1>4. CASE UNCHANGED authVars
  BY <1>4, <1>0 DEF authVars
<1> QED BY <1>1, <1>2, <1>3, <1>4 DEF AuthNext

\* The account's block, the strikes and the monitors keep their types.
THEOREM AuthTypeCorrect == AuthSpec => []AuthTypeOK
<1>1. AuthInv => AuthTypeOK
  BY DEF AuthInv
<1> QED BY <1>1, SpecAuthInv, PTL

\* BlocksLiftedByNewerProof for any requests, strikes, durations and horizon: of
\* the refresh runs and usage fetches that overtake one another, only one that
\* began after the latest authentication failure lifts an authentication block,
\* and nothing shortens a block the record shows as a quota's.
THEOREM OvertakenProofLiftsNothing == AuthSpec => BlocksLiftedByNewerProof
<1>1. ASSUME AuthInv, [AuthNext]_authVars, account.reason # "none",
             now' < account.until, account'.until < account.until
      PROVE  /\ account.reason \in AuthReasons
             /\ \E m \in Monitors : phase[m] # "idle" /\ phase'[m] = "idle" /\ since[m] >= authAt
  <2>1. account.reason \in AuthReasons \union {"quota"}
    BY <1>1 DEF AuthInv, AuthTypeOK, Accounts
  <2>2. account.until \in Nat /\ account'.until \in Nat
    BY <1>1, NextAuthInv DEF AuthInv, AuthTypeOK, Accounts
  <2>3. account.reason # "quota"
    BY <1>1, <2>2, QuotaStep
  <2> QED BY <1>1, <2>1, <2>3, LiftStep
<1>2. AuthInv /\ [AuthNext]_authVars =>
        [account.reason # "none" /\ now' < account.until /\ account'.until < account.until =>
           /\ account.reason \in AuthReasons
           /\ \E m \in Monitors : phase[m] # "idle" /\ phase'[m] = "idle" /\ since[m] >= authAt]_authVars
  BY <1>1
<1> QED BY <1>2, SpecAuthInv, PTL DEF AuthSpec, BlocksLiftedByNewerProof
==============================================================================
