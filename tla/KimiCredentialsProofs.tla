----------------------- MODULE KimiCredentialsProofs -----------------------
(***************************************************************************)
(* Proofs about KimiCredentials for any set of requests and any number of  *)
(* tokens.                                                                 *)
(*                                                                         *)
(* The invariant IInv follows a rotation: who is past the lock owns it     *)
(* unless it was stolen, what a rotation was granted is known to nobody    *)
(* else until it is stored, and a file that holds a used token belongs to  *)
(* the rotation that used it.                                              *)
(***************************************************************************)
EXTENDS KimiCredentials, TLAPS

Rotating == {"locked", "post", "granted", "checked"}
Granted == {"granted", "checked"}

\* Every token anybody knows was issued.
Bounded ==
  /\ consumed \subseteq 1..issued /\ file <= issued /\ cliGot <= issued
  /\ \A r \in Requests : before[r] <= issued /\ current[r] <= issued /\ got[r] <= issued

\* A call that waits for the lock saw a token, and one past it has one to present.
Looked ==
  \A r \in Requests :
    /\ pc[r] \in {"lock", "locked"} => before[r] # Missing
    /\ pc[r] \in Rotating \ {"locked"} => current[r] # Missing

\* Only a stolen lock lets a rotation go on without it, or take another's for
\* its own.
OwnsLock ==
  \A r \in Requests :
    /\ pc[r] \in Rotating => lock.owner = r \/ trouble
    /\ pc[r] \in Rotating \ {"locked"} => lockInfo[r] = r \/ trouble
CliOwnsLock == cli # "idle" => lock.owner = "cli"

\* t is stored nowhere and was never presented.
Private(t) ==
  /\ t # Missing /\ t \notin consumed /\ t # file
  /\ \A r \in Requests : t # before[r] /\ t # current[r]

\* A grant is its receiver's alone until it is stored.
GrantsArePrivate ==
  /\ \A r \in Requests : pc[r] \in Granted => Private(got[r])
  /\ cli = "granted" => Private(cliGot)
  /\ \A r \in Requests : pc[r] \in Granted /\ cli = "granted" => got[r] # cliGot
  /\ \A r, q \in Requests : pc[r] \in Granted /\ pc[q] \in Granted /\ r # q => got[r] # got[q]

\* A used token in the file is replaced by the rotation that used it.
UsedTokenHasRotation ==
  file \in consumed =>
    trouble \/ cli = "granted" \/ \E r \in Requests : pc[r] \in Granted /\ current[r] = file

\* The file is as the request last saw it unless somebody came in between.
LastLookHolds ==
  \A r \in Requests : pc[r] = "checked" => file = current[r] \/ r \in raced

IInv ==
  /\ TypeOK /\ Bounded /\ Looked /\ OwnsLock /\ CliOwnsLock /\ GrantsArePrivate
  /\ UsedTokenHasRotation /\ PresentedOnce /\ LastLookHolds
-----------------------------------------------------------------------------
USE KimiAssumption
USE DEF Rotating, Granted, Missing, Tokens, NoLock, InGoroutine, None, Usable, NoInfo, Released, Return,
        Goto, Checked, cred, native, call, Private

(* The parts of TypeOK that the steps of a call change *)

CallOK ==
  /\ pc \in [Requests -> InGoroutine \cup {"idle", "sent", "done"}]
  /\ failed \in [Requests -> 0..MaxTokens] /\ before \in [Requests -> 0..MaxTokens]
  /\ current \in [Requests -> 0..MaxTokens] /\ got \in [Requests -> 0..MaxTokens]
  /\ lockInfo \in [Requests -> Owners] /\ left \in [Requests -> BOOLEAN]

Locks == [owner : Owners, stale : BOOLEAN]

\* A call that returns a token keeps the type of its locals.
LEMMA ReturnTyped ==
  ASSUME TypeOK, NEW r \in Requests, NEW t \in 0..MaxTokens, Return(r, t)
  PROVE  CallOK'
<1>1. pc' \in [Requests -> InGoroutine \cup {"idle", "sent", "done"}]  BY DEF TypeOK
<1>2. got' \in [Requests -> 0..MaxTokens] /\ failed' \in [Requests -> 0..MaxTokens]  BY DEF TypeOK
<1>3. /\ before' \in [Requests -> 0..MaxTokens] /\ current' \in [Requests -> 0..MaxTokens]
      /\ lockInfo' \in [Requests -> Owners] /\ left' \in [Requests -> BOOLEAN]
  BY DEF TypeOK, Owners
<1> QED BY <1>1, <1>2, <1>3 DEF CallOK

\* What a call may do to the lock: nothing, release its own, or take a free one.
LEMMA LockTyped ==
  ASSUME TypeOK, NEW r \in Requests,
         lock' \in {lock, Released(r), [owner |-> r, stale |-> FALSE]}
  PROVE  lock' \in Locks
<1>1. {NoLock, lock, [owner |-> r, stale |-> FALSE]} \subseteq Locks  BY DEF Locks, Owners, TypeOK
<1>2. Released(r) \in {NoLock, lock}  OBVIOUS
<1> QED BY <1>1, <1>2

-----------------------------------------------------------------------------
(* The invariant is inductive *)

LEMMA InitIInv == Init => IInv
<1>1. Init => TypeOK
  <2> SUFFICES ASSUME Init PROVE TypeOK
    OBVIOUS
  <2>1. lock \in Locks  BY DEF Init, Locks, Owners
  <2>2. CallOK  BY DEF Init, CallOK, Owners
  <2>3. MaxTokens \in Nat /\ 1 <= MaxTokens  OBVIOUS
  <2>4. file \in 0..MaxTokens /\ issued \in Tokens /\ cliGot \in 0..MaxTokens  BY <2>3 DEF Init
  <2>5. due \in BOOLEAN /\ cli \in {"idle", "holding", "granted"} /\ trouble \in BOOLEAN  BY DEF Init
  <2>6. consumed \subseteq Tokens /\ raced \subseteq Requests  BY DEF Init
  <2> QED BY <2>1, <2>2, <2>4, <2>5, <2>6 DEF TypeOK, Locks, CallOK
<1> QED BY <1>1 DEF Init, IInv, Bounded, Looked, OwnsLock, CliOwnsLock, GrantsArePrivate,
           UsedTokenHasRotation, PresentedOnce, LastLookHolds

\* The fast path of token, and a goroutine's start.
LEMMA TokenStep ==
  ASSUME IInv, NEW r \in Requests, Token(r)
  PROVE  IInv'
<1> USE DEF IInv
<1>1. TypeOK'
  <2>1. CallOK'
    <3>1. CASE left[r] \/ file = Missing \/ Usable(r)  BY ReturnTyped, <3>1 DEF Token, TypeOK
    <3>2. CASE ~(left[r] \/ file = Missing \/ Usable(r))  BY <3>2 DEF Token, TypeOK, CallOK
    <3> QED BY <3>1, <3>2
  <2> QED BY <2>1 DEF Token, CallOK, TypeOK
<1>2. Bounded' /\ Looked' /\ OwnsLock' /\ CliOwnsLock'
  BY DEF Token, TypeOK, Bounded, Looked, OwnsLock, CliOwnsLock
<1>3. GrantsArePrivate' /\ UsedTokenHasRotation' /\ PresentedOnce' /\ LastLookHolds'
  BY DEF Token, TypeOK, GrantsArePrivate, UsedTokenHasRotation, PresentedOnce, LastLookHolds
<1> QED BY <1>1, <1>2, <1>3

\* The first read of tokenLocked.
LEMMA TokenLockedStep ==
  ASSUME IInv, NEW r \in Requests, TokenLocked(r)
  PROVE  IInv'
<1> USE DEF IInv
<1>1. TypeOK'
  <2>1. CallOK'
    <3>1. CASE left[r] \/ file = Missing \/ Usable(r)  BY ReturnTyped, <3>1 DEF TokenLocked, TypeOK
    <3>2. CASE ~(left[r] \/ file = Missing \/ Usable(r))  BY <3>2 DEF TokenLocked, TypeOK, CallOK
    <3> QED BY <3>1, <3>2
  <2> QED BY <2>1 DEF TokenLocked, CallOK, TypeOK
<1>2. Bounded' /\ Looked' /\ OwnsLock' /\ CliOwnsLock'
  BY DEF TokenLocked, TypeOK, Bounded, Looked, OwnsLock, CliOwnsLock
<1>3. GrantsArePrivate' /\ UsedTokenHasRotation' /\ PresentedOnce' /\ LastLookHolds'
  BY DEF TokenLocked, TypeOK, GrantsArePrivate, UsedTokenHasRotation, PresentedOnce, LastLookHolds
<1> QED BY <1>1, <1>2, <1>3

\* The lock directory is made, or the call gives up.
LEMMA LockStep ==
  ASSUME IInv, NEW r \in Requests, Lock(r)
  PROVE  IInv'
<1> USE DEF IInv
<1>1. TypeOK'
  <2>1. CallOK'
    <3>1. CASE left[r] \/ lock.stale
      <4> DEFINE t == Missing
      <4> HIDE DEF Return
      <4>1. Return(r, t)  BY <3>1 DEF Lock
      <4>2. t \in 0..MaxTokens  BY DEF TypeOK
      <4> QED BY ONLY <4>1, <4>2, IInv, r \in Requests, ReturnTyped DEF IInv
    <3>2. CASE ~(left[r] \/ lock.stale)  BY <3>2 DEF Lock, TypeOK, CallOK
    <3> QED BY <3>1, <3>2
  <2>2. lock' \in Locks  BY LockTyped DEF Lock
  <2> QED BY <2>1, <2>2 DEF Lock, CallOK, Locks, TypeOK
<1>2. Bounded' /\ Looked' /\ OwnsLock' /\ CliOwnsLock'
  <2>1. Bounded'  BY DEF Lock, TypeOK, Bounded
  <2>2. Looked'  BY DEF Lock, TypeOK, Looked
  <2>3. OwnsLock'  BY DEF Lock, TypeOK, OwnsLock
  <2>4. CliOwnsLock'  BY DEF Lock, TypeOK, CliOwnsLock
  <2> QED BY <2>1, <2>2, <2>3, <2>4
<1>3. GrantsArePrivate' /\ UsedTokenHasRotation' /\ PresentedOnce' /\ LastLookHolds'
  <2>1. GrantsArePrivate'  BY DEF Lock, TypeOK, GrantsArePrivate
  <2>2. UsedTokenHasRotation'  BY DEF Lock, TypeOK, UsedTokenHasRotation
  <2>3. PresentedOnce'  BY DEF Lock, TypeOK, PresentedOnce
  <2>4. LastLookHolds'  BY DEF Lock, TypeOK, LastLookHolds
  <2> QED BY <2>1, <2>2, <2>3, <2>4
<1> QED BY <1>1, <1>2, <1>3

\* The token presented is the file's under the lock: had it been used, its
\* user would own the lock.
LEMMA RereadStep ==
  ASSUME IInv, NEW r \in Requests, Reread(r)
  PROVE  IInv'
<1> USE DEF IInv
<1>1. TypeOK'
  <2>1. CallOK'
    <3> DEFINE returns == lock.owner = "none" \/ file # before[r] \/ (~due /\ failed[r] = Missing)
    <3>1. CASE returns
      <4> DEFINE t == IF lock.owner = "none" THEN Missing ELSE file
      <4> HIDE DEF Return
      <4>1. Return(r, t)  BY <3>1 DEF Reread
      <4>2. t \in 0..MaxTokens  BY DEF TypeOK
      <4> QED BY ONLY <4>1, <4>2, IInv, r \in Requests, ReturnTyped DEF IInv
    <3>2. CASE ~returns
      <4>1. lock.owner \in Owners  BY DEF TypeOK
      <4> QED BY <3>2, <4>1 DEF Reread, TypeOK, CallOK
    <3> QED BY <3>1, <3>2
  <2>2. lock' \in Locks  BY LockTyped DEF Reread
  <2> QED BY <2>1, <2>2 DEF Reread, CallOK, Locks, TypeOK
<1>2. Bounded' /\ Looked' /\ OwnsLock' /\ CliOwnsLock'
  <2>1. Bounded'  BY DEF Reread, TypeOK, Bounded
  <2>2. Looked'  BY DEF Reread, TypeOK, Looked
  <2>3. OwnsLock'  BY DEF Reread, TypeOK, OwnsLock
  <2>4. CliOwnsLock'  BY DEF Reread, TypeOK, CliOwnsLock
  <2> QED BY <2>1, <2>2, <2>3, <2>4
<1>3. GrantsArePrivate' /\ UsedTokenHasRotation' /\ LastLookHolds'
  <2>1. GrantsArePrivate'  BY DEF Reread, TypeOK, GrantsArePrivate
  <2>2. UsedTokenHasRotation'  BY DEF Reread, TypeOK, UsedTokenHasRotation
  <2>3. LastLookHolds'  BY DEF Reread, TypeOK, LastLookHolds
  <2> QED BY <2>1, <2>2, <2>3
<1>4. PresentedOnce'  BY DEF Reread, TypeOK, OwnsLock, CliOwnsLock, UsedTokenHasRotation, PresentedOnce
<1> QED BY <1>1, <1>2, <1>3, <1>4

\* A refusal returns to the caller and releases the lock.
LEMMA PostRejectedStep ==
  ASSUME IInv, NEW r \in Requests, PostRejected(r)
  PROVE  IInv'
<1> USE DEF IInv
<1>1. TypeOK'
  <2>1. lock' \in Locks  BY LockTyped DEF PostRejected
  <2>2. CallOK'
    <3> DEFINE t == Missing
    <3> HIDE DEF Return
    <3>1. Return(r, t)  BY DEF PostRejected
    <3>2. t \in 0..MaxTokens  BY DEF TypeOK
    <3> QED BY ONLY <3>1, <3>2, IInv, r \in Requests, ReturnTyped DEF IInv
  <2> QED BY <2>1, <2>2 DEF PostRejected, TypeOK, Locks, CallOK
<1>2. Bounded' /\ Looked' /\ OwnsLock' /\ CliOwnsLock'
  BY DEF PostRejected, TypeOK, Bounded, Looked, OwnsLock, CliOwnsLock
<1>3. GrantsArePrivate' /\ UsedTokenHasRotation' /\ PresentedOnce' /\ LastLookHolds'
  BY DEF PostRejected, TypeOK, GrantsArePrivate, UsedTokenHasRotation, PresentedOnce, LastLookHolds
<1> QED BY <1>1, <1>2, <1>3

\* A grant is a new token, the presented one is used, and its rotation goes on
\* unless the answer was lost.
LEMMA PostAcceptedStep ==
  ASSUME IInv, NEW r \in Requests, NEW b \in BOOLEAN, PostAccepted(r, b)
  PROVE  IInv'
<1> USE DEF IInv
<1>1. consumed' \subseteq 1..issued' /\ issued' \in Tokens
  <2>1. issued' = issued + 1 /\ issued + 1 \in Tokens /\ consumed' = consumed \cup {current[r]}
    BY DEF PostAccepted, TypeOK
  <2>2. current[r] \in 1..issued  BY DEF IInv, TypeOK, Bounded, Looked, PostAccepted
  <2>3. consumed \subseteq 1..issued /\ issued \in Nat  BY DEF IInv, TypeOK, Bounded
  <2>4. 1..issued \subseteq 1..(issued + 1)  BY <2>3
  <2>5. consumed' \subseteq 1..issued'  BY <2>1, <2>2, <2>3, <2>4, Zenon
  <2> QED BY <2>1, <2>5
<1>2. TypeOK'
  <2>1. CallOK'
    <3>1. CASE b  BY <3>1 DEF PostAccepted, TypeOK, CallOK
    <3>2. CASE ~b  BY ReturnTyped, <3>2 DEF PostAccepted, TypeOK
    <3> QED BY <3>1, <3>2
  <2>2. lock' \in Locks  BY LockTyped DEF PostAccepted
  <2> QED BY <1>1, <2>1, <2>2 DEF PostAccepted, CallOK, Locks, TypeOK
<1>3. Bounded'
  <2>1. /\ file' <= issued' /\ cliGot' <= issued'
        /\ \A q \in Requests : before'[q] <= issued' /\ current'[q] <= issued' /\ got'[q] <= issued'
    BY DEF PostAccepted, IInv, TypeOK, Bounded
  <2> QED BY <1>1, <2>1 DEF Bounded
<1>4. Looked' /\ OwnsLock' /\ CliOwnsLock'
  BY DEF PostAccepted, TypeOK, Looked, OwnsLock, CliOwnsLock
<1>5. LastLookHolds'
  BY DEF PostAccepted, TypeOK, LastLookHolds
<1>6. GrantsArePrivate'  BY DEF PostAccepted, TypeOK, Bounded, GrantsArePrivate
<1>7. UsedTokenHasRotation'
  <2>1. CASE file = current[r] /\ b
    BY <2>1 DEF PostAccepted, TypeOK, UsedTokenHasRotation
  <2>2. CASE file = current[r] /\ ~b
    BY <2>2 DEF PostAccepted, UsedTokenHasRotation
  <2>3. CASE file # current[r]
    BY <2>3 DEF PostAccepted, IInv, TypeOK, UsedTokenHasRotation
  <2> QED BY <2>1, <2>2, <2>3
<1>8. PresentedOnce'  BY DEF PostAccepted, TypeOK, OwnsLock, PresentedOnce
<1> QED BY <1>1, <1>2, <1>3, <1>4, <1>5, <1>6, <1>7, <1>8

\* The last look: whoever finds another token in the file stops.
LEMMA CheckStep ==
  ASSUME IInv, NEW r \in Requests, Check(r)
  PROVE  IInv'
<1> USE DEF IInv
<1>1. TypeOK'
  <2>1. CallOK'
    <3>1. CASE file = current[r] /\ lock.owner = lockInfo[r]  BY <3>1 DEF Check, TypeOK, CallOK
    <3>2. CASE ~(file = current[r] /\ lock.owner = lockInfo[r])
      <4>1. Return(r, Missing) /\ Missing \in 0..MaxTokens  BY <3>2 DEF Check, TypeOK
      <4> QED BY <4>1, ReturnTyped
    <3> QED BY <3>1, <3>2
  <2>2. lock' \in Locks  BY LockTyped DEF Check
  <2> QED BY <2>1, <2>2 DEF Check, CallOK, Locks, TypeOK
<1>2. Bounded' /\ Looked' /\ OwnsLock' /\ CliOwnsLock'
  <2>1. Bounded'  BY DEF Check, TypeOK, Bounded
  <2>2. Looked'  BY DEF Check, TypeOK, Looked
  <2>3. OwnsLock'  BY DEF Check, TypeOK, OwnsLock
  <2>4. CliOwnsLock'  BY DEF Check, TypeOK, CliOwnsLock
  <2> QED BY <2>1, <2>2, <2>3, <2>4
<1>3. GrantsArePrivate' /\ PresentedOnce' /\ LastLookHolds'
  <2>1. GrantsArePrivate'  BY DEF Check, TypeOK, GrantsArePrivate
  <2>2. PresentedOnce'  BY DEF Check, TypeOK, PresentedOnce
  <2>3. LastLookHolds'  BY DEF Check, TypeOK, LastLookHolds
  <2> QED BY <2>1, <2>2, <2>3
<1>4. UsedTokenHasRotation'  BY DEF Check, TypeOK, OwnsLock, UsedTokenHasRotation
<1> QED BY <1>1, <1>2, <1>3, <1>4

\* A stored grant was nobody else's; one that could not be stored is lost.
LEMMA PersistStep ==
  ASSUME IInv, NEW r \in Requests, NEW b \in BOOLEAN, Persist(r, b)
  PROVE  IInv'
<1> USE DEF IInv
<1>1. TypeOK'
  <2>1. lock' \in Locks  BY LockTyped DEF Persist
  <2>2. CallOK'
    <3> DEFINE t == IF b THEN got[r] ELSE Missing
    <3> HIDE DEF Return
    <3>1. Return(r, t)  BY DEF Persist
    <3>2. t \in 0..MaxTokens  BY DEF TypeOK
    <3> QED BY ONLY <3>1, <3>2, IInv, r \in Requests, ReturnTyped DEF IInv
  <2> QED BY <2>1, <2>2 DEF Persist, TypeOK, Locks, CallOK
<1>2. Bounded' /\ Looked' /\ OwnsLock' /\ CliOwnsLock'
  BY DEF Persist, TypeOK, Bounded, Looked, OwnsLock, CliOwnsLock
<1>3. GrantsArePrivate' /\ PresentedOnce' /\ LastLookHolds'
  BY DEF Persist, TypeOK, GrantsArePrivate, PresentedOnce, LastLookHolds
<1>4. UsedTokenHasRotation'
  <2>1. CASE b  BY <2>1 DEF Persist, GrantsArePrivate, UsedTokenHasRotation
  <2>2. CASE ~b  BY <2>2 DEF Persist, UsedTokenHasRotation
  <2> QED BY <2>1, <2>2
<1> QED BY <1>1, <1>2, <1>3, <1>4

\* What upstream says of the token.
LEMMA AnsweredStep ==
  ASSUME IInv, NEW r \in Requests, NEW b \in BOOLEAN, Answered(r, b)
  PROVE  IInv'
<1> USE DEF IInv
<1>1. TypeOK'  BY DEF Answered, TypeOK
<1>2. Bounded' /\ Looked' /\ OwnsLock' /\ CliOwnsLock'
  BY DEF Answered, TypeOK, Bounded, Looked, OwnsLock, CliOwnsLock
<1>3. GrantsArePrivate' /\ UsedTokenHasRotation' /\ PresentedOnce' /\ LastLookHolds'
  BY DEF Answered, TypeOK, GrantsArePrivate, UsedTokenHasRotation, PresentedOnce, LastLookHolds
<1> QED BY <1>1, <1>2, <1>3

\* A caller that leaves changes nothing but what its call returns.
LEMMA CallerLeavesStep ==
  ASSUME IInv, NEW r \in Requests, CallerLeaves(r)
  PROVE  IInv'
<1> USE DEF IInv
<1>1. TypeOK'  BY DEF CallerLeaves, TypeOK
<1>2. Bounded' /\ Looked' /\ OwnsLock' /\ CliOwnsLock'
  BY DEF CallerLeaves, TypeOK, Bounded, Looked, OwnsLock, CliOwnsLock
<1>3. GrantsArePrivate' /\ UsedTokenHasRotation' /\ PresentedOnce' /\ LastLookHolds'
  BY DEF CallerLeaves, TypeOK, GrantsArePrivate, UsedTokenHasRotation, PresentedOnce, LastLookHolds
<1> QED BY <1>1, <1>2, <1>3

\* A crash loses the grants of the rotations it ends.
LEMMA CrashStep ==
  ASSUME IInv, Crash
  PROVE  IInv'
<1> USE DEF IInv
<1>1. TypeOK'
  <2>1. lock' \in Locks  BY DEF Crash, TypeOK, Locks, Owners
  <2>2. CallOK'  BY DEF Crash, CallOK, Owners
  <2> QED BY <2>1, <2>2 DEF Crash, TypeOK, Locks, CallOK
<1>2. Bounded' /\ Looked' /\ OwnsLock' /\ CliOwnsLock'
  BY DEF Crash, TypeOK, Bounded, Looked, OwnsLock, CliOwnsLock
<1>3. GrantsArePrivate' /\ PresentedOnce' /\ LastLookHolds'
  BY DEF Crash, TypeOK, GrantsArePrivate, PresentedOnce, LastLookHolds
<1>4. UsedTokenHasRotation'
  <2>1. (\E q \in Requests : pc[q] \in Granted) => trouble'  BY DEF Crash
  <2>2. (trouble => trouble') /\ file' = file /\ consumed' = consumed /\ cli' = cli  BY DEF Crash
  <2> QED BY <2>1, <2>2 DEF UsedTokenHasRotation
<1> QED BY <1>1, <1>2, <1>3, <1>4

\* The token comes to need a refresh.
LEMMA AgesStep ==
  ASSUME IInv, Ages
  PROVE  IInv'
<1> USE DEF IInv
<1>1. TypeOK'  BY DEF Ages, TypeOK
<1>2. Bounded' /\ Looked' /\ OwnsLock' /\ CliOwnsLock'
  BY DEF Ages, TypeOK, Bounded, Looked, OwnsLock, CliOwnsLock
<1>3. GrantsArePrivate' /\ UsedTokenHasRotation' /\ PresentedOnce' /\ LastLookHolds'
  BY DEF Ages, TypeOK, GrantsArePrivate, UsedTokenHasRotation, PresentedOnce, LastLookHolds
<1> QED BY <1>1, <1>2, <1>3

\* The lock is taken for dead.
LEMMA GoesStaleStep ==
  ASSUME IInv, GoesStale
  PROVE  IInv'
<1> USE DEF IInv
<1>1. TypeOK'
  <2>1. lock' \in Locks  BY DEF GoesStale, TypeOK, Locks
  <2> QED BY <2>1 DEF GoesStale, TypeOK, Locks
<1>2. Bounded' /\ Looked' /\ OwnsLock' /\ CliOwnsLock'
  BY DEF GoesStale, TypeOK, Bounded, Looked, OwnsLock, CliOwnsLock
<1>3. GrantsArePrivate' /\ UsedTokenHasRotation' /\ PresentedOnce' /\ LastLookHolds'
  BY DEF GoesStale, TypeOK, GrantsArePrivate, UsedTokenHasRotation, PresentedOnce, LastLookHolds
<1> QED BY <1>1, <1>2, <1>3

\* The lock's owner proves alive.
LEMMA HeartbeatStep ==
  ASSUME IInv, Heartbeat
  PROVE  IInv'
<1> USE DEF IInv
<1>1. TypeOK'
  <2>1. lock' \in Locks  BY DEF Heartbeat, TypeOK, Locks
  <2> QED BY <2>1 DEF Heartbeat, TypeOK, Locks
<1>2. Bounded' /\ Looked' /\ OwnsLock' /\ CliOwnsLock'
  BY DEF Heartbeat, TypeOK, Bounded, Looked, OwnsLock, CliOwnsLock
<1>3. GrantsArePrivate' /\ UsedTokenHasRotation' /\ PresentedOnce' /\ LastLookHolds'
  BY DEF Heartbeat, TypeOK, GrantsArePrivate, UsedTokenHasRotation, PresentedOnce, LastLookHolds
<1> QED BY <1>1, <1>2, <1>3

\* The CLI takes the lock, from a live request only by stealing it.
LEMMA CliLocksStep ==
  ASSUME IInv, CliLocks
  PROVE  IInv'
<1> USE DEF IInv
<1>1. TypeOK'
  <2>1. lock' \in Locks  BY DEF CliLocks, TypeOK, Locks, Owners
  <2> QED BY <2>1 DEF CliLocks, TypeOK, Locks
<1>2. Bounded' /\ Looked' /\ OwnsLock' /\ CliOwnsLock'
  BY DEF CliLocks, TypeOK, Bounded, Looked, OwnsLock, CliOwnsLock
<1>3. GrantsArePrivate' /\ UsedTokenHasRotation' /\ PresentedOnce' /\ LastLookHolds'
  BY DEF CliLocks, TypeOK, GrantsArePrivate, UsedTokenHasRotation, PresentedOnce, LastLookHolds
<1> QED BY <1>1, <1>2, <1>3

\* The CLI refreshes under the lock.
LEMMA CliRefreshesStep ==
  ASSUME IInv, CliRefreshes
  PROVE  IInv'
<1> USE DEF IInv
<1>1. TypeOK'  BY DEF CliRefreshes, TypeOK
<1>2. Bounded' /\ Looked' /\ OwnsLock' /\ CliOwnsLock'
  BY DEF CliRefreshes, TypeOK, Bounded, Looked, OwnsLock, CliOwnsLock
<1>3. UsedTokenHasRotation' /\ LastLookHolds'
  BY DEF CliRefreshes, TypeOK, UsedTokenHasRotation, LastLookHolds
<1>4. GrantsArePrivate'  BY DEF CliRefreshes, TypeOK, Bounded, GrantsArePrivate
<1>5. PresentedOnce'  BY DEF CliRefreshes, TypeOK, OwnsLock, CliOwnsLock, PresentedOnce
<1> QED BY <1>1, <1>2, <1>3, <1>4, <1>5

\* The CLI stores its grant, or dies with it.
LEMMA CliEndsStep ==
  ASSUME IInv, NEW b \in BOOLEAN, CliEnds(b)
  PROVE  IInv'
<1> USE DEF IInv
<1>1. TypeOK'
  <2>1. lock' \in Locks  BY DEF CliEnds, TypeOK, Locks, Owners
  <2> QED BY <2>1 DEF CliEnds, TypeOK, Locks
<1>2. Bounded' /\ Looked' /\ OwnsLock' /\ CliOwnsLock'
  BY DEF CliEnds, TypeOK, Bounded, Looked, OwnsLock, CliOwnsLock
<1>3. GrantsArePrivate' /\ PresentedOnce' /\ LastLookHolds'
  BY DEF CliEnds, TypeOK, GrantsArePrivate, PresentedOnce, LastLookHolds
<1>4. UsedTokenHasRotation'  BY DEF CliEnds, TypeOK, GrantsArePrivate, UsedTokenHasRotation
<1> QED BY <1>1, <1>2, <1>3, <1>4

\* A login or a logout.
LEMMA CliReplacesStep ==
  ASSUME IInv, NEW b \in BOOLEAN, CliReplaces(b)
  PROVE  IInv'
<1> USE DEF IInv
<1>1. TypeOK'
  <2>1. issued + 1 \in Tokens \/ ~b  BY DEF CliReplaces, TypeOK
  <2>2. issued' = issued \/ (issued' = issued + 1 /\ issued + 1 \in Tokens)  BY <2>1 DEF CliReplaces
  <2>3. file' = Missing \/ (file' = issued + 1 /\ issued + 1 \in Tokens)  BY <2>1 DEF CliReplaces
  <2>4. issued' \in Tokens /\ file' \in 0..MaxTokens  BY <2>2, <2>3 DEF TypeOK
  <2>5. raced' \subseteq Requests  BY DEF CliReplaces, TypeOK
  <2> QED BY <2>4, <2>5 DEF CliReplaces, TypeOK
<1>2. Bounded' /\ Looked' /\ OwnsLock' /\ CliOwnsLock'
  BY DEF CliReplaces, TypeOK, Bounded, Looked, OwnsLock, CliOwnsLock
<1>3. PresentedOnce' /\ LastLookHolds'
  BY DEF CliReplaces, TypeOK, PresentedOnce, LastLookHolds
<1>4. GrantsArePrivate'  BY DEF CliReplaces, TypeOK, Bounded, GrantsArePrivate
<1>5. UsedTokenHasRotation'  BY DEF CliReplaces, TypeOK, Bounded, UsedTokenHasRotation
<1> QED BY <1>1, <1>2, <1>3, <1>4, <1>5

LEMMA NextIInv == IInv /\ [Next]_vars => IInv'
<1> SUFFICES ASSUME IInv, [Next]_vars PROVE IInv'
  OBVIOUS
<1>1. ASSUME NEW r \in Requests, Call(r) PROVE IInv'
  BY <1>1, TokenStep, TokenLockedStep, LockStep, RereadStep, PostRejectedStep, PostAcceptedStep,
     CheckStep, PersistStep, AnsweredStep DEF Call
<1>2. ASSUME Cli PROVE IInv'
  BY <1>2, CliLocksStep, CliRefreshesStep, CliEndsStep, CliReplacesStep DEF Cli
<1>3. CASE UNCHANGED vars
  BY <1>3 DEF vars, IInv, TypeOK, Bounded, Looked, OwnsLock, CliOwnsLock, GrantsArePrivate,
              UsedTokenHasRotation, PresentedOnce, LastLookHolds
<1> QED BY <1>1, <1>2, <1>3, CallerLeavesStep, CrashStep, AgesStep, GoesStaleStep, HeartbeatStep
        DEF Next, Finished

LEMMA SpecIInv == Spec => []IInv
BY InitIInv, NextIInv, PTL DEF Spec

-----------------------------------------------------------------------------
(* Results *)

\* The lock, the credentials file and the local values of every request keep
\* their types.
THEOREM TypeCorrect == Spec => []TypeOK
BY SpecIInv, PTL DEF IInv

\* The login is never stranded by the gateway: a used refresh token stays in
\* the file only while the rotation that used it still holds its grant, or
\* after a grant was lost or the lock stolen.
THEOREM LoginIsNotStranded == Spec => []RefreshTokenLives
<1>1. IInv => RefreshTokenLives  BY DEF IInv, UsedTokenHasRotation, RefreshTokenLives
<1> QED BY <1>1, SpecIInv, PTL

\* No request presents a refresh token that was accepted before.
THEOREM NoTokenPresentedTwice == Spec => []PresentedOnce
BY SpecIInv, PTL DEF IInv

\* At most one rotation is under way.
OneRotation ==
  \A r, q \in Requests : pc[r] \in Rotating /\ pc[q] \in Rotating => r = q \/ trouble

\* The lock directory excludes: of the two requests of kimi_oauth.go that hold
\* or present a token at once, one lost its lock or a grant was lost.
THEOREM LockExcludes == Spec => []OneRotation
<1>1. IInv => OneRotation  BY DEF IInv, OwnsLock, OneRotation
<1> QED BY <1>1, SpecIInv, PTL

\* What was stored by a login, a logout or another rotation is overwritten
\* only if it came between a request's last look and its rename.
THEOREM StoredLoginSurvives == Spec => LoginSurvives
<1>1. IInv => \A r \in Requests : pc[r] = "checked" /\ file' = got[r] /\ file' # file
                 => file = current[r] \/ r \in raced
  BY DEF IInv, LastLookHolds
<1> QED BY <1>1, SpecIInv, PTL DEF LoginSurvives
=============================================================================
