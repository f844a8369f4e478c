-------------------------- MODULE KimiCredentials --------------------------
(***************************************************************************)
(* Rotation of the Kimi subscription's credentials (kimi_oauth.go).  The   *)
(* native CLI owns the login; the gateway shares its credentials file and  *)
(* its lock directory.  A refresh token works once: whoever presents it    *)
(* and does not store what it got in return has broken the CLI's login.    *)
(*                                                                         *)
(* A token is a number, its access and its refresh half together; a new    *)
(* grant or login has the next number.  The file holds a token or nothing. *)
(* A lock directory is known by its maker, who makes one at a time.  The   *)
(* CLI and the issuer are external.                                        *)
(***************************************************************************)
EXTENDS Integers, FiniteSets

CONSTANTS Requests, \* requests of the gateway
          MaxTokens \* bound: tokens ever issued

ASSUME KimiAssumption == MaxTokens \in Nat \ {0} /\ Requests \cap {"none", "cli", "dead"} = {}

Missing == 0
Tokens == 1..MaxTokens
NoLock == [owner |-> "none", stale |-> FALSE]

VARIABLES
  file,      \* the token in the credentials file, or Missing
  issued,    \* tokens issued so far
  consumed,  \* tokens whose refresh half was presented and accepted
  due,       \* kimiNeedsRefresh holds for the file's token
  lock,      \* the lock directory
  pc,        \* where each request's call is
  failed,    \* the token upstream refused, or Missing
  before,    \* what tokenLocked read before it took the lock
  lockInfo,  \* whose lock directory it found under the lock
  current,   \* what it read after
  got,       \* what it was granted
  left,      \* the caller's context ended
  cli,       \* the CLI: "idle", "holding" or "granted"
  cliGot,    \* what it was granted
  trouble,   \* a grant was lost: by the network, the disk, a crash or a stolen lock
  raced      \* requests between whose last look and rename another changed the file

cred == <<file, issued, consumed, due>>
native == <<cli, cliGot>>
call == <<pc, failed, before, lockInfo, current, got, left>>
vars == <<cred, lock, call, native, trouble, raced>>

Owners == Requests \cup {"none", "cli", "dead"}
InGoroutine == {"start", "lock", "locked", "post", "granted", "checked"}

TypeOK ==
  /\ file \in 0..MaxTokens /\ issued \in Tokens /\ consumed \subseteq Tokens /\ due \in BOOLEAN
  /\ lock \in [owner : Owners, stale : BOOLEAN]
  /\ pc \in [Requests -> InGoroutine \cup {"idle", "sent", "done"}]
  /\ failed \in [Requests -> 0..MaxTokens] /\ before \in [Requests -> 0..MaxTokens]
  /\ current \in [Requests -> 0..MaxTokens] /\ got \in [Requests -> 0..MaxTokens]
  /\ lockInfo \in [Requests -> Owners] /\ left \in [Requests -> BOOLEAN]
  /\ cli \in {"idle", "holding", "granted"} /\ cliGot \in 0..MaxTokens
  /\ trouble \in BOOLEAN /\ raced \subseteq Requests

None == [r \in Requests |-> Missing]
NoInfo == [r \in Requests |-> "none"]

Init ==
  /\ file = 1 /\ issued = 1 /\ consumed = {} /\ due = FALSE /\ lock = NoLock
  /\ pc = [r \in Requests |-> "idle"] /\ failed = None /\ before = None /\ current = None /\ got = None
  /\ lockInfo = NoInfo /\ left = [r \in Requests |-> FALSE]
  /\ cli = "idle" /\ cliGot = Missing /\ trouble = FALSE /\ raced = {}

-----------------------------------------------------------------------------
(***************************************************************************)
(* The gateway.                                                            *)
(***************************************************************************)
Usable(r) == ~due /\ (failed[r] = Missing \/ file # failed[r])

\* The release of lock(): its own directory only.
Released(r) == IF lock.owner = r THEN NoLock ELSE lock

\* A call returns t to its caller, who sends the request if he is still there.
Return(r, t) ==
  /\ LET goes == t # Missing /\ ~left[r]
     IN /\ pc' = [pc EXCEPT ![r] = IF goes THEN "sent" ELSE "done"]
        /\ got' = [got EXCEPT ![r] = IF goes THEN t ELSE Missing]
        /\ failed' = [failed EXCEPT ![r] = IF goes THEN @ ELSE Missing]
  /\ before' = [before EXCEPT ![r] = Missing] /\ current' = [current EXCEPT ![r] = Missing]
  /\ lockInfo' = [lockInfo EXCEPT ![r] = "none"] /\ left' = [left EXCEPT ![r] = FALSE]

Goto(r, step) == pc' = [pc EXCEPT ![r] = step]

\* token: the fast path, or a goroutine that outlives its caller.
Token(r) ==
  /\ pc[r] = "idle"
  /\ IF left[r] \/ file = Missing \/ Usable(r)
     THEN Return(r, IF left[r] THEN Missing ELSE file)
     ELSE Goto(r, "start") /\ UNCHANGED <<failed, before, lockInfo, current, got, left>>
  /\ UNCHANGED <<cred, lock, native, trouble, raced>>

\* tokenLocked reads again before it queues for the lock.
TokenLocked(r) ==
  /\ pc[r] = "start"
  /\ IF left[r] \/ file = Missing \/ Usable(r)
     THEN Return(r, IF left[r] THEN Missing ELSE file)
     ELSE /\ Goto(r, "lock") /\ before' = [before EXCEPT ![r] = file]
          /\ UNCHANGED <<failed, lockInfo, current, got, left>>
  /\ UNCHANGED <<cred, lock, native, trouble, raced>>

\* lock: mkdir, an error for a lock gone stale, or another round.
FaultLock(r) ==
  /\ pc[r] = "lock" /\ (left[r] \/ lock.owner = "none")
  /\ IF left[r] THEN Return(r, Missing) /\ UNCHANGED lock
     ELSE /\ lock' = [owner |-> r, stale |-> FALSE]
          /\ Goto(r, "locked") /\ UNCHANGED <<failed, before, lockInfo, current, got, left>>
  /\ UNCHANGED <<cred, native, trouble, raced>>

Lock(r) ==
  /\ pc[r] = "lock" /\ (left[r] \/ lock.owner = "none" \/ lock.stale)
  /\ IF left[r] \/ lock.stale
     THEN Return(r, Missing) /\ UNCHANGED lock
     ELSE /\ lock' = [owner |-> r, stale |-> FALSE]
          /\ Goto(r, "locked") /\ UNCHANGED <<failed, before, lockInfo, current, got, left>>
  /\ UNCHANGED <<cred, native, trouble, raced>>

\* Under the lock: the directory must still be there, whoever made it (one
\* that replaced a stolen lock is taken for the request's own), and somebody
\* else's rotation is taken over.
FaultReread(r) ==
  /\ pc[r] = "locked"
  /\ IF lock.owner = "none" \/ file = Missing \/ (~due /\ failed[r] = Missing)
     THEN Return(r, IF lock.owner = "none" THEN Missing ELSE file) /\ lock' = Released(r)
     ELSE /\ current' = [current EXCEPT ![r] = before[r]] /\ lockInfo' = [lockInfo EXCEPT ![r] = lock.owner]
          /\ Goto(r, "post") /\ UNCHANGED <<failed, before, got, left, lock>>
  /\ UNCHANGED <<cred, native, trouble, raced>>

Reread(r) ==
  /\ pc[r] = "locked"
  /\ IF lock.owner = "none" \/ file # before[r] \/ (~due /\ failed[r] = Missing)
     THEN Return(r, IF lock.owner = "none" THEN Missing ELSE file) /\ lock' = Released(r)
     ELSE /\ current' = [current EXCEPT ![r] = file] /\ lockInfo' = [lockInfo EXCEPT ![r] = lock.owner]
          /\ Goto(r, "post") /\ UNCHANGED <<failed, before, got, left, lock>>
  /\ UNCHANGED <<cred, native, trouble, raced>>

\* The request is not even sent (no device identity), or the issuer rejects
\* the token.
PostRejected(r) ==
  /\ pc[r] = "post"
  /\ Return(r, Missing) /\ lock' = Released(r)
  /\ UNCHANGED <<cred, native, trouble, raced>>

\* The issuer accepts; its answer arrives or does not.  The caller's
\* cancellation does not reach this request.
FaultPostAccepted(r, arrives) ==
  /\ pc[r] = "post" /\ current[r] \notin consumed /\ issued < MaxTokens
  /\ consumed' = consumed \cup {current[r]} /\ issued' = issued + 1
  /\ trouble' = (trouble \/ ~arrives)
  /\ IF arrives /\ ~left[r]
     THEN /\ got' = [got EXCEPT ![r] = issued + 1] /\ Goto(r, "granted")
          /\ UNCHANGED <<failed, before, lockInfo, current, left, lock>>
     ELSE Return(r, Missing) /\ lock' = Released(r)
  /\ UNCHANGED <<file, due, native, raced>>

PostAccepted(r, arrives) ==
  /\ pc[r] = "post" /\ current[r] \notin consumed /\ issued < MaxTokens
  /\ consumed' = consumed \cup {current[r]} /\ issued' = issued + 1
  /\ trouble' = (trouble \/ ~arrives)
  /\ IF arrives
     THEN /\ got' = [got EXCEPT ![r] = issued + 1] /\ Goto(r, "granted")
          /\ UNCHANGED <<failed, before, lockInfo, current, left, lock>>
     ELSE Return(r, Missing) /\ lock' = Released(r)
  /\ UNCHANGED <<file, due, native, raced>>

\* Never overwrite a concurrent login or logout, nor under another lock than
\* the one found before the grant (its owner stands for the directory: one
\* that the same owner made anew is not told apart, which admits more).
FaultCheck(r) ==
  /\ pc[r] = "granted"
  /\ IF lock.owner = lockInfo[r]
     THEN Goto(r, "checked") /\ UNCHANGED <<failed, before, lockInfo, current, got, left, lock>>
     ELSE Return(r, Missing) /\ lock' = Released(r)
  /\ UNCHANGED <<cred, native, trouble, raced>>

Check(r) ==
  /\ pc[r] = "granted"
  /\ IF file = current[r] /\ lock.owner = lockInfo[r]
     THEN Goto(r, "checked") /\ UNCHANGED <<failed, before, lockInfo, current, got, left, lock>>
     ELSE Return(r, Missing) /\ lock' = Released(r)
  /\ UNCHANGED <<cred, native, trouble, raced>>

Checked == {r \in Requests : pc[r] = "checked"}

\* The temporary file is written, synced and renamed, or something fails.
Persist(r, works) ==
  /\ pc[r] = "checked"
  /\ file' = (IF works THEN got[r] ELSE file) /\ due' = (due /\ ~works)
  /\ trouble' = (trouble \/ ~works)
  /\ raced' = (IF works THEN raced \cup Checked ELSE raced) \ {r}
  /\ Return(r, IF works THEN got[r] ELSE Missing) /\ lock' = Released(r)
  /\ UNCHANGED <<issued, consumed, native>>

\* doUpstream: a 401 refreshes once and sends once more.
Answered(r, unauthorized) ==
  /\ pc[r] = "sent"
  /\ IF unauthorized /\ failed[r] = Missing
     THEN /\ failed' = [failed EXCEPT ![r] = got[r]] /\ got' = [got EXCEPT ![r] = Missing]
          /\ Goto(r, "idle") /\ UNCHANGED <<before, lockInfo, current, left>>
     ELSE /\ failed' = [failed EXCEPT ![r] = Missing] /\ got' = [got EXCEPT ![r] = Missing]
          /\ Goto(r, "done") /\ UNCHANGED <<before, lockInfo, current, left>>
  /\ UNCHANGED <<cred, lock, native, trouble, raced>>

CallerLeaves(r) ==
  /\ pc[r] \in InGoroutine /\ ~left[r]
  /\ left' = [left EXCEPT ![r] = TRUE]
  /\ UNCHANGED <<cred, lock, pc, failed, before, lockInfo, current, got, native, trouble, raced>>

\* The gateway dies; its lock directory stays.
Crash ==
  /\ \E r \in Requests : pc[r] \in InGoroutine
  /\ trouble' = (trouble \/ \E r \in Requests : pc[r] \in {"granted", "checked"})
  /\ lock' = IF lock.owner \in Requests THEN [lock EXCEPT !.owner = "dead"] ELSE lock
  /\ pc' = [r \in Requests |-> "done"] /\ before' = None /\ lockInfo' = NoInfo /\ current' = None /\ got' = None
  /\ failed' = None /\ raced' = {} /\ left' = [r \in Requests |-> FALSE]
  /\ UNCHANGED <<cred, native>>
-----------------------------------------------------------------------------
(***************************************************************************)
(* Time, and the native CLI.                                               *)
(***************************************************************************)
Ages ==
  /\ file # Missing /\ ~due
  /\ due' = TRUE
  /\ UNCHANGED <<file, issued, consumed, lock, call, native, trouble, raced>>

\* No heartbeat for five seconds: its owner is dead, or the machine slept.
GoesStale ==
  /\ lock.owner # "none" /\ ~lock.stale
  /\ lock' = [lock EXCEPT !.stale = TRUE]
  /\ UNCHANGED <<cred, call, native, trouble, raced>>

Heartbeat ==
  /\ lock.owner \in Requests /\ lock.stale
  /\ lock' = [lock EXCEPT !.stale = FALSE]
  /\ UNCHANGED <<cred, call, native, trouble, raced>>

\* The CLI takes a free lock and steals a stale one.
CliLocks ==
  /\ cli = "idle" /\ (lock.owner = "none" \/ lock.stale)
  /\ trouble' = (trouble \/ lock.owner \in Requests)
  /\ lock' = [owner |-> "cli", stale |-> FALSE] /\ cli' = "holding"
  /\ UNCHANGED <<cred, call, cliGot, raced>>

CliRefreshes ==
  /\ cli = "holding" /\ file # Missing /\ file \notin consumed /\ issued < MaxTokens
  /\ consumed' = consumed \cup {file} /\ issued' = issued + 1
  /\ cli' = "granted" /\ cliGot' = issued + 1
  /\ UNCHANGED <<file, due, lock, call, trouble, raced>>

\* It stores what it was granted unless its lock is gone or it died.
CliEnds(dies) ==
  /\ cli \in {"holding", "granted"}
  /\ LET stores == cli = "granted" /\ ~dies
     IN /\ file' = (IF stores THEN cliGot ELSE file) /\ due' = (due /\ ~stores)
        /\ trouble' = (trouble \/ (dies /\ cli = "granted"))
        /\ raced' = IF stores THEN raced \cup Checked ELSE raced
  /\ lock' = IF lock.owner # "cli" THEN lock ELSE IF dies THEN [lock EXCEPT !.owner = "dead"] ELSE NoLock
  /\ cli' = "idle" /\ cliGot' = Missing
  /\ UNCHANGED <<issued, consumed, call>>

\* A login or a logout, which need not honour the lock; the CLI does not run
\* one while it refreshes.
CliReplaces(login) ==
  /\ cli # "granted" /\ (login => issued < MaxTokens) /\ (~login => file # Missing)
  /\ file' = (IF login THEN issued + 1 ELSE Missing)
  /\ issued' = (IF login THEN issued + 1 ELSE issued) /\ due' = FALSE
  /\ raced' = raced \cup Checked
  /\ UNCHANGED <<consumed, lock, call, native, trouble>>

Call(r) ==
  \/ Token(r) \/ TokenLocked(r) \/ Lock(r) \/ Reread(r) \/ PostRejected(r) \/ Check(r)
  \/ \E b \in BOOLEAN : PostAccepted(r, b) \/ Persist(r, b) \/ Answered(r, b)

Cli == CliLocks \/ CliRefreshes \/ (\E b \in BOOLEAN : CliEnds(b) \/ CliReplaces(b))

Finished == (\A r \in Requests : pc[r] = "done") /\ UNCHANGED vars

Next ==
  \/ \E r \in Requests : Call(r) \/ CallerLeaves(r)
  \/ Crash \/ Ages \/ GoesStale \/ Heartbeat \/ Cli
  \/ Finished

\* The gateway's goroutines run and its grants time out: some request that can
\* move does, and one that polls the lock gets it if it is free again and
\* again.  The CLI does not hold the lock for ever, and a dead owner's lock goes
\* stale.  Moves is stated without the work done then: a request that neither
\* polls nor is done can always take a step of Call, which moves it.
Moves(r) ==
  /\ pc[r] \notin {"lock", "done"}
  /\ \E step \in InGoroutine \cup {"idle", "sent", "done"} : pc' = [pc EXCEPT ![r] = step]
DeadLockGoesStale == lock.owner = "dead" /\ GoesStale
CliFinishes == cli # "idle" /\ cli' = "idle"

Spec ==
  /\ Init /\ [][Next]_vars
  /\ SF_pc(\E r \in Requests : Lock(r)) /\ WF_pc(\E r \in Requests : Moves(r))
  /\ WF_lock(DeadLockGoesStale) /\ WF_cli(CliFinishes)
-----------------------------------------------------------------------------
(***************************************************************************)
(* Properties.                                                             *)
(***************************************************************************)
\* The file never ends up with a refresh token that was already presented,
\* unless a grant was lost (network, disk, crash) or the lock was stolen from
\* a live owner: neither a caller that leaves nor a second request, a login or
\* the CLI's own refresh can strand it.
RefreshTokenLives ==
  file \in consumed => trouble \/ cli = "granted" \/ \E r \in Requests : pc[r] \in {"granted", "checked"}

\* No request presents a token that was already accepted: one that waited for
\* the lock takes over the other's rotation, also when it came because of a
\* 401, and the CLI's.
PresentedOnce ==
  \A r \in Requests : pc[r] = "post" /\ current[r] \in consumed => trouble

\* What a login, a logout or another rotation stored, honouring the lock or
\* not, is overwritten only if it came between the request's last look at the
\* file and its rename.
LoginSurvives ==
  [][\A r \in Requests : pc[r] = "checked" /\ file' = got[r] /\ file' # file => file = current[r] \/ r \in raced]_vars

\* No call waits for ever: the lock is released, or it goes stale and the call
\* gives up.
CallsEnd == <>(\A r \in Requests : pc[r] = "done")
=============================================================================
