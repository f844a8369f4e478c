------------------------------ MODULE AccountAuth ------------------------------
(***************************************************************************)
(* The block record of one Claude account (anthropic-proxy.go,             *)
(* providerRuntimeState under provider@profile) and the parties that write *)
(* it: requests that the upstream answers with an authentication error or  *)
(* a quota rejection, the two OAuth refresh monitors (the scheduled run    *)
(* over all profiles and the run an auth error triggers), and the usage    *)
(* fetch whose success proves that the account can log in                  *)
(* (claude_auth_recovery.go).                                              *)
(*                                                                         *)
(* Every party reads the clock before a slow external call and applies the *)
(* outcome when the call returns, so what it knows may be older than what  *)
(* the record already says.  The record holds one block at a time: one     *)
(* deadline with one reason.                                               *)
(*                                                                         *)
(* Time is an integer; 0 is Go's zero time.                                *)
(***************************************************************************)
EXTENDS Integers

CONSTANTS
  Requests,        \* requests on the account that can be in flight at once
  StrikeLimit,     \* claudeCredentialQuarantineThreshold, 3
  QuarantineTime,  \* claudeCredentialQuarantineTTL, an hour
  AuthTime,        \* the minute an inference auth error costs
  QuotaTimes,      \* cooldowns that providerCooldownForReason can return
  Spacing,         \* a minute between two triggered refresh runs
  Gaps,            \* possible delays between two consecutive operations
  MaxTime          \* bound: the horizon of the clock

ASSUME AccountAuthAssumption ==
  /\ StrikeLimit \in Nat \ {0}
  /\ QuarantineTime \in Nat \ {0} /\ AuthTime \in Nat \ {0}
  /\ QuotaTimes \subseteq Nat \ {0}
  /\ Spacing \in Nat
  /\ Gaps \subseteq Nat \ {0}
  /\ MaxTime \in Nat

VARIABLES
  now,
  account,     \* the account's block record
  strikes,     \* claudeRefreshFailures
  verified,    \* claudeUsageAuthVerified, 0 for none
  sent,        \* attemptStarted of each request in flight, 0 for none
  phase,       \* where each monitor is
  since,       \* the clock each monitor read when it started; the triggered run's
               \* is kept, for the spacing of the next one
  authAt       \* history: the latest auth error or refresh quarantine

authVars == <<now, account, strikes, verified, sent, phase, since, authAt>>

Instants == 0..MaxTime

Refreshers == {"scheduled", "triggered"}
Monitors == Refreshers \union {"usage"}

\* "inference" stands for auth_exhausted and auth_unavailable.
AuthReasons == {"inference", "quarantined"}

Accounts == [until       : Nat,
             reason      : AuthReasons \union {"none", "quota"},
             lastFailure : Instants]

AuthTypeOK ==
  /\ now \in Instants
  /\ account \in Accounts
  /\ strikes \in Nat
  /\ verified \in Instants
  /\ sent \in [Requests -> Instants]
  /\ phase \in [Monitors -> {"idle", "running", "clearing"}]
  /\ since \in [Monitors -> Instants]
  /\ authAt \in Instants

AuthInit ==
  /\ now = 0
  /\ account = [until |-> 0, reason |-> "none", lastFailure |-> 0]
  /\ strikes = 0
  /\ verified = 0
  /\ sent = [r \in Requests |-> 0]
  /\ phase = [m \in Monitors |-> "idle"]
  /\ since = [m \in Monitors |-> 0]
  /\ authAt = 0

Advance == \E gap \in Gaps : now' = now + gap /\ now' <= MaxTime

-----------------------------------------------------------------------------
(* The functions on the block record *)

Unblocked(a) == [a EXCEPT !.until = 0, !.reason = "none"]

\* providerBlocked forgets an expired block when it is read.
Expired(a, t) == IF a.until # 0 /\ t >= a.until THEN Unblocked(a) ELSE a

\* markProviderBlocked: the later deadline wins and brings its reason; the
\* failure is noted in any case.
Marked(a, reason, t, duration) ==
  IF t + duration > a.until
  THEN [until |-> t + duration, reason |-> reason, lastFailure |-> t]
  ELSE [a EXCEPT !.lastFailure = t]

\* clearProviderBlockAfter, after a delivered response to a request sent at s
AfterSuccess(a, s) ==
  IF a.lastFailure > s \/ a.reason \in AuthReasons \/ a.reason = "quota" THEN a ELSE Unblocked(a)

\* Seeded fault for BlocksLiftedByNewerProof: an overtaken refresh lifts.
FaultAfterRefreshOvertaken(a, s) == IF a.reason \in AuthReasons THEN Unblocked(a) ELSE a

\* clearClaudeProfileAuthBlock, after a refresh begun at s
AfterRefresh(a, s) ==
  IF a.lastFailure > s \/ a.reason \notin AuthReasons THEN a ELSE Unblocked(a)

\* recoverClaudeUsageAuth, after a usage fetch begun at s: is it proof of a
\* working login?
Proves(a, s) == a.lastFailure <= s /\ a.reason \in {"none", "quarantined"}

LaterOf(s, t) == IF s > t THEN s ELSE t

-----------------------------------------------------------------------------
(* Requests on the account *)

\* The account is looked at, and taken if it is not blocked.
Send(r) ==
  /\ sent[r] = 0
  /\ Advance
  /\ account' = Expired(account, now')
  /\ sent' = IF account'.until = 0 THEN [sent EXCEPT ![r] = now'] ELSE sent
  /\ UNCHANGED <<strikes, verified, phase, since, authAt>>

Answered(r) ==
  /\ sent[r] # 0
  /\ Advance
  /\ sent' = [sent EXCEPT ![r] = 0]

Deliver(r) ==
  /\ Answered(r)
  /\ account' = AfterSuccess(account, sent[r])
  /\ UNCHANGED <<strikes, verified, phase, since, authAt>>

\* 401, 403, or a credential that cannot be resolved.
AuthError(r) ==
  /\ Answered(r)
  /\ account' = Marked(account, "inference", now', AuthTime)
  /\ authAt' = now'
  /\ UNCHANGED <<strikes, verified, phase, since>>

\* 429 or 402 with the account's own window rejected.
QuotaError(r) ==
  /\ Answered(r)
  /\ \E duration \in QuotaTimes :
       account' = Marked(account, "quota", now', duration)
  /\ UNCHANGED <<strikes, verified, phase, since, authAt>>

-----------------------------------------------------------------------------
(* The monitors *)

\* Monitor m has reported what it knew.
Finished(m) ==
  /\ phase' = [phase EXCEPT ![m] = "idle"]
  /\ since' = IF m = "triggered" THEN since ELSE [since EXCEPT ![m] = 0]

\* A triggered run is spaced from the one before; the scheduled run is
\* started by a ticker, a usage fetch by a stale snapshot.
Start(m) ==
  /\ phase[m] = "idle"
  /\ Advance
  /\ m = "triggered" /\ since[m] # 0 => now' - since[m] >= Spacing
  /\ phase' = [phase EXCEPT ![m] = "running"]
  /\ since' = [since EXCEPT ![m] = now']
  /\ UNCHANGED <<account, strikes, verified, sent, authAt>>

\* A run that proves nothing: cancelled, timed out, stale status, failed fetch.
Inconclusive(m) ==
  /\ phase[m] = "running"
  /\ Finished(m)
  /\ UNCHANGED <<now, account, strikes, verified, sent, authAt>>

\* noteClaudeCredentialRefreshResult(true): the counter under one mutex ...
RefreshSucceeds(m) ==
  /\ m \in Refreshers /\ phase[m] = "running"
  /\ phase' = [phase EXCEPT ![m] = "clearing"]
  /\ strikes' = 0
  /\ UNCHANGED <<now, account, verified, sent, since, authAt>>

\* ... then the block under another.
ClearBlock(m) ==
  /\ phase[m] = "clearing"
  /\ Advance
  /\ Finished(m)
  /\ account' = AfterRefresh(account, since[m])
  /\ UNCHANGED <<strikes, verified, sent, authAt>>

\* The login was verified after the run of m began.
Obsolete(m) == verified > since[m]

\* noteClaudeCredentialRefreshResult(false): obsolete when the login was
\* verified after the run began.
RefreshFails(m) ==
  /\ m \in Refreshers /\ phase[m] = "running"
  /\ Advance
  /\ Finished(m)
  /\ IF Obsolete(m)
     THEN UNCHANGED <<account, strikes, authAt>>
     ELSE /\ strikes' = IF strikes < StrikeLimit THEN strikes + 1 ELSE strikes
          /\ IF strikes' >= StrikeLimit
             THEN /\ account' = Marked(account, "quarantined", now', QuarantineTime)
                  /\ authAt' = now'
             ELSE UNCHANGED <<account, authAt>>
  /\ UNCHANGED <<verified, sent>>

\* recoverClaudeUsageAuth
UsageVerified ==
  /\ phase["usage"] = "running"
  /\ Advance
  /\ Finished("usage")
  /\ IF Proves(account, since["usage"])
     THEN /\ verified' = LaterOf(since["usage"], verified)
          /\ strikes' = 0
          /\ account' = IF account.reason = "quarantined" THEN Unblocked(account) ELSE account
     ELSE UNCHANGED <<account, strikes, verified>>
  /\ UNCHANGED <<sent, authAt>>

AuthNext ==
  \/ \E r \in Requests : Send(r) \/ Deliver(r) \/ AuthError(r) \/ QuotaError(r)
  \/ \E m \in Monitors :
       Start(m) \/ Inconclusive(m) \/ RefreshSucceeds(m) \/ ClearBlock(m) \/ RefreshFails(m)
  \/ UsageVerified

AuthSpec == AuthInit /\ [][AuthNext]_authVars

-----------------------------------------------------------------------------
(* Properties *)

\* A block ends before its time only if it is one for authentication, and by a
\* proof that was begun after the account's latest auth failure: a refresh or a
\* usage fetch that was overtaken by a newer failure changes nothing, and none
\* cuts short what the record shows as a quota (a longer auth block may take
\* its place).
BlocksLiftedByNewerProof ==
  [][account.reason # "none" /\ now' < account.until /\ account'.until < account.until =>
       /\ account.reason \in AuthReasons
       /\ \E m \in Monitors : phase[m] # "idle" /\ phase'[m] = "idle" /\ since[m] >= authAt]_authVars

=============================================================================
