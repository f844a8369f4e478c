------------------------------ MODULE FableQuota ------------------------------
(***************************************************************************)
(* The Fable quota block of one Claude account and its revalidation        *)
(* (fable_quota.go, observeProviderHeadersAt).  A rejected Fable request   *)
(* blocks the model on the account for days.  Once an interval, if the     *)
(* account itself looks healthy, one ordinary request is let through under *)
(* a lease to see whether the limit still holds; the lease lasts until the *)
(* body of its response is closed.                                         *)
(*                                                                         *)
(* Requests for Fable and for other models share the account: every        *)
(* response carries the account's windows, and may say that the Fable      *)
(* allowance is exhausted or available.  The account's own block belongs   *)
(* to module AccountAuth; here it is set and lifted at any time.           *)
(* count_tokens requests never take a lease and observe no header, and are *)
(* left out.                                                               *)
(*                                                                         *)
(* Time is an integer from 1 on, 0 is Go's zero time; it stops at MaxTime. *)
(***************************************************************************)
EXTENDS Integers

CONSTANTS
  Requests,     \* requests on the account that can be in flight at once
  Interval,     \* fableQuotaProbeInterval, an hour
  FreshTime,        \* five minutes, the age of usable account headers
  BlockTimes,   \* what a rejected header or a throttle can block the model for
  AccountTime,  \* how long a block of the account lasts
  Gaps,         \* possible delays between two consecutive operations
  MaxTime       \* bound: the clock stops here

ASSUME FableQuotaAssumption ==
  /\ Interval \in Nat \ {0} /\ FreshTime \in Nat
  /\ BlockTimes \subseteq Nat \ {0} /\ AccountTime \in Nat \ {0}
  /\ Gaps \subseteq Nat
  /\ MaxTime \in Nat \ {0}

VARIABLES
  now,
  account,    \* the account's providerRuntimeState, as far as the probe reads it
  model,      \* the providerRuntimeState under account#fable
  pc,         \* where each request is
  fable,      \* whether each request is for Fable
  lease,      \* whether each request holds the probe lease
  started,    \* attemptStarted of each request
  rejectedAt  \* history: the latest rejection of the model, 0 for none

fableVars == <<now, account, model, pc, fable, lease, started, rejectedAt>>

Instants == 0..MaxTime

Accounts == [until       : Nat,
             lastFailure : Instants,
             updated     : Instants,
             allowed     : BOOLEAN]    \* both windows of the last headers

Models == [until       : Nat,
           reason      : {"none", "fable_quota_rejected", "quota_or_rate_limit"},
           lastFailure : Instants,
           probeAt     : Instants,
           inFlight    : BOOLEAN]

Steps == {"idle", "checked", "sent", "throttled", "marked", "streaming", "rejected", "closing"}

FableTypeOK ==
  /\ now \in Instants \ {0}
  /\ account \in Accounts
  /\ model \in Models
  /\ pc \in [Requests -> Steps]
  /\ fable \in [Requests -> BOOLEAN]
  /\ lease \in [Requests -> BOOLEAN]
  /\ started \in [Requests -> Instants]
  /\ rejectedAt \in Instants

FableInit ==
  /\ now = 1
  /\ account = [until |-> 0, lastFailure |-> 0, updated |-> 0, allowed |-> FALSE]
  /\ model = [until |-> 0, reason |-> "none", lastFailure |-> 0, probeAt |-> 0, inFlight |-> FALSE]
  /\ pc = [r \in Requests |-> "idle"]
  /\ fable = [r \in Requests |-> FALSE]
  /\ lease = [r \in Requests |-> FALSE]
  /\ started = [r \in Requests |-> 0]
  /\ rejectedAt = 0

Advance == \E gap \in Gaps : now' = IF now + gap <= MaxTime THEN now + gap ELSE MaxTime

-----------------------------------------------------------------------------
(* The functions on the two records *)

Unblocked(m) == [m EXCEPT !.until = 0, !.reason = "none"]

\* providerBlocked forgets an expired block when it is read.
ExpiredModel(m, t) == IF m.until # 0 /\ t >= m.until THEN Unblocked(m) ELSE m
ExpiredAccount(a, t) == IF a.until # 0 /\ t >= a.until THEN [a EXCEPT !.until = 0] ELSE a

\* Seeded fault for ProbesAreRare: the age of the rejection is not looked at.
FaultReadyAtOnce(a, m, t) ==
  /\ m.reason = "fable_quota_rejected" /\ ~m.inFlight
  /\ a.until <= t /\ m.until > t
  /\ m.probeAt # 0 => t - m.probeAt >= Interval
  /\ a.updated <= t /\ t - a.updated <= FreshTime /\ a.allowed

\* fableQuotaProbeReady
Ready(a, m, t) ==
  /\ m.reason = "fable_quota_rejected" /\ ~m.inFlight
  /\ a.until <= t
  /\ m.until > t
  /\ m.lastFailure # 0 /\ t - m.lastFailure >= Interval
  /\ m.probeAt # 0 => t - m.probeAt >= Interval
  /\ a.updated <= t /\ t - a.updated <= FreshTime
  /\ a.allowed

\* Seeded fault for ProbeEnds: the release does nothing.
FaultReturnedNothing(m) == m

\* acquireFableQuotaProbe: free to go, granted a lease, or refused
Leased(m, t) == [m EXCEPT !.probeAt = t, !.inFlight = TRUE]
Returned(m) == [m EXCEPT !.inFlight = FALSE]

\* markProviderBlocked on the model's key
Marked(m, t, duration) ==
  IF t + duration > m.until
  THEN [m EXCEPT !.until = t + duration, !.reason = "quota_or_rate_limit", !.lastFailure = t]
  ELSE [m EXCEPT !.lastFailure = t]

\* observeProviderHeadersAt on the model's key, for a request sent at s
HeaderRejected(m, t, duration) ==
  [m EXCEPT !.until = t + duration, !.reason = "fable_quota_rejected", !.lastFailure = t]

\* Seeded fault for LiftedByLaterEvidence: an old inference lifts the block.
FaultLiftedByOld(m, s) == IF m.reason = "fable_quota_rejected" THEN Unblocked(m) ELSE m

\* Both ways to lift the block: an allowed header, a complete inference.
Lifted(m, s) ==
  IF m.reason = "fable_quota_rejected" /\ m.lastFailure <= s THEN Unblocked(m) ELSE m

-----------------------------------------------------------------------------
(* Steps of a request *)

\* Request r goes on at step next; one that is over is forgotten.
Goes(r, next) ==
  /\ pc' = [pc EXCEPT ![r] = next]
  /\ IF next = "idle"
     THEN /\ fable' = [fable EXCEPT ![r] = FALSE]
          /\ started' = [started EXCEPT ![r] = 0]
     ELSE UNCHANGED <<fable, started>>

\* providerBlockForCandidate: an old block does not stop a request when a
\* probe is due; the lease is only taken at the admission.
Check(r) ==
  /\ pc[r] = "idle"
  /\ Advance
  /\ account' = ExpiredAccount(account, now')
  /\ \E isFable \in BOOLEAN :
       /\ model' = IF isFable /\ account'.until = 0 THEN ExpiredModel(model, now') ELSE model
       /\ fable' = [fable EXCEPT ![r] = isFable]
       /\ account'.until = 0
       /\ isFable => model'.until = 0 \/ Ready(account', model', now')
  /\ pc' = [pc EXCEPT ![r] = "checked"]
  /\ UNCHANGED <<lease, started, rejectedAt>>

\* attemptStarted, then acquireFableQuotaProbe: the candidate is skipped when
\* the model was blocked, or the probe taken, since it was looked at.
Send(r) ==
  /\ pc[r] = "checked"
  /\ Advance
  /\ LET blocked == fable[r] /\ model.until > now'
         ready   == Ready(account, model, now')
     IN  /\ IF blocked /\ ~ready
            THEN Goes(r, "idle")
            ELSE /\ pc' = [pc EXCEPT ![r] = "sent"]
                 /\ started' = [started EXCEPT ![r] = now']
                 /\ UNCHANGED fable
         /\ lease' = [lease EXCEPT ![r] = blocked /\ ready]
         /\ model' = IF blocked /\ ready THEN Leased(model, now') ELSE model
  /\ UNCHANGED <<account, rejectedAt>>

\* The body is closed, or there is none: the lease ends.
Release(r, next) ==
  /\ Goes(r, next)
  /\ model' = IF lease[r] THEN Returned(model) ELSE model
  /\ lease' = [lease EXCEPT ![r] = FALSE]
  /\ UNCHANGED <<now, account, rejectedAt>>

TransportError(r) == pc[r] = "sent" /\ Release(r, "idle")

\* A 429 is read to its end, then remembered, then its headers are observed.
Throttled(r) == pc[r] = "sent" /\ Release(r, "throttled")

\* A 402 or a quota body: the headers were observed before.
QuotaBody(r) == pc[r] = "streaming" /\ Release(r, "rejected")

\* markProviderBlocked on the model's key, or on another one (the account's, a
\* route's): quotaBlockKeyForResponse.
Remember(r) ==
  /\ pc[r] \in {"throttled", "rejected"}
  /\ Advance
  /\ \/ /\ fable[r]
        /\ \E duration \in BlockTimes : model' = Marked(model, now', duration)
        /\ rejectedAt' = now'
        /\ UNCHANGED account
     \/ /\ account' = [account EXCEPT !.until = IF now' + AccountTime > @ THEN now' + AccountTime ELSE @,
                                      !.lastFailure = now', !.updated = now']
        /\ UNCHANGED <<model, rejectedAt>>
     \/ UNCHANGED <<account, model, rejectedAt>>
  /\ Goes(r, IF pc[r] = "throttled" THEN "marked" ELSE "idle")
  /\ UNCHANGED lease

\* observeProviderHeadersAt: the account's windows, and what the response says
\* of the Fable allowance, if anything.
Observe(r) ==
  /\ pc[r] \in {"sent", "marked"}
  /\ Advance
  /\ Goes(r, IF pc[r] = "sent" THEN "streaming" ELSE "idle")
  /\ \/ UNCHANGED <<account, model, rejectedAt>>      \* no rate-limit header
     \/ /\ \E windows \in BOOLEAN :
             account' = [account EXCEPT !.updated = now', !.allowed = windows]
        /\ \/ UNCHANGED <<model, rejectedAt>>
           \/ \E duration \in BlockTimes :
                /\ model' = HeaderRejected(model, now', duration)
                /\ rejectedAt' = now'
           \/ model' = Lifted(model, started[r]) /\ UNCHANGED rejectedAt
  /\ UNCHANGED lease

\* proxy(): a fully delivered response; the account's record is touched
\* (clearProviderBlockAfter), and for Fable the block is lifted.
Deliver(r) ==
  /\ pc[r] = "streaming"
  /\ Advance
  /\ pc' = [pc EXCEPT ![r] = "closing"]
  /\ account' = IF account.until = 0 /\ account.lastFailure <= started[r]
                THEN [account EXCEPT !.updated = now'] ELSE account
  /\ model' = IF fable[r] THEN Lifted(model, started[r]) ELSE model
  /\ UNCHANGED <<fable, lease, started, rejectedAt>>

\* proxy() returns and closes the body: after a delivery, or because the
\* stream broke or the client left.
Close(r) == pc[r] \in {"streaming", "closing"} /\ Release(r, "idle")

\* Other parties block the account and lift its block (module AccountAuth).
AccountChanges ==
  /\ Advance
  /\ \/ account' = [account EXCEPT !.until = now' + AccountTime, !.lastFailure = now', !.updated = now']
     \/ account.until # 0 /\ account' = [account EXCEPT !.until = 0, !.updated = now']
  /\ UNCHANGED <<model, pc, fable, lease, started, rejectedAt>>

Ends(r) == TransportError(r) \/ Throttled(r) \/ Observe(r) \/ Close(r)

FableNext ==
  \/ AccountChanges
  \/ \E r \in Requests :
       \/ Check(r) \/ Send(r) \/ Ends(r) \/ QuotaBody(r) \/ Remember(r) \/ Deliver(r)

\* A header deadline ends every attempt, and the handler of every response
\* returns and closes the body.
Fairness == \A r \in Requests : WF_fableVars(Ends(r))

FableSpec == FableInit /\ [][FableNext]_fableVars /\ Fairness

-----------------------------------------------------------------------------
(* Properties *)

\* A lease is given back: a probe that was lost would end the revalidation of
\* the model until the block expires, days later.
ProbeEnds == model.inFlight ~> ~model.inFlight

\* "Once an hour": a Fable request sent against a block that still stands comes
\* an interval or more after the last rejection anyone saw, and after the probe
\* before it.
ProbesAreRare ==
  [][\A r \in Requests :
       pc[r] = "checked" /\ pc'[r] = "sent" /\ fable[r] /\ now' < model.until =>
         /\ now' - rejectedAt >= Interval
         /\ \A s \in Requests \ {r} : ~lease[s]
         /\ model.probeAt # 0 => now' - model.probeAt >= Interval]_fableVars

\* "Preserve any rejection observed since that inference started": before its
\* end a Fable block is only lifted by a request sent after the last rejection.
LiftedByLaterEvidence ==
  [][model.until > now' /\ model'.until = 0 =>
       \E r \in Requests : pc'[r] # pc[r] /\ started[r] >= rejectedAt]_fableVars
=============================================================================
