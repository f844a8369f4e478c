--------------------------- MODULE NetworkIncident ---------------------------
(***************************************************************************)
(* The shared-network incident of the gateway (anthropic-proxy.go,         *)
(* sharedNetworkIncidentState): while the machine itself is offline, every *)
(* request is turned away with a retryable error instead of burning its    *)
(* fallback chain, except one recovery probe at a time.                    *)
(*                                                                         *)
(* The incident record is guarded by providerStateMu, so each function     *)
(* below is one step.  A request runs in its own goroutine: it enters      *)
(* doWithFallbacks (Begin), tries candidates, each of which may fail with  *)
(* a strong local-network error or answer, and leaves (Return), when the   *)
(* deferred finishNetworkProbe runs.  A response that was returned is      *)
(* copied to the client afterwards and may still fail (StreamFailure).     *)
(*                                                                         *)
(* Time is an integer from 1 on, 0 is Go's zero time; it stops at MaxTime. *)
(* Epoch, LastDetected and Origins are reported, never read for a decision,*)
(* and are left out.                                                       *)
(***************************************************************************)
EXTENDS Integers, FiniteSets

CONSTANTS
  Requests,         \* requests that can be in doWithFallbacks at once
  Origins,          \* scheme://host of the configured providers
  OriginThreshold,  \* networkIncidentOriginThreshold, 2 by default
  Window,           \* networkIncidentWindow, 15 s
  Suppression,      \* networkIncidentSuppression, 90 s
  RecoveryDelay,    \* networkRecoveryDelay, 2 s
  Gaps,             \* possible delays between two consecutive operations
  MaxTime           \* bound: the clock stops here

ASSUME IncidentAssumption ==
  /\ IsFiniteSet(Origins)
  /\ OriginThreshold \in Nat \ {0}
  /\ Window \in Nat /\ Suppression \in Nat \ {0} /\ RecoveryDelay \in Nat \ {0}
  /\ Gaps \subseteq Nat
  /\ MaxTime \in Nat \ {0}

VARIABLES
  now,
  incident,    \* the sharedNetworkIncidentState
  pc,          \* where each request is
  probe,       \* networkProbe of each request
  recovered,   \* networkRecovered of each request
  strongAt     \* history: the latest strong failure at each origin since the
               \* last upstream response, 0 for none

vars == <<now, incident, pc, probe, recovered, strongAt>>

Instants == 0..MaxTime

Phases == {"normal", "suspected", "offline", "recovering"}

IncidentStates == [phase         : Phases,
                   signals       : [Origins -> Instants],   \* 0: no signal
                   suspectedAt   : Instants,
                   activeUntil   : Nat,
                   nextProbeAt   : Nat,
                   probeInFlight : BOOLEAN]

TypeOK ==
  /\ now \in Instants \ {0}
  /\ incident \in IncidentStates
  /\ pc \in [Requests -> {"idle", "running", "stopped", "streaming"}]
  /\ probe \in [Requests -> BOOLEAN]
  /\ recovered \in [Requests -> BOOLEAN]
  /\ strongAt \in [Origins -> Instants]

NoSignals == [o \in Origins |-> 0]

Calm == [phase |-> "normal", signals |-> NoSignals, suspectedAt |-> 0, activeUntil |-> 0,
         nextProbeAt |-> 0, probeInFlight |-> FALSE]

Init ==
  /\ now = 1
  /\ incident = Calm
  /\ pc = [r \in Requests |-> "idle"]
  /\ probe = [r \in Requests |-> FALSE]
  /\ recovered = [r \in Requests |-> FALSE]
  /\ strongAt = NoSignals

Advance == \E gap \in Gaps : now' = IF now + gap <= MaxTime THEN now + gap ELSE MaxTime

-----------------------------------------------------------------------------
(* The functions on the incident record *)

Signalled(i) == {o \in Origins : i.signals[o] # 0}

\* normalizeNetworkIncidentLocked: old signals go, a suspicion older than the
\* window is dropped, an incident past its end is closed unless a probe runs.
Pruned(i, t) ==
  [i EXCEPT !.signals = [o \in Origins |-> IF t - i.signals[o] > Window THEN 0 ELSE i.signals[o]]]

DropSuspicion(i, t) ==
  IF i.phase = "suspected" /\ (i.suspectedAt = 0 \/ t - i.suspectedAt > Window)
  THEN [i EXCEPT !.phase = "normal", !.suspectedAt = 0, !.signals = NoSignals]
  ELSE i

CloseIncident(i, t) ==
  IF /\ i.phase \in {"offline", "recovering"}
     /\ i.activeUntil # 0 /\ t >= i.activeUntil /\ ~i.probeInFlight
  THEN [i EXCEPT !.phase = "normal", !.activeUntil = 0, !.nextProbeAt = 0, !.signals = NoSignals]
  ELSE i

Normalized(i, t) == CloseIncident(DropSuspicion(Pruned(i, t), t), t)

\* observeNetworkTransportFailure, for a strong local error at origin o
WithSignal(i, o, t) == [i EXCEPT !.signals[o] = t]

Suspecting(i, t) ==
  IF i.phase = "normal" THEN [i EXCEPT !.phase = "suspected", !.suspectedAt = t] ELSE i

\* Seeded fault for OfflineIsCorroborated: one origin too few is enough.
FaultConfirmingEarly(i, t) ==
  IF Cardinality(Signalled(i)) + 1 >= OriginThreshold
  THEN [i EXCEPT !.phase = "offline", !.activeUntil = t + Suppression,
                 !.nextProbeAt = t + RecoveryDelay, !.probeInFlight = FALSE]
  ELSE i

Confirming(i, t) ==
  IF Cardinality(Signalled(i)) >= OriginThreshold
  THEN [i EXCEPT !.phase = "offline", !.activeUntil = t + Suppression,
                 !.nextProbeAt = t + RecoveryDelay, !.probeInFlight = FALSE]
  ELSE i

AfterStrongFailure(i, o, t) ==
  LET seen == WithSignal(Normalized(i, t), o, t)
  IN  IF seen.phase \in {"offline", "recovering"} THEN seen ELSE Confirming(Suspecting(seen, t), t)

\* networkFailureDecision.StopFallback
StopsFallback(after) == after.phase \in {"offline", "recovering"}

\* beginNetworkRequest
Refused(i, t) ==
  \/ i.phase = "offline" /\ (i.probeInFlight \/ t < i.nextProbeAt)
  \/ i.phase = "recovering"

Entering(i) ==
  IF i.phase = "offline" THEN [i EXCEPT !.phase = "recovering", !.probeInFlight = TRUE] ELSE i

\* Seeded fault for RecoveringHasProbe: the phase is not put back to offline.
FaultProbeFailedKeepsPhase(i, t) ==
  IF i.phase = "recovering"
  THEN [i EXCEPT !.probeInFlight = FALSE, !.nextProbeAt = t + RecoveryDelay]
  ELSE i

\* finishNetworkProbe(true, false)
ProbeFailed(i, t) ==
  IF i.phase = "recovering"
  THEN [i EXCEPT !.phase = "offline", !.probeInFlight = FALSE, !.nextProbeAt = t + RecoveryDelay]
  ELSE i

-----------------------------------------------------------------------------
(* Steps of a request *)

\* doWithFallbacks starts; a refused request gets its retryable error and only
\* leaves the normalised record behind.
Begin(r) ==
  /\ pc[r] = "idle"
  /\ Advance
  /\ LET i == Normalized(incident, now')
     IN  IF Refused(i, now')
         THEN incident' = i /\ UNCHANGED <<pc, probe>>
         ELSE /\ incident' = Entering(i)
              /\ pc' = [pc EXCEPT ![r] = "running"]
              /\ probe' = [probe EXCEPT ![r] = i.phase = "offline"]
  /\ UNCHANGED <<recovered, strongAt>>

\* The record after a strong failure at o.
Fail(o) ==
  /\ Advance
  /\ incident' = AfterStrongFailure(incident, o, now')
  /\ strongAt' = [strongAt EXCEPT ![o] = now']
  /\ UNCHANGED <<probe, recovered>>

\* A candidate fails with a strong local error: go on to the next one, or stop.
StrongFailure(r, o) ==
  /\ pc[r] = "running"
  /\ Fail(o)
  /\ pc' = IF StopsFallback(incident') THEN [pc EXCEPT ![r] = "stopped"] ELSE pc

\* observeNetworkSuccess: any upstream response ends any incident; then
\* networkRecovered is set. The request may go on to another candidate.
Success(r) ==
  /\ pc[r] = "running"
  /\ Advance
  /\ incident' = IF incident.phase = "normal" THEN incident ELSE Calm
  /\ recovered' = [recovered EXCEPT ![r] = TRUE]
  /\ strongAt' = NoSignals
  /\ UNCHANGED <<pc, probe>>

\* Seeded fault for RecoveryEnds: the deferred finishNetworkProbe is missing.
FaultReturnWithoutFinish(r) ==
  /\ pc[r] \in {"running", "stopped"}
  /\ Advance
  /\ pc' = [pc EXCEPT ![r] = "idle"]
  /\ probe' = [probe EXCEPT ![r] = FALSE]
  /\ recovered' = [recovered EXCEPT ![r] = FALSE]
  /\ UNCHANGED <<incident, strongAt>>

\* doWithFallbacks returns, at any point of its loop, and the deferred
\* finishNetworkProbe runs. Only a request that was answered has a body left
\* to copy to its client.
Return(r) ==
  /\ pc[r] \in {"running", "stopped"}
  /\ Advance
  /\ incident' = IF probe[r] /\ ~recovered[r] THEN ProbeFailed(incident, now') ELSE incident
  /\ \/ pc' = [pc EXCEPT ![r] = "idle"]
     \/ pc[r] = "running" /\ recovered[r] /\ pc' = [pc EXCEPT ![r] = "streaming"]
  /\ probe' = [probe EXCEPT ![r] = FALSE]
  /\ recovered' = [recovered EXCEPT ![r] = FALSE]
  /\ UNCHANGED strongAt

\* proxy(): the copied stream ends, or breaks with a strong local error.
StreamFailure(r, o) ==
  /\ pc[r] = "streaming"
  /\ Fail(o)
  /\ pc' = [pc EXCEPT ![r] = "idle"]

StreamEnd(r) ==
  /\ pc[r] = "streaming"
  /\ pc' = [pc EXCEPT ![r] = "idle"]
  /\ UNCHANGED <<now, incident, probe, recovered, strongAt>>

\* networkIncidentStatus and observeSharedNetworkIncidentLocked normalise too.
Normalize ==
  /\ Advance
  /\ incident' = Normalized(incident, now')
  /\ UNCHANGED <<pc, probe, recovered, strongAt>>

Next ==
  \/ Normalize
  \/ \E r \in Requests :
       \/ Begin(r)
       \/ Success(r)
       \/ Return(r)
       \/ StreamEnd(r)
       \/ \E o \in Origins : StrongFailure(r, o) \/ StreamFailure(r, o)

\* Every attempt has a header deadline and every request ends, so a request in
\* doWithFallbacks is not left there for ever.
Fairness == \A r \in Requests : WF_vars(Return(r))

Spec == Init /\ [][Next]_vars /\ Fairness

-----------------------------------------------------------------------------
(* Properties *)

\* A request that holds the recovery probe and has not had an answer.
Probing(r) == probe[r] /\ ~recovered[r] /\ pc[r] \in {"running", "stopped"}

\* While the gate is shut for recovery, some request that will reopen it is in
\* flight. In this phase the record has no deadline of its own: without such a
\* request the gateway would refuse everything until it is restarted.
RecoveringHasProbe == incident.phase = "recovering" => \E r \in Requests : Probing(r)

\* The flag and the phase say the same: the test on the flag that keeps an
\* incident open past its end never keeps it open without a probe.
ProbeFlagMatchesPhase == incident.probeInFlight <=> incident.phase = "recovering"

\* docs/route-health.md: "Global offline state requires corroborated strong
\* local-network errors". The gateway goes offline only when enough origins
\* failed within the window, all of them since the last upstream response.
OfflineIsCorroborated ==
  [][incident.phase \in {"normal", "suspected"} /\ incident'.phase = "offline" =>
       Cardinality({o \in Origins : /\ strongAt'[o] > 0
                                    /\ now' - strongAt'[o] <= Window}) >= OriginThreshold]_vars

\* A machine that is back online is noticed: the recovering phase ends.
RecoveryEnds == incident.phase = "recovering" ~> incident.phase # "recovering"

=============================================================================
