--------------------------- MODULE CircuitBreaker ---------------------------
(***************************************************************************)
(* The circuit breaker of one provider|upstream leg                        *)
(* (anthropic-proxy.go, circuitState), together with the part of an        *)
(* attempt's life that touches it.  Attempts run in goroutines; the        *)
(* breaker is one record behind a mutex, so each of its four operations is *)
(* one step, and everything an attempt does between two of them can be     *)
(* interleaved with the other attempts.                                    *)
(*                                                                         *)
(* The order in which an attempt ends its half-open lease and reports its  *)
(* outcome depends on how it ends: a transport error, an unprimed stream   *)
(* or a classified 4xx closes the body first (the lease goes) and reports  *)
(* afterwards; a streamed response reports first and closes the body when  *)
(* proxy() returns.                                                        *)
(*                                                                         *)
(* Time is an integer; 0 is Go's zero time.  Each operation happens at a   *)
(* later instant than the one before it, as time.Now() under one mutex     *)
(* does at nanosecond resolution.                                          *)
(***************************************************************************)
EXTENDS Integers

CONSTANTS
  Requests,       \* attempts that can be in flight on this leg at once
  Threshold,      \* circuitFailureThreshold
  Window,         \* circuitFailureWindow
  BaseCooldown,   \* circuitBaseCooldown
  MaxCooldown,    \* circuitMaxCooldown
  RecoveryDelay,  \* networkRecoveryDelay, between early probes
  Gaps,           \* possible delays between two consecutive operations
  MaxTime         \* bound: the horizon of the clock

ASSUME CircuitAssumption ==
  /\ Threshold \in Nat \ {0}
  /\ Window \in Nat /\ BaseCooldown \in Nat \ {0} /\ MaxCooldown \in Nat \ {0}
  /\ RecoveryDelay \in Nat
  /\ MaxCooldown <= Window        \* 5 minutes against 10
  /\ Gaps \subseteq Nat \ {0}
  /\ MaxTime \in Nat

VARIABLES
  now,      \* instant of the last operation
  circuit,  \* the circuitState
  pc,       \* where each attempt is in doWithFallbacks and proxy
  lease,    \* circuitProbe.acquiredAt of each attempt, 0 for a nil probe
  started   \* attemptStarted

vars == <<now, circuit, pc, lease, started>>

Instants == 0..MaxTime

CircuitStates == [failures  : Nat,
                  opens     : Nat,
                  lastFail  : Instants,
                  openUntil : Nat,
                  halfOpen  : BOOLEAN,
                  lastProbe : Instants]

Steps == {"idle", "admitted", "sent", "failed", "streaming", "closed", "closing"}

\* An attempt holds its half-open lease, if it was given one, in these steps.
Holding == {"admitted", "sent", "streaming", "closing"}

TypeOK ==
  /\ now \in Instants
  /\ circuit \in CircuitStates
  /\ pc \in [Requests -> Steps]
  /\ lease \in [Requests -> Instants]
  /\ started \in [Requests -> Instants]

ClosedCircuit == [failures |-> 0, opens |-> 0, lastFail |-> 0, openUntil |-> 0,
                  halfOpen |-> FALSE, lastProbe |-> 0]

Init ==
  /\ now = 0
  /\ circuit = ClosedCircuit
  /\ pc = [r \in Requests |-> "idle"]
  /\ lease = [r \in Requests |-> 0]
  /\ started = [r \in Requests |-> 0]

\* time.Now() of the next operation.
Advance == \E gap \in Gaps : now' = now + gap /\ now' <= MaxTime

-----------------------------------------------------------------------------
(* The four operations of the breaker, on a circuit record c at instant t. *)

\* Seeded fault for OverlapOnlyAfterFailure: a probe in flight is not looked at.
FaultRefusesNoProbe(c, t, lastRemaining) ==
  /\ t < c.openUntil
  /\ ~lastRemaining \/ (c.lastProbe # 0 /\ t - c.lastProbe < RecoveryDelay)

\* acquireCircuitAttempt's two refusals.
Refuses(c, t, lastRemaining) ==
  \/ c.halfOpen
  \/ /\ t < c.openUntil
     /\ \/ ~lastRemaining
        \/ c.lastProbe # 0 /\ t - c.lastProbe < RecoveryDelay

NeedsProbe(c) == c.openUntil # 0

Granted(c, t) == [c EXCEPT !.halfOpen = TRUE, !.lastProbe = t]

\* releaseCircuitProbe: only the latest lease reopens the gate.
Released(c, acquiredAt) ==
  IF acquiredAt # 0 /\ c.lastProbe = acquiredAt THEN [c EXCEPT !.halfOpen = FALSE] ELSE c

Cooldown(opens) ==
  IF opens < 4 /\ BaseCooldown * (2 ^ opens) < MaxCooldown
  THEN BaseCooldown * (2 ^ opens) ELSE MaxCooldown

\* Seeded fault for BanNeedsThreshold: the leg opens one failure early.
FaultTrippedEarly(c, t) ==
  LET forget   == t - c.lastFail > Window
      failures == (IF forget THEN 0 ELSE c.failures) + 1
      opens    == IF forget THEN 0 ELSE c.opens
      opening  == failures + 1 >= Threshold
  IN  [c EXCEPT !.failures = failures, !.opens = IF opening THEN opens + 1 ELSE opens,
                !.lastFail = t, !.halfOpen = FALSE,
                !.openUntil = IF opening THEN t + Cooldown(opens) ELSE @]

\* tripCircuit
Tripped(c, t) ==
  LET forget   == t - c.lastFail > Window
      failures == (IF forget THEN 0 ELSE c.failures) + 1
      opens    == IF forget THEN 0 ELSE c.opens
      opening  == failures >= Threshold
  IN  [c EXCEPT !.failures  = failures,
                !.opens     = IF opening THEN opens + 1 ELSE opens,
                !.lastFail  = t,
                !.halfOpen  = FALSE,
                !.openUntil = IF opening THEN t + Cooldown(opens) ELSE @]

\* Seeded fault for ClosedByALaterAttempt: only a newer probe makes it stale.
FaultNotStaleAfterFailure(c, since) == c.halfOpen /\ c.lastProbe > since

\* The guard of resetCircuitAfter: the success is older than what is known.
IsStale(c, since) == c.lastFail > since \/ (c.halfOpen /\ c.lastProbe > since)

\* resetCircuitAfter; lastProbe survives.
Reset(c, since) ==
  IF IsStale(c, since) THEN c ELSE [ClosedCircuit EXCEPT !.lastProbe = c.lastProbe]

-----------------------------------------------------------------------------
(* The life of one attempt on the leg. *)

\* doWithFallbacks reaches the leg and the breaker lets the attempt through;
\* a refused attempt is recorded as circuit_open and changes nothing here.
Acquire(r, lastRemaining) ==
  /\ pc[r] = "idle"
  /\ Advance
  /\ ~Refuses(circuit, now', lastRemaining)
  /\ pc' = [pc EXCEPT ![r] = "admitted"]
  /\ IF NeedsProbe(circuit)
     THEN /\ circuit' = Granted(circuit, now')
          /\ lease' = [lease EXCEPT ![r] = now']
     ELSE UNCHANGED <<circuit, lease>>
  /\ UNCHANGED started

\* releaseCircuitProbe by r, which goes on at step next.
Release(r, next) ==
  /\ Advance
  /\ circuit' = Released(circuit, lease[r])
  /\ lease' = [lease EXCEPT ![r] = 0]
  /\ pc' = [pc EXCEPT ![r] = next]
  /\ UNCHANGED started

\* Seeded fault for NoLeakedProbe: a `continue` without releaseCircuitProbe.
FaultAbandonKeepsProbe(r) ==
  /\ pc[r] = "admitted"
  /\ Advance
  /\ lease' = [lease EXCEPT ![r] = 0]
  /\ pc' = [pc EXCEPT ![r] = "idle"]
  /\ UNCHANGED <<circuit, started>>

\* Admitted and then not sent: load spill, a body that cannot be built, no
\* header budget left, or a Fable quota probe already in flight.
Abandon(r) == pc[r] = "admitted" /\ Release(r, "idle")

\* attemptStarted is read after the admission, in a later step.
Send(r) ==
  /\ pc[r] = "admitted"
  /\ Advance
  /\ started' = [started EXCEPT ![r] = now']
  /\ pc' = [pc EXCEPT ![r] = "sent"]
  /\ UNCHANGED <<circuit, lease>>

\* doUpstream returns an error: the lease is released before the error is
\* classified and reported.
TransportError(r) == pc[r] = "sent" /\ Release(r, "failed")

Respond(r) ==
  /\ pc[r] = "sent"
  /\ Advance
  /\ pc' = [pc EXCEPT ![r] = "streaming"]
  /\ UNCHANGED <<circuit, lease, started>>

\* The body is closed inside doWithFallbacks (a stream that did not prime, a
\* buffered error body); the outcome is reported afterwards.
CloseEarly(r) == pc[r] = "streaming" /\ Release(r, "closed")

\* r reports one of outcomes to the breaker, going from step at to step next.
\* Every attempt may also report nothing: cancelled client, exhausted quota,
\* account-bound attempt, local network.
Report(r, at, outcomes, next) ==
  /\ pc[r] = at
  /\ circuit' \in outcomes \union {circuit}
  /\ pc' = [pc EXCEPT ![r] = next]
  /\ UNCHANGED <<lease, started>>

\* After a transport error: tripCircuit.
ReportTransportError(r) ==
  Advance /\ Report(r, "failed", {Tripped(circuit, now')}, "idle")

\* After an early close: tripCircuit, or resetCircuitAfter for a payload the
\* upstream understood and rejected (client_invalid).
ReportAfterClose(r) ==
  Advance /\ Report(r, "closed", {Tripped(circuit, now'), Reset(circuit, started[r])}, "idle")

\* proxy(): the streamed response ended, well or badly; the body closes when
\* the handler returns.
ReportStreamEnd(r) ==
  Advance /\ Report(r, "streaming", {Tripped(circuit, now'), Reset(circuit, started[r])}, "closing")

CloseBody(r) == pc[r] = "closing" /\ Release(r, "idle")

Next ==
  \E r \in Requests :
    \/ \E lastRemaining \in BOOLEAN : Acquire(r, lastRemaining)
    \/ Abandon(r)
    \/ Send(r)
    \/ TransportError(r)
    \/ Respond(r)
    \/ CloseEarly(r)
    \/ ReportTransportError(r)
    \/ ReportAfterClose(r)
    \/ ReportStreamEnd(r)
    \/ CloseBody(r)

Spec == Init /\ [][Next]_vars

-----------------------------------------------------------------------------
(* Properties *)

\* No lease leaks: while the gate is half-open, the attempt that was given the
\* latest lease is still in flight and will end it. A leaked lease would
\* refuse the leg to every later request, since acquireCircuitAttempt has no
\* other way out of halfOpen than an outcome or a release.
NoLeakedProbe ==
  circuit.halfOpen =>
    \E r \in Requests : pc[r] \in Holding /\ lease[r] # 0 /\ lease[r] = circuit.lastProbe

\* What the breaker does guarantee about overlapping probes: the latest lease
\* keeps the leg to itself until some attempt reports a failure, or closes it.
ProbeKeepsTheGate ==
  \A r \in Requests :
    (lease[r] # 0 /\ lease[r] = circuit.lastProbe /\ circuit.openUntil # 0)
      => circuit.halfOpen \/ circuit.lastFail > lease[r]

\* Two probes overlap on an open leg only after a failure was reported behind
\* the older one's back (tripCircuit ends the half-open state whoever calls it).
OverlapOnlyAfterFailure ==
  \A r, s \in Requests :
    (0 < lease[r] /\ lease[r] < lease[s] /\ circuit.openUntil # 0)
      => circuit.lastFail > lease[r]

\* "one transient blip no longer buys a ban": a leg in cooldown has Threshold
\* counted failures, the latest at most a maximal cooldown before the end of
\* the ban. It leans on MaxCooldown <= Window: the window may forget failures.
BanNeedsThreshold ==
  now < circuit.openUntil =>
    /\ circuit.failures >= Threshold
    /\ circuit.lastFail # 0
    /\ circuit.openUntil <= circuit.lastFail + MaxCooldown

\* A response that was sent before the latest known failure never closes an
\* open leg: the closing attempt was sent after it.
ClosedByALaterAttempt ==
  [][circuit.openUntil # 0 /\ circuit'.openUntil = 0 =>
       \E r \in Requests : pc'[r] # pc[r] /\ started[r] >= circuit.lastFail]_vars
=============================================================================
