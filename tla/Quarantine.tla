------------------------------ MODULE Quarantine ------------------------------
(***************************************************************************)
(* The instability quarantine of one route (anthropic-proxy.go,            *)
(* providerRuntimeState under a routeHealthKey): SignalThreshold symptoms  *)
(* within a window take the route out of the chain for a time that doubles *)
(* at every relapse; afterwards it is on probation, where one symptom is   *)
(* enough, until RecoverySuccesses clean responses in a row.               *)
(*                                                                         *)
(* Requests of the route overlap: a report can come from a request sent    *)
(* before a quarantine, during it (the last remaining route is tried       *)
(* anyway) or after it.  A confirmed shared-network incident (module       *)
(* NetworkIncident) forgives transport symptoms and hides new ones; here   *)
(* it starts and ends at any time.                                         *)
(*                                                                         *)
(* Time is an integer from 1 on; 0 is Go's zero time.                      *)
(***************************************************************************)
EXTENDS Integers, FiniteSets

CONSTANTS
  Requests,           \* attempts on the route that can be in flight at once
  SignalThreshold,    \* quarantine.signalThreshold
  Window,             \* quarantine.windowSeconds
  BaseDuration,       \* quarantine.baseSeconds
  MaxDuration,        \* quarantine.maxSeconds
  RecoverySuccesses,  \* quarantine.recoverySuccesses
  Gaps,               \* possible delays between two consecutive operations
  MaxTime             \* bound: the horizon of the clock

ASSUME QuarantineAssumption ==
  /\ SignalThreshold \in Nat \ {0} /\ RecoverySuccesses \in Nat \ {0}
  /\ Window \in Nat
  /\ BaseDuration \in Nat \ {0} /\ MaxDuration \in Nat \ {0}
  /\ Gaps \subseteq Nat \ {0}
  /\ MaxTime \in Nat \ {0}

VARIABLES
  now,
  route,     \* the route's providerRuntimeState, as far as quarantine goes
  offline,   \* a shared-network incident is confirmed (offline or recovering)
  stage,        \* where each attempt is
  started,   \* attemptStarted
  failures,  \* history: instants of the counted failures in the last Window
  failedAt,  \* history: the latest failure the route was blamed for
  streak     \* history: successes reported since failedAt by attempts sent after it

quarantineVars == <<now, route, offline, stage, started, failures, failedAt, streak>>

Instants == 0..MaxTime

\* "http_5xx" and protocol errors blame the provider; a transport symptom may
\* be the network's (sharedNetworkSignal).
Signals == {"provider", "transport"}
Shared(signal) == signal = "transport"

RouteStates == [until       : Nat,
                reason      : Signals \union {"none"},
                signals     : Nat,
                windowStart : Instants,
                level       : Nat,
                successes   : Nat,
                recovering  : BOOLEAN,
                lastSignal  : Signals \union {"none"},
                lastFailure : Instants]

QuarantineTypeOK ==
  /\ now \in Instants \ {0}
  /\ route \in RouteStates
  /\ offline \in BOOLEAN
  /\ stage \in [Requests -> {"idle", "admitted", "sent"}]
  /\ started \in [Requests -> Instants]
  /\ failures \subseteq Instants
  /\ failedAt \in Instants
  /\ streak \in Nat

Healthy == [until |-> 0, reason |-> "none", signals |-> 0, windowStart |-> 0, level |-> 0,
            successes |-> 0, recovering |-> FALSE, lastSignal |-> "none", lastFailure |-> 0]

QuarantineInit ==
  /\ now = 1
  /\ route = Healthy
  /\ offline = FALSE
  /\ stage = [r \in Requests |-> "idle"]
  /\ started = [r \in Requests |-> 0]
  /\ failures = {}
  /\ failedAt = 0
  /\ streak = 0

Passes == \E gap \in Gaps : now' = now + gap /\ now' <= MaxTime

-----------------------------------------------------------------------------
(* The functions on the route's record *)

\* providerBlocked: an expired quarantine turns into probation when it is read.
Expired(q, t) ==
  IF q.until # 0 /\ t >= q.until THEN [q EXCEPT !.until = 0, !.recovering = TRUE] ELSE q

\* quarantineDuration: doubling from BaseDuration, capped.
Duration[level \in Nat] ==
  IF level <= 1 THEN BaseDuration
  ELSE IF Duration[level - 1] >= MaxDuration THEN Duration[level - 1]
  ELSE IF 2 * Duration[level - 1] > MaxDuration THEN MaxDuration
  ELSE 2 * Duration[level - 1]

\* Seeded fault for QuarantineIsEarned: the window never ends.
FaultCountedForEver(q, signal, t) ==
  [q EXCEPT !.lastFailure = t, !.lastSignal = signal, !.successes = 0,
            !.windowStart = IF @ = 0 THEN t ELSE @, !.signals = @ + 1]

\* observeProviderInstability, first part: the signal is counted in its window.
Counted(q, signal, t) ==
  LET fresh == q.windowStart = 0 \/ t - q.windowStart > Window
  IN  [q EXCEPT !.lastFailure = t,
                !.lastSignal  = signal,
                !.successes   = 0,
                !.windowStart = IF fresh THEN t ELSE @,
                !.signals     = IF fresh THEN 1 ELSE @ + 1]

\* second part: enough signals, or any signal on probation.
Quarantined(q, signal, t) ==
  LET until == t + Duration[q.level + 1]
  IN  [q EXCEPT !.level       = @ + 1,
                !.until       = IF until > @ THEN until ELSE @,
                !.reason      = signal,
                !.signals     = 0,
                !.windowStart = t,
                !.recovering  = FALSE]

InQuarantine(q, t) == t < q.until /\ ~q.recovering

AfterFailure(q, signal, t) ==
  IF InQuarantine(q, t)
  THEN [q EXCEPT !.lastFailure = t, !.lastSignal = signal]
  ELSE LET c == Counted(q, signal, t)
       IN  IF c.signals >= SignalThreshold \/ c.recovering THEN Quarantined(c, signal, t) ELSE c

\* Seeded fault for HealedByCleanStreak: late answers count as clean ones.
FaultIgnoredNotStale(q, since, t) ==
  t < q.until \/ (q.level = 0 /\ q.signals = 0 /\ ~q.recovering)

\* observeProviderHealthyAfter
IgnoresSuccess(q, since, t) ==
  \/ q.lastFailure > since
  \/ t < q.until
  \/ q.level = 0 /\ q.signals = 0 /\ ~q.recovering

AfterSuccess(q, since, t) ==
  IF IgnoresSuccess(q, since, t) THEN q
  ELSE IF q.successes + 1 >= RecoverySuccesses
  THEN [Healthy EXCEPT !.lastFailure = q.lastFailure]
  ELSE [q EXCEPT !.successes = @ + 1]

\* clearSharedNetworkProviderSignalsLocked
Forgiven(q) ==
  IF Shared(q.reason) \/ Shared(q.lastSignal) THEN [Healthy EXCEPT !.lastFailure = q.lastFailure] ELSE q

-----------------------------------------------------------------------------
(* Steps of an attempt on the route *)

\* doWithFallbacks looks at the route: a quarantined one is skipped, unless it
\* is the last remaining candidate.
Check(r, lastRemaining) ==
  /\ stage[r] = "idle"
  /\ Passes
  /\ route' = Expired(route, now')
  /\ stage' = IF route'.until = 0 \/ lastRemaining THEN [stage EXCEPT ![r] = "admitted"] ELSE stage
  /\ UNCHANGED <<offline, started, failures, failedAt, streak>>

SendAttempt(r) ==
  /\ stage[r] = "admitted"
  /\ Passes
  /\ started' = [started EXCEPT ![r] = now']
  /\ stage' = [stage EXCEPT ![r] = "sent"]
  /\ UNCHANGED <<route, offline, failures, failedAt, streak>>

\* The attempt ends with a symptom; a transport symptom during an incident is
\* the network's.
Fail(r, signal) ==
  /\ stage[r] = "sent"
  /\ Passes
  /\ stage' = [stage EXCEPT ![r] = "idle"]
  /\ IF offline /\ Shared(signal)
     THEN UNCHANGED <<route, failures, failedAt, streak>>
     ELSE /\ route' = AfterFailure(route, signal, now')
          /\ failures' = {t \in failures : now' - t <= Window} \union {now'}
          /\ failedAt' = now'
          /\ streak' = 0
  /\ UNCHANGED <<offline, started>>

\* A fully delivered response.
Succeed(r) ==
  /\ stage[r] = "sent"
  /\ Passes
  /\ stage' = [stage EXCEPT ![r] = "idle"]
  /\ route' = AfterSuccess(route, started[r], now')
  /\ streak' = IF started[r] >= failedAt /\ streak < RecoverySuccesses THEN streak + 1 ELSE streak
  /\ UNCHANGED <<offline, started, failures, failedAt>>

\* An attempt that ends with no verdict: cancelled, quota, client error.
Leave(r) ==
  /\ stage[r] \in {"admitted", "sent"}
  /\ stage' = [stage EXCEPT ![r] = "idle"]
  /\ UNCHANGED <<now, route, offline, started, failures, failedAt, streak>>

\* The shared-network incident is confirmed, or ends.
IncidentConfirmed ==
  /\ ~offline
  /\ offline' = TRUE
  /\ route' = Forgiven(route)
  /\ UNCHANGED <<now, stage, started, failures, failedAt, streak>>

IncidentEnds ==
  /\ offline
  /\ offline' = FALSE
  /\ UNCHANGED <<now, route, stage, started, failures, failedAt, streak>>

QuarantineNext ==
  \/ IncidentConfirmed
  \/ IncidentEnds
  \/ \E r \in Requests :
       \/ \E lastRemaining \in BOOLEAN : Check(r, lastRemaining)
       \/ SendAttempt(r)
       \/ \E signal \in Signals : Fail(r, signal)
       \/ Succeed(r)
       \/ Leave(r)

QuarantineSpec == QuarantineInit /\ [][QuarantineNext]_quarantineVars

-----------------------------------------------------------------------------
(* Properties *)

\* "Escalation resets after consecutive clean recovery responses": the level
\* only drops after RecoverySuccesses responses in a row to attempts that were
\* all sent after the last failure the route was blamed for, or when a shared
\* network incident forgives it.
HealedByCleanStreak ==
  [][route'.level < route.level => offline # offline' \/ streak' >= RecoverySuccesses]_quarantineVars

\* A route is only put in quarantine by enough failures within the window, or
\* by a failure on probation.
QuarantineIsEarned ==
  [][route'.level > route.level =>
       \/ route.recovering
       \/ Cardinality({t \in failures' : now' - t <= Window}) >= SignalThreshold]_quarantineVars
=============================================================================
