------------------------ MODULE CircuitBreakerProofs ------------------------
(***************************************************************************)
(* Proofs about CircuitBreaker for any set of attempts, any threshold, and *)
(* any window at least as long as the longest cooldown.                    *)
(*                                                                         *)
(* The inductive invariant IInv adds to the checked invariants that no     *)
(* stored instant is in the future, that two attempts never hold the same  *)
(* lease, and the two facts that make the checked ones inductive: a lease  *)
(* older than the latest one on an open leg has a failure after it         *)
(* (OldLeases), and every cooldown is counted from the last failure        *)
(* (BanFromLastFailure).                                                   *)
(***************************************************************************)
EXTENDS CircuitBreaker, TLAPS

\* No stored instant is in the future.
Past ==
  /\ circuit.lastFail <= now
  /\ circuit.lastProbe <= now
  /\ \A r \in Requests : lease[r] <= circuit.lastProbe /\ started[r] <= now

\* A lease belongs to one attempt, in flight.
LeasesApart ==
  /\ \A r \in Requests : lease[r] # 0 => pc[r] \in Holding
  /\ \A r, s \in Requests : lease[r] # 0 /\ lease[r] = lease[s] => r = s

\* On an open leg, a lease that is no longer the latest has a failure after it.
OldLeases ==
  \A r \in Requests :
    (lease[r] # 0 /\ lease[r] < circuit.lastProbe /\ circuit.openUntil # 0)
      => circuit.lastFail > lease[r]

\* A cooldown is counted from the last failure or an earlier one.
BanFromLastFailure ==
  circuit.openUntil # 0 =>
    circuit.lastFail # 0 /\ circuit.openUntil <= circuit.lastFail + MaxCooldown

Failures == now < circuit.openUntil => circuit.failures >= Threshold

IInv ==
  /\ TypeOK
  /\ Past
  /\ LeasesApart
  /\ NoLeakedProbe
  /\ ProbeKeepsTheGate
  /\ OldLeases
  /\ BanFromLastFailure
  /\ Failures

-----------------------------------------------------------------------------
(* The breaker's operations *)

\* A cooldown is positive and at most the longest one.
LEMMA CooldownRange ==
  ASSUME NEW opens \in Nat PROVE Cooldown(opens) \in 1..MaxCooldown
<1>1. CASE opens < 4
  <2>1. opens = 0 \/ opens = 1 \/ opens = 2 \/ opens = 3  BY <1>1
  <2>2. 2 ^ 0 = 1 /\ 2 ^ 1 = 2 /\ 2 ^ 2 = 4 /\ 2 ^ 3 = 8  OBVIOUS
  <2>3. PICK k \in {1, 2, 4, 8} : 2 ^ opens = k  BY <2>1, <2>2
  <2>4. BaseCooldown * k \in Nat \ {0}  BY <2>3, CircuitAssumption
  <2>5. Cooldown(opens) = IF BaseCooldown * k < MaxCooldown THEN BaseCooldown * k ELSE MaxCooldown
    BY <1>1, <2>3 DEF Cooldown
  <2> QED BY <2>4, <2>5, CircuitAssumption
<1>2. CASE ~(opens < 4)  BY <1>2, CircuitAssumption DEF Cooldown
<1> QED BY <1>1, <1>2

-----------------------------------------------------------------------------
(* One lemma per kind of step: what it does to the breaker, and that it keeps *)
(* the invariant. *)

\* The initial states satisfy the invariant.
LEMMA InitIInv == Init => IInv
<1> SUFFICES ASSUME Init PROVE IInv  OBVIOUS
<1> USE CircuitAssumption
<1>1. ClosedCircuit \in CircuitStates  BY DEF ClosedCircuit, CircuitStates, Instants
<1>2. TypeOK  BY <1>1 DEF Init, TypeOK, Steps, Instants
<1> QED BY <1>2 DEF Init, IInv, Past, LeasesApart, NoLeakedProbe, ProbeKeepsTheGate, OldLeases,
          BanFromLastFailure, Failures, ClosedCircuit

\* Time moves forward.
LEMMA Later ==
  ASSUME now \in Instants, Advance PROVE now' \in Instants /\ now' > now /\ now' > 0
BY CircuitAssumption DEF Advance, Instants

\* A step that touches neither the breaker nor a lease.
LEMMA MoveIInv ==
  ASSUME IInv, Advance, UNCHANGED <<circuit, lease>>, NEW r \in Requests,
         NEW next \in Holding, pc[r] \in Steps,
         pc' = [pc EXCEPT ![r] = next],
         started' = started \/ started' = [started EXCEPT ![r] = now']
  PROVE  IInv'
<1> USE DEF IInv
<1>1. now' \in Instants /\ now' > now  BY Later DEF TypeOK
<1>2. now \in Int /\ now' \in Int  BY <1>1 DEF TypeOK, Instants
<1>3. TypeOK'  BY <1>1 DEF TypeOK, Holding, Steps
<1>4. Past'  BY <1>1, <1>2 DEF Past, TypeOK, Instants, CircuitStates
<1>5. (LeasesApart /\ NoLeakedProbe)'  BY DEF LeasesApart, NoLeakedProbe, TypeOK, Holding
<1>6. (ProbeKeepsTheGate /\ OldLeases /\ BanFromLastFailure)'
  BY DEF ProbeKeepsTheGate, OldLeases, BanFromLastFailure
<1>7. Failures'  BY <1>1, <1>2 DEF Failures, TypeOK, CircuitStates
<1> QED BY <1>3, <1>4, <1>5, <1>6, <1>7

\* releaseCircuitProbe keeps the invariant.
LEMMA ReleaseIInv ==
  ASSUME IInv, NEW r \in Requests, NEW next \in Steps, Release(r, next) PROVE IInv'
<1> USE DEF IInv
<1>1. now' \in Instants /\ now' > now  BY Later DEF TypeOK, Release
<1>2. now \in Int /\ now' \in Int  BY <1>1 DEF TypeOK, Instants
<1>3. /\ circuit' \in CircuitStates
      /\ circuit'.lastProbe = circuit.lastProbe /\ circuit'.lastFail = circuit.lastFail
      /\ circuit'.openUntil = circuit.openUntil /\ circuit'.failures = circuit.failures
      /\ circuit'.halfOpen = (circuit.halfOpen /\ ~(lease[r] # 0 /\ lease[r] = circuit.lastProbe))
  BY DEF Release, Released, TypeOK, CircuitStates
<1>4. /\ lease' = [lease EXCEPT ![r] = 0] /\ pc' = [pc EXCEPT ![r] = next]
      /\ started' = started
  BY DEF Release
<1>5. TypeOK'  BY <1>1, <1>3, <1>4, CircuitAssumption DEF TypeOK, Instants
<1>6. Past'  BY <1>1, <1>2, <1>3, <1>4 DEF Past, TypeOK, Instants, CircuitStates
<1>7. LeasesApart'  BY <1>4 DEF LeasesApart, TypeOK
<1>8. NoLeakedProbe'  BY <1>3, <1>4 DEF NoLeakedProbe, TypeOK
<1>9. ProbeKeepsTheGate'  BY <1>3, <1>4 DEF ProbeKeepsTheGate, LeasesApart, TypeOK
<1>10. (OldLeases /\ BanFromLastFailure)'  BY <1>3, <1>4 DEF OldLeases, BanFromLastFailure, TypeOK
<1>11. Failures'  BY <1>1, <1>2, <1>3 DEF Failures, TypeOK, CircuitStates
<1> QED BY <1>5, <1>6, <1>7, <1>8, <1>9, <1>10, <1>11

\* acquireCircuitAttempt keeps the invariant.
LEMMA AcquireIInv ==
  ASSUME IInv, NEW r \in Requests, NEW last \in BOOLEAN, Acquire(r, last) PROVE IInv'
<1> USE DEF IInv
<1>1. now' \in Instants /\ now' > now /\ now' > 0  BY Later DEF TypeOK, Acquire
<1>2. now \in Int /\ now' \in Int  BY <1>1 DEF TypeOK, Instants
<1>3. pc[r] = "idle" /\ lease[r] = 0  BY DEF Acquire, LeasesApart, Holding
<1>4. pc' = [pc EXCEPT ![r] = "admitted"] /\ started' = started /\ ~circuit.halfOpen
  BY DEF Acquire, Refuses
<1>5. CASE ~NeedsProbe(circuit)
  <2>1. UNCHANGED <<circuit, lease>>  BY <1>5 DEF Acquire
  <2> QED BY <2>1, <1>3, <1>4, MoveIInv DEF Holding, TypeOK, Acquire
<1>6. CASE NeedsProbe(circuit)
  <2>1. circuit' = Granted(circuit, now') /\ lease' = [lease EXCEPT ![r] = now']
    BY <1>6 DEF Acquire
  <2>2. /\ circuit' \in CircuitStates
        /\ circuit'.lastProbe = now' /\ circuit'.halfOpen
        /\ circuit'.lastFail = circuit.lastFail /\ circuit'.openUntil = circuit.openUntil
        /\ circuit'.failures = circuit.failures
    BY <2>1, <1>1 DEF Granted, TypeOK, CircuitStates
  <2>3. \A s \in Requests : lease[s] \in Int /\ lease[s] <= circuit.lastProbe /\ circuit.lastProbe <= now
    BY DEF Past, TypeOK, Instants
  <2>4. TypeOK'  BY <1>1, <1>4, <2>1, <2>2 DEF TypeOK, Steps
  <2>5. Past'  BY <1>1, <1>2, <1>4, <2>1, <2>2, <2>3 DEF Past, TypeOK, Instants, CircuitStates
  <2>6. circuit.lastProbe \in Int  BY DEF TypeOK, CircuitStates, Instants
  <2>7. LeasesApart'  BY <1>1, <1>2, <1>4, <2>1, <2>3, <2>6 DEF LeasesApart, TypeOK, Holding
  <2>8. NoLeakedProbe'  BY <1>1, <1>4, <2>1, <2>2 DEF NoLeakedProbe, TypeOK, Holding
  <2>9. ProbeKeepsTheGate'  BY <2>2 DEF ProbeKeepsTheGate
  <2>10. OldLeases'
    <3> SUFFICES ASSUME NEW s \in Requests, lease'[s] # 0, lease'[s] < circuit'.lastProbe,
                        circuit'.openUntil # 0
                 PROVE  circuit'.lastFail > lease'[s]
      BY DEF OldLeases
    <3>1. s # r /\ lease'[s] = lease[s]  BY <1>2, <2>1, <2>2 DEF TypeOK
    <3>2. CASE lease[s] = circuit.lastProbe
      BY <3>1, <3>2, <1>4, <2>2 DEF ProbeKeepsTheGate
    <3>3. CASE lease[s] < circuit.lastProbe
      BY <3>1, <3>3, <2>2 DEF OldLeases
    <3> QED BY <3>2, <3>3, <2>3, <2>6
  <2>11. BanFromLastFailure'  BY <2>2 DEF BanFromLastFailure
  <2>12. Failures'  BY <1>1, <1>2, <2>2 DEF Failures, TypeOK, CircuitStates
  <2> QED BY <2>4, <2>5, <2>7, <2>8, <2>9, <2>10, <2>11, <2>12
<1> QED BY <1>5, <1>6

\* What tripCircuit leaves behind.
LEMMA TrippedFacts ==
  ASSUME IInv, NEW t \in Instants, t > now
  PROVE  LET c == Tripped(circuit, t)
         IN  /\ c \in CircuitStates
             /\ c.lastFail = t /\ ~c.halfOpen /\ c.lastProbe = circuit.lastProbe
             /\ c.openUntil # 0 => c.openUntil <= t + MaxCooldown
             /\ t < c.openUntil => c.failures >= Threshold
<1> USE DEF IInv
<1> DEFINE forget   == t - circuit.lastFail > Window
           failures == (IF forget THEN 0 ELSE circuit.failures) + 1
           opens    == IF forget THEN 0 ELSE circuit.opens
           c        == Tripped(circuit, t)
<1>1. /\ circuit.lastFail \in Nat /\ circuit.failures \in Nat /\ circuit.opens \in Nat
      /\ circuit.openUntil \in Nat /\ now \in Nat /\ t \in Nat /\ circuit.lastFail < t
  BY DEF TypeOK, CircuitStates, Instants, Past
<1>2. failures \in Nat /\ opens \in Nat  BY <1>1
<1>3. Cooldown(opens) \in Nat /\ Cooldown(opens) <= MaxCooldown
  BY <1>2, CooldownRange, CircuitAssumption
<1>4. c = [circuit EXCEPT !.failures  = failures,
                          !.opens     = IF failures >= Threshold THEN opens + 1 ELSE opens,
                          !.lastFail  = t,
                          !.halfOpen  = FALSE,
                          !.openUntil = IF failures >= Threshold THEN t + Cooldown(opens) ELSE @]
  BY DEF Tripped
<1>5. c \in CircuitStates
  <2>1. t + Cooldown(opens) \in Nat /\ opens + 1 \in Nat  BY <1>1, <1>2, <1>3
  <2> HIDE DEF failures, opens
  <2> QED BY <1>2, <1>4, <2>1 DEF TypeOK, CircuitStates
<1>6. /\ c.lastFail = t /\ ~c.halfOpen /\ c.lastProbe = circuit.lastProbe
      /\ c.failures = failures
      /\ c.openUntil = IF failures >= Threshold THEN t + Cooldown(opens) ELSE circuit.openUntil
  <2> HIDE DEF failures, opens
  <2> QED BY <1>4 DEF TypeOK, CircuitStates
<1>7. c.openUntil # 0 => c.openUntil <= t + MaxCooldown
  BY <1>1, <1>3, <1>6, CircuitAssumption DEF BanFromLastFailure
<1>8. ASSUME t < c.openUntil PROVE c.failures >= Threshold
  <2> SUFFICES ASSUME failures < Threshold PROVE FALSE
    BY <1>2, <1>6, CircuitAssumption
  <2>1. c.openUntil = circuit.openUntil  BY <1>6, <1>2, CircuitAssumption
  <2>2. now < circuit.openUntil /\ circuit.openUntil <= circuit.lastFail + MaxCooldown
    BY <1>1, <1>8, <2>1 DEF BanFromLastFailure
  <2>3. ~forget  BY <1>1, <1>8, <2>1, <2>2, CircuitAssumption
  <2>4. circuit.failures >= Threshold  BY <2>2 DEF Failures
  <2> QED BY <1>1, <2>3, <2>4, CircuitAssumption
<1> HIDE DEF failures, opens
<1> QED BY <1>5, <1>6, <1>7, <1>8

\* What resetCircuitAfter leaves behind.
LEMMA ResetFacts ==
  ASSUME TypeOK, NEW since \in Instants
  PROVE  LET c == Reset(circuit, since)
         IN  \/ c = circuit
             \/ /\ c \in CircuitStates /\ c.openUntil = 0 /\ c.lastFail = 0 /\ ~c.halfOpen
                /\ c.lastProbe = circuit.lastProbe
                /\ circuit.lastFail <= since
<1> DEFINE c == [ClosedCircuit EXCEPT !.lastProbe = circuit.lastProbe]
<1>1. CASE IsStale(circuit, since)  BY <1>1 DEF Reset
<1>2. CASE ~IsStale(circuit, since)
  <2>1. circuit.lastFail <= since  BY <1>2 DEF IsStale, TypeOK, CircuitStates, Instants
  <2>2. circuit.lastProbe \in Instants /\ 0 \in Instants
    BY CircuitAssumption DEF TypeOK, CircuitStates, Instants
  <2>3. ClosedCircuit \in CircuitStates  BY <2>2 DEF ClosedCircuit, CircuitStates
  <2>4. ClosedCircuit.openUntil = 0 /\ ClosedCircuit.lastFail = 0 /\ ~ClosedCircuit.halfOpen
    BY DEF ClosedCircuit
  <2>5. /\ c \in CircuitStates /\ c.openUntil = 0 /\ c.lastFail = 0 /\ ~c.halfOpen
        /\ c.lastProbe = circuit.lastProbe
    BY <2>2, <2>3, <2>4 DEF CircuitStates
  <2>6. Reset(circuit, since) = c  BY <1>2 DEF Reset
  <2> HIDE DEF c
  <2> QED BY <2>1, <2>5, <2>6
<1> QED BY <1>1, <1>2

\* Reporting an outcome keeps the invariant.
LEMMA ReportIInv ==
  ASSUME IInv, Advance, NEW r \in Requests, NEW at \in Steps, NEW next \in Steps,
         at \in Holding => next \in Holding,
         Report(r, at, {Tripped(circuit, now'), Reset(circuit, started[r])}, next)
  PROVE  IInv'
<1> USE DEF IInv
<1>1. now' \in Instants /\ now' > now /\ now' > 0  BY Later DEF TypeOK
<1>2. now \in Int /\ now' \in Int  BY <1>1 DEF TypeOK, Instants
<1>3. pc[r] = at /\ pc' = [pc EXCEPT ![r] = next] /\ lease' = lease /\ started' = started
  BY DEF Report
<1>4. started[r] \in Instants  BY DEF TypeOK
<1>5. circuit'.lastProbe = circuit.lastProbe /\ circuit' \in CircuitStates
  BY <1>1, <1>4, TrippedFacts, ResetFacts DEF Report, TypeOK
<1>6. \/ circuit' = circuit
      \/ circuit'.openUntil = 0 /\ circuit'.lastFail = 0 /\ ~circuit'.halfOpen
      \/ /\ circuit'.lastFail = now' /\ ~circuit'.halfOpen
         /\ circuit'.openUntil # 0 => circuit'.openUntil <= now' + MaxCooldown
         /\ now' < circuit'.openUntil => circuit'.failures >= Threshold
  BY <1>1, <1>4, TrippedFacts, ResetFacts DEF Report
<1>7. \A s \in Requests : lease[s] \in Int /\ lease[s] < now'
  BY <1>1, <1>2 DEF Past, TypeOK, Instants, CircuitStates
<1>8. TypeOK'  BY <1>1, <1>3, <1>5 DEF TypeOK
<1>9. Past'  BY <1>1, <1>2, <1>3, <1>5, <1>6 DEF Past, TypeOK, Instants, CircuitStates
<1>10. LeasesApart'  BY <1>3 DEF LeasesApart, TypeOK
<1>11. NoLeakedProbe'  BY <1>3, <1>6 DEF NoLeakedProbe, LeasesApart, TypeOK
<1>12. (ProbeKeepsTheGate /\ OldLeases)'
  BY <1>1, <1>2, <1>3, <1>5, <1>6, <1>7 DEF ProbeKeepsTheGate, OldLeases
<1>13. BanFromLastFailure'  BY <1>1, <1>6 DEF BanFromLastFailure
<1>14. Failures'  BY <1>1, <1>2, <1>5, <1>6 DEF Failures, TypeOK, CircuitStates, Instants
<1> QED BY <1>8, <1>9, <1>10, <1>11, <1>12, <1>13, <1>14

\* Every step of the breaker keeps the invariant.
LEMMA NextIInv == IInv /\ [Next]_vars => IInv'
<1> SUFFICES ASSUME IInv, [Next]_vars PROVE IInv'  OBVIOUS
<1>1. CASE UNCHANGED vars
  BY <1>1 DEF vars, IInv, TypeOK, Past, LeasesApart, NoLeakedProbe, ProbeKeepsTheGate, OldLeases,
              BanFromLastFailure, Failures
<1>2. CASE Next
  <2>1. PICK r \in Requests :
          \/ \E lastRemaining \in BOOLEAN : Acquire(r, lastRemaining)
          \/ Abandon(r) \/ Send(r) \/ TransportError(r) \/ Respond(r) \/ CloseEarly(r)
          \/ ReportTransportError(r) \/ ReportAfterClose(r) \/ ReportStreamEnd(r) \/ CloseBody(r)
    BY <1>2 DEF Next
  <2>2. CASE \E lastRemaining \in BOOLEAN : Acquire(r, lastRemaining)
    BY <2>2, AcquireIInv
  <2>3. CASE Abandon(r)  BY <2>3, ReleaseIInv DEF Abandon, Steps
  <2>4. CASE Send(r)  BY <2>4, MoveIInv DEF Send, Holding, IInv, TypeOK
  <2>5. CASE TransportError(r)  BY <2>5, ReleaseIInv DEF TransportError, Steps
  <2>6. CASE Respond(r)  BY <2>6, MoveIInv DEF Respond, Holding, IInv, TypeOK
  <2>7. CASE CloseEarly(r)  BY <2>7, ReleaseIInv DEF CloseEarly, Steps
  <2>8. CASE ReportTransportError(r)
    <3>1. Report(r, "failed", {Tripped(circuit, now'), Reset(circuit, started[r])}, "idle")
      BY <2>8 DEF ReportTransportError, Report
    <3> QED BY <2>8, <3>1, ReportIInv DEF ReportTransportError, Steps, Holding
  <2>9. CASE ReportAfterClose(r)  BY <2>9, ReportIInv DEF ReportAfterClose, Steps, Holding
  <2>10. CASE ReportStreamEnd(r)  BY <2>10, ReportIInv DEF ReportStreamEnd, Steps, Holding
  <2>11. CASE CloseBody(r)  BY <2>11, ReleaseIInv DEF CloseBody, Steps
  <2> QED BY <2>1, <2>2, <2>3, <2>4, <2>5, <2>6, <2>7, <2>8, <2>9, <2>10, <2>11
<1> QED BY <1>1, <1>2

\* The invariant holds in every behaviour.
LEMMA SpecIInv == Spec => []IInv
BY InitIInv, NextIInv, PTL DEF Spec

-----------------------------------------------------------------------------
(* Results *)

\* The breaker's record and every attempt's bookkeeping keep their types.
THEOREM TypeCorrect == Spec => []TypeOK
<1>1. IInv => TypeOK  BY DEF IInv
<1> QED BY <1>1, SpecIInv, PTL

\* releaseCircuitProbe is on every path: a half-open leg always has the
\* attempt whose end reopens it.
THEOREM NoLeak == Spec => []NoLeakedProbe
<1>1. IInv => NoLeakedProbe  BY DEF IInv
<1> QED BY <1>1, SpecIInv, PTL

\* The latest lease keeps the leg to itself until a failure is reported or the
\* leg closes.
THEOREM GateKept == Spec => []ProbeKeepsTheGate
<1>1. IInv => ProbeKeepsTheGate  BY DEF IInv
<1> QED BY <1>1, SpecIInv, PTL

\* Probes overlap on an open leg only behind a failure.
THEOREM OverlapNeedsFailure == Spec => []OverlapOnlyAfterFailure
<1>1. ASSUME IInv PROVE OverlapOnlyAfterFailure
  <2> SUFFICES ASSUME NEW r \in Requests, NEW s \in Requests, 0 < lease[r], lease[r] < lease[s],
                      circuit.openUntil # 0
               PROVE  circuit.lastFail > lease[r]
    BY DEF OverlapOnlyAfterFailure
  <2>1. lease[r] < circuit.lastProbe
    BY <1>1 DEF IInv, Past, TypeOK, CircuitStates, Instants
  <2> QED BY <1>1, <2>1 DEF IInv, OldLeases, TypeOK, Instants
<1> QED BY <1>1, SpecIInv, PTL

\* A cooldown is only ever bought by Threshold counted failures.
THEOREM BanIsEarned == Spec => []BanNeedsThreshold
<1>1. IInv => BanNeedsThreshold
  BY DEF IInv, BanNeedsThreshold, Failures, BanFromLastFailure, TypeOK, CircuitStates, Instants
<1> QED BY <1>1, SpecIInv, PTL

\* No response sent before the latest known failure closes an open leg.
THEOREM LateSuccessIgnored == Spec => ClosedByALaterAttempt
<1> DEFINE Closing == circuit.openUntil # 0 /\ circuit'.openUntil = 0 =>
                        \E r \in Requests : pc'[r] # pc[r] /\ started[r] >= circuit.lastFail
<1>1. ASSUME IInv, [Next]_vars PROVE [Closing]_vars
  <2> SUFFICES ASSUME Next, circuit.openUntil # 0, circuit'.openUntil = 0 PROVE Closing
    BY <1>1 DEF vars
  <2>1. PICK r \in Requests :
          \/ \E lastRemaining \in BOOLEAN : Acquire(r, lastRemaining)
          \/ Abandon(r) \/ Send(r) \/ TransportError(r) \/ Respond(r) \/ CloseEarly(r)
          \/ ReportTransportError(r) \/ ReportAfterClose(r) \/ ReportStreamEnd(r) \/ CloseBody(r)
    BY DEF Next
  <2>2. ~\E lastRemaining \in BOOLEAN : Acquire(r, lastRemaining)
    BY <1>1 DEF Acquire, Granted, IInv, TypeOK, CircuitStates
  <2>3. ~(Send(r) \/ Respond(r))  BY DEF Send, Respond
  <2>4. ~(Abandon(r) \/ TransportError(r) \/ CloseEarly(r) \/ CloseBody(r))
    BY <1>1 DEF Abandon, TransportError, CloseEarly, CloseBody, Release, Released, IInv, TypeOK,
                CircuitStates
  <2>5. /\ Advance /\ pc'[r] # pc[r]
        /\ circuit' = Tripped(circuit, now') \/ circuit' = Reset(circuit, started[r])
    BY <1>1, <2>1, <2>2, <2>3, <2>4
    DEF ReportTransportError, ReportAfterClose, ReportStreamEnd, Report, IInv, TypeOK
  <2>6. now' \in Instants /\ now' > now  BY <1>1, <2>5, Later DEF IInv, TypeOK
  <2>7. circuit' # Tripped(circuit, now')
    <3> DEFINE forget == now' - circuit.lastFail > Window
               opens  == IF forget THEN 0 ELSE circuit.opens
    <3>1. opens \in Nat  BY <1>1 DEF IInv, TypeOK, CircuitStates
    <3>2. now' + Cooldown(opens) # 0  BY <2>6, <3>1, CooldownRange, CircuitAssumption DEF Instants
    <3>3. Tripped(circuit, now').openUntil \in {now' + Cooldown(opens), circuit.openUntil}
      BY <1>1 DEF Tripped, IInv, TypeOK, CircuitStates
    <3> QED BY <3>2, <3>3
  <2>8. circuit' = Reset(circuit, started[r]) /\ started[r] \in Instants
    BY <1>1, <2>5, <2>7 DEF IInv, TypeOK
  <2>9. started[r] >= circuit.lastFail
    BY <1>1, <2>8, ResetFacts DEF IInv, TypeOK, CircuitStates, Instants
  <2> QED BY <2>5, <2>9
<1> QED BY <1>1, SpecIInv, PTL DEF Spec, ClosedByALaterAttempt
=============================================================================
