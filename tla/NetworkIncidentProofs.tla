----------------------- MODULE NetworkIncidentProofs -----------------------
(***************************************************************************)
(* Proofs about NetworkIncident for any set of requests, any finite set of *)
(* origins and any timers.                                                 *)
(*                                                                         *)
(* The invariant IInv says what the incident record remembers: a signal is *)
(* a strong failure that no response has followed, a calm gateway has no   *)
(* signals, and the recovering phase, the probe flag and a probe in flight *)
(* go together.                                                            *)
(***************************************************************************)
EXTENDS NetworkIncident, FiniteSetTheorems, TLAPS

\* A stored signal is the latest strong failure of its origin.
SignalsAreFailures ==
  /\ \A o \in Origins : incident.signals[o] # 0 => incident.signals[o] = strongAt[o]
  /\ incident.phase = "normal" => incident.signals = NoSignals

\* networkRecovered is a variable of one call: FALSE outside doWithFallbacks.
IdleHasNoAnswer ==
  \A r \in Requests : pc[r] \in {"idle", "streaming"} => recovered[r] = FALSE /\ probe[r] = FALSE

IInv ==
  /\ TypeOK
  /\ SignalsAreFailures
  /\ IdleHasNoAnswer
  /\ ProbeFlagMatchesPhase
  /\ RecoveringHasProbe

-----------------------------------------------------------------------------
(* The functions on the record *)

\* The clock stays an instant.
LEMMA AdvanceType == ASSUME now \in Instants \ {0}, Advance PROVE now' \in Instants \ {0}
BY IncidentAssumption DEF Advance, Instants

\* What normalisation may do to a record: drop signals, and fall back to
\* normal with no signals left.
LEMMA NormalizedFacts ==
  ASSUME NEW i \in IncidentStates, NEW t \in Instants, NEW n, n = Normalized(i, t),
         i.phase = "normal" => i.signals = NoSignals,
         i.probeInFlight <=> i.phase = "recovering"
  PROVE  /\ n \in IncidentStates
         /\ \A o \in Origins : n.signals[o] # 0 => n.signals[o] = i.signals[o] /\ t - n.signals[o] <= Window
         /\ n.phase = i.phase \/ n.phase = "normal"
         /\ n.phase = "normal" => n.signals = NoSignals
         /\ n.probeInFlight = i.probeInFlight
         /\ n.probeInFlight <=> n.phase = "recovering"
<1> DEFINE p == Pruned(i, t)
           d == DropSuspicion(p, t)
<1> USE IncidentAssumption
<1>0. 0 \in Instants /\ NoSignals \in [Origins -> Instants]  BY DEF Instants, NoSignals
<1>1. /\ p \in IncidentStates
      /\ \A o \in Origins : p.signals[o] # 0 => p.signals[o] = i.signals[o] /\ t - p.signals[o] <= Window
      /\ p.phase = i.phase /\ p.probeInFlight = i.probeInFlight
  BY <1>0 DEF Pruned, IncidentStates, Instants
<1>2. p.phase = "normal" => p.signals = NoSignals
  BY <1>1 DEF Pruned, IncidentStates, NoSignals
<1> HIDE DEF p
<1>3. /\ d \in IncidentStates
      /\ d.phase = p.phase \/ (p.phase = "suspected" /\ d.phase = "normal")
      /\ d.probeInFlight = p.probeInFlight
      /\ d.signals = p.signals \/ d.signals = NoSignals
      /\ d.phase = "normal" => d.signals = NoSignals
  BY <1>0, <1>1, <1>2 DEF DropSuspicion, IncidentStates, Phases
<1> HIDE DEF d
<1>4. n = CloseIncident(d, t)  BY DEF Normalized, d, p
<1>5. /\ n \in IncidentStates
      /\ n.phase = d.phase \/ (~d.probeInFlight /\ n.phase = "normal")
      /\ n.probeInFlight = d.probeInFlight
      /\ n.signals = d.signals \/ n.signals = NoSignals
      /\ n.phase = "normal" => n.signals = NoSignals
  <2> DEFINE closing == /\ d.phase \in {"offline", "recovering"}
                        /\ d.activeUntil # 0 /\ t >= d.activeUntil /\ ~d.probeInFlight
             c == [d EXCEPT !.phase = "normal", !.activeUntil = 0, !.nextProbeAt = 0,
                            !.signals = NoSignals]
  <2>1. CASE closing
    <3>1. n = c  BY <1>4, <2>1 DEF CloseIncident
    <3>2. c \in IncidentStates  BY <1>0, <1>3 DEF IncidentStates, Phases
    <3>3. c.phase = "normal" /\ c.signals = NoSignals /\ c.probeInFlight = d.probeInFlight
      BY <1>3 DEF IncidentStates
    <3> QED BY <2>1, <3>1, <3>2, <3>3
  <2>2. CASE ~closing
    <3>1. n = d  BY <1>4, <2>2 DEF CloseIncident
    <3> QED BY <1>3, <3>1
  <2> QED BY <2>1, <2>2
<1>6. \A o \in Origins : NoSignals[o] = 0  BY DEF NoSignals
<1> QED BY <1>1, <1>3, <1>5, <1>6

\* What a strong failure at o does to a record.
LEMMA FailureFacts ==
  ASSUME NEW i \in IncidentStates, NEW t \in Instants \ {0}, NEW o \in Origins,
         NEW a, a = AfterStrongFailure(i, o, t),
         i.phase = "normal" => i.signals = NoSignals,
         i.probeInFlight <=> i.phase = "recovering"
  PROVE  /\ a \in IncidentStates
         /\ a.signals[o] = t
         /\ \A x \in Origins : x # o /\ a.signals[x] # 0 => a.signals[x] = i.signals[x]
         /\ \A x \in Origins : a.signals[x] # 0 => t - a.signals[x] <= Window
         /\ a.phase # "normal"
         /\ a.probeInFlight <=> a.phase = "recovering"
         /\ a.phase = "recovering" => i.phase = "recovering"
         /\ a.phase = "offline" /\ i.phase \in {"normal", "suspected"}
              => Cardinality(Signalled(a)) >= OriginThreshold
<1> DEFINE n == Normalized(i, t)
           seen == WithSignal(n, o, t)
<1> USE IncidentAssumption
<1>1. /\ n \in IncidentStates
      /\ \A x \in Origins : n.signals[x] # 0 => n.signals[x] = i.signals[x] /\ t - n.signals[x] <= Window
      /\ n.phase = i.phase \/ n.phase = "normal"
      /\ n.probeInFlight <=> n.phase = "recovering"
  BY NormalizedFacts
<1> HIDE DEF n
<1>2. /\ seen \in IncidentStates
      /\ seen.signals = [n.signals EXCEPT ![o] = t]
      /\ seen.phase = n.phase /\ seen.probeInFlight = n.probeInFlight
  BY <1>1 DEF WithSignal, IncidentStates
<1> HIDE DEF seen
<1>3. \A x \in Origins : /\ seen.signals[o] = t
                         /\ x # o /\ seen.signals[x] # 0 => seen.signals[x] = i.signals[x]
                         /\ seen.signals[x] # 0 => t - seen.signals[x] <= Window
  BY <1>1, <1>2 DEF IncidentStates, Instants
<1>4. CASE seen.phase \in {"offline", "recovering"}
  <2>1. a = seen  BY <1>4 DEF AfterStrongFailure, seen, n
  <2> QED BY <1>1, <1>2, <1>3, <1>4, <2>1
<1>5. CASE seen.phase \notin {"offline", "recovering"}
  <2> DEFINE s == Suspecting(seen, t)
  <2>1. a = Confirming(s, t)  BY <1>5 DEF AfterStrongFailure, seen, n
  <2>2. s \in IncidentStates /\ s.phase = "suspected" /\ s.signals = seen.signals /\ ~s.probeInFlight
    BY <1>1, <1>2, <1>5 DEF Suspecting, IncidentStates, Phases
  <2> HIDE DEF s
  <2>3. t + Suppression \in Nat /\ t + RecoveryDelay \in Nat  BY DEF Instants
  <2>4. a.signals = s.signals  BY <2>1, <2>2 DEF Confirming, IncidentStates
  <2>5. Signalled(a) = Signalled(s)  BY <2>4 DEF Signalled
  <2>6. /\ a \in IncidentStates
        /\ a.phase = "suspected" \/ (a.phase = "offline" /\ Cardinality(Signalled(s)) >= OriginThreshold)
        /\ ~a.probeInFlight
    BY <2>1, <2>2, <2>3 DEF Confirming, IncidentStates, Phases
  <2> QED BY <1>3, <2>2, <2>4, <2>5, <2>6
<1> QED BY <1>4, <1>5

-----------------------------------------------------------------------------
(* The invariant is inductive *)

\* The record's own invariants, as the two lemmas above assume them.
LEMMA RecordFacts ==
  ASSUME IInv
  PROVE  /\ incident \in IncidentStates
         /\ incident.phase = "normal" => incident.signals = NoSignals
         /\ incident.probeInFlight <=> incident.phase = "recovering"
BY DEF IInv, TypeOK, SignalsAreFailures, ProbeFlagMatchesPhase

\* The gateway starts calm.
LEMMA InitIInv == Init => IInv
<1> SUFFICES ASSUME Init PROVE IInv  OBVIOUS
<1> USE IncidentAssumption
<1>1. 0 \in Instants /\ 1 \in Instants \ {0} /\ NoSignals \in [Origins -> Instants]
  BY DEF Instants, NoSignals
<1>2. Calm \in IncidentStates /\ Calm.phase = "normal" /\ Calm.signals = NoSignals /\ ~Calm.probeInFlight
  BY <1>1 DEF Calm, IncidentStates, Phases
<1>3. TypeOK  BY <1>1, <1>2 DEF Init, TypeOK
<1> QED BY <1>2, <1>3 DEF Init, IInv, SignalsAreFailures, NoSignals, ProbeFlagMatchesPhase,
              RecoveringHasProbe, IdleHasNoAnswer

\* Normalisation keeps the invariant.
LEMMA NormalizeIInv == ASSUME IInv, Normalize PROVE IInv'
<1>1. now' \in Instants \ {0}  BY AdvanceType DEF IInv, TypeOK, Normalize
<1>2. /\ incident' \in IncidentStates
      /\ \A o \in Origins : incident'.signals[o] # 0 => incident'.signals[o] = incident.signals[o]
      /\ incident'.phase = incident.phase \/ incident'.phase = "normal"
      /\ incident'.phase = "normal" => incident'.signals = NoSignals
      /\ incident'.probeInFlight <=> incident'.phase = "recovering"
  BY <1>1, RecordFacts, NormalizedFacts DEF Normalize
<1>3. UNCHANGED <<pc, probe, recovered, strongAt>>  BY DEF Normalize
<1>4. TypeOK'  BY <1>1, <1>2, <1>3 DEF IInv, TypeOK
<1>5. SignalsAreFailures'  BY <1>2, <1>3 DEF IInv, SignalsAreFailures
<1>6. RecoveringHasProbe'  BY <1>2, <1>3 DEF IInv, RecoveringHasProbe, Probing
<1>7. IdleHasNoAnswer'  BY <1>3 DEF IInv, IdleHasNoAnswer
<1> QED BY <1>2, <1>4, <1>5, <1>6, <1>7 DEF IInv, ProbeFlagMatchesPhase

\* beginNetworkRequest keeps the invariant.
LEMMA BeginIInv == ASSUME IInv, NEW r \in Requests, Begin(r) PROVE IInv'
<1> DEFINE i == Normalized(incident, now')
<1>1. now' \in Instants \ {0}  BY AdvanceType DEF IInv, TypeOK, Begin
<1>2. /\ i \in IncidentStates
      /\ \A o \in Origins : i.signals[o] # 0 => i.signals[o] = incident.signals[o]
      /\ i.phase = incident.phase \/ i.phase = "normal"
      /\ i.phase = "normal" => i.signals = NoSignals
      /\ i.probeInFlight <=> i.phase = "recovering"
  BY <1>1, RecordFacts, NormalizedFacts
<1>3. UNCHANGED <<recovered, strongAt>> /\ pc[r] = "idle"  BY DEF Begin
<1>4. CASE Refused(i, now')
  <2>1. incident' = i /\ UNCHANGED <<pc, probe>>  BY <1>4 DEF Begin
  <2> HIDE DEF i
  <2>2. TypeOK'  BY <1>1, <1>2, <1>3, <2>1 DEF IInv, TypeOK
  <2>3. SignalsAreFailures'  BY <1>2, <1>3, <2>1 DEF IInv, SignalsAreFailures
  <2>4. RecoveringHasProbe'  BY <1>2, <1>3, <2>1 DEF IInv, RecoveringHasProbe, Probing
  <2>5. IdleHasNoAnswer'  BY <1>3, <2>1 DEF IInv, IdleHasNoAnswer
  <2> QED BY <1>2, <2>1, <2>2, <2>3, <2>4, <2>5 DEF IInv, ProbeFlagMatchesPhase
<1>5. CASE ~Refused(i, now')
  <2>1. /\ incident' = Entering(i)
        /\ pc' = [pc EXCEPT ![r] = "running"]
        /\ probe' = [probe EXCEPT ![r] = i.phase = "offline"]
    BY <1>5 DEF Begin
  <2>2. i.phase # "recovering"  BY <1>5 DEF Refused
  <2> HIDE DEF i
  <2>3. /\ incident' \in IncidentStates
        /\ incident'.signals = i.signals
        /\ IF i.phase = "offline" THEN incident'.phase = "recovering" /\ incident'.probeInFlight
                                  ELSE incident'.phase = i.phase /\ ~incident'.probeInFlight
    BY <1>2, <2>1, <2>2 DEF Entering, IncidentStates, Phases
  <2>4. TypeOK'  BY <1>1, <1>3, <2>1, <2>3 DEF IInv, TypeOK
  <2>5. SignalsAreFailures'  BY <1>2, <1>3, <2>3 DEF IInv, SignalsAreFailures
  <2>6. ProbeFlagMatchesPhase'  BY <2>2, <2>3 DEF ProbeFlagMatchesPhase
  <2>7. RecoveringHasProbe'
    <3> SUFFICES ASSUME incident'.phase = "recovering" PROVE Probing(r)'
      BY DEF RecoveringHasProbe
    <3>1. i.phase = "offline"  BY <2>2, <2>3
    <3>2. probe'[r] = TRUE /\ pc'[r] = "running"  BY <2>1, <3>1 DEF IInv, TypeOK
    <3>3. recovered[r] = FALSE  BY <1>3 DEF IInv, IdleHasNoAnswer
    <3> QED BY <1>3, <3>2, <3>3 DEF Probing
  <2>8. IdleHasNoAnswer'  BY <1>3, <2>1 DEF IInv, IdleHasNoAnswer, TypeOK
  <2> QED BY <2>4, <2>5, <2>6, <2>7, <2>8 DEF IInv
<1> QED BY <1>4, <1>5

\* A strong failure at o by a request that stays where it is, stops, or is gone.
LEMMA FailIInv ==
  ASSUME IInv, NEW r \in Requests, NEW o \in Origins, Fail(o),
         \/ pc[r] = "running" /\ (pc' = pc \/ pc' = [pc EXCEPT ![r] = "stopped"])
         \/ pc[r] = "streaming" /\ pc' = [pc EXCEPT ![r] = "idle"]
  PROVE  IInv'
<1>1. now' \in Instants \ {0}  BY AdvanceType DEF IInv, TypeOK, Fail
<1>2. /\ incident' \in IncidentStates
      /\ incident'.signals[o] = now'
      /\ \A x \in Origins : x # o /\ incident'.signals[x] # 0
           => incident'.signals[x] = incident.signals[x]
      /\ incident'.phase # "normal"
      /\ incident'.probeInFlight <=> incident'.phase = "recovering"
      /\ incident'.phase = "recovering" => incident.phase = "recovering"
  BY <1>1, RecordFacts, FailureFacts DEF Fail
<1>3. strongAt' = [strongAt EXCEPT ![o] = now'] /\ UNCHANGED <<probe, recovered>>  BY DEF Fail
<1>4. TypeOK'  BY <1>1, <1>2, <1>3 DEF IInv, TypeOK
<1>5. SignalsAreFailures'  BY <1>2, <1>3 DEF IInv, SignalsAreFailures, TypeOK
<1>6. IdleHasNoAnswer'  BY <1>3 DEF IInv, IdleHasNoAnswer, TypeOK
<1>7. ProbeFlagMatchesPhase'  BY <1>2 DEF ProbeFlagMatchesPhase
<1>8. RecoveringHasProbe'
  <2> SUFFICES ASSUME incident'.phase = "recovering" PROVE \E s \in Requests : Probing(s)'
    BY DEF RecoveringHasProbe
  <2>1. PICK s \in Requests : Probing(s)  BY <1>2 DEF IInv, RecoveringHasProbe
  <2>2. Probing(s)'  BY <1>3, <2>1 DEF Probing, IInv, TypeOK
  <2> QED BY <2>2
<1> QED BY <1>4, <1>5, <1>6, <1>7, <1>8 DEF IInv

\* observeNetworkSuccess keeps the invariant.
LEMMA SuccessIInv == ASSUME IInv, NEW r \in Requests, Success(r) PROVE IInv'
<1> USE IncidentAssumption
<1>1. now' \in Instants \ {0}  BY AdvanceType DEF IInv, TypeOK, Success
<1>2. 0 \in Instants /\ NoSignals \in [Origins -> Instants]  BY DEF Instants, NoSignals
<1>3. Calm \in IncidentStates /\ Calm.phase = "normal" /\ Calm.signals = NoSignals /\ ~Calm.probeInFlight
  BY <1>2 DEF Calm, IncidentStates, Phases
<1>4. /\ incident' \in IncidentStates /\ incident'.phase = "normal" /\ incident'.signals = NoSignals
      /\ ~incident'.probeInFlight
  BY <1>3, RecordFacts DEF Success
<1>5. /\ pc[r] = "running" /\ strongAt' = NoSignals /\ UNCHANGED <<pc, probe>>
      /\ recovered' = [recovered EXCEPT ![r] = TRUE]
  BY DEF Success
<1>6. TypeOK'  BY <1>1, <1>2, <1>4, <1>5 DEF IInv, TypeOK
<1>7. SignalsAreFailures'  BY <1>4, <1>5 DEF SignalsAreFailures, NoSignals
<1>8. IdleHasNoAnswer'  BY <1>5 DEF IInv, IdleHasNoAnswer, TypeOK
<1> QED BY <1>4, <1>6, <1>7, <1>8 DEF IInv, ProbeFlagMatchesPhase, RecoveringHasProbe

\* Leaving doWithFallbacks keeps the invariant: a probe that got no answer
\* hands the gate back.
LEMMA ReturnIInv == ASSUME IInv, NEW r \in Requests, Return(r) PROVE IInv'
<1> USE IncidentAssumption
<1>1. now' \in Instants \ {0}  BY AdvanceType DEF IInv, TypeOK, Return
<1>2. now' \in Nat  BY <1>1 DEF Instants
<1>3. /\ incident' \in IncidentStates /\ incident'.signals = incident.signals
      /\ incident'.probeInFlight <=> incident'.phase = "recovering"
      /\ incident'.phase = incident.phase \/ incident'.phase = "offline"
      /\ Probing(r) => incident'.phase # "recovering"
  <2>1. ASSUME NEW t \in Nat PROVE t + RecoveryDelay \in Nat  OBVIOUS
  <2> QED BY <1>2, <2>1, RecordFacts DEF Return, ProbeFailed, IncidentStates, Phases, Probing
<1>4. /\ pc[r] \in {"running", "stopped"} /\ pc' \in [Requests -> {"idle", "running", "stopped", "streaming"}]
      /\ \A s \in Requests : s # r => pc'[s] = pc[s]
      /\ probe' = [probe EXCEPT ![r] = FALSE] /\ recovered' = [recovered EXCEPT ![r] = FALSE]
      /\ strongAt' = strongAt
  BY DEF Return, IInv, TypeOK
<1>5. TypeOK'  BY <1>1, <1>3, <1>4 DEF IInv, TypeOK
<1>6. SignalsAreFailures'  BY <1>3, <1>4 DEF IInv, SignalsAreFailures
<1>7. IdleHasNoAnswer'  BY <1>4 DEF IInv, IdleHasNoAnswer, TypeOK
<1>8. RecoveringHasProbe'
  <2> SUFFICES ASSUME incident'.phase = "recovering" PROVE \E s \in Requests : Probing(s)'
    BY DEF RecoveringHasProbe
  <2>1. PICK s \in Requests : Probing(s)  BY <1>3 DEF IInv, RecoveringHasProbe
  <2>2. s # r  BY <1>3, <2>1
  <2>3. Probing(s)'  BY <1>4, <2>1, <2>2 DEF Probing, IInv, TypeOK
  <2> QED BY <2>3
<1> QED BY <1>3, <1>5, <1>6, <1>7, <1>8 DEF IInv, ProbeFlagMatchesPhase

\* Every step keeps the invariant.
LEMMA NextIInv == IInv /\ [Next]_vars => IInv'
<1> SUFFICES ASSUME IInv, [Next]_vars PROVE IInv'  OBVIOUS
<1>1. CASE UNCHANGED vars
  BY <1>1 DEF vars, IInv, TypeOK, SignalsAreFailures, IdleHasNoAnswer, ProbeFlagMatchesPhase,
              RecoveringHasProbe, Probing
<1>2. CASE Normalize  BY <1>2, NormalizeIInv
<1>3. ASSUME NEW r \in Requests, Begin(r) PROVE IInv'  BY <1>3, BeginIInv
<1>4. ASSUME NEW r \in Requests, Success(r) PROVE IInv'  BY <1>4, SuccessIInv
<1>5. ASSUME NEW r \in Requests, Return(r) PROVE IInv'  BY <1>5, ReturnIInv
<1>6. ASSUME NEW r \in Requests, StreamEnd(r) PROVE IInv'
  <2>1. pc' = [pc EXCEPT ![r] = "idle"] /\ pc[r] = "streaming"
        /\ UNCHANGED <<now, incident, probe, recovered, strongAt>>
    BY <1>6 DEF StreamEnd
  <2>2. (TypeOK /\ SignalsAreFailures /\ IdleHasNoAnswer /\ ProbeFlagMatchesPhase)'
    BY <2>1 DEF IInv, TypeOK, SignalsAreFailures, IdleHasNoAnswer, ProbeFlagMatchesPhase
  <2>3. RecoveringHasProbe'  BY <2>1 DEF IInv, RecoveringHasProbe, Probing, TypeOK
  <2> QED BY <2>2, <2>3 DEF IInv
<1>7. ASSUME NEW r \in Requests, NEW o \in Origins, StrongFailure(r, o) PROVE IInv'
  BY <1>7, FailIInv DEF StrongFailure
<1>8. ASSUME NEW r \in Requests, NEW o \in Origins, StreamFailure(r, o) PROVE IInv'
  BY <1>8, FailIInv DEF StreamFailure
<1> QED BY <1>1, <1>2, <1>3, <1>4, <1>5, <1>6, <1>7, <1>8 DEF Next

\* The invariant holds in every behaviour.
LEMMA SpecIInv == Spec => []IInv
BY InitIInv, NextIInv, PTL DEF Spec

-----------------------------------------------------------------------------
(* Results *)

\* The incident record and the requests keep their types.
THEOREM TypeCorrect == Spec => []TypeOK
<1>1. IInv => TypeOK  BY DEF IInv
<1> QED BY <1>1, SpecIInv, PTL

\* The recovering phase never outlives the probes that can end it.
THEOREM GateHasProbe == Spec => []RecoveringHasProbe
<1>1. IInv => RecoveringHasProbe  BY DEF IInv
<1> QED BY <1>1, SpecIInv, PTL

\* Phase and flag agree in every state.
THEOREM FlagAndPhase == Spec => []ProbeFlagMatchesPhase
<1>1. IInv => ProbeFlagMatchesPhase  BY DEF IInv
<1> QED BY <1>1, SpecIInv, PTL

\* Going offline takes OriginThreshold origins that failed within the window,
\* with no upstream response since.
THEOREM Corroborated == Spec => OfflineIsCorroborated
<1> DEFINE Failing == {o \in Origins : strongAt'[o] > 0 /\ now' - strongAt'[o] <= Window}
<1>1. ASSUME IInv, [Next]_vars
      PROVE  [incident.phase \in {"normal", "suspected"} /\ incident'.phase = "offline" =>
                Cardinality({o \in Origins : /\ strongAt'[o] > 0
                                             /\ now' - strongAt'[o] <= Window}) >= OriginThreshold]_vars
  <2> SUFFICES ASSUME Next, incident.phase \in {"normal", "suspected"}, incident'.phase = "offline"
               PROVE  Cardinality(Failing) >= OriginThreshold
    BY <1>1 DEF vars
  <2>1. PICK o \in Origins : Fail(o)
    <3>1. ~Normalize
      <4> SUFFICES ASSUME Normalize PROVE FALSE  OBVIOUS
      <4>1. now' \in Instants  BY <1>1, AdvanceType DEF IInv, TypeOK, Normalize
      <4> QED BY <1>1, <4>1, RecordFacts, NormalizedFacts DEF Normalize
    <3>2. ASSUME NEW r \in Requests PROVE ~Begin(r)
      <4> SUFFICES ASSUME Begin(r) PROVE FALSE  OBVIOUS
      <4> DEFINE i == Normalized(incident, now')
      <4>1. now' \in Instants  BY <1>1, AdvanceType DEF IInv, TypeOK, Begin
      <4>2. i \in IncidentStates /\ i.phase # "offline"  BY <1>1, <4>1, RecordFacts, NormalizedFacts
      <4>3. incident' = i \/ incident' = Entering(i)  BY DEF Begin
      <4> HIDE DEF i
      <4> QED BY <4>2, <4>3 DEF Entering
    <3>3. ASSUME NEW r \in Requests PROVE ~(Success(r) \/ Return(r) \/ StreamEnd(r))
      BY <1>1, RecordFacts DEF Success, Return, StreamEnd, Calm, ProbeFailed
    <3> QED BY <3>1, <3>2, <3>3 DEF Next, StrongFailure, StreamFailure
  <2>2. now' \in Instants \ {0}  BY <1>1, <2>1, AdvanceType DEF IInv, TypeOK, Fail
  <2>3. /\ incident' \in IncidentStates
        /\ incident'.signals[o] = now'
        /\ \A x \in Origins : x # o /\ incident'.signals[x] # 0
             => incident'.signals[x] = incident.signals[x]
        /\ \A x \in Origins : incident'.signals[x] # 0 => now' - incident'.signals[x] <= Window
        /\ Cardinality(Signalled(incident')) >= OriginThreshold
    BY <1>1, <2>1, <2>2, RecordFacts, FailureFacts DEF Fail
  <2>4. \A x \in Origins : incident'.signals[x] # 0 => incident'.signals[x] = strongAt'[x]
    BY <1>1, <2>1, <2>3 DEF Fail, IInv, SignalsAreFailures, TypeOK
  <2>5. \A x \in Origins : incident'.signals[x] \in Nat  BY <2>3 DEF IncidentStates, Instants
  <2>6. Signalled(incident') \subseteq Failing
    BY <2>3, <2>4, <2>5 DEF Signalled
  <2>7. IsFiniteSet(Failing)  BY FS_Subset, IncidentAssumption
  <2>8. Cardinality(Signalled(incident')) <= Cardinality(Failing)  BY <2>6, <2>7, FS_Subset
  <2>9. Cardinality(Failing) \in Nat /\ Cardinality(Signalled(incident')) \in Nat
    BY <2>6, <2>7, FS_Subset, FS_CardinalityType
  <2> HIDE DEF Failing
  <2> QED BY <2>3, <2>8, <2>9, IncidentAssumption
<1> QED BY <1>1, SpecIInv, PTL DEF Spec, OfflineIsCorroborated
=============================================================================
