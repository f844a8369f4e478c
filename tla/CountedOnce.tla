---------------------------- MODULE CountedOnce ----------------------------
(***************************************************************************)
(* What the rollups promise of an observation: it is counted at most once, *)
(* it never stops being counted, and only a crash may keep it from being   *)
(* counted.                                                                *)
(***************************************************************************)
EXTENDS Integers

CONSTANT Observations

VARIABLES observed, \* accepted by observe()
          counted,  \* how often the history a reader sums contains each
          gone      \* those a crash took

Init == observed = {} /\ gone = {} /\ counted = [o \in Observations |-> 0]

Observe == \E o \in Observations \ observed :
  observed' = observed \cup {o} /\ UNCHANGED <<counted, gone>>

Count == \E S \in SUBSET (observed \ gone) :
  /\ \A o \in S : counted[o] = 0
  /\ counted' = [o \in Observations |-> IF o \in S THEN 1 ELSE counted[o]]
  /\ UNCHANGED <<observed, gone>>

\* A crash; a line being written may just have become whole.
Crash == \E S \in SUBSET (observed \ gone) :
  /\ \A o \in S : counted[o] = 0
  /\ counted' = [o \in Observations |-> IF o \in S THEN 1 ELSE counted[o]]
  /\ gone' = {o \in observed : counted'[o] = 0}
  /\ UNCHANGED observed

Next == Observe \/ Count \/ Crash

Spec == Init /\ [][Next]_<<observed, counted, gone>>
=============================================================================
