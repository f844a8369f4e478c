-------------------------- MODULE MCCircuitBreaker --------------------------
(***************************************************************************)
(* Three concurrent attempts on one leg: two that were admitted before the *)
(* leg opened and one probe, or two probes and a late report.  One unit of *)
(* time is about a minute for the cooldowns (base 1, cap 3, window 4) and  *)
(* the recovery delay is 2, so that an early probe can be refused for      *)
(* spacing; delays of 1 and 3 between operations reach both sides of every *)
(* deadline.                                                               *)
(***************************************************************************)
EXTENDS CircuitBreaker, TLC

Symmetry == Permutations(Requests)
=============================================================================
