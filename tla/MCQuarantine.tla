---------------------------- MODULE MCQuarantine ----------------------------
(***************************************************************************)
(* Two overlapping attempts, two signals to quarantine, two successes to   *)
(* heal; the quarantine lasts 1, then 2 (the cap).  The horizon allows a   *)
(* quarantine, its expiry, a relapse and a recovery.                       *)
(***************************************************************************)
EXTENDS Quarantine, TLC

Symmetry == Permutations(Requests)
=============================================================================
