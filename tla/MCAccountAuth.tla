----------------------------- MODULE MCAccountAuth -----------------------------
(***************************************************************************)
(* Two requests of one account and its three monitors; two failures in a   *)
(* row quarantine it. A unit of time is the minute an auth error costs; a  *)
(* quota rejection and the quarantine last 4, so that whichever is marked  *)
(* last outlives the other.                                                *)
(***************************************************************************)
EXTENDS AccountAuth, TLC

Symmetry == Permutations(Requests)
=============================================================================
