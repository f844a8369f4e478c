----------------------------- MODULE MCPaidBudget -----------------------------
(***************************************************************************)
(* Two processes over one ledger and three attempts that cost up to 2 out  *)
(* of a budget of 3, so that an attempt fits beside another only once that *)
(* one is settled for 1.  The window is 3 and an attempt lives for 1: in   *)
(* the horizon an attempt is reserved, crashes, is recovered and ages out, *)
(* and another takes its place.                                            *)
(***************************************************************************)
EXTENDS PaidBudget, TLC

Symmetry == Permutations(Attempts) \union Permutations(Processes)
=============================================================================
