--------------------------- MODULE MCUsageRecords ---------------------------
(***************************************************************************)
(* Three samples: two sessions of one day and one of the next; one bucket  *)
(* before sessions overflow; a queue of two, batches of two, files of two  *)
(* lines, one archive; one failed write and one crash, anywhere.           *)
(***************************************************************************)
EXTENDS UsageRecords

MCAttribution ==
  1 :> [day |-> "d1", session |-> "a"] @@ 2 :> [day |-> "d1", session |-> "b"] @@ 3 :> [day |-> "d2", session |-> "a"]
=============================================================================
