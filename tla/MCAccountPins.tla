----------------------------- MODULE MCAccountPins -----------------------------
(***************************************************************************)
(* Two flushes, one close and any number of restarts over three versions   *)
(* of the map; a replacement is tried twice.  One version may be live, one *)
(* copied by the writer and one in the file.                               *)
(***************************************************************************)
EXTENDS AccountPins
=============================================================================
