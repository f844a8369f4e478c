----------------------------- MODULE MCFableQuota -----------------------------
(***************************************************************************)
(* Two requests on the account.  A probe is due 2 after a rejection, the   *)
(* account's headers are fresh for 2, a block lasts 6: it can be probed    *)
(* twice and it can expire.                                                *)
(***************************************************************************)
EXTENDS FableQuota
=============================================================================
