------------------------- MODULE MCKimiCredentials -------------------------
(***************************************************************************)
(* Two requests, each refreshing up to twice, against a CLI that refreshes,*)
(* logs in and out and steals stale locks; three tokens in all.            *)
(***************************************************************************)
EXTENDS KimiCredentials
=============================================================================
