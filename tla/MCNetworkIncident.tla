-------------------------- MODULE MCNetworkIncident --------------------------
(***************************************************************************)
(* Three requests over two origins, both needed to confirm an incident:    *)
(* enough for a probe, a request that was in flight before the incident    *)
(* and answers late, and a third that starts the next incident.  The       *)
(* window is 1, an incident lasts 3 and the probe delay is 1, so every     *)
(* timer can fire before or after the others within the horizon.           *)
(***************************************************************************)
EXTENDS NetworkIncident, TLC
=============================================================================
