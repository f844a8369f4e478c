------------------------------ MODULE DurablePins ------------------------------
(***************************************************************************)
(* What the account pins promise across restarts: the live map gains one   *)
(* version after the other, the file always holds a complete version, it   *)
(* never goes back to an older one, and a crash loses exactly the versions *)
(* the file has not caught up with.                                        *)
(***************************************************************************)
EXTENDS Integers

CONSTANT MaxVersion  \* bound: versions of the map that are told apart

VARIABLES
  live,   \* the version of the map in memory
  saved   \* the version in the file

Versions == 0..MaxVersion

Init == live = 0 /\ saved = 0

Change == live' \in Versions /\ live' = live + 1 /\ UNCHANGED saved

Save == saved' \in saved..live /\ UNCHANGED live

Crash == live' = saved /\ UNCHANGED saved

Spec == Init /\ [][Change \/ Save \/ Crash]_<<live, saved>>
=============================================================================
