----------------------------- MODULE MCLogMining -----------------------------
(* Instances of LogMining for TLC. *)
EXTENDS LogMining

CONSTANTS p1, p2

MCBoth  == {p1, p2}
MCLines == <<2, 0>>
=============================================================================
