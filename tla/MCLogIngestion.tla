--------------------------- MODULE MCLogIngestion ---------------------------
(* Instances of LogIngestion for TLC. *)
EXTENDS LogIngestion, TLC

CONSTANTS a1, a2

MCOne         == {a1}
MCTwo         == {a1, a2}
AgentSymmetry == Permutations(Agents)
=============================================================================
