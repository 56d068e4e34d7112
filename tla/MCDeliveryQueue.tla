--------------------------- MODULE MCDeliveryQueue ---------------------------
(* Instances of DeliveryQueue for TLC. *)
EXTENDS DeliveryQueue, TLC

CONSTANTS p1, p2, main1, tick1, main2, e1, e2, e3

MCProcs   == {p1, p2}
MCProcOf  == (main1 :> p1) @@ (tick1 :> p1) @@ (main2 :> p2)
MCThreads == {main1, tick1, main2}
MCEvents3 == {e1, e2, e3}
MCNone    == {}
MCOneProc == {p1}
MCProcOfS == (main1 :> p1)
MCSingle  == {main1}
MCProcOfX == (main1 :> p1) @@ (main2 :> p2)
MCCross   == {main1, main2}
MCEvent1  == {e1}
MCFirst   == {e2}
MCThird   == {e3}
EventSymmetry == Permutations(Events)
=============================================================================
