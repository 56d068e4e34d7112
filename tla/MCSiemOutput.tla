---------------------------- MODULE MCSiemOutput ----------------------------
(* Two overlapping runs, one of them with its periodic flusher. *)
EXTENDS SiemOutput, TLC

CONSTANTS p1, p2, main1, tick1, main2, f1

MCProcs    == {p1, p2}
MCThreads  == {main1, tick1, main2}
MCProcOf   == (main1 :> p1) @@ (tick1 :> p1) @@ (main2 :> p2)
MCAuditors == {main1, main2}
MCFps      == {f1}
MCNoFp     == {}
=============================================================================
