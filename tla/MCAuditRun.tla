----------------------------- MODULE MCAuditRun -----------------------------
(* Instances of AuditRun for TLC. *)
EXTENDS AuditRun, TLC

CONSTANTS p1, main1, tick1, f1

MCOneProc == {p1}
MCPair    == {main1, tick1}
MCProcOf  == (main1 :> p1) @@ (tick1 :> p1)
MCAudit   == {main1}
MCFp      == {f1}
MCNoFp    == {}
=============================================================================
