---------------------------- MODULE ControlPack ----------------------------
(***************************************************************************)
(* Control packs, and the tests a pack has to pass before it is executed:  *)
(* validation, signature, entitlement and compatibility (pkg/controlset,   *)
(* pkg/entitlement).                                                       *)
(*                                                                         *)
(* Cryptography is left out: a signature is missing, wrong, or right for   *)
(* the content that was published.  `altered' says that the content no     *)
(* longer is that: the backend's JSON has no field for compatibility       *)
(* limits and drops criteria it cannot decode, and a cache file may be cut *)
(* short.                                                                  *)
(***************************************************************************)
EXTENDS Conditions

CONSTANT Unreadable              \* a file that does not parse

Tiers      == {"free", "paid", "enterprise", "unknown"}
Signatures == {"none", "wrong", "right"}
Limits     == {"none", "met", "unmet"}

\* A pack: [tier, signature, limits, altered, garbled, controls].  A control is
\* a sequence of procedures, a procedure has `criteria' and a `mode'; a garbled
\* pack has a criterion the backend sent in a form nobody can decode.
IsProcedure(p) ==
    /\ "criteria" \in DOMAIN p /\ IsList(p.criteria)
    /\ \A k \in DOMAIN p.criteria : IsCriterion(p.criteria[k])

IsPack(x) ==
    /\ DOMAIN x = {"tier", "signature", "limits", "altered", "garbled", "controls"}
    /\ IsList(x.controls) /\ \A i \in DOMAIN x.controls : IsList(x.controls[i])
    /\ \A i \in DOMAIN x.controls : \A j \in DOMAIN x.controls[i] : IsProcedure(x.controls[i][j])
    /\ x.tier \in Tiers /\ x.signature \in Signatures /\ x.limits \in Limits
    /\ x.altered \in BOOLEAN /\ x.garbled \in BOOLEAN

TierLevel(tier) ==
    CASE tier = "free" -> 0 [] tier = "paid" -> 1 [] tier = "enterprise" -> 2 [] OTHER -> -1

IsValidTier(pack) == TierLevel(pack.tier) >= 0
IsFree(pack)      == pack.tier = "free"

\* convertBackendResponse: criteria that cannot be decoded are just not there.
WithoutCriteria(controls) ==
    [i \in DOMAIN controls |->
        [j \in DOMAIN controls[i] |-> [controls[i][j] EXCEPT !.criteria = <<>>]]]

Converted(pack) ==
    [pack EXCEPT
        !.limits   = "none",
        !.altered  = @ \/ pack.limits # "none" \/ pack.garbled,
        !.controls = IF pack.garbled THEN WithoutCriteria(@) ELSE @]

\* createCanonicalPayload covers all that decides about the execution, so a
\* signature verifies for the published content and for no other.
Verifies(pack) == pack.signature = "right" /\ ~pack.altered

\* Each source's rule: without require_signatures a failure is a warning.
SignatureAccepted(pack, required) == required => Verifies(pack)

\* LoadControlSet with validateControlSet: for packs read from a file only.
Loads(file) ==
    /\ file # Unreadable
    /\ ~file.garbled /\ file.controls # <<>>
    /\ \A i \in DOMAIN file.controls :
          /\ file.controls[i] # <<>>
          /\ \A j \in DOMAIN file.controls[i] :
                \A k \in DOMAIN file.controls[i][j].criteria :
                   ValidSyntax(file.controls[i][j].criteria[k])

\* CheckCompatibility.
Compatible(pack) == pack.limits # "unmet"

-----------------------------------------------------------------------------
(* An entitlement here is [tier, live, listed]: is it unexpired, and does  *)
(* it list the pack?  Whose it is AgentStartup settles.                    *)

AllowsTier(ent, pack) ==
    TierLevel(ent.tier) >= 0 /\ IsValidTier(pack) /\ TierLevel(ent.tier) >= TierLevel(pack.tier)

AllowsPack(ent, pack) == ent.listed

\* checkEntitlement; `held' is FALSE in free mode.
EntitlementAllows(pack, held, ent) ==
    /\ IsValidTier(pack)
    /\ \/ IsFree(pack)
       \/ held /\ ent.live /\ AllowsTier(ent, pack) /\ AllowsPack(ent, pack)
=============================================================================
