----------------------------- MODULE PackFetch -----------------------------
(***************************************************************************)
(* One control pack on its way into execution, run after run of the agent: *)
(* from the local directory, from the backend, or from the cache that an   *)
(* earlier run wrote (FetchControlSet in pkg/controlset/fetcher.go and its *)
(* caller executeControlSet in cmd/agent/main.go).                         *)
(*                                                                         *)
(* The operator may change require_signatures, and the entitlement may     *)
(* lapse, between two runs; the cache stays.                               *)
(***************************************************************************)
EXTENDS ControlPack

CONSTANTS
    Packs,           \* packs that are published, as their publisher made them
    Entitlements,    \* what the agent may be entitled to
    None,            \* no cache, pack or entitlement (free mode)
    MaxFaults        \* bound on failed cache writes and on crashes

ASSUME PackAssumption ==
    /\ \A p \in Packs : IsPack(p) /\ ~p.altered
    /\ None \notin Packs \cup Entitlements
    /\ MaxFaults \in Nat

VARIABLES
    source,      \* control_sets.source
    local,       \* the file the glob finds first
    cache,       \* the cache file of this kind of pack
    strict,      \* require_signatures in this run
    held,        \* the agent's entitlement in this run
    pc,
    set,         \* the control set in hand
    validated,   \* history: did LoadControlSet read it?
    faults

fetchVars == <<source, local, cache, strict, held, pc, set, validated, faults>>

FetchInit ==
    /\ source \in {"local", "http"}
    /\ local \in IF source = "local" THEN Packs \cup {Unreadable} ELSE {Unreadable}
    /\ cache = Unreadable
    /\ strict = TRUE /\ held = None
    /\ pc = "off" /\ set = None /\ validated = FALSE
    /\ faults = 0

Goto(from, to) == pc = from /\ pc' = to
Fault   == faults < MaxFaults /\ faults' = faults + 1

\* The set is not executed: the run logs it and goes on without.
GivenUp   == pc' = "off" /\ set' = None /\ validated' = FALSE
InHand(s, next, read) == pc' = next /\ set' = s /\ validated' = read

\* A write cut short: what is left of the YAML lacks the last controls.
Cut(s) ==
    IF Len(s.controls) < 2 THEN Unreadable
    ELSE [s EXCEPT !.altered = TRUE, !.controls = SubSeq(@, 1, Len(@) - 1)]

StartFetch ==
    /\ Goto("off", "fetch")
    /\ strict' \in BOOLEAN /\ held' \in Entitlements \cup {None}
    /\ UNCHANGED <<source, local, cache, set, validated, faults>>

\* fetchFromLocal.
FetchLocal ==
    /\ pc = "fetch" /\ source = "local"
    /\ IF Loads(local) /\ SignatureAccepted(local, strict)
          THEN InHand(local, "check", TRUE) ELSE GivenUp
    /\ UNCHANGED <<source, local, cache, strict, held, faults>>

\* fetchFromHTTP with an answer of 200.  A pack that is refused, or that is no
\* JSON, is not replaced by the cached one.
Download ==
    /\ pc = "fetch" /\ source = "http"
    /\ \/ \E p \in Packs :
             IF SignatureAccepted(Converted(p), strict)
                THEN InHand(Converted(p), "cache", FALSE) ELSE GivenUp
       \/ GivenUp
    /\ UNCHANGED <<source, local, cache, strict, held, faults>>

\* Mutant: the cache is as good as the backend it came from.
FallBackOnTrust ==
    /\ pc = "fetch" /\ source = "http"
    /\ IF Loads(cache) THEN InHand(cache, "check", TRUE) ELSE GivenUp
    /\ UNCHANGED <<source, local, cache, strict, held, faults>>

\* loadFromCacheIgnoreExpiry: no answer, or another status than 200.
FallBackOnCache ==
    /\ pc = "fetch" /\ source = "http"
    /\ IF Loads(cache) /\ SignatureAccepted(cache, strict)
          THEN InHand(cache, "check", TRUE) ELSE GivenUp
    /\ UNCHANGED <<source, local, cache, strict, held, faults>>

\* saveToCache; an error is a warning.
SaveToCache ==
    /\ Goto("cache", "check")
    /\ \/ cache' = set /\ UNCHANGED faults
       \/ Fault /\ cache' \in {cache, Unreadable, Cut(set)}
    /\ UNCHANGED <<source, local, strict, held, set, validated>>

\* checkEntitlement, then CheckCompatibility.
CheckPack ==
    /\ pc = "check"
    /\ IF EntitlementAllows(set, held # None, held) /\ Compatible(set)
          THEN InHand(set, "execute", validated) ELSE GivenUp
    /\ UNCHANGED <<source, local, cache, strict, held, faults>>

FetchControlSet == FetchLocal \/ Download \/ FallBackOnCache \/ SaveToCache \/ CheckPack

\* The process dies, also in the middle of writing the cache.
CrashFetching ==
    /\ pc # "off" /\ GivenUp /\ Fault
    /\ cache' \in {cache} \cup (IF pc = "cache" THEN {Unreadable, Cut(set)} ELSE {})
    /\ UNCHANGED <<source, local, strict, held>>

-----------------------------------------------------------------------------
Running == pc \in {"execute", "request"}

\* A pack in execution is one the rules of this very run allow, also when an
\* earlier run with looser rules wrote it to the cache, or a write was cut
\* short: with require_signatures its content is what was signed, it is free
\* or covered by an unexpired entitlement of its tier that lists it, and it is
\* not one that declares itself incompatible (pkg/controlset/fetcher.go:124-144,
\* 240-248, 375-410, cmd/agent/main.go:1049-1051).
OnlyClearedPacksRun ==
    Running =>
       /\ strict => Verifies(set)
       /\ \/ set.tier = "free"
          \/ /\ held # None /\ held.live /\ held.listed
             /\ set.tier = "paid" => held.tier \in {"paid", "enterprise"}
             /\ set.tier = "enterprise" => held.tier = "enterprise"
       /\ set.tier # "unknown" /\ set.limits # "unmet"
=============================================================================
