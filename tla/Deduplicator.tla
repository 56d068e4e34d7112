---------------------------- MODULE Deduplicator ----------------------------
(***************************************************************************)
(* The decisions of pkg/siem/dedup.go, as operators on a cache: what is    *)
(* emitted, what is recorded, how two caches merge, and which findings     *)
(* count as remediated.  SiemOutput is the state machine that uses them.   *)
(*                                                                         *)
(* Fingerprints are model values, each of its own control of one system;   *)
(* of an entry only its status and its time of last delivery matter.       *)
(* Severity, titles, packs and the other carried fields are left out.      *)
(***************************************************************************)
EXTENDS Naturals

CONSTANTS
    Fps,       \* fingerprints
    Window,    \* windowHours, in clock ticks
    None       \* no entry

Statuses   == {"open", "remediated"}
EventTypes == {"created", "recurring", "regressed", "remediated"}
Results    == {"fail", "pass", "error"}

\* A cache maps a fingerprint to its dedupEntry, if it has one.
Entries(times) == [status : Statuses, at : times]
Caches(times)  == [Fps -> Entries(times) \cup {None}]

ASSUME NoneAssumption == None \notin Entries(Nat)

Empty == [fp \in Fps |-> None]

Expired(entry, now) == now - entry.at > Window

Prune(cache, now) ==
    [fp \in Fps |-> IF cache[fp] # None /\ Expired(cache[fp], now) THEN None
                                                                   ELSE cache[fp]]

\* Mutant: the reloaded file is ignored.
MergeOwnOnly(onDisk, cache) == cache

\* reloadAndMergeLocked: per fingerprint the newest entry, ours on a tie.
Merge(onDisk, cache) ==
    [fp \in Fps |->
        IF \/ cache[fp] = None
           \/ onDisk[fp] # None /\ cache[fp].at < onDisk[fp].at
        THEN onDisk[fp] ELSE cache[fp]]

\* Mutant: every event type is significant.
SignificantAlways == EventTypes

\* isSignificantEventTypeChange looks at the new type only.
Significant == {"remediated", "regressed", "updated"}

ShouldEmit(cache, event, now) ==
    LET entry == cache[event.fp] IN
    \/ entry = None
    \/ Expired(entry, now)
    \/ event.status # entry.status
    \/ event.type \in Significant

\* updateCache for a set of events with distinct fingerprints.
Update(cache, events, now) ==
    [fp \in Fps |->
        IF \E e \in events : e.fp = fp
        THEN [status |-> (CHOOSE e \in events : e.fp = fp).status, at |-> now]
        ELSE cache[fp]]

Forgotten(cache, fps) == [fp \in Fps |-> IF fp \in fps THEN None ELSE cache[fp]]

\* DetermineLifecycle: the event for a finding, given this instance's cache.
\* Expired entries still count: nothing is pruned here.
LifecycleEvent(cache, fp) ==
    [fp |-> fp, status |-> "open",
     type |-> IF cache[fp] = None THEN "created"
              ELSE IF cache[fp].status = "remediated" THEN "regressed"
              ELSE "recurring"]

\* DetectRemediations: known open, its control ran, and no finding now.
RemediationEvents(cache, results, now) ==
    {[fp |-> fp, status |-> "remediated", type |-> "remediated"] :
        fp \in {f \in Fps : /\ cache[f] # None
                            /\ cache[f].status # "remediated"
                            /\ ~Expired(cache[f], now)
                            /\ results[f] = "pass"}}
=============================================================================
