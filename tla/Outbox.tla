------------------------------- MODULE Outbox -------------------------------
(***************************************************************************)
(* What the SIEM delivery queue promises (pkg/siem/queue.go): a durable,   *)
(* bounded outbox with at-least-once hand-over.  An accepted event stays   *)
(* queued until it was handed over, to the SIEM or to the dead-letter      *)
(* file; a hand-over and the removal it allows are separate steps, because *)
(* the agent may die, or fail to write, between the two.  The exception is *)
(* a queue that cannot be loaded: it is set aside as a whole.  A writer    *)
(* that had loaded it just before may bring some of it back.               *)
(***************************************************************************)
EXTENDS Naturals, FiniteSets

CONSTANTS Events, Capacity

VARIABLES
    queued,      \* accepted and not yet removed
    aside,       \* in a queue that was set aside
    delivered,   \* acknowledged by the SIEM
    buried       \* written to the dead-letter file

outboxVars == <<queued, aside, delivered, buried>>

HandedOver == delivered \cup buried

Init == queued = {} /\ aside = {} /\ delivered = {} /\ buried = {}

\* Accept a batch of new events if they fit, all or nothing; "back" is what the
\* writer had loaded before it was set aside.
Accept(batch, back) ==
    /\ batch \cap (queued \cup aside \cup HandedOver) = {}
    /\ back \subseteq aside
    /\ Cardinality(queued \cup back) + Cardinality(batch) <= Capacity
    /\ queued' = queued \cup back \cup batch
    /\ UNCHANGED <<aside, delivered, buried>>

\* Events that are rejected at the door are buried without being queued.
Reject(batch) ==
    /\ batch \cap (queued \cup aside \cup delivered) = {}
    /\ buried' = buried \cup batch
    /\ UNCHANGED <<queued, aside, delivered>>

\* The SIEM acknowledges accepted events, possibly not for the first time.
Deliver(batch) ==
    /\ batch \subseteq queued \cup aside
    /\ delivered' = delivered \cup batch
    /\ UNCHANGED <<queued, aside, buried>>

Bury(batch) ==
    /\ batch \subseteq queued \cup aside
    /\ buried' = buried \cup batch
    /\ UNCHANGED <<queued, aside, delivered>>

\* Only what was handed over may be removed.
Remove(batch, back) ==
    /\ batch \subseteq queued \cap HandedOver
    /\ back \subseteq aside
    /\ queued' = (queued \ batch) \cup back
    /\ UNCHANGED <<aside, delivered, buried>>

\* The queue cannot be loaded: all of it is set aside, never a part of it.
SetAside ==
    /\ aside' = aside \cup queued
    /\ queued' = {}
    /\ UNCHANGED <<delivered, buried>>

Next ==
    \/ \E batch \in SUBSET Events :
        \/ Reject(batch) \/ Deliver(batch) \/ Bury(batch)
        \/ \E back \in SUBSET aside : Accept(batch, back) \/ Remove(batch, back)
    \/ SetAside

Spec == Init /\ [][Next]_outboxVars
=============================================================================
