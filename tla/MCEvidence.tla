----------------------------- MODULE MCEvidence -----------------------------
(* Instances of Evidence for TLC: a capture of each kind there is.  Where  *)
(* both agents use leases, the records differ by second only and one       *)
(* result may wait; where one does, the records also differ by key or      *)
(* fraction, two results may wait, or it captures twice in a run.          *)
EXTENDS Evidence

CONSTANTS a1, a2

MCAgents == {a1, a2}

MCStudy(cap, times, room, leasing, places) ==
    [capture |-> cap, times |-> times, room |-> room,
     online |-> [a \in MCAgents |-> a \in leasing], places |-> places]

MCStudies ==
    {MCStudy(OwnCapture(TRUE), 1, 1, {a1, a2}, {<<0, 1>>}),
     MCStudy(OwnCapture(TRUE), 1, 2, {a1}, {<<0, 1>>, <<0, 2>>}),
     MCStudy(OwnCapture(TRUE), 2, 1, {a1}, {<<5, 1>>}),
     MCStudy(OwnCapture(FALSE), 1, 2, {a1}, {<<0, 1>>, <<5, 1>>}),
     MCStudy(Capture("history", TRUE), 1, 2, {a1}, {<<0, 1>>}),
     MCStudy(Capture("activity", TRUE), 2, 2, {a1}, {<<0, 1>>}),
     MCStudy(Capture("snapshot", FALSE), 1, 2, {a1}, {<<0, 1>>})}
=============================================================================
