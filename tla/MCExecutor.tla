----------------------------- MODULE MCExecutor -----------------------------
(* Between them the packs have every mode of execution and every defect. *)
EXTENDS Executor

Atom(a)         == Single(a)
Either(a, b)    == Condition(<<<<a>>, <<b>>>>)
Both(a, b)      == Condition(<<<<a, b>>>>)
Query(criteria) == [mode |-> "query", criteria |-> criteria]
Scan(criteria)  == [mode |-> "source_scan", criteria |-> criteria]
Validation(stages, changing, seeded, criteria) ==
    [mode |-> "active_validation", stages |-> stages, changing |-> changing,
     seeded |-> seeded, criteria |-> criteria]
Pack(tier, signature, limits, garbled, controls) ==
    [tier |-> tier, signature |-> signature, limits |-> limits, altered |-> FALSE,
     garbled |-> garbled, controls |-> controls]

Requests == Validation(<<"request">>, {"request"}, TRUE, <<Atom("exposed")>>)
Callback == Validation(<<"register", "trigger", "poll">>, {"register"}, FALSE, <<Atom("exposed")>>)
Signed   == Validation(<<"mint", "fetch", "replay">>, {"mint"}, TRUE, <<Atom("row_count > 0")>>)

MCPacks == {
    Pack("free", "right", "none", FALSE,
         <<<<Query(<<Atom("exposed"), Label("informational")>>), Scan(<<Atom("row_count = 0")>>)>>,
           <<Query(<<Label("review_required")>>), Query(<<Either("exposed", "granted")>>)>>>>),
    Pack("free", "right", "met", FALSE,
         <<<<Query(<<Both("row_count > 0", "exposed")>>), Query(<<Either("row_count = 0", "granted")>>),
             Scan(<<Both("exposed", "granted")>>)>>>>),
    Pack("paid", "right", "met", FALSE, <<<<Requests, Requests>>>>),
    Pack("enterprise", "right", "unmet", FALSE, <<<<Callback>>, <<Signed>>>>),
    Pack("paid", "right", "none", FALSE, <<<<Callback, Signed>>>>),
    Pack("free", "wrong", "none", FALSE, <<<<Query(<<Either("exposed", "malformed")>>)>>, <<>>>>),
    Pack("free", "none", "none", FALSE, <<<<Query(<<Either("exposed", "malformed")>>)>>>>),
    Pack("free", "right", "none", TRUE, <<<<Query(<<Atom("exposed")>>)>>>>),
    Pack("unknown", "right", "none", FALSE, <<<<Scan(<<Label("license_required")>>)>>>>)}

MCEntitlements == {
    [tier |-> "paid", live |-> TRUE, listed |-> TRUE],
    [tier |-> "enterprise", live |-> TRUE, listed |-> FALSE],
    [tier |-> "enterprise", live |-> FALSE, listed |-> TRUE],
    [tier |-> "enterprise", live |-> TRUE, listed |-> TRUE]}
=============================================================================
