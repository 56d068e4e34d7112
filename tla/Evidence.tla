------------------------------ MODULE Evidence ------------------------------
(***************************************************************************)
(* Evidence capture: how the records of a database's audit trail reach the *)
(* backend (executeEvidenceCapture of pkg/controlset/executor.go, with the *)
(* captures pkg/controlset/fetcher.go adds to a pack).                     *)
(*                                                                         *)
(* Several agents audit the same database.  A capture works under a lease  *)
(* of the backend, which carries the watermark up to which the backend has *)
(* the records; it reads at most Limit records behind it, and the result   *)
(* goes out with the result of the run, or later from the directory of     *)
(* pending ones.  The lease is the one LogIngestion has for log files.     *)
(* Records have a stamp, with a fraction of a second, and keys; watermarks *)
(* have no fractions.                                                      *)
(***************************************************************************)
EXTENDS Naturals, Sequences, FiniteSets, FiniteSetsExt

CONSTANTS
    Agents,
    Studies,         \* what is captured, by whom, and from which records
    Limit,           \* rows a query may return
    Window,          \* seconds of the default window, 30 days
    MaxRecords, MaxTime, MaxFaults,    \* bounds
    Nobody           \* no lease holder

\* A capture: its mode, does its SQL have a place for the watermark, does its
\* query return time stamps as text or as the driver's time values, and does it
\* return the keys that order the records of one stamp?
Capture(mode, template) ==
    [mode |-> mode, template |-> template, stamps |-> "time", keyed |-> TRUE]

\* classifyEvidenceSourceMode, for captures that do not name their mode.
SourceMode(type) ==
    IF type \in {"privilege_changes", "role_grants", "privilege_grants"} THEN "snapshot"
    ELSE IF type = "audit_operations_live" THEN "activity" ELSE "history"

\* enrichOracleAuditTrail, enrichPostgresAuditTrail, enrichSupabaseAuditTrail and
\* enrichMSSQLAuditTrail.
OracleCaptures ==
    {Capture(SourceMode(type), TRUE) : type \in
        {"audit_operations", "audit_operations_traditional", "privilege_grant_history"}}
    \cup {Capture(SourceMode(type), FALSE) : type \in
        {"privilege_changes", "role_grants", "system_attributes", "backup_history",
         "tablespace_usage", "patch_history", "feature_usage", "session_statistics"}}
PostgresCaptures ==
    {Capture("activity", TRUE), Capture("activity", FALSE)}
    \cup {Capture(SourceMode(type), FALSE) : type \in {"privilege_changes", "role_grants"}}
SupabaseCaptures ==
    {Capture(SourceMode(type), FALSE) : type \in {"rls_status", "policy_definitions"}}
    \cup {Capture("snapshot", FALSE), Capture("history", TRUE)}
MSSQLCaptures ==
    {Capture(SourceMode("audit_operations"), TRUE)}
    \cup {Capture(SourceMode(type), FALSE) : type \in {"privilege_changes", "role_grants"}}

\* A pack may bring a capture of its own that formats its time stamps, with the
\* keys or without.
OwnCapture(keyed) == [mode |-> "history", template |-> TRUE, stamps |-> "text", keyed |-> keyed]

AllCaptures == OracleCaptures \cup PostgresCaptures \cup SupabaseCaptures
                  \cup MSSQLCaptures \cup {OwnCapture(keyed) : keyed \in BOOLEAN}

\* A pack captures the trail a number of times.  Some agents use leases.  The
\* room for waiting results is PendingMaxFiles.  Within a second a record has a
\* fraction, 0 for none, and a key.
Study == [capture : AllCaptures, times : Nat \ {0}, room : Nat,
          online : [Agents -> BOOLEAN], places : SUBSET (Nat \X Nat)]

ASSUME EvidenceAssumption ==
    /\ Studies \subseteq Study
    /\ {Limit, Window, MaxTime} \subseteq Nat \ {0}
    /\ {MaxRecords, MaxFaults} \subseteq Nat
    /\ Nobody \notin Agents

VARIABLES
    study,
    now, trail,  \* the audit trail: its records, as they appear
    down,        \* is the backend out of reach?
    holder, watermark, stored,     \* the backend: lease, watermark, records
    pc,
    lease,       \* evidenceLeaseByKey: the watermark the run's lease came with
    valid,       \* is the token of that lease still good?
    rows, mark,  \* the run's result: records, and the watermark it reports
    count,       \* captures the run has made
    queued,      \* results waiting in PendingDir
    late, outside,     \* history: records that came behind a watermark, or were
                       \* outside the default window when a leased query used it
    faults

env      == <<study, now, trail, down>>
backend  == <<holder, watermark, stored>>
run      == <<pc, lease, valid, rows, mark, count>>
history  == <<late, outside>>
vars     == <<env, backend, run, queued, history, faults>>

capture == study.capture
online  == study.online      \* useIngestionState

Record(s, p) == [sec |-> s, frac |-> p[1], key |-> p[2]]
MarkOf(r)    == [sec |-> r.sec, key |-> r.key]
Marks        == [sec : 0..MaxTime, key : Nat]
NoMark       == [sec |-> 0, key |-> 0]
NoLease      == [held |-> FALSE, mark |-> NoMark]
Results      == [rows : SUBSET DOMAIN trail, mark : Marks, valid : BOOLEAN]

TypeOK ==
    /\ study \in Studies /\ down \in BOOLEAN
    /\ now \in 1..MaxTime /\ Len(trail) \in 0..MaxRecords
    /\ \A i \in DOMAIN trail : \E s \in 1..now, p \in study.places : trail[i] = Record(s, p)
    /\ holder \in Agents \cup {Nobody} /\ watermark \in Marks /\ stored \subseteq DOMAIN trail
    /\ pc \in [Agents -> {"idle", "capture", "query"}]
    /\ lease \in [Agents -> [held : BOOLEAN, mark : Marks]]
    /\ valid \in [Agents -> BOOLEAN]
    /\ rows \in [Agents -> SUBSET DOMAIN trail] /\ mark \in [Agents -> Marks]
    /\ count \in [Agents -> 0..study.times]
    /\ queued \in [Agents -> SUBSET Results]
    /\ late \subseteq DOMAIN trail /\ outside \subseteq DOMAIN trail
    /\ faults \in 0..MaxFaults
    \* one token at most is good, and it is the lease holder's
    /\ \A a \in Agents : valid[a] \/ (\E q \in queued[a] : q.valid) => holder = a
    /\ \A a \in Agents : \A q \in queued[a] :
          q.valid => ~valid[a] /\ \A r \in queued[a] : r.valid => r = q

Init ==
    /\ study \in Studies /\ down = FALSE
    /\ now = 1 /\ trail = <<>>
    /\ holder = Nobody /\ watermark = NoMark /\ stored = {}
    /\ pc = [a \in Agents |-> "idle"]
    /\ lease = [a \in Agents |-> NoLease] /\ valid = [a \in Agents |-> FALSE]
    /\ rows = [a \in Agents |-> {}] /\ mark = [a \in Agents |-> NoMark]
    /\ count = [a \in Agents |-> 0]
    /\ queued = [a \in Agents |-> {}]
    /\ late = {} /\ outside = {} /\ faults = 0

Fault == faults < MaxFaults /\ faults' = faults + 1

Goto(a, from, to) == pc[a] = from /\ pc' = [pc EXCEPT ![a] = to]

-----------------------------------------------------------------------------
(* The database: records appear, a long transaction's behind younger ones. *)

\* The conditions buildIncrementalEvidenceSQL writes: is the record behind the
\* watermark?  A record with a fraction is after the watermark of its second, and
\* without keys the whole second is.
After(r, m) ==
    \/ r.sec > m.sec
    \/ r.sec = m.sec /\ (~capture.keyed \/ r.frac > 0 \/ r.key > m.key)

Reported ==
    {watermark} \cup UNION {{lease[a].mark, mark[a]} \cup {q.mark : q \in queued[a]} : a \in Agents}

Commit(r) ==
    /\ Len(trail) < MaxRecords
    /\ r.sec \in {now, now - 1} \ {0}
    /\ trail' = Append(trail, r)
    /\ late' = IF \A m \in Reported : After(r, m) THEN late ELSE late \cup {Len(trail) + 1}
    /\ UNCHANGED <<study, now, down, backend, run, queued, outside, faults>>

TimePasses ==
    /\ now < MaxTime /\ now' = now + 1
    /\ UNCHANGED <<study, trail, down, backend, run, queued, history, faults>>

-----------------------------------------------------------------------------
(* The backend's side.                                                     *)

\* What is left of the tokens once the lease is given to someone, or to nobody.
Revoked(v) == v' = [a \in Agents |-> FALSE]
RevokedQueued ==
    queued' = [a \in Agents |-> {[q EXCEPT !.valid = FALSE] : q \in queued[a]}]

LeaseLost ==
    /\ holder' = Nobody /\ Revoked(valid) /\ RevokedQueued
    /\ UNCHANGED <<env, watermark, stored, pc, lease, rows, mark, count, history>>

\* A lease ends that no run works with any more, or one of a run that takes long.
LeaseExpires == holder # Nobody /\ ~valid[holder] /\ LeaseLost /\ UNCHANGED faults
RunOutlastsLease == holder # Nobody /\ valid[holder] /\ LeaseLost /\ Fault

GoesDown ==
    /\ ~down /\ Fault /\ down' = TRUE
    /\ UNCHANGED <<study, now, trail, backend, run, queued, history>>

ComesBack ==
    /\ down /\ down' = FALSE
    /\ UNCHANGED <<study, now, trail, backend, run, queued, history, faults>>

\* It keeps what it gets, and takes a watermark from the holder of the lease.
Accept(result) ==
    /\ stored' = stored \cup result.rows
    /\ IF result.valid
       THEN /\ watermark' = IF result.mark = NoMark THEN watermark ELSE result.mark
            /\ holder' = Nobody
       ELSE UNCHANGED <<watermark, holder>>

-----------------------------------------------------------------------------
(* A run: first the results earlier runs could not post.                   *)

\* Mutant: a result stays queued when its lease is gone.
UploadQueuedWhileLeased(a) ==
    /\ pc[a] = "idle" /\ ~down
    /\ \E q \in {r \in queued[a] : r.valid} :
          /\ Accept(q)
          /\ queued' = [queued EXCEPT ![a] = @ \ {q}]
    /\ UNCHANGED <<env, run, history, faults>>

\* UploadPending, one file; which one comes first makes no difference here.  If
\* the answer is lost, the file is not removed, or the process dies, it is sent
\* again by a later run, with this one's captures in between or not.
UploadQueued(a) ==
    /\ pc[a] = "idle" /\ ~down
    /\ \E q \in queued[a] :
          /\ Accept(q)
          /\ \/ /\ queued' = [queued EXCEPT ![a] = @ \ {q}]
                /\ UNCHANGED <<pc, faults>>
             \/ /\ queued' = [queued EXCEPT ![a] = (@ \ {q}) \cup {[q EXCEPT !.valid = FALSE]}]
                /\ pc' \in {[pc EXCEPT ![a] = next] : next \in {"capture", "idle"}}
                /\ Fault
    /\ UNCHANGED <<env, lease, valid, rows, mark, count, history>>

\* The captures begin when nothing is left, a file cannot be read or sent, or the
\* agent is offline.
Begin(a) ==
    /\ Goto(a, "idle", "capture")
    /\ IF queued[a] = {} \/ down \/ ~online[a] THEN UNCHANGED faults ELSE Fault
    /\ UNCHANGED <<env, backend, lease, valid, rows, mark, count, queued, history>>

Capturing(a) == pc[a] = "capture" /\ count[a] < study.times
Captured(a) ==
    /\ count' = [count EXCEPT ![a] = @ + 1]
    /\ pc' = [pc EXCEPT ![a] = "capture"]

NeedsLease(a) == online[a] /\ capture.mode # "activity"
AsksForLease(a) == Capturing(a) /\ NeedsLease(a) /\ ~lease[a].held

\* No lease is asked for, and the SQL is sent as it is.
CaptureDirectly(a) ==
    /\ Capturing(a) /\ ~NeedsLease(a) /\ Goto(a, "capture", "query")
    /\ UNCHANGED <<env, backend, lease, valid, rows, mark, count, queued, history, faults>>

\* acquireEvidenceLease: the lease a capture of this run got serves them all.
UseLease(a) ==
    /\ Capturing(a) /\ NeedsLease(a) /\ lease[a].held /\ Goto(a, "capture", "query")
    /\ UNCHANGED <<env, backend, lease, valid, rows, mark, count, queued, history, faults>>

\* The backend's part: whoever had the lease before has lost it.
Granted(a) == ~down /\ holder \in {Nobody, a} /\ holder' = a /\ RevokedQueued

AcquireLease(a) ==
    /\ AsksForLease(a) /\ Granted(a) /\ Goto(a, "capture", "query")
    /\ lease' = [lease EXCEPT ![a] = [held |-> TRUE, mark |-> watermark]]
    /\ valid' = [b \in Agents |-> b = a]
    /\ UNCHANGED <<env, watermark, stored, rows, mark, count, history, faults>>

\* 409: the lease is taken.
Skip(a) ==
    /\ AsksForLease(a) /\ ~down /\ holder # Nobody
    /\ Captured(a)
    /\ UNCHANGED <<env, backend, lease, valid, rows, mark, queued, history, faults>>

\* No answer, or one that is no lease, though the backend may have given it:
\* read the default window without.
LeaseUnavailable(a) ==
    /\ AsksForLease(a) /\ Goto(a, "capture", "query")
    /\ \/ down /\ UNCHANGED <<holder, valid, queued, faults>>
       \/ Fault /\ UNCHANGED <<holder, valid, queued>>
       \/ Fault /\ Granted(a) /\ Revoked(valid)
    /\ UNCHANGED <<env, watermark, stored, lease, rows, mark, count, history>>

-----------------------------------------------------------------------------
(* The query.                                                              *)

Visible  == DOMAIN trail
Default  == {i \in Visible : trail[i].sec + Window > now}       \* applyDefaultEvidenceWindow

\* normalizeWatermarkTimestamp reads a text "2006-01-02T15:04:05", which is not
\* how Go writes the time values the drivers return: those are no watermark.
Readable(m) == m # NoMark /\ capture.stamps = "text"

\* buildIncrementalEvidenceSQL: what is after the watermark, or the default.
\* What a capture without a template reads is not the trail.
Selected(a) ==
    IF ~capture.template THEN {}
    ELSE IF Readable(lease[a].mark) THEN {i \in Visible : After(trail[i], lease[a].mark)}
    ELSE Default

\* ORDER BY stamp and keys.
Before(i, j) ==
    LET r == trail[i]   s == trail[j] IN
    \/ r.sec < s.sec
    \/ r.sec = s.sec /\ (r.frac < s.frac \/ (r.frac = s.frac /\ r.key < s.key))

\* What a query that returns n rows at most may return.
Oldest(n, S) ==
    {got \in SUBSET S :
        /\ Cardinality(got) = Min({n, Cardinality(S)})
        /\ \A i \in got, j \in S \ got : ~Before(j, i)}

Last(got) == {i \in got : \A j \in got : ~Before(i, j)}

\* Mutant: the watermark is the time of the query.
WatermarksOfQuery(a, got) ==
    IF got = {} THEN {lease[a].mark} ELSE {[sec |-> now, key |-> 0]}

\* calculateEvidenceWatermark: the last row's stamp and keys; no rows leave it
\* alone, and so do captures without a watermark of their own.
Watermarks(a, got) ==
    IF got = {} \/ ~capture.template THEN {lease[a].mark}
    ELSE {MarkOf(trail[i]) : i \in Last(got)}

\* A template that nobody filled in is no SQL.
QueryFails(a) ==
    /\ pc[a] = "query"
    /\ IF capture.template /\ ~NeedsLease(a) THEN UNCHANGED faults ELSE Fault
    /\ Captured(a)
    /\ UNCHANGED <<env, backend, lease, valid, rows, mark, queued, history>>

Query(a) ==
    /\ pc[a] = "query" /\ (capture.template => NeedsLease(a))
    /\ Captured(a)
    /\ \E got \in Oldest(Limit, Selected(a)) :
          /\ rows' = [rows EXCEPT ![a] = @ \cup got]
          /\ IF lease[a].held
             THEN \E m \in Watermarks(a, got) : mark' = [mark EXCEPT ![a] = m]
             ELSE UNCHANGED mark
    /\ outside' = IF capture.template /\ lease[a].held /\ ~Readable(lease[a].mark)
                  THEN outside \cup (Visible \ Default) ELSE outside
    /\ UNCHANGED <<env, backend, lease, valid, queued, late, faults>>

-----------------------------------------------------------------------------
(* The end of the run; WriteResults queues what it cannot post.            *)

\* Mutant: the lease outlives the run.
RunEndsHolding(a) ==
    /\ pc' = [pc EXCEPT ![a] = "idle"]
    /\ rows' = [rows EXCEPT ![a] = {}] /\ mark' = [mark EXCEPT ![a] = NoMark]
    /\ count' = [count EXCEPT ![a] = 0]
    /\ UNCHANGED <<lease, valid>>

RunEnds(a) ==
    /\ pc' = [pc EXCEPT ![a] = "idle"]
    /\ lease' = [lease EXCEPT ![a] = NoLease] /\ valid' = [valid EXCEPT ![a] = FALSE]
    /\ rows' = [rows EXCEPT ![a] = {}] /\ mark' = [mark EXCEPT ![a] = NoMark]
    /\ count' = [count EXCEPT ![a] = 0]

Result(a) == [rows |-> rows[a], mark |-> mark[a], valid |-> valid[a]]

\* QueueResult; what finds no room is lost.
Queue(a, result) ==
    queued' = IF Cardinality(queued[a]) < study.room
              THEN [queued EXCEPT ![a] = @ \cup {result}] ELSE queued

\* Once all captures are made, writeToHTTP: the backend has the result, and its
\* answer may be lost; or it is queued, which may fail too.
Post(a) ==
    /\ pc[a] = "capture" /\ count[a] = study.times /\ RunEnds(a)
    /\ \/ /\ ~down /\ Accept(Result(a))
          /\ \/ UNCHANGED <<queued, faults>>
             \/ Fault /\ Queue(a, [Result(a) EXCEPT !.valid = FALSE])
       \/ /\ UNCHANGED backend
          /\ \/ (down \/ ~online[a]) /\ Queue(a, Result(a)) /\ UNCHANGED faults
             \/ Fault /\ Queue(a, Result(a))
             \/ Fault /\ UNCHANGED queued
    /\ UNCHANGED <<env, history>>

Crash(a) ==
    /\ pc[a] # "idle" /\ Fault
    /\ RunEnds(a)
    /\ UNCHANGED <<env, backend, queued, history>>

Step(a) ==
    \/ UploadQueued(a) \/ Begin(a)
    \/ CaptureDirectly(a) \/ UseLease(a) \/ AcquireLease(a) \/ Skip(a) \/ LeaseUnavailable(a)
    \/ QueryFails(a) \/ Query(a) \/ Post(a)

Next ==
    \/ \E s \in 1..MaxTime, p \in study.places : Commit(Record(s, p))
    \/ TimePasses \/ LeaseExpires \/ RunOutlastsLease \/ GoesDown \/ ComesBack
    \/ \E a \in Agents : Step(a) \/ Crash(a)

Spec == Init /\ [][Next]_vars

\* The agents are run again and again, each request and query has a timeout, a
\* lease has an end, and so has an outage of the backend.
FairSpec ==
    /\ Spec /\ WF_vars(LeaseExpires) /\ WF_vars(ComesBack)
    /\ \A a \in Agents : WF_vars(Step(a))

-----------------------------------------------------------------------------
(* Properties.                                                             *)

\* Records the comparison with a watermark cannot tell from one of S: they agree
\* with it in stamp and keys.
Reached(S) ==
    S \cup {i \in Visible : capture.keyed /\ \E j \in S : trail[i] = trail[j]}

\* What the backend takes for read it has: every record that is not after its
\* watermark, and that no later query returns therefore, was stored, or agrees in
\* stamp and keys with one that was.  Excepted are records that came into the
\* trail when a watermark beyond them was on its way, and those outside the
\* default window at a query under a lease without a readable watermark.
\* Queries that return only the oldest rows, watermarks without the fraction of
\* the last row, results that are lost, repeated, late or of an expired lease do
\* not matter (pkg/controlset/executor.go:2303-2312, 2473-2605).
WatermarkCoversOnlyStored ==
    \A i \in Visible :
       ~After(trail[i], watermark) => i \in Reached(stored) \cup late \cup outside

\* A query that always returns the same rows gets no further: more records than a
\* query returns in the default window, or in one second if they are not after
\* one another for a watermark.
Roomy ==
    IF capture.stamps = "text"
    THEN \A s \in 1..MaxTime :
            LET same == {i \in Visible : trail[i].sec = s}
            IN (\E i \in same : ~capture.keyed \/ trail[i].frac > 0) => Cardinality(same) < Limit
    ELSE Cardinality(Default) <= Limit

\* In the end every record has reached the backend, or agrees in stamp and keys
\* with one that has, or came behind a watermark, or was outside the default
\* window at some query under a lease without a readable watermark: the first one
\* of a capture with stamps as text, any one of a capture without, which loses
\* a record so whose result was lost and which then leaves the window.
\* Otherwise an agent that is skipped, loses its lease, the answer to its
\* request, its result or its life, and an outage, do not keep another agent, or
\* its own next run, from reading a record (pkg/controlset/executor.go:2260-2294,
\* pkg/output/output.go:229-281, executor_test.go:1579).
EvidenceArrives ==
    <>[](capture.template /\ Roomy /\ (\E a \in Agents : NeedsLease(a))
            => Visible \subseteq Reached(stored) \cup late \cup outside)
=============================================================================
