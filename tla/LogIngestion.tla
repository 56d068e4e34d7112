---------------------------- MODULE LogIngestion ----------------------------
(***************************************************************************)
(* The way of a PostgreSQL csvlog row from the log file to the backend:    *)
(* the ingestion lease (cmd/agent/main.go), the collector and its cursor   *)
(* (pkg/logs/postgres/csvlog.go), the result's POST and the pending        *)
(* directory it falls back to (pkg/output/output.go).                      *)
(*                                                                         *)
(* Several agents with directories of their own read the same log file.    *)
(* A file holds rows of one unit each, the header first; a row is known by *)
(* the file's generation and its number.  The collector reads ahead: the   *)
(* csv reader fetches Buffer units at a time (4 KiB in the code), and the  *)
(* cursor is computed from what was fetched.  A fingerprint is size and    *)
(* modification time, so every write to the file gives it a new stamp.     *)
(***************************************************************************)
EXTENDS Naturals, Sequences

CONSTANTS
    Agents,
    Buffer,          \* units the csv reader fetches at once
    MaxRows,         \* CollectorConfig.MaxRows
    PendingMaxFiles, UploadMaxFilesPerRun,
    MaxSize, MaxStamp,   \* bounds on the file
    MaxFaults,           \* bound on failures and crashes
    Nobody           \* "no lease"

ASSUME IngestionAssumption ==
    /\ {MaxRows, PendingMaxFiles, UploadMaxFilesPerRun, MaxSize, MaxFaults} \subseteq Nat
    /\ {Buffer, MaxStamp} \subseteq Nat \ {0}
    /\ Nobody \notin Agents

VARIABLES
    file,        \* the log file: [gen, size, stamp]
    cursor,      \* each agent's state file
    pending,     \* each agent's pending directory, oldest payload first
    lease,       \* the backend's lease holder
    known,       \* the backend's ingestion state
    received,    \* events the backend has
    pc,
    online,      \* is this run online?
    leased,      \* does it hold a lease?
    base,        \* that lease's ingestion state
    opened,      \* the file as Stat saw it
    uploads,     \* UploadPending: files it may still try
    payload,     \* the run's result
    \* history, read by properties only
    taken,       \* rows below a cursor that was saved: nobody reads them again
    given,       \* rows lost to a crash, or to a result that could not be kept
    cut,         \* some read stopped at MaxRows before the end of the file
    falseReset,  \* some agent took an unchanged file for a truncated one
    faults

env      == <<file>>
backend  == <<lease, known, received>>
stores   == <<cursor, pending>>
run      == <<pc, online, leased, base, opened, uploads, payload>>
history  == <<taken, given, cut, falseReset>>
vars     == <<env, backend, stores, run, history, faults>>

NewFile   == [gen |-> 1, size |-> 0, stamp |-> 1]
Files     == [gen : 1..MaxStamp, size : 0..MaxSize, stamp : 1..MaxStamp]
RowIds    == (1..MaxStamp) \X (1..MaxSize)
Events    == [row : RowIds, line : Nat]
Positions == [stamp : 0..MaxStamp, offset : Nat, line : Nat]
Start     == [stamp |-> 0, offset |-> 0, line |-> 0]
Nothing   == [events |-> {}, position |-> Start, leased |-> FALSE]
Payloads  == [events : SUBSET Events, position : Positions, leased : BOOLEAN]
Pc        == {"idle", "upload", "lease", "open", "read", "write"}

RowsOf(events) == {e.row : e \in events}

TypeOK ==
    /\ file \in Files
    /\ cursor \in [Agents -> Positions]
    /\ pending \in [Agents -> Seq(Payloads)]
    /\ lease \in Agents \cup {Nobody}
    /\ known \in Positions /\ received \subseteq Events
    /\ pc \in [Agents -> Pc]
    /\ online \in [Agents -> BOOLEAN] /\ leased \in [Agents -> BOOLEAN]
    /\ base \in [Agents -> Positions] /\ opened \in [Agents -> Files]
    /\ uploads \in [Agents -> 0..UploadMaxFilesPerRun]
    /\ payload \in [Agents -> Payloads]
    /\ taken \subseteq RowIds /\ given \subseteq RowIds
    /\ cut \in BOOLEAN /\ falseReset \in BOOLEAN
    /\ faults \in 0..MaxFaults

Init ==
    /\ file \in {[NewFile EXCEPT !.size = n] : n \in 0..MaxSize}
    /\ cursor = [a \in Agents |-> Start]
    /\ pending = [a \in Agents |-> <<>>]
    /\ lease = Nobody /\ known = Start /\ received = {}
    /\ pc = [a \in Agents |-> "idle"]
    /\ online = [a \in Agents |-> FALSE]
    /\ leased = [a \in Agents |-> FALSE]
    /\ base = [a \in Agents |-> Start]
    /\ opened = [a \in Agents |-> NewFile]
    /\ uploads = [a \in Agents |-> 0]
    /\ payload = [a \in Agents |-> Nothing]
    /\ taken = {} /\ given = {} /\ cut = FALSE /\ falseReset = FALSE
    /\ faults = 0

Goto(a, from, to) == pc[a] = from /\ pc' = [pc EXCEPT ![a] = to]
Fault == faults < MaxFaults /\ faults' = faults + 1

-----------------------------------------------------------------------------
(* PostgreSQL: rows are appended, and the file is replaced by a new one.   *)

AppendRow ==
    /\ file.stamp < MaxStamp /\ file.size < MaxSize
    /\ file' = [file EXCEPT !.size = @ + 1, !.stamp = @ + 1]
    /\ UNCHANGED <<backend, stores, run, history, faults>>

Rotate ==
    /\ file.stamp < MaxStamp /\ file.size > 0
    /\ \E n \in 1..MaxSize :
          file' = [gen |-> file.gen + 1, size |-> n, stamp |-> file.stamp + 1]
    /\ UNCHANGED <<backend, stores, run, history, faults>>

-----------------------------------------------------------------------------
(* A run: offline, or online with the pending files uploaded first.        *)

StartOffline(a) ==
    /\ Goto(a, "idle", "open")
    /\ UNCHANGED <<env, backend, stores, online, leased, base, opened, uploads, payload,
                   history, faults>>

\* Mutant: one file more than the limit of a run is tried.
StartForOneMore(a) ==
    /\ Goto(a, "idle", "upload")
    /\ online' = [online EXCEPT ![a] = TRUE]
    /\ uploads' = [uploads EXCEPT ![a] = UploadMaxFilesPerRun + 1]
    /\ UNCHANGED <<env, backend, stores, leased, base, opened, payload, history, faults>>

StartOnline(a) ==
    /\ Goto(a, "idle", "upload")
    /\ online' = [online EXCEPT ![a] = TRUE]
    /\ uploads' = [uploads EXCEPT ![a] = UploadMaxFilesPerRun]
    /\ UNCHANGED <<env, backend, stores, leased, base, opened, payload, history, faults>>

\* The backend's side of a POST (external): it keeps the events by their hash,
\* and takes the ingestion state from the holder of the lease.
Accept(a, p) ==
    /\ received' = received \cup p.events
    /\ IF p.leased /\ lease = a
       THEN known' = p.position /\ lease' = Nobody
       ELSE UNCHANGED <<known, lease>>

\* The oldest file is uploaded and deleted.
UploadOne(a) ==
    /\ pc[a] = "upload" /\ uploads[a] > 0 /\ pending[a] # <<>>
    /\ Accept(a, Head(pending[a]))
    /\ pending' = [pending EXCEPT ![a] = Tail(@)]
    /\ uploads' = [uploads EXCEPT ![a] = @ - 1]
    /\ UNCHANGED <<env, cursor, pc, online, leased, base, opened, payload, history, faults>>

\* Network error, bad status, or a file that cannot be deleted: stop.  The
\* backend may have taken the file all the same.
UploadStops(a) ==
    /\ uploads[a] > 0 /\ pending[a] # <<>>
    /\ Goto(a, "upload", "lease")
    /\ Fault
    /\ Accept(a, Head(pending[a])) \/ UNCHANGED backend
    /\ UNCHANGED <<env, stores, online, leased, base, opened, uploads, payload, history>>

UploadDone(a) ==
    /\ uploads[a] = 0 \/ pending[a] = <<>>
    /\ Goto(a, "upload", "lease")
    /\ UNCHANGED <<env, backend, stores, online, leased, base, opened, uploads, payload,
                   history, faults>>

\* acquireIngestionLease: granted, with the backend's ingestion state.
Lease(a) ==
    /\ lease \in {a, Nobody}
    /\ Goto(a, "lease", "open")
    /\ lease' = a
    /\ leased' = [leased EXCEPT ![a] = TRUE]
    /\ base' = [base EXCEPT ![a] = known]
    /\ UNCHANGED <<env, known, received, stores, online, opened, uploads, payload, history, faults>>

\* 409, another agent holds it; or an error.  The result has no log events.
NoLease(a) ==
    /\ Goto(a, "lease", "write")
    /\ \/ lease \notin {a, Nobody} /\ UNCHANGED faults
       \/ Fault
    /\ UNCHANGED <<env, backend, stores, online, leased, base, opened, uploads, payload, history>>

\* The backend lets a lease run out (external).
LeaseExpires ==
    /\ lease # Nobody
    /\ lease' = Nobody
    /\ UNCHANGED <<env, known, received, stores, run, history, faults>>

-----------------------------------------------------------------------------
(* Collect.                                                                *)

\* os.Open and Stat.
Open(a) ==
    /\ Goto(a, "open", "read")
    /\ opened' = [opened EXCEPT ![a] = file]
    /\ UNCHANGED <<env, backend, stores, online, leased, base, uploads, payload, history, faults>>

\* Where reading starts: the lease's position, or the state file's; from the
\* top if the fingerprint differs or the offset is past the size Stat saw.
Loaded(a) == IF leased[a] THEN base[a] ELSE cursor[a]

Rotated(a)   == Loaded(a).stamp \notin {0, opened[a].stamp}
Truncated(a) == ~Rotated(a) /\ Loaded(a).offset > opened[a].size

\* Mutant: only a truncated file is read from the top.
FromUnlessTruncated(a) ==
    IF Loaded(a).offset > opened[a].size THEN [Loaded(a) EXCEPT !.offset = 0, !.line = 0]
                                         ELSE Loaded(a)

\* Mutant: the line number is not reset with the offset.
FromKeepingLine(a) ==
    IF Rotated(a) \/ Truncated(a) THEN [Loaded(a) EXCEPT !.offset = 0] ELSE Loaded(a)

From(a) == IF Rotated(a) \/ Truncated(a) THEN [Loaded(a) EXCEPT !.offset = 0, !.line = 0]
                                         ELSE Loaded(a)

\* The open file may have grown since Stat; a renamed one is still readable.
Readable(a) == IF file.gen = opened[a].gen THEN file.size ELSE opened[a].size

Least(m, n) == IF m < n THEN m ELSE n

\* countingReader.count once n units of the rest were consumed.
Fetched(rest, n) == Least(rest, Buffer * ((n + Buffer - 1) \div Buffer))

\* The header is consumed first when reading starts at the top; what it
\* fetched is added to the offset and the count starts again at zero.
HeaderLength(a)  == IF From(a).offset = 0 THEN 1 ELSE 0
HeaderFetched(a) == Fetched(Readable(a) - From(a).offset, HeaderLength(a))

RowsLeft(a) == Readable(a) - From(a).offset - HeaderLength(a)
RowCount(a) == Least(MaxRows, RowsLeft(a))

\* state.LastOffset grows by the whole count for every row.
Offset(a) ==
    LET rest == Readable(a) - From(a).offset
        count(k) == Fetched(rest, HeaderLength(a) + k) - HeaderFetched(a)
        last[k \in 0..MaxRows] == IF k = 0 THEN From(a).offset + HeaderFetched(a)
                                  ELSE last[k - 1] + count(k)
    IN  last[RowCount(a)]

Collected(a) ==
    {[row |-> <<opened[a].gen, From(a).offset + HeaderLength(a) + k>>,
      line |-> From(a).line + k] : k \in 1..RowCount(a)}

\* The rows are read and the state is saved.
Read(a) ==
    LET position == [stamp |-> opened[a].stamp, offset |-> Offset(a),
                     line |-> From(a).line + RowCount(a)] IN
    /\ Readable(a) > 0
    /\ Goto(a, "read", "write")
    /\ cursor' = [cursor EXCEPT ![a] = position]
    /\ payload' = [payload EXCEPT ![a] =
          [events |-> Collected(a), leased |-> leased[a],
           position |-> IF leased[a] THEN position ELSE Start]]
    /\ taken' = taken \cup RowsOf(Collected(a))
    /\ cut' = (cut \/ RowsLeft(a) > MaxRows)
    /\ falseReset' = (falseReset \/ (Truncated(a) /\ Loaded(a).stamp = opened[a].stamp))
    /\ UNCHANGED <<env, backend, pending, online, leased, base, opened, uploads, given, faults>>

\* Nothing to read, not even a header; or an error, also of saving the state:
\* the result goes out without log events.
ReadFails(a) ==
    /\ Goto(a, "read", "write")
    /\ \/ Readable(a) = 0 /\ UNCHANGED faults
       \/ Fault
    /\ UNCHANGED <<env, backend, stores, online, leased, base, opened, uploads, payload, history>>

-----------------------------------------------------------------------------
(* WriteResults, in http mode.                                             *)

EndRun(as) ==
    /\ online' = [a \in Agents |-> a \notin as /\ online[a]]
    /\ leased' = [a \in Agents |-> a \notin as /\ leased[a]]
    /\ base' = [a \in Agents |-> IF a \in as THEN Start ELSE base[a]]
    /\ payload' = [a \in Agents |-> IF a \in as THEN Nothing ELSE payload[a]]
    /\ uploads' = [a \in Agents |-> IF a \in as THEN 0 ELSE uploads[a]]
    /\ opened' = [a \in Agents |-> IF a \in as THEN NewFile ELSE opened[a]]

PostOK(a) ==
    /\ online[a]
    /\ Goto(a, "write", "idle")
    /\ Accept(a, payload[a])
    /\ EndRun({a})
    /\ UNCHANGED <<env, stores, history, faults>>

\* Mutant: a result the backend refused is not queued.
QueueNothing(a) ==
    /\ Goto(a, "write", "idle")
    /\ Fault /\ UNCHANGED backend
    /\ EndRun({a})
    /\ UNCHANGED <<env, stores, history>>

\* Offline, or the POST is not answered with 200, whether or not the backend
\* took the result.
Queue(a) ==
    /\ Goto(a, "write", "idle")
    /\ \/ ~online[a] /\ UNCHANGED <<backend, faults>>
       \/ online[a] /\ Fault /\ (UNCHANGED backend \/ Accept(a, payload[a]))
    /\ Len(pending[a]) < PendingMaxFiles
    /\ pending' = [pending EXCEPT ![a] = Append(@, payload[a])]
    /\ EndRun({a})
    /\ UNCHANGED <<env, cursor, history>>

\* The pending directory is full or cannot be written: the agent exits, and
\* the rows its cursor has passed are gone, unless the backend took them.
QueueRefused(a) ==
    /\ Goto(a, "write", "idle")
    /\ \/ ~online[a] /\ Len(pending[a]) >= PendingMaxFiles /\ UNCHANGED <<backend, faults>>
       \/ ~online[a] /\ Fault /\ UNCHANGED backend
       \/ online[a] /\ Fault /\ (UNCHANGED backend \/ Accept(a, payload[a]))
    /\ given' = given \cup RowsOf(payload[a].events)
    /\ EndRun({a})
    /\ UNCHANGED <<env, stores, taken, cut, falseReset>>

\* The process dies anywhere in its run, also while the backend takes a POST.
Crash(a) ==
    /\ pc[a] # "idle"
    /\ Fault
    /\ \/ UNCHANGED backend
       \/ pc[a] = "write" /\ online[a] /\ Accept(a, payload[a])
       \/ pc[a] = "upload" /\ uploads[a] > 0 /\ pending[a] # <<>> /\ Accept(a, Head(pending[a]))
    /\ pc' = [pc EXCEPT ![a] = "idle"]
    /\ given' = given \cup RowsOf(payload[a].events)
    /\ EndRun({a})
    /\ UNCHANGED <<env, stores, taken, cut, falseReset>>

-----------------------------------------------------------------------------
AgentStep(a) ==
    \/ StartOffline(a) \/ StartOnline(a)
    \/ UploadOne(a) \/ UploadStops(a) \/ UploadDone(a)
    \/ Lease(a) \/ NoLease(a)
    \/ Open(a) \/ Read(a) \/ ReadFails(a)
    \/ PostOK(a) \/ Queue(a) \/ QueueRefused(a)

Next ==
    \/ AppendRow \/ Rotate \/ LeaseExpires
    \/ \E a \in Agents : AgentStep(a) \/ Crash(a)

Spec == Init /\ [][Next]_vars

-----------------------------------------------------------------------------
(* Properties.                                                             *)

Queued == UNION {UNION {RowsOf(pending[a][i].events) : i \in DOMAIN pending[a]} :
                 a \in Agents}
InHand == UNION {RowsOf(payload[a].events) : a \in Agents}

\* A row a saved cursor has passed is at the backend, in a pending file or in
\* the result being written; only a crash before the write, or a pending
\* directory that refuses the result, loses it (csvlog.go:181, output.go:108-193).
PassedRowsAreKept == taken \subseteq RowsOf(received) \cup Queued \cup InHand \cup given

\* No row is skipped: below the cursor of an unchanged file every row was
\* collected, by this agent or by the one whose position came with the lease -
\* until a read stops at MaxRows (500, or up to 5000, rows).  It then saves a
\* position that counts what the reader fetched and did not return, and the rows
\* after the last one it collected may be passed over (csvlog.go:18-24, 106-128,
\* 139-172).
NoRowBehindTheCursor ==
    cut \/ \A a \in Agents : cursor[a].stamp = file.stamp =>
               \A i \in 2..Least(cursor[a].offset, file.size) : <<file.gen, i>> \in taken

\* However often a row is collected, by whichever agent, it has one line number
\* and so one EventHash: the backend can tell it is the same event - again until
\* a read stops at MaxRows; a row after those passed over is counted too low and
\* gets another number if it is read from the top (csvlog.go:114-128, 164, 311).
OneHashPerRow ==
    cut \/ \A e1, e2 \in received : e1.row = e2.row => e1.line = e2.line

\* "Reset if file truncated" (csvlog.go:122): a file whose fingerprint did not
\* change since the cursor was saved was not truncated.
ResetOnlyIfTruncated == ~falseReset
=============================================================================
