------------------------------ MODULE LogMining ------------------------------
(***************************************************************************)
(* Oracle log mining: collectConfiguredLogSources of cmd/agent/main.go,    *)
(* with the cursor store of pkg/logs/cursor_store.go and the alert-log     *)
(* parser of pkg/logs/oracle.                                              *)
(*                                                                         *)
(* Overlapping processes of one agent read the same log sources, one after *)
(* the other, and keep the cursors of all of them in one file without a    *)
(* lock: each run loads it, and saves it at its end, system call by system *)
(* call here.  Online, the cursor is the backend's, under a lease.  A log  *)
(* file grows, is replaced (rotated) or emptied in place (truncated).      *)
(*                                                                         *)
(* A line stands for a record of the alert log; it has a number, and so    *)
(* has every file of a source.  Offsets count lines.  The lease against    *)
(* other agents and the offline queue behind a failed POST are the subject *)
(* of LogIngestion.                                                        *)
(***************************************************************************)
EXTENDS Naturals

CONSTANTS
    Procs,
    SourceCount,     \* enabled sources, numbered in the order of the configuration
    MaxLines,        \* per source: lines written
    MaxChanges,      \* rotations and truncations
    MaxFaults,
    Absent, Broken   \* no file; one that is not JSON

ASSUME MiningAssumption ==
    /\ SourceCount \in Nat \ {0}
    /\ MaxLines \in [1..SourceCount -> Nat] /\ {MaxChanges, MaxFaults} \subseteq Nat
    /\ Absent # Broken
    /\ {Absent, Broken} \cap [1..SourceCount -> [file : Nat, offset : Nat]] = {}

VARIABLES
    online,
    file,        \* at the path of a source: its number, first line, length
    json, tmp,   \* cursors.json and cursors.json.tmp
    pc, source,  \* of each process
    states,      \* its cursors
    hand,        \* lines of its result
    reported,    \* the source whose cursor its result carries, 0 if none
    fd,          \* the name of the file it is writing
    backend,     \* per source: its cursor
    leased,      \* has the process still the lease of that source?
    settled,     \* history: lines that were reported, or lost with a result, or
                 \* got behind a cursor of a file that was emptied
    overlapped,  \* history: have two runs saved at once?
    changes, faults

disk   == <<json, tmp, fd, overlapped>>
result == <<hand, reported, leased>>
run    == <<pc, source, states, result>>
vars   == <<online, file, disk, run, backend, settled, changes, faults>>

Sources  == 1..SourceCount
Start    == [file |-> 1, offset |-> 0]      \* no cursor yet reads like this one
Empty    == [s \in Sources |-> Start]
Lines(s, from, to) == {<<s, file[s].first + i>> : i \in from..(to - 1)}
Written(s) == file[s].first + file[s].length

Init ==
    /\ online \in BOOLEAN
    /\ file = [s \in Sources |-> [number |-> 1, first |-> 0, length |-> 0]]
    /\ json = Absent /\ tmp = Absent /\ fd = [p \in Procs |-> "none"] /\ overlapped = FALSE
    /\ pc = [p \in Procs |-> "idle"] /\ source = [p \in Procs |-> 1]
    /\ states = [p \in Procs |-> Empty]
    /\ hand = [p \in Procs |-> {}] /\ reported = [p \in Procs |-> 0]
    /\ backend = Empty /\ leased = [p \in Procs |-> FALSE]
    /\ settled = {} /\ changes = 0 /\ faults = 0

Fault == faults < MaxFaults /\ faults' = faults + 1
Goto(p, l) == pc' = [pc EXCEPT ![p] = l]

-----------------------------------------------------------------------------
(* Oracle writes its log; logrotate or a person replaces or empties it.    *)

\* Every cursor there is for a source.
Cursors(s) ==
    {backend[s]} \cup {states[p][s] : p \in Procs}
    \cup {c[s] : c \in {json, tmp} \ {Absent, Broken}}

\* A file that was emptied and has grown up to an old cursor cannot be told
\* from the old file, and what it has below the cursor is not read.
Append(s) ==
    /\ Written(s) < MaxLines[s]
    /\ file' = [file EXCEPT ![s].length = @ + 1]
    /\ settled' = IF [file |-> file[s].number, offset |-> file[s].length + 1] \in Cursors(s)
                  THEN settled \cup Lines(s, 0, file[s].length + 1) ELSE settled
    /\ UNCHANGED <<online, disk, run, backend, changes, faults>>

\* What nobody has read of the old file is out of the agent's reach.
Change(s, number) ==
    /\ changes < MaxChanges /\ changes' = changes + 1
    /\ file[s].length > 0
    /\ file' = [file EXCEPT ![s] = [number |-> number, first |-> Written(s), length |-> 0]]
    /\ UNCHANGED <<online, disk, run, backend, settled, faults>>

Rotate(s)   == Change(s, file[s].number + 1)
Truncate(s) == Change(s, file[s].number)

-----------------------------------------------------------------------------
(* A run reads the sources.                                                *)

EndRun(p) ==
    /\ Goto(p, "idle")
    /\ hand' = [hand EXCEPT ![p] = {}] /\ reported' = [reported EXCEPT ![p] = 0]
    /\ states' = [states EXCEPT ![p] = Empty] /\ source' = [source EXCEPT ![p] = 1]
    /\ fd' = [fd EXCEPT ![p] = "none"] /\ leased' = [leased EXCEPT ![p] = FALSE]

\* processSingleDatabase logs the error and reports nothing of log mining.
\* What the cursors a run has written to disk pass is lost with it.
Abandon(p) ==
    /\ EndRun(p)
    /\ settled' = IF pc[p] \in {"rename", "post"} THEN settled \cup hand[p] ELSE settled
    /\ UNCHANGED <<online, file, json, tmp, overlapped, backend, changes>>

Load(p) ==
    /\ pc[p] = "idle" /\ json # Broken
    /\ states' = [states EXCEPT ![p] = IF json = Absent THEN Empty ELSE json]
    /\ Goto(p, "read")
    /\ UNCHANGED <<online, file, disk, source, result, backend, settled, changes, faults>>

\* The run goes on without log mining.
LoadFails(p) ==
    /\ pc[p] = "idle" /\ json = Broken
    /\ UNCHANGED vars

NextSource(p) ==
    IF source[p] < SourceCount
    THEN source' = [source EXCEPT ![p] = @ + 1] /\ UNCHANGED pc
    ELSE UNCHANGED source /\ Goto(p, "create")

\* acquireIngestionLease, online: the backend's cursor replaces the file's, and
\* an older lease is no good any more.
Lease(p, s) ==
    leased' = [q \in Procs |-> IF q = p THEN online ELSE leased[q] /\ reported[q] # s]
Cursor(p, s) == IF online THEN backend[s] ELSE states[p][s]

\* Mutant: a file is known by its path.
ResumedByPath(c, s) == IF c.offset > file[s].length THEN 0 ELSE c.offset

\* Where collectLogSource seeks to.
Resumed(c, s) ==
    IF c.file # file[s].number \/ c.offset > file[s].length THEN 0 ELSE c.offset

\* Parse reads to the end of the file.
Parsed(c, s) == Lines(s, Resumed(c, s), file[s].length)

\* The size the file had when it was opened: what is written while it is read
\* is read, and read again by the next run.  That is the only difference it
\* makes that the lease, Stat and Parse are one step here: a lease keeps its
\* cursor, and an open file that is rotated can be read to its end.
NewCursor(s) == [file |-> file[s].number, offset |-> file[s].length]

\* The result has the lines of all sources and the cursor of the last one.
Read(p) ==
    LET s == source[p]
    IN  /\ pc[p] = "read"
        /\ Lease(p, s)
        /\ hand' = [hand EXCEPT ![p] = @ \cup Parsed(Cursor(p, s), s)]
        /\ states' = [states EXCEPT ![p][s] = NewCursor(s)]
        /\ reported' = [reported EXCEPT ![p] = s]
        /\ NextSource(p)
        /\ UNCHANGED <<online, file, disk, backend, settled, changes, faults>>

\* 409: another agent holds the lease.
SkipSource(p) ==
    /\ pc[p] = "read" /\ online /\ Fault
    /\ NextSource(p)
    /\ UNCHANGED <<online, file, disk, states, result, backend, settled, changes>>

\* Mutant: what was read of the earlier sources is saved, and not reported.
ReadFailsSaving(p) ==
    /\ pc[p] = "read" /\ Fault /\ Goto(p, "create")
    /\ hand' = [hand EXCEPT ![p] = {}] /\ reported' = [reported EXCEPT ![p] = 0]
    /\ UNCHANGED <<online, file, disk, source, states, leased, backend, settled, changes>>

\* The lease request fails, or the file cannot be opened or has a line of more
\* than 1 MiB.
ReadFails(p) == pc[p] = "read" /\ Fault /\ Abandon(p)

-----------------------------------------------------------------------------
(* It saves the cursors: WriteFile is open and write, then Rename.         *)

Overlaps(p) == overlapped' = (overlapped \/ \E q \in Procs \ {p} : fd[q] # "none")

\* Mutant: the file is written in place.
CreateInPlace(p) ==
    /\ pc[p] = "create"
    /\ json' = Broken /\ fd' = [fd EXCEPT ![p] = "json"]
    /\ Overlaps(p) /\ Goto(p, "write")
    /\ UNCHANGED <<online, file, tmp, source, states, result, backend, settled, changes, faults>>

Create(p) ==
    /\ pc[p] = "create"
    /\ tmp' = Broken /\ fd' = [fd EXCEPT ![p] = "tmp"]      \* O_TRUNC: no bytes yet
    /\ Overlaps(p) /\ Goto(p, "write")
    /\ UNCHANGED <<online, file, json, source, states, result, backend, settled, changes, faults>>

\* Over what another process wrote into the same file, a shorter text leaves
\* the rest of the longer.
Text(old, new) == IF old \in {Absent, Broken} THEN {new} ELSE {new, Broken}

Write(p) ==
    /\ pc[p] = "write"
    /\ CASE fd[p] = "tmp"  -> tmp' \in Text(tmp, states[p]) /\ UNCHANGED json
         [] fd[p] = "json" -> json' \in Text(json, states[p]) /\ UNCHANGED tmp
         [] OTHER          -> UNCHANGED <<json, tmp>>
    /\ Goto(p, "rename")
    /\ UNCHANGED <<online, file, fd, overlapped, source, states, result, backend, settled, changes, faults>>

\* A name that is replaced leaves those that write the old file without one.
Rename(p) ==
    /\ pc[p] = "rename" /\ tmp # Absent
    /\ json' = tmp /\ tmp' = Absent
    /\ fd' = [q \in Procs |->
          IF q = p THEN "none"
          ELSE IF fd[q] = "tmp" THEN "json" ELSE IF fd[q] = "json" THEN "gone" ELSE fd[q]]
    /\ Goto(p, "post")
    /\ UNCHANGED <<online, file, overlapped, source, states, result, backend, settled, changes, faults>>

\* Another process has renamed the file away.
RenameFails(p) == pc[p] = "rename" /\ tmp = Absent /\ Abandon(p) /\ UNCHANGED faults

SaveFails(p) == pc[p] \in {"create", "write"} /\ Fault /\ Abandon(p)

-----------------------------------------------------------------------------
(* And posts the result.                                                   *)

Accept(p) ==
    LET s == reported[p]
    IN  backend' = IF leased[p]
                   THEN [backend EXCEPT ![s] = states[p][s]] ELSE backend

Post(p) ==
    /\ pc[p] = "post"
    /\ EndRun(p) /\ settled' = settled \cup hand[p]
    /\ Accept(p)
    /\ UNCHANGED <<online, file, json, tmp, overlapped, changes, faults>>

\* The process dies, or neither the backend nor the offline queue takes it.
Crash(p) == pc[p] # "idle" /\ Fault /\ Abandon(p)

Step(p) ==
    \/ Load(p) \/ LoadFails(p) \/ Read(p)
    \/ Create(p) \/ Write(p) \/ Rename(p) \/ RenameFails(p) \/ Post(p)

Next ==
    \/ \E s \in Sources : Append(s) \/ Rotate(s) \/ Truncate(s)
    \/ \E p \in Procs : Step(p) \/ SkipSource(p) \/ ReadFails(p) \/ SaveFails(p) \/ Crash(p)

Spec == Init /\ [][Next]_vars

\* Runs start again and again, and a run goes on.
FairSpec == Spec /\ \A p \in Procs : WF_vars(Step(p))

-----------------------------------------------------------------------------
(* Properties.                                                             *)

Passed(s, c) ==
    IF c.file = file[s].number /\ c.offset <= file[s].length THEN Lines(s, 0, c.offset) ELSE {}

\* What a saved cursor has passed is in a delivered result or in the hands of
\* a run, but for the lines of a run that came to its end between the write of
\* its cursors and its POST, and for those a file that was emptied got behind
\* the old offset.  A source that fails, a save that fails, an older run that
\* saves last, a file that grows while it is read lose nothing
\* (cmd/agent/main.go:669-687, pkg/logs/cursor_store.go:53-83).
PassedLinesAreReported ==
    \A s \in Sources :
       \A c \in {backend[s]} \cup {j[s] : j \in {json} \ {Absent, Broken}} :
          Passed(s, c) \subseteq settled \cup UNION {hand[p] : p \in Procs}

\* Save writes "the cursor state map to disk atomically": the file another run
\* loads is whole, wherever a run dies, unless two runs were saving at once
\* (pkg/logs/cursor_store.go:52-83).
WholeUnlessOverlapped == json = Broken => overlapped

\* In the end, if the cursor file can be read, every line of a file that is
\* still there has been reported, but for the same two exceptions.  A run comes
\* to its end between the write of its cursors and its POST when it dies, or when
\* an overlapping run has renamed the file it wrote away, with its cursors or
\* with others: those lines may never be reported.  A source that failed before
\* or after it, a failed read, a rotation and an overlapping run whose save
\* succeeds keep no line from being read again (cmd/agent/main.go:605-687).
LinesAreReported ==
    <>[](json = Broken \/
         \A s \in Sources : Lines(s, 0, file[s].length) \subseteq settled)
=============================================================================
