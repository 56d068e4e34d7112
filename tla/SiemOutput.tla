----------------------------- MODULE SiemOutput -----------------------------
(***************************************************************************)
(* Output of pkg/siem/output.go: EmitFindings, Flush and Close over one    *)
(* Deduplicator and one delivery queue, in several agent processes that    *)
(* share the dedup file and the queue file.                                *)
(*                                                                         *)
(* Each call of a Deduplicator method is one step: it runs under d.mu and, *)
(* where it writes, under the dedup file lock.  Between two calls every    *)
(* other thread and process may run.  The queue is the outbox that module  *)
(* Outbox specifies, here with the order of its batches; Flush is          *)
(* serialised by its lock (DeliveryQueue).                                 *)
(*                                                                         *)
(* A run of the agent audits a system once; the next run is a new process  *)
(* that loads the dedup file again.                                        *)
(***************************************************************************)
EXTENDS Deduplicator, Sequences, FiniteSets

CONSTANTS
    Procs, Threads,  \* agent processes; their threads (audit, ticker)
    ProcOf,          \* [Threads -> Procs]
    Auditors,        \* threads that audit; the others only flush
    Invalid,         \* fingerprints whose events fail Event.Validate
    MaxSize,         \* QueueConfig.MaxSize
    MaxTime, MaxFaults, MaxRuns,   \* bounds on clock, failures and new runs
    Nobody           \* "no Flush in progress"

ASSUME OutputAssumption ==
    /\ ProcOf \in [Threads -> Procs]
    /\ Auditors \subseteq Threads /\ Invalid \subseteq Fps
    /\ {Window, MaxSize, MaxTime, MaxFaults, MaxRuns} \subseteq Nat
    /\ Nobody \notin Threads

VARIABLES
    now,
    disk,       \* the dedup persist file
    cache,      \* d.cache of each process
    audited,    \* has this run audited the system?
    queue,      \* the queue file: the batches enqueued, oldest first
    flusher,    \* the thread inside Queue.Flush
    pc,
    results,    \* an audit's control results
    events,     \* EmitFindings: allEvents, then toEmit
    batch,      \* Flush: the batch, then what it delivered or abandoned
    \* history, read by properties only
    told,       \* the statuses the SIEM was told, per fingerprint
    auth,       \* the last event Filter let through, not given back since, and
                \* not forgotten with a dedup file that was moved aside
    excused,    \* reservations cut off by a crash or a failed release, in the
                \* cache of another process when they were released, or of
                \* events in a queue file that was moved aside
    doubled,    \* let through twice within the window, status unchanged
    remediated, \* fingerprints with a remediation let through
    faults, runs

queueVars == <<queue, flusher>>
dedupVars == <<disk, cache>>
local     == <<pc, results, events, batch>>
history   == <<told, auth, excused, doubled, remediated>>
bounds    == <<now, faults, runs>>
vars      == <<bounds, dedupVars, audited, queueVars, local, history>>

Event == [fp : Fps, status : Statuses, type : EventTypes]
Pc    == {"idle", "detect", "filter", "enqueue", "unreserve",
          "send", "record", "release"}

TypeOK ==
    /\ now \in 0..MaxTime /\ faults \in 0..MaxFaults /\ runs \in 0..MaxRuns
    /\ disk \in Caches(0..MaxTime) /\ cache \in [Procs -> Caches(0..MaxTime)]
    /\ audited \in [Procs -> BOOLEAN]
    /\ queue \in Seq(SUBSET Event)
    /\ flusher \in Threads \cup {Nobody}
    /\ pc \in [Threads -> Pc]
    /\ results \in [Threads -> [Fps -> Results]]
    /\ events \in [Threads -> SUBSET Event]
    /\ batch \in [Threads -> Seq(SUBSET Event)]
    /\ told \in [Fps -> SUBSET Statuses]
    /\ auth \in Caches(0..MaxTime)
    /\ {excused, doubled, remediated} \subseteq SUBSET Fps

Init ==
    /\ now = 0 /\ faults = 0 /\ runs = 0
    /\ disk = Empty /\ cache = [p \in Procs |-> Empty]
    /\ audited = [p \in Procs |-> FALSE]
    /\ queue = <<>> /\ flusher = Nobody
    /\ pc = [t \in Threads |-> "idle"]
    /\ results = [t \in Threads |-> [fp \in Fps |-> "error"]]
    /\ events = [t \in Threads |-> {}]
    /\ batch = [t \in Threads |-> <<>>]
    /\ told = [fp \in Fps |-> {}] /\ auth = Empty
    /\ excused = {} /\ doubled = {} /\ remediated = {}

Goto(t, from, to) == pc[t] = from /\ pc' = [pc EXCEPT ![t] = to]
Fault == faults < MaxFaults /\ faults' = faults + 1 /\ UNCHANGED <<now, runs>>
FpsOf(es)         == {e.fp : e \in es}
EventsOf(batches) == UNION {batches[i] : i \in DOMAIN batches}
OwnCache(t)       == cache[ProcOf[t]]
SetCache(t, c)    == cache' = [cache EXCEPT ![ProcOf[t]] = c]

-----------------------------------------------------------------------------
(* EmitFindings.                                                           *)

\* The audit's findings, with their lifecycle from this process's cache.
Determine(t, res) ==
    LET failing == {fp \in Fps : res[fp] = "fail"} IN
    /\ t \in Auditors /\ ~audited[ProcOf[t]]
    /\ Goto(t, "idle", "detect")
    /\ audited' = [audited EXCEPT ![ProcOf[t]] = TRUE]
    /\ results' = [results EXCEPT ![t] = res]
    /\ events' = [events EXCEPT ![t] =
                     {LifecycleEvent(OwnCache(t), fp) : fp \in failing}]
    /\ UNCHANGED <<bounds, dedupVars, queueVars, batch, history>>

\* The d.mu section of DetectRemediations; nothing to emit ends the call.
Detect(t) ==
    LET all == events[t] \cup RemediationEvents(OwnCache(t), results[t], now) IN
    /\ Goto(t, "detect", IF all = {} THEN "idle" ELSE "filter")
    /\ events' = [events EXCEPT ![t] = all]
    /\ UNCHANGED <<bounds, dedupVars, audited, queueVars, results, batch, history>>

\* Filter: reload and merge, decide, reserve, prune, write.
Filter(t) ==
    LET merged == Merge(disk, OwnCache(t))
        emit   == {e \in events[t] : ShouldEmit(merged, e, now)}
        kept   == Prune(Update(merged, emit, now), now)
        same(e) == auth[e.fp] # None /\ auth[e.fp].status = e.status
    IN
    /\ Goto(t, "filter", IF emit = {} THEN "idle" ELSE "enqueue")
    /\ disk' = kept /\ SetCache(t, kept)
    /\ events' = [events EXCEPT ![t] = emit]
    /\ auth' = Update(auth, emit, now)
    /\ doubled' = doubled \cup
          FpsOf({e \in emit : same(e) /\ ~Expired(auth[e.fp], now)})
    /\ remediated' = remediated \cup FpsOf({e \in emit : e.status = "remediated"})
    /\ UNCHANGED <<bounds, audited, queueVars, results, batch, told, excused>>

\* The lock, the reload or the write fails: the whole batch is suppressed.
\* After a failed write the cache keeps the merge but no reservation.
FilterFails(t) ==
    /\ Goto(t, "filter", "idle")
    /\ Fault
    /\ \/ UNCHANGED cache
       \/ SetCache(t, Merge(disk, OwnCache(t)))
    /\ events' = [events EXCEPT ![t] = {}]
    /\ UNCHANGED <<disk, audited, queueVars, results, batch, history>>

\* Invalid events are rejected, without an error; their reservation stays.
Enqueue(t) ==
    LET valid == {e \in events[t] : e.fp \notin Invalid} IN
    /\ Cardinality(EventsOf(queue)) + Cardinality(valid) <= MaxSize
    /\ Goto(t, "enqueue", "idle")
    /\ queue' = IF valid = {} THEN queue ELSE Append(queue, valid)
    /\ events' = [events EXCEPT ![t] = {}]
    /\ UNCHANGED <<bounds, dedupVars, audited, flusher, results, batch, history>>

\* Mutant: the reservation is not released when the enqueue fails.
EnqueueFailsForgets(t) ==
    /\ Goto(t, "enqueue", "idle")
    /\ \/ /\ Cardinality(EventsOf(queue)) + Cardinality(events[t]) > MaxSize
          /\ UNCHANGED bounds
       \/ Fault
    /\ events' = [events EXCEPT ![t] = {}]
    /\ UNCHANGED <<dedupVars, audited, queueVars, results, batch, history>>

\* The queue is full, or its lock, reload or write fails.
EnqueueFails(t) ==
    /\ Goto(t, "enqueue", "unreserve")
    /\ \/ /\ Cardinality(EventsOf(queue)) + Cardinality(events[t]) > MaxSize
          /\ UNCHANGED bounds
       \/ Fault
    /\ UNCHANGED <<dedupVars, audited, queueVars, results, events, batch, history>>

-----------------------------------------------------------------------------
(* Release, for what could not be enqueued and for what was abandoned.     *)

Releasing(t) == IF pc[t] = "unreserve" THEN FpsOf(events[t])
                                       ELSE FpsOf(EventsOf(batch[t]))

Return(t) == /\ events' = [events EXCEPT ![t] = {}]
             /\ batch' = [batch EXCEPT ![t] = <<>>]

\* Entries that another process brings back with its next merge.
KeptElsewhere(t) ==
    {fp \in Fps : \E p \in Procs \ {ProcOf[t]} : cache[p][fp] # None}

Release(t, from) ==
    LET left == Prune(Forgotten(Merge(disk, OwnCache(t)), Releasing(t)), now) IN
    /\ Goto(t, from, "idle")
    /\ disk' = left /\ SetCache(t, left)
    /\ auth' = Forgotten(auth, Releasing(t))
    /\ excused' = excused \cup (Releasing(t) \cap KeptElsewhere(t))
    /\ Return(t)
    /\ UNCHANGED <<bounds, audited, queueVars, results, told, doubled, remediated>>

\* The lock or the reload fails, or the write does after the cache changed.
ReleaseFails(t, from) ==
    LET left == Prune(Forgotten(Merge(disk, OwnCache(t)), Releasing(t)), now) IN
    /\ Goto(t, from, "idle")
    /\ Fault
    /\ UNCHANGED cache \/ SetCache(t, left)
    /\ excused' = excused \cup Releasing(t)
    /\ Return(t)
    /\ UNCHANGED <<disk, audited, queueVars, results, told, auth, doubled,
                   remediated>>

-----------------------------------------------------------------------------
(* Flush.                                                                  *)

FlushStart(t) ==
    /\ flusher = Nobody /\ EventsOf(queue) # {}
    /\ Goto(t, "idle", "send")
    /\ flusher' = t
    /\ batch' = [batch EXCEPT ![t] = queue]
    /\ UNCHANGED <<bounds, dedupVars, audited, queue, results, events, history>>

\* What was enqueued since the batch was read.
Newcomers(t) == SubSeq(queue, Len(batch[t]) + 1, Len(queue))

\* The SIEM acknowledged the batch; a failed final write leaves it queued.
FlushDelivers(t) ==
    /\ Goto(t, "send", "record")
    /\ flusher' = Nobody
    /\ \/ queue' = Newcomers(t) /\ UNCHANGED bounds
       \/ Fault /\ UNCHANGED queue
    /\ told' = [fp \in Fps |-> told[fp] \cup
                  {e.status : e \in {x \in EventsOf(batch[t]) : x.fp = fp}}]
    /\ UNCHANGED <<dedupVars, audited, results, events, batch, auth, excused,
                   doubled, remediated>>

\* All stays pending: the context is done, or nothing could be dead-lettered.
\* The final write also brings back a batch whose file was moved aside.
FlushKeeps(t) ==
    /\ Goto(t, "send", "idle")
    /\ flusher' = Nobody
    /\ \/ queue' = batch[t] \o Newcomers(t) /\ UNCHANGED bounds
       \/ Fault /\ UNCHANGED queue
    /\ Return(t)
    /\ UNCHANGED <<dedupVars, audited, results, history>>

\* The batch is dead-lettered; a failed dead letter keeps some of it pending,
\* a failed lock, reload or final write all of it.
FlushAbandons(t) ==
    /\ Goto(t, "send", "release")
    /\ flusher' = Nobody
    /\ \E kept \in SUBSET EventsOf(batch[t]) :
        /\ kept # EventsOf(batch[t])
        /\ \/ /\ IF kept = {} THEN UNCHANGED bounds ELSE Fault
              /\ queue' = (IF kept = {} THEN <<>>
                           ELSE [i \in DOMAIN batch[t] |-> batch[t][i] \cap kept])
                          \o Newcomers(t)
           \/ Fault /\ UNCHANGED queue
        /\ batch' = [batch EXCEPT ![t] = [i \in DOMAIN @ |-> @[i] \ kept]]
    /\ UNCHANGED <<dedupVars, audited, results, events, history>>

\* RecordDelivered: update the cache at the current time, merge and write.
Recorded(t) ==
    LET with(fp) == {i \in DOMAIN batch[t] : fp \in FpsOf(batch[t][i])}
        last(fp) == CHOOSE i \in with(fp) : \A j \in with(fp) : j <= i
        newest   == {e \in EventsOf(batch[t]) : e \in batch[t][last(e.fp)]}
    IN  Prune(Update(OwnCache(t), newest, now), now)

Record(t) ==
    LET merged == Prune(Merge(disk, Recorded(t)), now) IN
    /\ Goto(t, "record", "idle")
    /\ disk' = merged /\ SetCache(t, merged)
    /\ Return(t)
    /\ UNCHANGED <<bounds, audited, queueVars, results, history>>

\* The lock or the reload fails, or the write does after the merge.
RecordFails(t) ==
    /\ Goto(t, "record", "idle")
    /\ Fault
    /\ \/ SetCache(t, Recorded(t))
       \/ SetCache(t, Prune(Merge(disk, Recorded(t)), now))
    /\ Return(t)
    /\ UNCHANGED <<disk, audited, queueVars, results, history>>

-----------------------------------------------------------------------------
(* The end of a run and the next one.                                      *)

OwnedBy(p) == {t \in Threads : ProcOf[t] = p}

NewRun(p) ==
    /\ runs < MaxRuns /\ runs' = runs + 1 /\ UNCHANGED now
    /\ audited' = [audited EXCEPT ![p] = FALSE]

\* Close persists the cache once more, or fails to; the next NewDeduplicator
\* loads the file.
Stop(p) ==
    LET merged == Prune(Merge(disk, cache[p]), now) IN
    /\ \A t \in OwnedBy(p) : pc[t] = "idle"
    /\ audited[p]
    /\ NewRun(p)
    /\ \/ disk' = merged /\ UNCHANGED faults
       \/ faults < MaxFaults /\ faults' = faults + 1 /\ UNCHANGED disk
    /\ cache' = [cache EXCEPT ![p] = Prune(disk', now)]
    /\ UNCHANGED <<queueVars, local, history>>

\* The process dies; the next one loads the dedup file as it is.
Crash(p) ==
    /\ \E t \in OwnedBy(p) : pc[t] # "idle"
    /\ NewRun(p)
    /\ UNCHANGED faults
    /\ cache' = [cache EXCEPT ![p] = Prune(disk, now)]
    /\ flusher' = IF flusher \in OwnedBy(p) THEN Nobody ELSE flusher
    /\ pc' = [t \in Threads |-> IF t \in OwnedBy(p) THEN "idle" ELSE pc[t]]
    /\ events' = [t \in Threads |-> IF t \in OwnedBy(p) THEN {} ELSE events[t]]
    /\ batch' = [t \in Threads |-> IF t \in OwnedBy(p) THEN <<>> ELSE batch[t]]
    /\ excused' = excused \cup UNION
          {Releasing(t) \cup FpsOf(events[t]) :
              t \in {s \in OwnedBy(p) : pc[s] \in {"enqueue", "unreserve", "release"}}}
    /\ UNCHANGED <<disk, queue, results, told, auth, doubled, remediated>>

\* A new run cannot load the queue or the dedup file: NewQueue (NewDeduplicator)
\* moves the file aside and the run ends.  A batch loses its events but keeps
\* its place, so that Newcomers stays a suffix of the queue.
StartFails ==
    /\ Fault
    /\ \/ /\ queue' = [i \in DOMAIN queue |-> {}]
          /\ excused' = excused \cup FpsOf(EventsOf(queue))
          /\ UNCHANGED <<disk, auth>>
       \/ /\ disk' = Empty /\ auth' = Empty
          /\ UNCHANGED <<queue, excused>>
    /\ UNCHANGED <<cache, audited, flusher, local, told, doubled, remediated>>

Tick ==
    /\ now < MaxTime /\ now' = now + 1
    /\ UNCHANGED <<faults, runs, dedupVars, audited, queueVars, local, history>>

-----------------------------------------------------------------------------
EmitStep(t) ==
    \/ \E res \in [Fps -> Results] : Determine(t, res)
    \/ Detect(t)
    \/ Filter(t) \/ FilterFails(t)
    \/ Enqueue(t) \/ EnqueueFails(t)
    \/ Release(t, "unreserve") \/ ReleaseFails(t, "unreserve")

FlushStep(t) ==
    \/ FlushStart(t)
    \/ FlushDelivers(t) \/ FlushKeeps(t) \/ FlushAbandons(t)
    \/ Record(t) \/ RecordFails(t)
    \/ Release(t, "release") \/ ReleaseFails(t, "release")

Next ==
    \/ \E t \in Threads : EmitStep(t) \/ FlushStep(t)
    \/ \E p \in Procs : Stop(p) \/ Crash(p)
    \/ StartFails
    \/ Tick

Spec == Init /\ [][Next]_vars

-----------------------------------------------------------------------------
(* Properties.                                                             *)

\* Events whose delivery is decided or still possible.
Alive == EventsOf(queue)
         \cup (UNION {events[t] : t \in {s \in Threads : pc[s] \in {"enqueue", "unreserve"}}})
         \cup (UNION {EventsOf(batch[t]) : t \in {s \in Threads : pc[s] = "release"}})

\* A fingerprint is suppressed only while an event of that status is on its
\* way, or the SIEM has been told: every path of EmitFindings and Flush that
\* gives an event up gives its reservation back (output.go:301-342, 347-371).
\* Excused are crashes and failed releases in between, events that are no valid
\* ones, what another process has in its cache when it is released, and events
\* whose queue file a start moved aside (queue.go:88-96).
ReservationBacked ==
    \A fp \in Fps \ (excused \cup Invalid) :
        disk[fp] # None /\ ~Expired(disk[fp], now) =>
            \/ disk[fp].status \in told[fp]
            \/ \E e \in Alive : e.fp = fp /\ e.status = disk[fp].status

\* The dedup file forgets an entry only by expiry, by a Release of it or when a
\* start that cannot load it moves it aside, and never goes back to an older
\* one: no process clobbers what another recorded (dedup.go:73-82, 318-345).
ReservationsSurvive ==
    [][\A fp \in Fps :
          disk[fp] # None /\ ~Expired(disk[fp], now) =>
              \/ disk'[fp] # None /\ disk'[fp].at >= disk[fp].at
              \/ StartFails
              \/ \E t \in Threads : /\ pc[t] \in {"unreserve", "release"}
                                    /\ pc'[t] = "idle"
                                    /\ fp \in Releasing(t)]_vars

\* Overlapping runs do not both alert on a finding that nobody has seen
\* remediated: it is let through once per window, as long as its reservation is
\* not given back or moved aside with the dedup file (dedup.go:91-99).
NoDoubleAlert == doubled \subseteq remediated
=============================================================================
