---------------------------- MODULE DeliveryQueue ----------------------------
(***************************************************************************)
(* The durable SIEM delivery queue of pkg/siem/queue.go, shared by several *)
(* agent processes through one persist file.                               *)
(*                                                                         *)
(* An agent process has one Queue object and several threads that call it: *)
(* the audit loop (Enqueue, the end-of-run Flush) and the periodic flusher *)
(* of output.go (Flush).  Two advisory lock files serialise them: the      *)
(* persist lock around every access to the persist file, and the flush     *)
(* lock around a whole Flush.  q.mu only guards short sections that take   *)
(* no other lock, so each of those sections is one step.                   *)
(*                                                                         *)
(* Data abstraction: an event is an identity (its delivery id); the        *)
(* persist file is the set of events it holds (the order of its lines is   *)
(* left out); the lock file is the thread that created it.                 *)
(***************************************************************************)
EXTENDS Naturals, FiniteSets

CONSTANTS
    Procs,          \* agent processes sharing one persist path
    Threads,        \* their threads
    ProcOf,         \* [Threads -> Procs]
    Events,         \* events the audit may hand to Enqueue
    Invalid,        \* those that fail Event.Validate
    Oversize,       \* those whose JSON line exceeds bufio.Scanner's 64 KiB
    MaxSize,        \* QueueConfig.MaxSize
    RetryMax,       \* QueueConfig.RetryMax
    HasDeadLetter,  \* is a dead-letter file configured?
    AtomicReclaim,  \* TRUE: no other process acts between the staleness
                    \* check of acquireFileLock and its os.Remove
    MaxCrashes,     \* bound on process crashes
    MaxFaults,      \* bound on lock timeouts, failed loads and writes, cancelled sends
    Free,           \* "no lock file"
    Orphan          \* "a lock file left behind by a crashed process"

ASSUME ConfigAssumption ==
    /\ ProcOf \in [Threads -> Procs]
    /\ Invalid \subseteq Events /\ Oversize \subseteq Events
    /\ MaxSize \in Nat /\ RetryMax \in Nat
    /\ MaxCrashes \in Nat /\ MaxFaults \in Nat
    /\ HasDeadLetter \in BOOLEAN /\ AtomicReclaim \in BOOLEAN
    /\ Free \notin Threads /\ Orphan \notin Threads /\ Free # Orphan

ASSUME FiniteAssumption == IsFiniteSet(Events)

VARIABLES
    disk,           \* events in the persist file
    quarantined,    \* events in the .corrupt files starts have moved aside
    pending,        \* q.pending of each process
    closed,         \* q.closed of each process
    up,             \* "up", "down" or "moving" (NewQueue found a bad file)
    persistLock,    \* owner of the persist file's .lock
    flushLock,      \* owner of the .flush.lock
    pc,             \* where each thread is
    sawStale,       \* thread judged a lock stale and has yet to remove it
    work,           \* Enqueue's valid events, or Flush's batch
    snap,           \* the persist file as last reloaded (current / onDisk)
    remaining,      \* Flush's still-pending part of the batch
    attempt,        \* deliverWithRetry's loop counter
    \* history, read by properties only (sent, dead: what the outside has)
    fresh,          \* events no Enqueue call has been given yet
    accepted,       \* events an Enqueue has durably persisted
    sent,           \* times a Send that contained the event returned nil
    dead,           \* events in the dead-letter file
    unsaved,        \* events of a Flush whose outcome was never persisted
    crashes, faults

shared   == <<disk, quarantined, persistLock, flushLock>>
memory   == <<pending, closed, up>>
local    == <<pc, sawStale, work, snap, remaining, attempt>>
history  == <<fresh, accepted, sent, dead, unsaved>>
vars     == <<shared, memory, local, history, crashes, faults>>

EnqueuePc == {"enqLock", "enqLoad", "enqWrite", "enqUnlock"}
FlushPc   == {"batchLock", "batchLoad", "batchUnlock", "publish", "send",
              "finLock", "finLoad", "finWrite", "finUnlock", "flushUnlock"}
Pc        == {"down", "idle", "flushLock"} \cup EnqueuePc \cup FlushPc

HoldsPersist(t) == pc[t] \in {"enqLoad", "enqWrite", "enqUnlock", "batchLoad",
                              "batchUnlock", "finLoad", "finWrite", "finUnlock"}
HoldsFlush(t)   == pc[t] \in FlushPc

Delivered == {e \in Events : sent[e] > 0}

\* The outcome of t's batch is known to the outside but not yet on disk.
Undecided(t) == pc[t] \in {"finLock", "finLoad", "finWrite"}

TypeOK ==
    /\ disk \subseteq Events /\ quarantined \subseteq Events
    /\ pending \in [Procs -> SUBSET Events]
    /\ closed \in [Procs -> BOOLEAN]
    /\ up \in [Procs -> {"up", "down", "moving"}]
    /\ persistLock \in Threads \cup {Free, Orphan}
    /\ flushLock \in Threads \cup {Free, Orphan}
    /\ pc \in [Threads -> Pc]
    /\ sawStale \in [Threads -> BOOLEAN]
    /\ work \in [Threads -> SUBSET Events]
    /\ snap \in [Threads -> SUBSET Events]
    /\ remaining \in [Threads -> SUBSET Events]
    /\ attempt \in [Threads -> 0..RetryMax]
    /\ fresh \subseteq Events /\ accepted \subseteq Events
    /\ sent \in [Events -> Nat]
    /\ dead \subseteq Events /\ unsaved \subseteq Events
    /\ crashes \in 0..MaxCrashes /\ faults \in 0..MaxFaults

Init ==
    /\ disk = {} /\ quarantined = {}
    /\ pending = [p \in Procs |-> {}]
    /\ closed = [p \in Procs |-> FALSE]
    /\ up = [p \in Procs |-> "up"]
    /\ persistLock = Free /\ flushLock = Free
    /\ pc = [t \in Threads |-> "idle"]
    /\ sawStale = [t \in Threads |-> FALSE]
    /\ work = [t \in Threads |-> {}]
    /\ snap = [t \in Threads |-> {}]
    /\ remaining = [t \in Threads |-> {}]
    /\ attempt = [t \in Threads |-> 0]
    /\ fresh = Events /\ accepted = {}
    /\ sent = [e \in Events |-> 0]
    /\ dead = {} /\ unsaved = {}
    /\ crashes = 0 /\ faults = 0

Goto(t, from, to) == pc[t] = from /\ pc' = [pc EXCEPT ![t] = to]

Fault == faults < MaxFaults /\ faults' = faults + 1

\* The call returns: its local variables are gone.
Forget(ts) ==
    /\ work' = [t \in Threads |-> IF t \in ts THEN {} ELSE work[t]]
    /\ snap' = [t \in Threads |-> IF t \in ts THEN {} ELSE snap[t]]
    /\ remaining' = [t \in Threads |-> IF t \in ts THEN {} ELSE remaining[t]]
    /\ attempt' = [t \in Threads |-> IF t \in ts THEN 0 ELSE attempt[t]]

\* loadPersistedEvents: it fails for good on a line the scanner's buffer cannot
\* hold, and may fail on any open, read or unmarshal error.
Loads(events)     == events \cap Oversize = {} /\ UNCHANGED faults
LoadFails(events) == \/ events \cap Oversize # {} /\ UNCHANGED faults
                     \/ Fault

-----------------------------------------------------------------------------
(* acquireFileLock, for a thread waiting at pc "from".                     *)

AcquirePersist(t, from, to) ==
    /\ ~sawStale[t]
    /\ persistLock = Free
    /\ persistLock' = t
    /\ Goto(t, from, to)
    /\ UNCHANGED <<disk, quarantined, flushLock, memory, sawStale, work, snap,
                   remaining, attempt, history, crashes, faults>>

\* Mutant: the exclusive create of the flush lock does not exclude.
AcquireFlushAnyway(t) ==
    /\ ~sawStale[t]
    /\ flushLock' = t
    /\ Goto(t, "flushLock", "batchLock")
    /\ UNCHANGED <<disk, quarantined, persistLock, memory, sawStale, work, snap,
                   remaining, attempt, history, crashes, faults>>

AcquireFlush(t) ==
    /\ ~sawStale[t]
    /\ flushLock = Free
    /\ flushLock' = t
    /\ Goto(t, "flushLock", "batchLock")
    /\ UNCHANGED <<disk, quarantined, persistLock, memory, sawStale, work, snap,
                   remaining, attempt, history, crashes, faults>>

WantsPersist(t) == pc[t] \in {"enqLock", "batchLock", "finLock"}
WantsFlush(t)   == pc[t] = "flushLock"

\* The lock file is older than staleLockAfter: only a crashed process leaves
\* one that long (filelock.go:10-15).  With AtomicReclaim it goes at once.
SeeStale(t) ==
    /\ ~sawStale[t]
    /\ \/ WantsPersist(t) /\ persistLock = Orphan
       \/ WantsFlush(t) /\ flushLock = Orphan
    /\ IF AtomicReclaim
       THEN /\ IF WantsFlush(t)
               THEN flushLock' = Free /\ UNCHANGED persistLock
               ELSE persistLock' = Free /\ UNCHANGED flushLock
            /\ UNCHANGED sawStale
       ELSE /\ sawStale' = [sawStale EXCEPT ![t] = TRUE]
            /\ UNCHANGED <<persistLock, flushLock>>
    /\ UNCHANGED <<disk, quarantined, memory, pc, work, snap, remaining,
                   attempt, history, crashes, faults>>

\* os.Remove of the lock path: it removes whatever file is there by now.
RemoveStale(t) ==
    /\ sawStale[t]
    /\ sawStale' = [sawStale EXCEPT ![t] = FALSE]
    /\ IF WantsFlush(t)
       THEN flushLock' = Free /\ UNCHANGED persistLock
       ELSE persistLock' = Free /\ UNCHANGED flushLock
    /\ UNCHANGED <<disk, quarantined, memory, pc, work, snap, remaining,
                   attempt, history, crashes, faults>>

\* lockAcquireTimeout passed while another lock file was there.
LockTimeout(t, from, to, lock) ==
    /\ ~sawStale[t]
    /\ lock # Free
    /\ Fault
    /\ Goto(t, from, to)
    /\ UNCHANGED <<shared, memory, sawStale, crashes>>

-----------------------------------------------------------------------------
(* Enqueue.                                                                *)

\* The first closed check, and validation: invalid events go to the
\* dead-letter file (or are dropped when there is none or the write fails).
EnqueueCall(t, events) ==
    /\ Goto(t, "idle", "enqLock")
    /\ ~closed[ProcOf[t]]
    /\ fresh' = fresh \ events
    /\ work' = [work EXCEPT ![t] = events \ Invalid]
    /\ IF HasDeadLetter
       THEN \/ dead' = dead \cup (events \cap Invalid) /\ UNCHANGED faults
            \/ events \cap Invalid # {} /\ Fault /\ UNCHANGED dead
       ELSE UNCHANGED <<dead, faults>>
    /\ UNCHANGED <<shared, memory, sawStale, snap, remaining, attempt,
                   accepted, sent, unsaved, crashes>>

EnqueueTimeout(t) ==
    /\ LockTimeout(t, "enqLock", "idle", persistLock)
    /\ Forget({t})
    /\ UNCHANGED history

\* Mutant: the queue-full check counts q.pending, not the reloaded file.
EnqueueLoadCountsMemory(t) ==
    /\ LET room == Cardinality(pending[ProcOf[t]]) + Cardinality(work[t]) <= MaxSize
       IN \/ Loads(disk) /\ Goto(t, "enqLoad", IF room THEN "enqWrite" ELSE "enqUnlock")
          \/ LoadFails(disk) /\ Goto(t, "enqLoad", "enqUnlock")
    /\ snap' = [snap EXCEPT ![t] = disk]
    /\ UNCHANGED <<shared, memory, sawStale, work, remaining, attempt,
                   history, crashes>>

\* Reload the persist file, and the queue-full check.
EnqueueLoad(t) ==
    /\ LET room == Cardinality(disk) + Cardinality(work[t]) <= MaxSize
       IN \/ Loads(disk) /\ Goto(t, "enqLoad", IF room THEN "enqWrite" ELSE "enqUnlock")
          \/ LoadFails(disk) /\ Goto(t, "enqLoad", "enqUnlock")
    /\ snap' = [snap EXCEPT ![t] = disk]
    /\ UNCHANGED <<shared, memory, sawStale, work, remaining, attempt,
                   history, crashes>>

\* Under q.mu: the second closed check, q.pending = merged, persist.
EnqueueWrite(t) ==
    LET p == ProcOf[t]  merged == snap[t] \cup work[t] IN
    /\ ~closed[p]
    /\ Goto(t, "enqWrite", "enqUnlock")
    /\ disk' = merged
    /\ pending' = [pending EXCEPT ![p] = merged]
    /\ accepted' = accepted \cup work[t]
    /\ UNCHANGED <<quarantined, persistLock, flushLock, closed, up, sawStale,
                   work, snap, remaining, attempt, fresh, sent, dead, unsaved,
                   crashes, faults>>

\* The queue was closed meanwhile, or persist failed and was rolled back.
EnqueueRefuse(t) ==
    /\ Goto(t, "enqWrite", "enqUnlock")
    /\ \/ closed[ProcOf[t]] /\ UNCHANGED faults
       \/ Fault
    /\ UNCHANGED <<shared, memory, sawStale, work, snap, remaining, attempt,
                   history, crashes>>

\* Every return of Enqueue past the lock runs the deferred release.
EnqueueUnlock(t) ==
    /\ Goto(t, "enqUnlock", "idle")
    /\ persistLock' = Free
    /\ Forget({t})
    /\ UNCHANGED <<disk, quarantined, flushLock, memory, sawStale, history,
                   crashes, faults>>

-----------------------------------------------------------------------------
(* Flush.                                                                  *)

FlushCall(t) ==
    /\ Goto(t, "idle", "flushLock")
    /\ UNCHANGED <<shared, memory, sawStale, work, snap, remaining, attempt,
                   history, crashes, faults>>

\* Close: mark the queue closed, then a final Flush.
CloseCall(t) ==
    /\ ~closed[ProcOf[t]]
    /\ Goto(t, "idle", "flushLock")
    /\ closed' = [closed EXCEPT ![ProcOf[t]] = TRUE]
    /\ UNCHANGED <<shared, pending, up, sawStale, work, snap, remaining,
                   attempt, history, crashes, faults>>

FlushTimeout(t) ==
    /\ LockTimeout(t, "flushLock", "idle", flushLock)
    /\ UNCHANGED <<work, snap, remaining, attempt, history>>

\* Mutant: the flush lock is not released on this return.
BatchTimeoutKeepsLock(t) ==
    /\ LockTimeout(t, "batchLock", "idle", persistLock)
    /\ UNCHANGED <<work, snap, remaining, attempt, history>>

BatchTimeout(t) ==
    /\ LockTimeout(t, "batchLock", "flushUnlock", persistLock)
    /\ UNCHANGED <<work, snap, remaining, attempt, history>>

\* Read the batch, then drop the persist lock and look at the read's error.
BatchLoad(t) ==
    /\ Goto(t, "batchLoad", "batchUnlock")
    /\ snap' = [snap EXCEPT ![t] = disk]
    /\ UNCHANGED <<shared, memory, sawStale, work, remaining, attempt,
                   history, crashes, faults>>

BatchUnlock(t) ==
    /\ \/ Loads(snap[t]) /\ Goto(t, "batchUnlock", "publish")
       \/ LoadFails(snap[t]) /\ Goto(t, "batchUnlock", "flushUnlock")
    /\ persistLock' = Free
    /\ UNCHANGED <<disk, quarantined, flushLock, memory, sawStale, work, snap,
                   remaining, attempt, history, crashes>>

\* q.pending = batch; an empty batch ends the Flush.
Publish(t) ==
    /\ Goto(t, "publish", IF snap[t] = {} THEN "flushUnlock" ELSE "send")
    /\ pending' = [pending EXCEPT ![ProcOf[t]] = snap[t]]
    /\ work' = [work EXCEPT ![t] = snap[t]]
    /\ UNCHANGED <<shared, closed, up, sawStale, snap, remaining, attempt,
                   history, crashes, faults>>

\* deliverWithRetry: Send returned nil.
SendOK(t) ==
    /\ Goto(t, "send", "finLock")
    /\ sent' = [e \in Events |-> IF e \in work[t] THEN sent[e] + 1 ELSE sent[e]]
    /\ remaining' = [remaining EXCEPT ![t] = {}]
    /\ UNCHANGED <<shared, memory, sawStale, work, snap, attempt,
                   fresh, accepted, dead, unsaved, crashes, faults>>

\* Mutant: nothing is left pending when the context is done.
SendCancelledDrops(t) ==
    /\ Fault
    /\ Goto(t, "send", "finLock")
    /\ remaining' = [remaining EXCEPT ![t] = {}]
    /\ UNCHANGED <<shared, memory, sawStale, work, snap, attempt, history,
                   crashes>>

\* The context is done, before, during or after an attempt: all stay pending.
SendCancelled(t) ==
    /\ Fault
    /\ Goto(t, "send", "finLock")
    /\ remaining' = [remaining EXCEPT ![t] = work[t]]
    /\ UNCHANGED <<shared, memory, sawStale, work, snap, attempt, history,
                   crashes>>

\* A retryable error with attempts left: back off and go round the loop.
SendRetry(t) ==
    /\ pc[t] = "send"
    /\ attempt[t] < RetryMax
    /\ attempt' = [attempt EXCEPT ![t] = @ + 1]
    /\ UNCHANGED <<shared, memory, pc, sawStale, work, snap, remaining,
                   history, crashes, faults>>

\* Mutant: what could not be dead-lettered is dropped.
SendAbandonDrops(t) ==
    /\ Goto(t, "send", "finLock")
    /\ \E kept \in SUBSET work[t] :
        /\ dead' = dead \cup (work[t] \ kept)
        /\ remaining' = [remaining EXCEPT ![t] = {}]
        /\ IF ~HasDeadLetter THEN kept = work[t] /\ UNCHANGED faults
           ELSE IF kept = {} THEN UNCHANGED faults ELSE Fault
    /\ UNCHANGED <<shared, memory, sawStale, work, snap, attempt,
                   fresh, accepted, sent, unsaved, crashes>>

\* A permanent error, or the last retryable one: sendToDeadLetter.  Events
\* whose write failed, or all without a dead-letter file, stay pending.
SendAbandon(t) ==
    /\ Goto(t, "send", "finLock")
    /\ \E kept \in SUBSET work[t] :
        /\ dead' = dead \cup (work[t] \ kept)
        /\ remaining' = [remaining EXCEPT ![t] = kept]
        /\ IF ~HasDeadLetter THEN kept = work[t] /\ UNCHANGED faults
           ELSE IF kept = {} THEN UNCHANGED faults ELSE Fault
    /\ UNCHANGED <<shared, memory, sawStale, work, snap, attempt,
                   fresh, accepted, sent, unsaved, crashes>>

\* The second acquireFileLock timed out: the outcome is returned, not saved.
FinLockTimeout(t) ==
    /\ LockTimeout(t, "finLock", "flushUnlock", persistLock)
    /\ unsaved' = unsaved \cup work[t]
    /\ UNCHANGED <<work, snap, remaining, attempt, fresh, accepted, sent, dead>>

\* Reload before the final write.
FinLoad(t) ==
    /\ \/ /\ Loads(disk)
          /\ Goto(t, "finLoad", "finWrite")
          /\ UNCHANGED unsaved
       \/ /\ LoadFails(disk)
          /\ Goto(t, "finLoad", "finUnlock")
          /\ unsaved' = unsaved \cup work[t]
    /\ snap' = [snap EXCEPT ![t] = disk]
    /\ UNCHANGED <<shared, memory, sawStale, work, remaining, attempt,
                   fresh, accepted, sent, dead, crashes>>

\* Mutants: only the remaining events are written; the reloaded file is
\* written back with the delivered batch still in it.
FinalForgetsNewcomers(t) == remaining[t]
FinalKeepsBatch(t)       == remaining[t] \cup snap[t]

\* remaining, then what was enqueued since the batch was read.
Final(t) == remaining[t] \cup (snap[t] \ work[t])

FinWrite(t) ==
    /\ Goto(t, "finWrite", "finUnlock")
    /\ pending' = [pending EXCEPT ![ProcOf[t]] = Final(t)]
    /\ \/ disk' = Final(t) /\ UNCHANGED <<unsaved, faults>>
       \/ Fault /\ unsaved' = unsaved \cup work[t] /\ UNCHANGED disk
    /\ UNCHANGED <<quarantined, persistLock, flushLock, closed, up, sawStale,
                   work, snap, remaining, attempt, fresh, accepted, sent, dead,
                   crashes>>

\* The deferred releases: the persist lock first, then the flush lock.
FinUnlock(t) ==
    /\ Goto(t, "finUnlock", "flushUnlock")
    /\ persistLock' = Free
    /\ UNCHANGED <<disk, quarantined, flushLock, memory, sawStale, work, snap,
                   remaining, attempt, history, crashes, faults>>

FlushUnlock(t) ==
    /\ Goto(t, "flushUnlock", "idle")
    /\ flushLock' = Free
    /\ Forget({t})
    /\ UNCHANGED <<disk, quarantined, persistLock, memory, sawStale, history,
                   crashes, faults>>

-----------------------------------------------------------------------------
(* The process dies; a later run starts again with NewQueue.               *)

OwnedBy(p) == {t \in Threads : ProcOf[t] = p}

Crash(p) ==
    /\ up[p] # "down"
    /\ crashes < MaxCrashes /\ crashes' = crashes + 1
    /\ up' = [up EXCEPT ![p] = "down"]
    /\ pending' = [pending EXCEPT ![p] = {}]
    /\ closed' = [closed EXCEPT ![p] = FALSE]
    /\ persistLock' = IF persistLock \in OwnedBy(p) THEN Orphan ELSE persistLock
    /\ flushLock' = IF flushLock \in OwnedBy(p) THEN Orphan ELSE flushLock
    /\ pc' = [t \in Threads |-> IF t \in OwnedBy(p) THEN "down" ELSE pc[t]]
    /\ sawStale' = [t \in Threads |-> t \notin OwnedBy(p) /\ sawStale[t]]
    /\ unsaved' = unsaved \cup
          UNION {work[t] : t \in {s \in OwnedBy(p) : Undecided(s)}}
    /\ Forget(OwnedBy(p))
    /\ UNCHANGED <<disk, quarantined, fresh, accepted, sent, dead, faults>>

\* NewQueue: load under the persist lock (reclaimed if orphaned), release it.
NewQueue(p) ==
    /\ up[p] = "down"
    /\ persistLock \in {Free, Orphan}
    /\ persistLock' = Free
    /\ \/ /\ Loads(disk)
          /\ up' = [up EXCEPT ![p] = "up"]
          /\ pending' = [pending EXCEPT ![p] = disk]
          /\ pc' = [t \in Threads |-> IF t \in OwnedBy(p) THEN "idle" ELSE pc[t]]
       \/ /\ LoadFails(disk)
          /\ up' = [up EXCEPT ![p] = "moving"]
          /\ UNCHANGED <<pending, pc>>
    /\ UNCHANGED <<disk, quarantined, flushLock, closed, sawStale, work, snap,
                   remaining, attempt, history, crashes>>

\* The load failed: with the lock already released, the persist file as it is
\* by now is renamed aside, or even that fails; NewQueue returns an error
\* either way, which ends the process.
QuarantineFile(p) ==
    /\ up[p] = "moving"
    /\ up' = [up EXCEPT ![p] = "down"]
    /\ \/ quarantined' = quarantined \cup disk /\ disk' = {} /\ UNCHANGED faults
       \/ Fault /\ UNCHANGED <<disk, quarantined>>
    /\ UNCHANGED <<persistLock, flushLock, pending, closed, local, history,
                   crashes>>

-----------------------------------------------------------------------------
EnqueueStep(t) ==
    \/ AcquirePersist(t, "enqLock", "enqLoad")
    \/ EnqueueTimeout(t)
    \/ EnqueueLoad(t)
    \/ EnqueueWrite(t)
    \/ EnqueueRefuse(t)
    \/ EnqueueUnlock(t)

SnapshotStep(t) ==
    \/ AcquireFlush(t)
    \/ FlushTimeout(t)
    \/ AcquirePersist(t, "batchLock", "batchLoad")
    \/ BatchTimeout(t)
    \/ BatchLoad(t)
    \/ BatchUnlock(t)
    \/ Publish(t)

DeliverStep(t) ==
    \/ SendOK(t)
    \/ SendCancelled(t)
    \/ SendRetry(t)
    \/ SendAbandon(t)

FinishStep(t) ==
    \/ AcquirePersist(t, "finLock", "finLoad")
    \/ FinLockTimeout(t)
    \/ FinLoad(t)
    \/ FinWrite(t)
    \/ FinUnlock(t)
    \/ FlushUnlock(t)

Call(t) ==
    \/ \E events \in SUBSET fresh : events # {} /\ EnqueueCall(t, events)
    \/ FlushCall(t)
    \/ CloseCall(t)

Next ==
    \/ \E t \in Threads :
        \/ Call(t)
        \/ EnqueueStep(t)
        \/ SnapshotStep(t)
        \/ DeliverStep(t)
        \/ FinishStep(t)
        \/ SeeStale(t)
        \/ RemoveStale(t)
    \/ \E p \in Procs : Crash(p) \/ NewQueue(p) \/ QuarantineFile(p)

Spec == Init /\ [][Next]_vars

-----------------------------------------------------------------------------
(* Properties.                                                             *)

\* An event Enqueue persisted is never lost, whatever threads, crashes,
\* failed writes and lock timeouts do: it is in the persist file, or the SIEM
\* acknowledged it, or it is in the dead-letter file or in a file NewQueue
\* moved aside (queue.go:144-151, 263-268: both writers reload under the lock).
NoAcceptedEventLost ==
    accepted \subseteq disk \cup Delivered \cup dead \cup quarantined

\* The flush lock serialises Flush: no two threads are between reading a batch
\* and saving its outcome (queue.go:219-222).
FlushSerialised ==
    \A t1, t2 \in Threads : HoldsFlush(t1) /\ HoldsFlush(t2) => t1 = t2

\* An event is handed over twice (acknowledged twice, or acknowledged and
\* dead-lettered) only if a Flush that had handed it over could not save that
\* outcome: a crash, or an error return of the final step (queue.go:274-308).
RedeliveryNeedsUnsavedOutcome ==
    \A e \in Events \ Invalid :
        sent[e] > 1 \/ (sent[e] > 0 /\ e \in dead) => e \in unsaved

\* The persist file never holds more than MaxSize events, although enqueues
\* land while a batch is in flight (queue.go:171, 298).  Not counted is what a
\* starting process moved aside (queue.go:88-91) and a Flush that had it in
\* its batch wrote back: enqueues may have filled the new file meanwhile.
CapacityRespected == Cardinality(disk \ quarantined) <= MaxSize

\* Without a dead-letter file an event stays queued until the SIEM acknowledged
\* it: retries run out and it is simply kept ("to avoid silent loss",
\* queue.go:407-416).  The one way out is the file a start moved aside because
\* it could not load it (queue.go:87-96).
KeptUntilAcknowledged ==
    HasDeadLetter \/ accepted \subseteq disk \cup Delivered \cup quarantined

\* An event that left the persist file in a step was handed over before.
LeavesOnlyWhenHandedOver ==
    [][disk \ disk' \subseteq Delivered \cup dead \cup quarantined']_vars

\* The queue implements the abstract outbox: the persist file is its queue,
\* every write is an Accept or a Remove, nothing is removed that was not handed
\* over, and the only other way out is the file as a whole, moved aside by a
\* start that could not load it (queue.go:76-317 as a whole).
Abstract == INSTANCE Outbox WITH
    Capacity <- MaxSize, queued <- disk, aside <- quarantined,
    delivered <- Delivered, buried <- dead

ImplementsOutbox == Abstract!Spec

-----------------------------------------------------------------------------
(* Liveness: a thread that has started a call finishes it (the scheduler),  *)
(* polling a free lock succeeds in the end, the periodic flusher calls      *)
(* Flush again and again, and the agent is run again after a crash.         *)

Work(t) == EnqueueStep(t) \/ SnapshotStep(t) \/ DeliverStep(t)
           \/ FinishStep(t) \/ SeeStale(t) \/ RemoveStale(t)

Fairness ==
    /\ \A t \in Threads : SF_vars(Work(t)) /\ WF_vars(FlushCall(t))
    /\ \A p \in Procs : SF_vars(NewQueue(p)) /\ WF_vars(QuarantineFile(p))

FairSpec == Spec /\ Fairness

\* Every accepted event is delivered or dead-lettered in the end, across lock
\* timeouts, failed loads and writes, retries, a crash and the restart after
\* it, unless a start that could not load the file moved it aside.
EventuallyHandedOver ==
    \A e \in Events : e \in accepted ~> e \in Delivered \cup dead \cup quarantined
=============================================================================
