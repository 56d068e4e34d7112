------------------------ MODULE DeliveryQueueProofs ------------------------
(***************************************************************************)
(* DeliveryQueue proved for every number of processes, threads and events, *)
(* and every bound on crashes, faults and retries: its safety, and that it *)
(* implements the Outbox.                                                  *)
(***************************************************************************)
EXTENDS DeliveryQueue, FiniteSetTheorems, TLAPS

-----------------------------------------------------------------------------
(* Types.                                                                  *)

LEMMA InitTypeOK == Init => TypeOK
<1> SUFFICES ASSUME Init PROVE TypeOK
  OBVIOUS
<1>1. /\ closed \in [Procs -> BOOLEAN]
      /\ sawStale \in [Threads -> BOOLEAN]
      /\ up \in [Procs -> {"up", "down", "moving"}]
  BY Zenon DEF Init
<1>2. /\ pending \in [Procs -> SUBSET Events]
      /\ pc \in [Threads -> Pc]
      /\ work \in [Threads -> SUBSET Events]
      /\ snap \in [Threads -> SUBSET Events]
      /\ remaining \in [Threads -> SUBSET Events]
  BY SMT DEF Init, Pc
<1>3. 0 \in 0..RetryMax /\ 0 \in 0..MaxCrashes /\ 0 \in 0..MaxFaults /\ 0 \in Nat
  BY ConfigAssumption
<1>4. attempt \in [Threads -> 0..RetryMax] /\ sent \in [Events -> Nat]
  BY <1>3, Zenon DEF Init
<1>5. /\ disk \subseteq Events /\ quarantined \subseteq Events
      /\ fresh \subseteq Events /\ accepted \subseteq Events
      /\ dead \subseteq Events /\ unsaved \subseteq Events
      /\ persistLock \in Threads \cup {Free, Orphan}
      /\ flushLock \in Threads \cup {Free, Orphan}
      /\ crashes \in 0..MaxCrashes /\ faults \in 0..MaxFaults
  BY <1>3, SMT DEF Init
<1> QED
  BY <1>1, <1>2, <1>4, <1>5, Zenon DEF TypeOK

LEMMA NextTypeOK == TypeOK /\ [Next]_vars => TypeOK'
<1> SUFFICES ASSUME TypeOK, [Next]_vars PROVE TypeOK'
  OBVIOUS
<1> USE ConfigAssumption
    DEF TypeOK, Pc, EnqueuePc, FlushPc, Goto, Fault, Loads, LoadFails, Forget,
        shared, memory, local, history
<1>1. ASSUME NEW t \in Threads, EnqueueStep(t) PROVE TypeOK'
  <2>1. ASSUME AcquirePersist(t, "enqLock", "enqLoad") PROVE TypeOK'
    BY <2>1 DEF AcquirePersist
  <2>2. ASSUME EnqueueTimeout(t) PROVE TypeOK'
    BY <2>2 DEF EnqueueTimeout, LockTimeout
  <2>3. ASSUME EnqueueLoad(t) PROVE TypeOK'
    BY <2>3 DEF EnqueueLoad
  <2>4. ASSUME EnqueueWrite(t) PROVE TypeOK'
    BY <2>4 DEF EnqueueWrite
  <2>5. ASSUME EnqueueRefuse(t) PROVE TypeOK'
    BY <2>5 DEF EnqueueRefuse
  <2>6. ASSUME EnqueueUnlock(t) PROVE TypeOK'
    BY <2>6 DEF EnqueueUnlock
  <2> QED
    BY <1>1, <2>1, <2>2, <2>3, <2>4, <2>5, <2>6 DEF EnqueueStep
<1>2. ASSUME NEW t \in Threads, SnapshotStep(t) PROVE TypeOK'
  <2>1. ASSUME AcquireFlush(t) PROVE TypeOK'
    BY <2>1 DEF AcquireFlush
  <2>2. ASSUME FlushTimeout(t) \/ BatchTimeout(t) PROVE TypeOK'
    BY <2>2 DEF FlushTimeout, BatchTimeout, LockTimeout
  <2>3. ASSUME AcquirePersist(t, "batchLock", "batchLoad") PROVE TypeOK'
    BY <2>3 DEF AcquirePersist
  <2>4. ASSUME BatchLoad(t) \/ BatchUnlock(t) PROVE TypeOK'
    BY <2>4 DEF BatchLoad, BatchUnlock
  <2>5. ASSUME Publish(t) PROVE TypeOK'
    BY <2>5 DEF Publish
  <2> QED
    BY <1>2, <2>1, <2>2, <2>3, <2>4, <2>5 DEF SnapshotStep
<1>3. ASSUME NEW t \in Threads, DeliverStep(t) PROVE TypeOK'
  <2>1. ASSUME SendOK(t) PROVE TypeOK'
    BY <2>1 DEF SendOK
  <2>2. ASSUME SendCancelled(t) PROVE TypeOK'
    BY <2>2 DEF SendCancelled
  <2>3. ASSUME SendRetry(t) PROVE TypeOK'
    BY <2>3 DEF SendRetry
  <2>4. ASSUME SendAbandon(t) PROVE TypeOK'
    BY <2>4 DEF SendAbandon
  <2> QED
    BY <1>3, <2>1, <2>2, <2>3, <2>4 DEF DeliverStep
<1>4. ASSUME NEW t \in Threads, FinishStep(t) PROVE TypeOK'
  <2>1. ASSUME AcquirePersist(t, "finLock", "finLoad") PROVE TypeOK'
    BY <2>1 DEF AcquirePersist
  <2>2. ASSUME FinLockTimeout(t) PROVE TypeOK'
    BY <2>2 DEF FinLockTimeout, LockTimeout
  <2>3. ASSUME FinLoad(t) PROVE TypeOK'
    BY <2>3 DEF FinLoad
  <2>4. ASSUME FinWrite(t) PROVE TypeOK'
    BY <2>4 DEF FinWrite, Final
  <2>5. ASSUME FinUnlock(t) \/ FlushUnlock(t) PROVE TypeOK'
    BY <2>5 DEF FinUnlock, FlushUnlock
  <2> QED
    BY <1>4, <2>1, <2>2, <2>3, <2>4, <2>5 DEF FinishStep
<1>5. ASSUME NEW t \in Threads, Call(t) PROVE TypeOK'
  <2>1. ASSUME NEW events \in SUBSET fresh, EnqueueCall(t, events) PROVE TypeOK'
    BY <2>1 DEF EnqueueCall
  <2>2. ASSUME FlushCall(t) \/ CloseCall(t) PROVE TypeOK'
    BY <2>2 DEF FlushCall, CloseCall
  <2> QED
    BY <1>5, <2>1, <2>2 DEF Call
<1>6. ASSUME NEW t \in Threads, SeeStale(t) \/ RemoveStale(t) PROVE TypeOK'
  BY <1>6 DEF SeeStale, RemoveStale
<1>7. ASSUME NEW p \in Procs, Crash(p) PROVE TypeOK'
  <2>1. sawStale' \in [Threads -> BOOLEAN]
    <3>1. sawStale' = [t \in Threads |-> t \notin OwnedBy(p) /\ sawStale[t]]
      BY <1>7 DEF Crash
    <3>2. \A t \in Threads : (t \notin OwnedBy(p) /\ sawStale[t]) \in BOOLEAN
      OBVIOUS
    <3> QED
      BY <3>1, <3>2, Zenon
  <2>2. closed' \in [Procs -> BOOLEAN] /\ up' \in [Procs -> {"up", "down", "moving"}]
    BY <1>7 DEF Crash
  <2>3. /\ pending' \in [Procs -> SUBSET Events]
        /\ pc' \in [Threads -> Pc]
        /\ crashes' \in 0..MaxCrashes
        /\ persistLock' \in Threads \cup {Free, Orphan}
        /\ flushLock' \in Threads \cup {Free, Orphan}
    BY <1>7 DEF Crash
  <2>4. /\ work' \in [Threads -> SUBSET Events]
        /\ snap' \in [Threads -> SUBSET Events]
        /\ remaining' \in [Threads -> SUBSET Events]
        /\ attempt' \in [Threads -> 0..RetryMax]
    BY <1>7 DEF Crash
  <2>5. unsaved' \subseteq Events
    <3> DEFINE cut == {s \in OwnedBy(p) : Undecided(s)}
               lost == UNION {work[s] : s \in cut}
    <3>1. unsaved' = unsaved \cup lost
      BY <1>7 DEF Crash
    <3>2. \A s \in cut : work[s] \subseteq Events
      BY DEF OwnedBy
    <3>3. ASSUME NEW e \in lost PROVE e \in Events
      <4>1. PICK piece \in {work[s] : s \in cut} : e \in piece
        OBVIOUS
      <4>2. PICK s \in cut : piece = work[s]
        OBVIOUS
      <4> QED
        BY <3>2, <4>1, <4>2
    <3> HIDE DEF lost
    <3> QED
      BY <3>1, <3>3
  <2>6. /\ disk' \subseteq Events /\ quarantined' \subseteq Events
        /\ fresh' \subseteq Events /\ accepted' \subseteq Events
        /\ dead' \subseteq Events
        /\ sent' \in [Events -> Nat] /\ faults' \in 0..MaxFaults
    BY <1>7 DEF Crash
  <2> QED
    BY <2>1, <2>2, <2>3, <2>4, <2>5, <2>6, Zenon
<1>8. ASSUME NEW p \in Procs, NewQueue(p) \/ QuarantineFile(p) PROVE TypeOK'
  BY <1>8 DEF NewQueue, QuarantineFile
<1>9. CASE UNCHANGED vars
  BY <1>9 DEF vars
<1> QED
  BY <1>1, <1>2, <1>3, <1>4, <1>5, <1>6, <1>7, <1>8, <1>9 DEF Next

\* Every variable of the queue keeps its type (queue.go as a whole).
THEOREM QueueTypeCorrect == Spec => []TypeOK
BY InitTypeOK, NextTypeOK, PTL DEF Spec

-----------------------------------------------------------------------------
(***************************************************************************)
(* The two locks and the events.  The inductive invariant: a thread in a   *)
(* locked section owns the lock; nobody holds an old judgement about a     *)
(* lock file; what a writer is about to write over was all in its reload;  *)
(* what a Flush is about to drop was handed over.                          *)
(*                                                                         *)
(* AtomicReclaim is a premise: without it two threads can be in a locked   *)
(* section at once (run DQ_Race), as filelock.go:23-30 admits.             *)
(***************************************************************************)
NoStaleJudgement == \A t \in Threads : ~sawStale[t]

PersistOwned == \A t \in Threads : HoldsPersist(t) => persistLock = t

FlushOwned == \A t \in Threads : HoldsFlush(t) => flushLock = t

Writing(t) == pc[t] \in {"enqWrite", "finWrite"}

ReloadCoversDisk == \A t \in Threads : Writing(t) => disk \subseteq snap[t]

HandedOver == Delivered \cup dead

DroppedWasHandedOver ==
    \A t \in Threads : Undecided(t) => work[t] \ remaining[t] \subseteq HandedOver

SafeInv ==
    /\ AtomicReclaim
    /\ TypeOK
    /\ NoStaleJudgement
    /\ PersistOwned
    /\ FlushOwned
    /\ ReloadCoversDisk
    /\ DroppedWasHandedOver
    /\ NoAcceptedEventLost

LEMMA InitSafeInv == AtomicReclaim /\ Init => SafeInv
<1> SUFFICES ASSUME AtomicReclaim, Init PROVE SafeInv
  OBVIOUS
<1>1. NoStaleJudgement
  BY Zenon DEF Init, NoStaleJudgement
<1>2. \A t \in Threads : pc[t] = "idle"
  BY Zenon DEF Init
<1>3. PersistOwned /\ FlushOwned /\ ReloadCoversDisk /\ DroppedWasHandedOver
  BY <1>2 DEF PersistOwned, FlushOwned, ReloadCoversDisk, DroppedWasHandedOver,
              HoldsPersist, HoldsFlush, FlushPc, Writing, Undecided
<1>4. NoAcceptedEventLost
  BY DEF Init, NoAcceptedEventLost
<1> QED
  BY <1>1, <1>3, <1>4, InitTypeOK DEF SafeInv

\* What was handed over or moved aside stays so.
LEMMA HandedOverGrows ==
    TypeOK /\ [Next]_vars =>
        HandedOver \subseteq HandedOver' /\ quarantined \subseteq quarantined'
<1> SUFFICES ASSUME TypeOK, [Next]_vars
             PROVE  /\ \A e \in Events : sent[e] <= sent'[e]
                    /\ dead \subseteq dead' /\ quarantined \subseteq quarantined'
  BY NextTypeOK DEF HandedOver, Delivered, TypeOK
<1> USE DEF TypeOK, shared, memory, local, history
<1> DEFINE Grows == /\ \A e \in Events : sent[e] <= sent'[e]
                    /\ dead \subseteq dead' /\ quarantined \subseteq quarantined'
<1>1. ASSUME NEW t \in Threads, SendOK(t) PROVE Grows
  <2>1. \A e \in Events : sent[e] <= sent'[e]
    BY <1>1 DEF SendOK
  <2> QED
    BY <1>1, <2>1 DEF SendOK
<1>2. sent' = sent /\ dead \subseteq dead' /\ quarantined \subseteq quarantined'
      => Grows
  OBVIOUS
<1>3. ASSUME NEW t \in Threads, EnqueueStep(t) \/ SnapshotStep(t) \/ FinishStep(t)
                                \/ SeeStale(t) \/ RemoveStale(t)
      PROVE  Grows
  BY <1>2, <1>3 DEF EnqueueStep, AcquirePersist, EnqueueTimeout, LockTimeout,
     EnqueueLoad, EnqueueWrite, EnqueueRefuse, EnqueueUnlock, SnapshotStep,
     AcquireFlush, FlushTimeout, BatchTimeout, BatchLoad, BatchUnlock, Publish,
     FinishStep, FinLockTimeout, FinLoad, FinWrite, FinUnlock, FlushUnlock,
     SeeStale, RemoveStale
<1>4. ASSUME NEW t \in Threads, SendCancelled(t) \/ SendRetry(t) \/ SendAbandon(t)
      PROVE  Grows
  BY <1>2, <1>4 DEF SendCancelled, SendRetry, SendAbandon
<1>5. ASSUME NEW t \in Threads, Call(t) PROVE Grows
  BY <1>2, <1>5 DEF Call, EnqueueCall, FlushCall, CloseCall
<1>6. ASSUME NEW p \in Procs, Crash(p) \/ NewQueue(p) \/ QuarantineFile(p)
      PROVE  Grows
  BY <1>2, <1>6 DEF Crash, NewQueue, QuarantineFile
<1>7. CASE UNCHANGED vars
  BY <1>2, <1>7 DEF vars
<1> QED
  BY <1>1, <1>3, <1>4, <1>5, <1>6, <1>7, Zenon DEF Next, DeliverStep

\* With an atomic reclaim nobody ever sits on a judgement about a lock file.
LEMMA NextNoStaleJudgement == SafeInv /\ [Next]_vars => NoStaleJudgement'
<1> SUFFICES ASSUME SafeInv, [Next]_vars PROVE NoStaleJudgement'
  OBVIOUS
<1> USE DEF SafeInv, NoStaleJudgement, shared, memory, local, history
<1>1. ASSUME NEW t \in Threads, EnqueueStep(t) \/ SnapshotStep(t)
      PROVE  UNCHANGED sawStale
  BY <1>1 DEF EnqueueStep, AcquirePersist, EnqueueTimeout, LockTimeout, EnqueueLoad,
     EnqueueWrite, EnqueueRefuse, EnqueueUnlock, SnapshotStep, AcquireFlush,
     FlushTimeout, BatchTimeout, BatchLoad, BatchUnlock, Publish
<1>2. ASSUME NEW t \in Threads, DeliverStep(t) \/ FinishStep(t) \/ Call(t)
      PROVE  UNCHANGED sawStale
  BY <1>2 DEF DeliverStep, SendOK, SendCancelled, SendRetry, SendAbandon, FinishStep,
     AcquirePersist, LockTimeout, FinLockTimeout, FinLoad, FinWrite, FinUnlock,
     FlushUnlock, Call, EnqueueCall, FlushCall, CloseCall
<1>3. ASSUME NEW t \in Threads, SeeStale(t) PROVE UNCHANGED sawStale
  BY <1>3 DEF SeeStale
<1>4. ASSUME NEW t \in Threads, RemoveStale(t) PROVE FALSE
  BY <1>4 DEF RemoveStale
<1>5. ASSUME NEW p \in Procs, NewQueue(p) \/ QuarantineFile(p)
      PROVE  UNCHANGED sawStale
  BY <1>5 DEF NewQueue, QuarantineFile
<1>6. ASSUME NEW p \in Procs, Crash(p) PROVE NoStaleJudgement'
  BY <1>6, Zenon DEF Crash
<1>7. CASE UNCHANGED vars
  BY <1>7, Zenon DEF vars
<1> QED
  BY <1>1, <1>2, <1>3, <1>4, <1>5, <1>6, <1>7, Zenon DEF Next

\* A lock file changes hands only when it is free, or orphaned by a crash.
LEMMA NextLocksOwned == SafeInv /\ [Next]_vars => PersistOwned' /\ FlushOwned'
<1> SUFFICES ASSUME SafeInv, [Next]_vars PROVE PersistOwned' /\ FlushOwned'
  OBVIOUS
<1> USE ConfigAssumption
    DEF SafeInv, NoStaleJudgement, PersistOwned, FlushOwned, HoldsPersist, HoldsFlush,
        FlushPc, TypeOK, Goto, Forget, shared, memory, local, history
<1>1. ASSUME NEW t \in Threads, EnqueueStep(t) PROVE PersistOwned' /\ FlushOwned'
  BY <1>1 DEF EnqueueStep, AcquirePersist, EnqueueTimeout, LockTimeout, EnqueueLoad,
     EnqueueWrite, EnqueueRefuse, EnqueueUnlock
<1>2. ASSUME NEW t \in Threads, SnapshotStep(t) PROVE PersistOwned' /\ FlushOwned'
  BY <1>2 DEF SnapshotStep, AcquirePersist, AcquireFlush, LockTimeout, FlushTimeout,
     BatchTimeout, BatchLoad, BatchUnlock, Publish
<1>3. ASSUME NEW t \in Threads, DeliverStep(t) PROVE PersistOwned' /\ FlushOwned'
  BY <1>3 DEF DeliverStep, SendOK, SendCancelled, SendRetry, SendAbandon
<1>4. ASSUME NEW t \in Threads, FinishStep(t) PROVE PersistOwned' /\ FlushOwned'
  BY <1>4 DEF FinishStep, AcquirePersist, LockTimeout, FinLockTimeout, FinLoad,
     FinWrite, FinUnlock, FlushUnlock
<1>5. ASSUME NEW t \in Threads, Call(t) PROVE PersistOwned' /\ FlushOwned'
  BY <1>5 DEF Call, EnqueueCall, FlushCall, CloseCall
<1>6. ASSUME NEW t \in Threads, SeeStale(t) \/ RemoveStale(t)
      PROVE  PersistOwned' /\ FlushOwned'
  BY <1>6 DEF SeeStale, RemoveStale, WantsPersist, WantsFlush
<1>7. ASSUME NEW p \in Procs, Crash(p) PROVE PersistOwned' /\ FlushOwned'
  <2>1. \A t \in Threads : t \in OwnedBy(p) => pc'[t] = "down"
    BY <1>7 DEF Crash
  <2>2. \A t \in Threads : t \notin OwnedBy(p) => pc'[t] = pc[t]
    BY <1>7 DEF Crash
  <2>3. /\ persistLock' = IF persistLock \in OwnedBy(p) THEN Orphan ELSE persistLock
        /\ flushLock' = IF flushLock \in OwnedBy(p) THEN Orphan ELSE flushLock
    BY <1>7 DEF Crash
  <2> QED
    BY <2>1, <2>2, <2>3
<1>8. ASSUME NEW p \in Procs, NewQueue(p) \/ QuarantineFile(p)
      PROVE  PersistOwned' /\ FlushOwned'
  BY <1>8 DEF NewQueue, QuarantineFile, OwnedBy
<1>9. CASE UNCHANGED vars
  BY <1>9 DEF vars
<1> QED
  BY <1>1, <1>2, <1>3, <1>4, <1>5, <1>6, <1>7, <1>8, <1>9, Zenon DEF Next

\* Only the owner of the persist lock rewrites the file, and only NewQueue
\* moves it aside: a reload under the lock still covers the file.
LEMMA NextReloadCoversDisk == SafeInv /\ [Next]_vars => ReloadCoversDisk'
<1> SUFFICES ASSUME SafeInv, [Next]_vars PROVE ReloadCoversDisk'
  OBVIOUS
<1> USE DEF SafeInv, PersistOwned, HoldsPersist, ReloadCoversDisk, Writing,
            TypeOK, Goto, Forget, shared, memory, local, history
<1>1. ASSUME NEW t \in Threads, EnqueueStep(t) PROVE ReloadCoversDisk'
  BY <1>1 DEF EnqueueStep, AcquirePersist, EnqueueTimeout, LockTimeout, EnqueueLoad,
     EnqueueWrite, EnqueueRefuse, EnqueueUnlock
<1>2. ASSUME NEW t \in Threads, SnapshotStep(t) PROVE ReloadCoversDisk'
  BY <1>2 DEF SnapshotStep, AcquirePersist, AcquireFlush, LockTimeout, FlushTimeout,
     BatchTimeout, BatchLoad, BatchUnlock, Publish
<1>3. ASSUME NEW t \in Threads, DeliverStep(t) PROVE ReloadCoversDisk'
  BY <1>3 DEF DeliverStep, SendOK, SendCancelled, SendRetry, SendAbandon
<1>4. ASSUME NEW t \in Threads, FinishStep(t) PROVE ReloadCoversDisk'
  BY <1>4 DEF FinishStep, AcquirePersist, LockTimeout, FinLockTimeout, FinLoad,
     FinWrite, FinUnlock, FlushUnlock
<1>5. ASSUME NEW t \in Threads, Call(t) PROVE ReloadCoversDisk'
  BY <1>5 DEF Call, EnqueueCall, FlushCall, CloseCall
<1>6. ASSUME NEW t \in Threads, SeeStale(t) \/ RemoveStale(t) PROVE ReloadCoversDisk'
  BY <1>6 DEF SeeStale, RemoveStale
<1>7. ASSUME NEW p \in Procs, Crash(p) PROVE ReloadCoversDisk'
  BY <1>7 DEF Crash
<1>8. ASSUME NEW p \in Procs, NewQueue(p) PROVE ReloadCoversDisk'
  BY <1>8 DEF NewQueue
<1>9. ASSUME NEW p \in Procs, QuarantineFile(p) PROVE ReloadCoversDisk'
  BY <1>9 DEF QuarantineFile
<1>10. CASE UNCHANGED vars
  BY <1>10 DEF vars
<1> QED
  BY <1>1, <1>2, <1>3, <1>4, <1>5, <1>6, <1>7, <1>8, <1>9, <1>10, Zenon DEF Next

\* deliverWithRetry leaves out of "remaining" only what it handed over.
LEMMA NextDroppedWasHandedOver == SafeInv /\ [Next]_vars => DroppedWasHandedOver'
<1> SUFFICES ASSUME SafeInv, [Next]_vars PROVE DroppedWasHandedOver'
  OBVIOUS
<1>1. HandedOver \subseteq HandedOver'
  BY HandedOverGrows DEF SafeInv
<1> USE <1>1 DEF SafeInv, DroppedWasHandedOver, Undecided, TypeOK, Goto, Forget,
                 shared, memory, local, history
<1>2. ASSUME NEW t \in Threads, EnqueueStep(t) PROVE DroppedWasHandedOver'
  BY <1>2 DEF EnqueueStep, AcquirePersist, EnqueueTimeout, LockTimeout, EnqueueLoad,
     EnqueueWrite, EnqueueRefuse, EnqueueUnlock
<1>3. ASSUME NEW t \in Threads, SnapshotStep(t) PROVE DroppedWasHandedOver'
  BY <1>3 DEF SnapshotStep, AcquirePersist, AcquireFlush, LockTimeout, FlushTimeout,
     BatchTimeout, BatchLoad, BatchUnlock, Publish
<1>4. ASSUME NEW t \in Threads, SendOK(t) PROVE DroppedWasHandedOver'
  <2>1. work'[t] \subseteq HandedOver'
    BY <1>4 DEF SendOK, HandedOver, Delivered
  <2> QED
    BY <1>4, <2>1 DEF SendOK
<1>5. ASSUME NEW t \in Threads, SendCancelled(t) \/ SendRetry(t)
      PROVE  DroppedWasHandedOver'
  BY <1>5 DEF SendCancelled, SendRetry
<1>6. ASSUME NEW t \in Threads, SendAbandon(t) PROVE DroppedWasHandedOver'
  <2>1. work'[t] \ remaining'[t] \subseteq HandedOver'
    BY <1>6 DEF SendAbandon, HandedOver
  <2> QED
    BY <1>6, <2>1 DEF SendAbandon
<1>7. ASSUME NEW t \in Threads, FinishStep(t) PROVE DroppedWasHandedOver'
  BY <1>7 DEF FinishStep, AcquirePersist, LockTimeout, FinLockTimeout, FinLoad,
     FinWrite, FinUnlock, FlushUnlock
<1>8. ASSUME NEW t \in Threads, Call(t) PROVE DroppedWasHandedOver'
  BY <1>8 DEF Call, EnqueueCall, FlushCall, CloseCall
<1>9. ASSUME NEW t \in Threads, SeeStale(t) \/ RemoveStale(t)
      PROVE  DroppedWasHandedOver'
  BY <1>9 DEF SeeStale, RemoveStale
<1>10. ASSUME NEW p \in Procs, Crash(p) \/ NewQueue(p) \/ QuarantineFile(p)
       PROVE  DroppedWasHandedOver'
  BY <1>10 DEF Crash, NewQueue, QuarantineFile
<1>11. CASE UNCHANGED vars
  BY <1>11 DEF vars
<1> QED
  BY <1>2, <1>3, <1>4, <1>5, <1>6, <1>7, <1>8, <1>9, <1>10, <1>11, Zenon
     DEF Next, DeliverStep

\* What a step takes out of the persist file was handed over before it, or the
\* file as a whole was moved aside.
LEMMA LeavesHandedOver ==
    SafeInv /\ [Next]_vars => disk \ disk' \subseteq HandedOver \cup quarantined'
<1> SUFFICES ASSUME SafeInv, [Next]_vars
             PROVE  disk \ disk' \subseteq HandedOver \cup quarantined'
  OBVIOUS
<1> DEFINE Leaves == disk \ disk' \subseteq HandedOver \cup quarantined'
<1> USE DEF SafeInv, shared, memory, local, history
<1>1. ASSUME NEW t \in Threads, EnqueueWrite(t) PROVE Leaves
  BY <1>1 DEF EnqueueWrite, ReloadCoversDisk, Writing, Goto
<1>2. ASSUME NEW t \in Threads, FinWrite(t) PROVE Leaves
  <2>1. disk \subseteq snap[t]
    BY <1>2 DEF FinWrite, ReloadCoversDisk, Writing, Goto
  <2>2. work[t] \ remaining[t] \subseteq HandedOver
    BY <1>2 DEF FinWrite, DroppedWasHandedOver, Undecided, Goto
  <2> QED
    BY <1>2, <2>1, <2>2 DEF FinWrite, Final
<1>3. ASSUME NEW p \in Procs, QuarantineFile(p) PROVE Leaves
  BY <1>3 DEF QuarantineFile
<1>4. ASSUME NEW t \in Threads, EnqueueStep(t), ~EnqueueWrite(t) PROVE disk' = disk
  BY <1>4 DEF EnqueueStep, AcquirePersist, EnqueueTimeout, LockTimeout, EnqueueLoad,
     EnqueueRefuse, EnqueueUnlock
<1>5. ASSUME NEW t \in Threads, SnapshotStep(t) PROVE disk' = disk
  BY <1>5 DEF SnapshotStep, AcquirePersist, AcquireFlush, LockTimeout, FlushTimeout,
     BatchTimeout, BatchLoad, BatchUnlock, Publish
<1>6. ASSUME NEW t \in Threads, DeliverStep(t) PROVE disk' = disk
  BY <1>6 DEF DeliverStep, SendOK, SendCancelled, SendRetry, SendAbandon
<1>7. ASSUME NEW t \in Threads, FinishStep(t), ~FinWrite(t) PROVE disk' = disk
  BY <1>7 DEF FinishStep, AcquirePersist, LockTimeout, FinLockTimeout, FinLoad,
     FinUnlock, FlushUnlock
<1>8. ASSUME NEW t \in Threads, Call(t) \/ SeeStale(t) \/ RemoveStale(t)
      PROVE  disk' = disk
  BY <1>8 DEF Call, EnqueueCall, FlushCall, CloseCall, SeeStale, RemoveStale
<1>9. ASSUME NEW p \in Procs, Crash(p) \/ NewQueue(p) PROVE disk' = disk
  BY <1>9 DEF Crash, NewQueue
<1>10. CASE UNCHANGED vars
  BY <1>10 DEF vars
<1>11. disk' = disk => Leaves
  OBVIOUS
<1> QED
  BY <1>1, <1>2, <1>3, <1>4, <1>5, <1>6, <1>7, <1>8, <1>9, <1>10, <1>11, Zenon DEF Next

\* Only the durable write of an Enqueue accepts events.
LEMMA AcceptedWhenWritten ==
    SafeInv /\ [Next]_vars => accepted' \subseteq accepted \cup disk'
<1> SUFFICES ASSUME SafeInv, [Next]_vars PROVE accepted' \subseteq accepted \cup disk'
  OBVIOUS
<1> DEFINE Written == accepted' \subseteq accepted \cup disk'
<1> USE DEF SafeInv, shared, memory, local, history
<1>1. ASSUME NEW t \in Threads, EnqueueStep(t) PROVE Written
  BY <1>1 DEF EnqueueStep, AcquirePersist, EnqueueTimeout, LockTimeout, EnqueueLoad,
     EnqueueWrite, EnqueueRefuse, EnqueueUnlock
<1>2. ASSUME NEW t \in Threads, SnapshotStep(t) PROVE Written
  BY <1>2 DEF SnapshotStep, AcquirePersist, AcquireFlush, LockTimeout, FlushTimeout,
     BatchTimeout, BatchLoad, BatchUnlock, Publish
<1>3. ASSUME NEW t \in Threads, DeliverStep(t) PROVE Written
  BY <1>3 DEF DeliverStep, SendOK, SendCancelled, SendRetry, SendAbandon
<1>4. ASSUME NEW t \in Threads, FinishStep(t) PROVE Written
  BY <1>4 DEF FinishStep, AcquirePersist, LockTimeout, FinLockTimeout, FinLoad,
     FinWrite, FinUnlock, FlushUnlock
<1>5. ASSUME NEW t \in Threads, Call(t) \/ SeeStale(t) \/ RemoveStale(t) PROVE Written
  BY <1>5 DEF Call, EnqueueCall, FlushCall, CloseCall, SeeStale, RemoveStale
<1>6. ASSUME NEW p \in Procs, Crash(p) \/ NewQueue(p) \/ QuarantineFile(p)
      PROVE  Written
  BY <1>6 DEF Crash, NewQueue, QuarantineFile
<1>7. CASE UNCHANGED vars
  BY <1>7 DEF vars
<1> QED
  BY <1>1, <1>2, <1>3, <1>4, <1>5, <1>6, <1>7, Zenon DEF Next

LEMMA NextSafeInv == SafeInv /\ [Next]_vars => SafeInv'
<1> SUFFICES ASSUME SafeInv, [Next]_vars PROVE SafeInv'
  OBVIOUS
<1>1. NoAcceptedEventLost'
  BY LeavesHandedOver, AcceptedWhenWritten, HandedOverGrows
     DEF SafeInv, NoAcceptedEventLost, HandedOver
<1>2. TypeOK' /\ NoStaleJudgement' /\ PersistOwned' /\ FlushOwned'
  BY NextTypeOK, NextNoStaleJudgement, NextLocksOwned DEF SafeInv
<1>3. ReloadCoversDisk' /\ DroppedWasHandedOver'
  BY NextReloadCoversDisk, NextDroppedWasHandedOver
<1> QED
  BY <1>1, <1>2, <1>3 DEF SafeInv

LEMMA SpecSafeInv == AtomicReclaim /\ Spec => []SafeInv
BY InitSafeInv, NextSafeInv, PTL DEF Spec

\* No event that Enqueue persisted is ever lost, for any number of processes,
\* threads, crashes, failed writes and lock timeouts (queue.go:144-151, 263-268).
THEOREM NothingLost == AtomicReclaim /\ Spec => []NoAcceptedEventLost
<1>1. SafeInv => NoAcceptedEventLost
  BY DEF SafeInv
<1> QED
  BY <1>1, SpecSafeInv, PTL

\* At most one Flush is in progress, over all processes (queue.go:219-222).
THEOREM OneFlushAtATime == AtomicReclaim /\ Spec => []FlushSerialised
<1>1. SafeInv => FlushSerialised
  BY DEF SafeInv, FlushOwned, FlushSerialised
<1> QED
  BY <1>1, SpecSafeInv, PTL

\* No step takes an event out of the persist file that was not handed over
\* before, except NewQueue moving the whole file aside (queue.go:87-91, 298).
THEOREM OnlyHandedOverLeaves == AtomicReclaim /\ Spec => LeavesOnlyWhenHandedOver
<1>1. SafeInv /\ [Next]_vars
      => [disk \ disk' \subseteq Delivered \cup dead \cup quarantined']_vars
  BY LeavesHandedOver DEF HandedOver
<1> QED
  BY <1>1, SpecSafeInv, PTL DEF Spec, LeavesOnlyWhenHandedOver

-----------------------------------------------------------------------------
(***************************************************************************)
(* The queue implements the Outbox, under AtomicReclaim (the lock race of  *)
(* filelock.go:23-30) and nothing else.  A start whose load failed may     *)
(* move the file aside at any time, also between another thread's reload   *)
(* and its write: so what a thread has read is in the file or was moved    *)
(* aside, and what it writes back of the latter is the one thing that may  *)
(* exceed the capacity.                                                    *)
(***************************************************************************)
Stored == disk \cup quarantined

\* What a thread has reloaded and is about to write is all that is on disk, but
\* for what was moved aside.
ReloadIsStored == \A t \in Threads : Writing(t) => snap[t] \subseteq Stored

\* The batch of a Flush stays stored until its own final write.
BatchStored == \A t \in Threads :
    /\ pc[t] \in {"batchUnlock", "publish"} => snap[t] \subseteq Stored
    /\ pc[t] \in {"send", "finLock", "finLoad", "finWrite"} => work[t] \subseteq Stored
    /\ Undecided(t) => remaining[t] \subseteq work[t]

RoomLeft == \A t \in Threads : pc[t] = "enqWrite" =>
    Cardinality(snap[t]) + Cardinality(work[t]) <= MaxSize

\* Events an Enqueue has been given and not written yet.
Asking(t) == pc[t] \in {"enqLock", "enqLoad", "enqWrite"}

FreshIsNew == fresh \cap (Stored \cup HandedOver) = {}

AskedIsNew == \A t \in Threads :
    Asking(t) => work[t] \cap (fresh \cup Stored \cup HandedOver) = {}

AskedIsOwn == \A s, t \in Threads :
    Asking(s) /\ Asking(t) /\ s # t => work[s] \cap work[t] = {}

QueueInv ==
    /\ SafeInv
    /\ ReloadIsStored /\ BatchStored
    /\ RoomLeft /\ CapacityRespected
    /\ FreshIsNew /\ AskedIsNew /\ AskedIsOwn

LEMMA InitQueueInv == AtomicReclaim /\ Init => QueueInv
<1> SUFFICES ASSUME AtomicReclaim, Init PROVE QueueInv
  OBVIOUS
<1>1. \A t \in Threads : pc[t] = "idle"
  BY Zenon DEF Init
<1>2. ReloadIsStored /\ BatchStored /\ RoomLeft /\ AskedIsNew /\ AskedIsOwn
  BY <1>1 DEF ReloadIsStored, BatchStored, RoomLeft, AskedIsNew, AskedIsOwn,
              Asking, Writing, Undecided
<1>3. HandedOver = {} /\ Stored = {}
  BY DEF Init, HandedOver, Delivered, Stored
<1>4. FreshIsNew
  BY <1>3 DEF FreshIsNew
<1>5. CapacityRespected
  BY <1>3, FS_EmptySet, ConfigAssumption DEF Init, CapacityRespected
<1> QED
  BY <1>2, <1>4, <1>5, InitSafeInv DEF QueueInv

\* Nothing leaves what is stored but by the final write of a Flush.
LEMMA StoredGrows ==
    ASSUME SafeInv, [Next]_vars, \A t \in Threads : ~FinWrite(t)
    PROVE  Stored \subseteq Stored'
<1> USE DEF SafeInv, Stored, shared, memory, local, history
<1>1. ASSUME NEW t \in Threads, EnqueueWrite(t) PROVE Stored \subseteq Stored'
  BY <1>1 DEF EnqueueWrite, ReloadCoversDisk, Writing, Goto
<1>2. ASSUME NEW t \in Threads, EnqueueStep(t) \/ SnapshotStep(t), ~EnqueueWrite(t)
      PROVE  Stored \subseteq Stored'
  BY <1>2 DEF EnqueueStep, AcquirePersist, EnqueueTimeout, LockTimeout, EnqueueLoad,
     EnqueueRefuse, EnqueueUnlock, SnapshotStep, AcquireFlush, FlushTimeout,
     BatchTimeout, BatchLoad, BatchUnlock, Publish
<1>3. ASSUME NEW t \in Threads, DeliverStep(t) \/ FinishStep(t)
      PROVE  Stored \subseteq Stored'
  BY <1>3 DEF DeliverStep, SendOK, SendCancelled, SendRetry, SendAbandon, FinishStep,
     AcquirePersist, LockTimeout, FinLockTimeout, FinLoad, FinUnlock, FlushUnlock
<1>4. ASSUME NEW t \in Threads, Call(t) \/ SeeStale(t) \/ RemoveStale(t)
      PROVE  Stored \subseteq Stored'
  BY <1>4 DEF Call, EnqueueCall, FlushCall, CloseCall, SeeStale, RemoveStale
<1>5. ASSUME NEW p \in Procs, Crash(p) \/ NewQueue(p) \/ QuarantineFile(p)
      PROVE  Stored \subseteq Stored'
  BY <1>5 DEF Crash, NewQueue, QuarantineFile
<1>6. CASE UNCHANGED vars
  BY <1>6 DEF vars
<1> QED
  BY <1>1, <1>2, <1>3, <1>4, <1>5, <1>6, Zenon DEF Next

\* The reload of a lock owner, and the batch of the one Flush in progress.
LEMMA NextBatch == QueueInv /\ [Next]_vars => ReloadIsStored' /\ BatchStored'
<1> SUFFICES ASSUME QueueInv, [Next]_vars PROVE ReloadIsStored' /\ BatchStored'
  OBVIOUS
<1> DEFINE Batch == ReloadIsStored /\ BatchStored
<1> USE DEF QueueInv, SafeInv, PersistOwned, FlushOwned, HoldsPersist, HoldsFlush,
            FlushPc, ReloadIsStored, BatchStored, Writing, Undecided, TypeOK, Goto,
            Forget, shared, memory, local, history
<1>1. ASSUME NEW t \in Threads, FinWrite(t) PROVE Batch'
  <2>1. \A s \in Threads : s # t => ~HoldsPersist(s) /\ ~HoldsFlush(s)
    BY <1>1 DEF FinWrite
  <2> QED
    BY <1>1, <2>1 DEF FinWrite
<1>2. ASSUME \A t \in Threads : ~FinWrite(t) PROVE Batch'
  <2>0. Stored \subseteq Stored' /\ disk \subseteq Stored
    BY <1>2, StoredGrows DEF Stored
  <2>1. ASSUME NEW t \in Threads, EnqueueStep(t) PROVE Batch'
    BY <2>0, <2>1 DEF EnqueueStep, AcquirePersist, EnqueueTimeout, LockTimeout,
       EnqueueLoad, EnqueueWrite, EnqueueRefuse, EnqueueUnlock
  <2>2. ASSUME NEW t \in Threads, SnapshotStep(t) PROVE Batch'
    BY <2>0, <2>2 DEF SnapshotStep, AcquirePersist, AcquireFlush, LockTimeout,
       FlushTimeout, BatchTimeout, BatchLoad, BatchUnlock, Publish
  <2>3. ASSUME NEW t \in Threads, DeliverStep(t) PROVE Batch'
    BY <2>0, <2>3 DEF DeliverStep, SendOK, SendCancelled, SendRetry, SendAbandon
  <2>4. ASSUME NEW t \in Threads, FinishStep(t) PROVE Batch'
    BY <1>2, <2>0, <2>4 DEF FinishStep, AcquirePersist, LockTimeout, FinLockTimeout,
       FinLoad, FinUnlock, FlushUnlock
  <2>5. ASSUME NEW t \in Threads, Call(t) \/ SeeStale(t) \/ RemoveStale(t) PROVE Batch'
    BY <2>0, <2>5 DEF Call, EnqueueCall, FlushCall, CloseCall, SeeStale, RemoveStale
  <2>6. ASSUME NEW p \in Procs, Crash(p) \/ NewQueue(p) \/ QuarantineFile(p) PROVE Batch'
    BY <2>0, <2>6 DEF Crash, NewQueue, QuarantineFile
  <2>7. CASE UNCHANGED vars
    BY <2>0, <2>7 DEF vars
  <2> QED
    BY <2>1, <2>2, <2>3, <2>4, <2>5, <2>6, <2>7, Zenon DEF Next
<1> QED
  BY <1>1, <1>2, Zenon

\* Subsets of Events are finite, so their sizes add up and shrink as expected.
LEMMA Sizes ==
    ASSUME NEW A \in SUBSET Events, NEW B \in SUBSET Events
    PROVE  /\ Cardinality(A) \in Nat
           /\ Cardinality(A \cup B) <= Cardinality(A) + Cardinality(B)
           /\ A \subseteq B => Cardinality(A) <= Cardinality(B)
<1>1. IsFiniteSet(A) /\ IsFiniteSet(B)
  BY FiniteAssumption, FS_Subset
<1>2. Cardinality(A) \in Nat /\ Cardinality(B) \in Nat
  BY <1>1, FS_CardinalityType
<1>3. Cardinality(A \cup B)
      = Cardinality(A) + Cardinality(B) - Cardinality(A \cap B)
  BY <1>1, FS_Union
<1>4. Cardinality(A \cap B) \in Nat
  BY <1>1, FS_Intersection, FS_CardinalityType
<1>5. A \subseteq B => Cardinality(A) <= Cardinality(B)
  BY <1>1, FS_Subset
<1> QED
  BY <1>2, <1>3, <1>4, <1>5

\* The file grows by a checked Enqueue, by a Flush that writes back what was
\* moved aside, and not otherwise.
LEMMA DiskSteps ==
    [Next]_vars =>
        \/ \E t \in Threads : EnqueueWrite(t)
        \/ \E t \in Threads : FinWrite(t)
        \/ disk' \subseteq disk /\ quarantined \subseteq quarantined'
<1> SUFFICES ASSUME [Next]_vars,
                    \A t \in Threads : ~EnqueueWrite(t) /\ ~FinWrite(t)
             PROVE  disk' \subseteq disk /\ quarantined \subseteq quarantined'
  OBVIOUS
<1> DEFINE Shrinks == disk' \subseteq disk /\ quarantined \subseteq quarantined'
<1> USE DEF shared, memory, local, history
<1>1. ASSUME NEW t \in Threads, EnqueueStep(t) \/ SnapshotStep(t) PROVE Shrinks
  BY <1>1 DEF EnqueueStep, AcquirePersist, EnqueueTimeout, LockTimeout, EnqueueLoad,
     EnqueueRefuse, EnqueueUnlock, SnapshotStep, AcquireFlush,
     FlushTimeout, BatchTimeout, BatchLoad, BatchUnlock, Publish
<1>2. ASSUME NEW t \in Threads, DeliverStep(t) \/ FinishStep(t) PROVE Shrinks
  BY <1>2 DEF DeliverStep, SendOK, SendCancelled, SendRetry, SendAbandon, FinishStep,
     AcquirePersist, LockTimeout, FinLockTimeout, FinLoad, FinUnlock, FlushUnlock
<1>3. ASSUME NEW t \in Threads, Call(t) \/ SeeStale(t) \/ RemoveStale(t) PROVE Shrinks
  BY <1>3 DEF Call, EnqueueCall, FlushCall, CloseCall, SeeStale, RemoveStale
<1>4. ASSUME NEW p \in Procs, Crash(p) \/ NewQueue(p) \/ QuarantineFile(p) PROVE Shrinks
  BY <1>4 DEF Crash, NewQueue, QuarantineFile
<1>5. CASE UNCHANGED vars
  BY <1>5 DEF vars
<1> QED
  BY <1>1, <1>2, <1>3, <1>4, <1>5, Zenon DEF Next

\* An Enqueue adds its events to the file, and writes back what it had reloaded
\* of a file moved aside meanwhile.
LEMMA EnqueueWriteGrows ==
    ASSUME QueueInv, NEW t \in Threads, EnqueueWrite(t)
    PROVE  /\ disk \subseteq snap[t] /\ snap[t] \subseteq Stored
           /\ disk' = snap[t] \cup work[t]
           /\ Cardinality(snap[t]) + Cardinality(work[t]) <= MaxSize
<1>1. disk \subseteq snap[t] /\ snap[t] \subseteq Stored
  BY DEF QueueInv, SafeInv, ReloadCoversDisk, ReloadIsStored, Writing, EnqueueWrite, Goto
<1> QED
  BY <1>1 DEF EnqueueWrite, QueueInv, RoomLeft, Goto

\* The final write of a Flush takes out what was handed over, and brings in
\* nothing but what was moved aside.
LEMMA FinWriteShrinks ==
    ASSUME QueueInv, NEW t \in Threads, FinWrite(t)
    PROVE  disk' \subseteq Stored /\ disk \ disk' \subseteq HandedOver
<1>1. /\ disk \subseteq snap[t] /\ snap[t] \subseteq Stored
      /\ work[t] \subseteq Stored /\ remaining[t] \subseteq work[t]
  BY DEF QueueInv, SafeInv, ReloadCoversDisk, ReloadIsStored, BatchStored, Writing,
         Undecided, FinWrite, Goto
<1>2. work[t] \ remaining[t] \subseteq HandedOver
  BY DEF QueueInv, SafeInv, DroppedWasHandedOver, Undecided, FinWrite, Goto
<1>3. disk' = disk \/ disk' = Final(t)
  BY DEF FinWrite
<1> QED
  BY <1>1, <1>2, <1>3 DEF Final, Stored

LEMMA NextCapacity == QueueInv /\ [Next]_vars => CapacityRespected'
<1> SUFFICES ASSUME QueueInv, [Next]_vars
             PROVE  Cardinality(disk' \ quarantined') <= MaxSize
  BY DEF CapacityRespected
<1> DEFINE old == disk \ quarantined
           new == disk' \ quarantined'
<1>1. /\ Cardinality(old) <= MaxSize
      /\ old \in SUBSET Events /\ new \in SUBSET Events
      /\ TypeOK
  BY NextTypeOK DEF QueueInv, SafeInv, CapacityRespected, TypeOK
<1>2. ASSUME NEW t \in Threads, EnqueueWrite(t) PROVE Cardinality(new) <= MaxSize
  <2>1. work[t] \in SUBSET Events /\ snap[t] \in SUBSET Events
    BY <1>1 DEF TypeOK
  <2>2. /\ disk' = snap[t] \cup work[t]
        /\ Cardinality(snap[t]) + Cardinality(work[t]) <= MaxSize
    BY <1>2, EnqueueWriteGrows
  <2>3. new \subseteq snap[t] \cup work[t] /\ (snap[t] \cup work[t]) \in SUBSET Events
    BY <2>1, <2>2
  <2> HIDE DEF new
  <2>4. /\ Cardinality(snap[t] \cup work[t]) <= Cardinality(snap[t]) + Cardinality(work[t])
        /\ Cardinality(snap[t]) \in Nat /\ Cardinality(work[t]) \in Nat
    BY <2>1, Sizes
  <2>5. /\ Cardinality(new) <= Cardinality(snap[t] \cup work[t])
        /\ Cardinality(new) \in Nat /\ Cardinality(snap[t] \cup work[t]) \in Nat
    BY <1>1, <2>3, Sizes
  <2> QED
    BY <2>2, <2>4, <2>5, ConfigAssumption
<1>3. ASSUME new \subseteq old PROVE Cardinality(new) <= MaxSize
  <2> HIDE DEF old, new
  <2>1. /\ Cardinality(new) <= Cardinality(old)
        /\ Cardinality(old) \in Nat /\ Cardinality(new) \in Nat
    BY <1>1, <1>3, Sizes
  <2> QED
    BY <1>1, <2>1, ConfigAssumption
<1>4. ASSUME NEW t \in Threads, FinWrite(t) PROVE new \subseteq old
  <2>1. disk' \subseteq Stored /\ quarantined' = quarantined
    BY <1>4, FinWriteShrinks DEF FinWrite
  <2> QED
    BY <2>1 DEF Stored
<1>5. ASSUME disk' \subseteq disk, quarantined \subseteq quarantined'
      PROVE  new \subseteq old
  BY <1>5
<1> HIDE DEF new, old
<1>6. Cardinality(new) <= MaxSize
  BY <1>2, <1>3, <1>4, <1>5, DiskSteps, Zenon
<1> QED
  BY <1>6 DEF new

\* The room an Enqueue saw is still there when it writes.
LEMMA NextRoomLeft == QueueInv /\ [Next]_vars => RoomLeft'
<1> SUFFICES ASSUME QueueInv, [Next]_vars PROVE RoomLeft'
  OBVIOUS
<1> USE DEF QueueInv, SafeInv, RoomLeft, TypeOK, Goto, Forget,
            shared, memory, local, history
<1>1. ASSUME NEW t \in Threads, EnqueueStep(t) PROVE RoomLeft'
  BY <1>1 DEF EnqueueStep, AcquirePersist, EnqueueTimeout, LockTimeout, EnqueueLoad,
     EnqueueWrite, EnqueueRefuse, EnqueueUnlock
<1>2. ASSUME NEW t \in Threads, SnapshotStep(t) PROVE RoomLeft'
  BY <1>2 DEF SnapshotStep, AcquirePersist, AcquireFlush, LockTimeout, FlushTimeout,
     BatchTimeout, BatchLoad, BatchUnlock, Publish
<1>3. ASSUME NEW t \in Threads, DeliverStep(t) \/ FinishStep(t) PROVE RoomLeft'
  BY <1>3 DEF DeliverStep, SendOK, SendCancelled, SendRetry, SendAbandon, FinishStep,
     AcquirePersist, LockTimeout, FinLockTimeout, FinLoad, FinWrite, FinUnlock,
     FlushUnlock
<1>4. ASSUME NEW t \in Threads, Call(t) \/ SeeStale(t) \/ RemoveStale(t)
      PROVE  RoomLeft'
  BY <1>4 DEF Call, EnqueueCall, FlushCall, CloseCall, SeeStale, RemoveStale
<1>5. ASSUME NEW p \in Procs, Crash(p) \/ NewQueue(p) \/ QuarantineFile(p)
      PROVE  RoomLeft'
  BY <1>5 DEF Crash, NewQueue, QuarantineFile
<1>6. CASE UNCHANGED vars
  BY <1>6 DEF vars
<1> QED
  BY <1>1, <1>2, <1>3, <1>4, <1>5, <1>6, Zenon DEF Next

\* A Send hands over its batch, all of which is still stored.
LEMMA SendHandsOverStored ==
    ASSUME QueueInv, NEW t \in Threads, SendOK(t) \/ SendAbandon(t)
    PROVE  /\ work[t] \subseteq Stored
           /\ HandedOver' \subseteq HandedOver \cup work[t]
           /\ pc[t] = "send" /\ pc' = [pc EXCEPT ![t] = "finLock"]
           /\ UNCHANGED <<disk, quarantined, fresh, work>>
<1>1. work[t] \subseteq Stored
  BY DEF QueueInv, BatchStored, SendOK, SendAbandon, Goto
<1>2. CASE SendOK(t)
  <2>1. Delivered' \subseteq Delivered \cup work[t]
    BY <1>2 DEF SendOK, Delivered
  <2> QED
    BY <1>1, <1>2, <2>1 DEF SendOK, HandedOver, Goto, shared, memory
<1>3. CASE SendAbandon(t)
  BY <1>1, <1>3 DEF SendAbandon, HandedOver, Delivered, Goto, shared, memory
<1> QED
  BY <1>2, <1>3

\* Events not asked for yet, or asked for and not written, are nowhere else.
LEMMA NextNew ==
    QueueInv /\ [Next]_vars => FreshIsNew' /\ AskedIsNew' /\ AskedIsOwn'
<1> SUFFICES ASSUME QueueInv, [Next]_vars
             PROVE  FreshIsNew' /\ AskedIsNew' /\ AskedIsOwn'
  OBVIOUS
<1> DEFINE New == FreshIsNew /\ AskedIsNew /\ AskedIsOwn
<1> USE DEF FreshIsNew, AskedIsNew, AskedIsOwn, Asking
<1>1. New /\ TypeOK
  BY DEF QueueInv, SafeInv
<1> USE <1>1 DEF TypeOK, Goto, Forget, shared, memory, local, history
<1>2. ASSUME NEW t \in Threads, NEW events \in SUBSET fresh, EnqueueCall(t, events)
      PROVE  New'
  <2>1. /\ work' = [work EXCEPT ![t] = events \ Invalid]
        /\ pc' = [pc EXCEPT ![t] = "enqLock"]
        /\ fresh' = fresh \ events
        /\ Stored' = Stored
    BY <1>2 DEF EnqueueCall, Stored
  <2>2. HandedOver' \subseteq HandedOver \cup (events \cap Invalid)
    BY <1>2 DEF EnqueueCall, HandedOver, Delivered
  <2>3. \A s \in Threads : s # t => pc'[s] = pc[s] /\ work'[s] = work[s]
    BY <2>1
  <2>4. work'[t] = events \ Invalid
    BY <2>1
  <2>5. FreshIsNew'
    BY <2>1, <2>2
  <2>6. AskedIsNew'
    BY <2>1, <2>2, <2>3, <2>4
  <2>7. AskedIsOwn'
    BY <2>3, <2>4
  <2> QED
    BY <2>5, <2>6, <2>7
<1>3. ASSUME NEW t \in Threads, EnqueueWrite(t) PROVE New'
  <2>1. /\ pc[t] = "enqWrite" /\ pc' = [pc EXCEPT ![t] = "enqUnlock"]
        /\ UNCHANGED <<work, fresh>>
    BY <1>3 DEF EnqueueWrite
  <2>2. HandedOver' = HandedOver
    BY <1>3 DEF EnqueueWrite, HandedOver, Delivered
  <2>3. Stored' \subseteq Stored \cup work[t]
    BY <1>3, EnqueueWriteGrows DEF EnqueueWrite, Stored
  <2>4. FreshIsNew'
    BY <2>1, <2>2, <2>3
  <2>5. AskedIsNew'
    BY <2>1, <2>2, <2>3
  <2>6. AskedIsOwn'
    BY <2>1
  <2> QED
    BY <2>4, <2>5, <2>6
<1>4. ASSUME NEW t \in Threads, FinWrite(t) PROVE New'
  <2>1. Stored' \subseteq Stored
    BY <1>4, FinWriteShrinks DEF FinWrite, Stored
  <2>2. HandedOver' = HandedOver
    BY <1>4 DEF FinWrite, HandedOver, Delivered
  <2> QED
    BY <1>4, <2>1, <2>2 DEF FinWrite
<1>5. ASSUME NEW t \in Threads, SendOK(t) \/ SendAbandon(t) PROVE New'
  <2>1. Stored' = Stored
    BY <1>5, SendHandsOverStored DEF Stored
  <2> QED
    BY <1>5, <2>1, SendHandsOverStored
<1>6. ASSUME NEW t \in Threads, EnqueueStep(t), ~EnqueueWrite(t) PROVE New'
  <2>1. HandedOver' = HandedOver /\ Stored' = Stored
    BY <1>6 DEF EnqueueStep, AcquirePersist, EnqueueTimeout, LockTimeout, EnqueueLoad,
       EnqueueRefuse, EnqueueUnlock, HandedOver, Delivered, Stored
  <2> QED
    BY <1>6, <2>1 DEF EnqueueStep, AcquirePersist, EnqueueTimeout, LockTimeout,
       EnqueueLoad, EnqueueRefuse, EnqueueUnlock
<1>7. ASSUME NEW t \in Threads, SnapshotStep(t) PROVE New'
  <2>1. HandedOver' = HandedOver /\ Stored' = Stored
    BY <1>7 DEF SnapshotStep, AcquirePersist, AcquireFlush, LockTimeout, FlushTimeout,
       BatchTimeout, BatchLoad, BatchUnlock, Publish, HandedOver, Delivered, Stored
  <2> QED
    BY <1>7, <2>1 DEF SnapshotStep, AcquirePersist, AcquireFlush, LockTimeout,
       FlushTimeout, BatchTimeout, BatchLoad, BatchUnlock, Publish
<1>8. ASSUME NEW t \in Threads, SendCancelled(t) \/ SendRetry(t) PROVE New'
  <2>1. HandedOver' = HandedOver /\ Stored' = Stored
    BY <1>8 DEF SendCancelled, SendRetry, HandedOver, Delivered, Stored
  <2> QED
    BY <1>8, <2>1 DEF SendCancelled, SendRetry
<1>9. ASSUME NEW t \in Threads, FinishStep(t), ~FinWrite(t) PROVE New'
  <2>1. HandedOver' = HandedOver /\ Stored' = Stored
    BY <1>9 DEF FinishStep, AcquirePersist, LockTimeout, FinLockTimeout, FinLoad,
       FinUnlock, FlushUnlock, HandedOver, Delivered, Stored
  <2> QED
    BY <1>9, <2>1 DEF FinishStep, AcquirePersist, LockTimeout, FinLockTimeout, FinLoad,
       FinUnlock, FlushUnlock
<1>10. ASSUME NEW t \in Threads,
              FlushCall(t) \/ CloseCall(t) \/ SeeStale(t) \/ RemoveStale(t)
       PROVE  New'
  <2>1. HandedOver' = HandedOver /\ Stored' = Stored
    BY <1>10 DEF FlushCall, CloseCall, SeeStale, RemoveStale, HandedOver, Delivered, Stored
  <2> QED
    BY <1>10, <2>1 DEF FlushCall, CloseCall, SeeStale, RemoveStale
<1>11. ASSUME NEW p \in Procs, Crash(p) \/ NewQueue(p) \/ QuarantineFile(p) PROVE New'
  <2>1. HandedOver' = HandedOver
    BY <1>11 DEF Crash, NewQueue, QuarantineFile, HandedOver, Delivered
  <2>2. Stored' = Stored /\ fresh' = fresh
    BY <1>11 DEF Crash, NewQueue, QuarantineFile, Stored
  <2>3. \A s \in Threads : Asking(s)' => Asking(s) /\ work'[s] = work[s]
    BY <1>11 DEF Crash, NewQueue, QuarantineFile
  <2>4. AskedIsNew'
    BY <2>1, <2>2, <2>3
  <2>5. AskedIsOwn'
    BY <2>3
  <2> QED
    BY <2>1, <2>2, <2>4, <2>5
<1>12. CASE UNCHANGED vars
  <2>1. HandedOver' = HandedOver /\ Stored' = Stored
    BY <1>12 DEF vars, HandedOver, Delivered, Stored
  <2> QED
    BY <1>12, <2>1 DEF vars
<1> QED
  BY <1>2, <1>3, <1>4, <1>5, <1>6, <1>7, <1>8, <1>9, <1>10, <1>11, <1>12, Zenon
     DEF Next, Call, DeliverStep

LEMMA NextQueueInv == QueueInv /\ [Next]_vars => QueueInv'
<1> SUFFICES ASSUME QueueInv, [Next]_vars PROVE QueueInv'
  OBVIOUS
<1>1. SafeInv'
  BY NextSafeInv DEF QueueInv
<1>2. ReloadIsStored' /\ BatchStored'
  BY NextBatch
<1>3. RoomLeft' /\ CapacityRespected' /\ FreshIsNew' /\ AskedIsNew' /\ AskedIsOwn'
  BY NextRoomLeft, NextCapacity, NextNew
<1> QED
  BY <1>1, <1>2, <1>3 DEF QueueInv

LEMMA SpecQueueInv == AtomicReclaim /\ Spec => []QueueInv
BY InitQueueInv, NextQueueInv, PTL DEF Spec

\* Every step of the queue is one step of the outbox, or none.
LEMMA StepIsOutboxStep ==
    QueueInv /\ [Next]_vars => [Abstract!Next]_(Abstract!outboxVars)
<1> SUFFICES ASSUME QueueInv, [Next]_vars
             PROVE  Abstract!Next \/ UNCHANGED Abstract!outboxVars
  OBVIOUS
<1> DEFINE Outboxes == Abstract!Next \/ UNCHANGED Abstract!outboxVars
<1>1. TypeOK
  BY DEF QueueInv, SafeInv
<1> USE <1>1 DEF TypeOK, Goto, Forget, shared, memory, local, history
<1>2. ASSUME UNCHANGED <<disk, quarantined, sent, dead>> PROVE Outboxes
  BY <1>2 DEF Abstract!outboxVars, Delivered
<1>3. ASSUME NEW t \in Threads, EnqueueWrite(t) PROVE Outboxes
  <2> DEFINE back == snap[t] \ disk
  <2>1. work[t] \cap (disk \cup quarantined \cup HandedOver) = {}
    BY <1>3 DEF EnqueueWrite, QueueInv, AskedIsNew, Asking, Stored
  <2>2. /\ disk \cup back = snap[t] /\ back \in SUBSET quarantined
        /\ disk' = disk \cup back \cup work[t]
        /\ Cardinality(disk \cup back) + Cardinality(work[t]) <= MaxSize
    BY <1>3, EnqueueWriteGrows DEF Stored
  <2> HIDE DEF back
  <2>3. Delivered' = Delivered /\ dead' = dead /\ quarantined' = quarantined
    BY <1>3 DEF EnqueueWrite, Delivered
  <2>4. Abstract!Accept(work[t], back)
    <3>1. work[t] \cap (disk \cup quarantined \cup Abstract!HandedOver) = {}
      BY <2>1 DEF Abstract!HandedOver, HandedOver
    <3>2. \A S : Abstract!Cardinality(S) = Cardinality(S)
      BY Zenon DEF Abstract!Cardinality, Cardinality
    <3> QED
      BY <2>2, <2>3, <3>1, <3>2 DEF Abstract!Accept
  <2>5. work[t] \in SUBSET Events
    OBVIOUS
  <2> QED
    BY <2>2, <2>4, <2>5, Zenon DEF Abstract!Next
<1>4. ASSUME NEW t \in Threads, NEW events \in SUBSET fresh, EnqueueCall(t, events)
      PROVE  Outboxes
  <2> DEFINE refused == events \cap Invalid
  <2>1. disk' = disk /\ quarantined' = quarantined /\ Delivered' = Delivered
    BY <1>4 DEF EnqueueCall, Delivered
  <2>2. refused \cap (disk \cup quarantined \cup Delivered) = {}
    BY DEF QueueInv, FreshIsNew, HandedOver, Stored
  <2>3. dead' = dead \cup refused \/ dead' = dead
    BY <1>4 DEF EnqueueCall
  <2>4. CASE dead' = dead \cup refused
    BY <2>1, <2>2, <2>4 DEF Abstract!Next, Abstract!Reject
  <2>5. CASE dead' = dead
    BY <2>1, <2>5 DEF Abstract!outboxVars
  <2> QED
    BY <2>3, <2>4, <2>5
<1>5. ASSUME NEW t \in Threads, SendOK(t) PROVE Outboxes
  <2>1. work[t] \subseteq Stored /\ disk' = disk /\ quarantined' = quarantined
    BY <1>5, SendHandsOverStored
  <2>2. Delivered' = Delivered \cup work[t] /\ dead' = dead
    BY <1>5 DEF SendOK, Delivered
  <2>3. Abstract!Deliver(work[t])
    BY <2>1, <2>2 DEF Abstract!Deliver, Stored
  <2> QED
    BY <2>3 DEF Abstract!Next
<1>6. ASSUME NEW t \in Threads, SendAbandon(t) PROVE Outboxes
  <2>1. work[t] \subseteq Stored /\ disk' = disk /\ quarantined' = quarantined
    BY <1>6, SendHandsOverStored
  <2>2. PICK kept \in SUBSET work[t] : dead' = dead \cup (work[t] \ kept)
    BY <1>6 DEF SendAbandon
  <2>3. Delivered' = Delivered
    BY <1>6 DEF SendAbandon, Delivered
  <2>4. Abstract!Bury(work[t] \ kept)
    BY <2>1, <2>2, <2>3 DEF Abstract!Bury, Stored
  <2>5. work[t] \ kept \in SUBSET Events
    OBVIOUS
  <2> QED
    BY <2>4, <2>5 DEF Abstract!Next
<1>7. ASSUME NEW t \in Threads, FinWrite(t) PROVE Outboxes
  <2> DEFINE gone == disk \ disk'
             back == disk' \ disk
  <2>1. gone \subseteq disk \cap HandedOver /\ back \in SUBSET quarantined
        /\ disk' = (disk \ gone) \cup back
    BY <1>7, FinWriteShrinks DEF Stored
  <2>2. Delivered' = Delivered /\ dead' = dead /\ quarantined' = quarantined
    BY <1>7 DEF FinWrite, Delivered
  <2>3. gone \in SUBSET Events
    OBVIOUS
  <2> HIDE DEF gone, back
  <2>4. Abstract!Remove(gone, back)
    BY <2>1, <2>2 DEF Abstract!Remove, Abstract!HandedOver, HandedOver
  <2> QED
    BY <2>1, <2>3, <2>4, Zenon DEF Abstract!Next
<1>8. ASSUME NEW t \in Threads, EnqueueStep(t), ~EnqueueWrite(t) PROVE Outboxes
  BY <1>2, <1>8 DEF EnqueueStep, AcquirePersist, EnqueueTimeout, LockTimeout,
     EnqueueLoad, EnqueueRefuse, EnqueueUnlock
<1>9. ASSUME NEW t \in Threads, SnapshotStep(t) PROVE Outboxes
  BY <1>2, <1>9 DEF SnapshotStep, AcquirePersist, AcquireFlush, LockTimeout,
     FlushTimeout, BatchTimeout, BatchLoad, BatchUnlock, Publish
<1>10. ASSUME NEW t \in Threads, SendCancelled(t) \/ SendRetry(t) PROVE Outboxes
  BY <1>2, <1>10 DEF SendCancelled, SendRetry
<1>11. ASSUME NEW t \in Threads, FinishStep(t), ~FinWrite(t) PROVE Outboxes
  BY <1>2, <1>11 DEF FinishStep, AcquirePersist, LockTimeout, FinLockTimeout, FinLoad,
     FinUnlock, FlushUnlock
<1>12. ASSUME NEW t \in Threads,
              FlushCall(t) \/ CloseCall(t) \/ SeeStale(t) \/ RemoveStale(t)
       PROVE  Outboxes
  BY <1>2, <1>12 DEF FlushCall, CloseCall, SeeStale, RemoveStale
<1>13. ASSUME NEW p \in Procs, Crash(p) \/ NewQueue(p) PROVE Outboxes
  BY <1>2, <1>13 DEF Crash, NewQueue
<1>14. ASSUME NEW p \in Procs, QuarantineFile(p) PROVE Outboxes
  <2>1. UNCHANGED <<sent, dead>> /\ Delivered' = Delivered
    BY <1>14 DEF QuarantineFile, Delivered
  <2>2. \/ quarantined' = quarantined \cup disk /\ disk' = {}
        \/ quarantined' = quarantined /\ disk' = disk
    BY <1>14 DEF QuarantineFile
  <2>3. CASE quarantined' = quarantined \cup disk /\ disk' = {}
    BY <2>1, <2>3 DEF Abstract!Next, Abstract!SetAside
  <2> QED
    BY <1>2, <2>1, <2>2, <2>3
<1>15. CASE UNCHANGED vars
  BY <1>2, <1>15 DEF vars
<1> QED
  BY <1>3, <1>4, <1>5, <1>6, <1>7, <1>8, <1>9, <1>10, <1>11, <1>12, <1>13, <1>14,
     <1>15, Zenon DEF Next, Call, DeliverStep

\* The persist file never outgrows MaxSize, but for what a Flush brings back of a
\* file that was moved aside (queue.go:88-91, 171, 298).
THEOREM CapacityHolds == AtomicReclaim /\ Spec => []CapacityRespected
<1>1. QueueInv => CapacityRespected
  BY DEF QueueInv
<1> QED
  BY <1>1, SpecQueueInv, PTL

\* As long as nobody acts between the staleness check of a lock file and its
\* removal, the queue, with its locks, threads, crashes, failed loads and
\* failed writes, implements the at-least-once bounded outbox, which may be
\* set aside as a whole (queue.go:76-317).
THEOREM QueueImplementsOutbox == AtomicReclaim /\ Spec => ImplementsOutbox
<1>1. Init => Abstract!Init
  BY DEF Init, Abstract!Init, Delivered
<1> QED
  BY <1>1, SpecQueueInv, StepIsOutboxStep, PTL
     DEF Spec, ImplementsOutbox, Abstract!Spec

\* Without a dead-letter file nothing is ever taken for dead-lettered.
NothingBuried == HasDeadLetter \/ dead = {}

LEMMA NextNothingBuried ==
    TypeOK /\ NothingBuried /\ [Next]_vars => NothingBuried'
<1> SUFFICES ASSUME TypeOK, NothingBuried, [Next]_vars PROVE NothingBuried'
  OBVIOUS
<1> USE DEF NothingBuried, shared, memory, local, history
<1>1. ASSUME NEW t \in Threads, Call(t) \/ EnqueueStep(t) \/ SeeStale(t) \/ RemoveStale(t)
      PROVE  NothingBuried'
  BY <1>1 DEF Call, EnqueueCall, FlushCall, CloseCall, EnqueueStep, AcquirePersist,
     EnqueueTimeout, LockTimeout, EnqueueLoad, EnqueueWrite, EnqueueRefuse, EnqueueUnlock,
     SeeStale, RemoveStale
<1>2. ASSUME NEW t \in Threads, SnapshotStep(t) \/ FinishStep(t)
      PROVE  NothingBuried'
  BY <1>2 DEF SnapshotStep, AcquireFlush, AcquirePersist, FlushTimeout, LockTimeout,
     BatchTimeout, BatchLoad, BatchUnlock, Publish, FinishStep, FinLockTimeout, FinLoad,
     FinWrite, FinUnlock, FlushUnlock
<1>3. ASSUME NEW t \in Threads, DeliverStep(t)
      PROVE  NothingBuried'
  BY <1>3 DEF DeliverStep, SendOK, SendCancelled, SendRetry, SendAbandon
<1>4. ASSUME NEW p \in Procs, Crash(p) \/ NewQueue(p) \/ QuarantineFile(p)
      PROVE  NothingBuried'
  BY <1>4 DEF Crash, NewQueue, QuarantineFile
<1>5. CASE UNCHANGED vars
  BY <1>5 DEF vars
<1> QED
  BY <1>1, <1>2, <1>3, <1>4, <1>5, Zenon DEF Next

\* Without a dead-letter file an accepted event stays in the persist file until
\* it was acknowledged, however often it was retried, unless a start that could
\* not load the file moved it aside (queue.go:87-96, 407-416).
THEOREM KeptWithoutDeadLetter == AtomicReclaim /\ Spec => []KeptUntilAcknowledged
<1>1. Init => NothingBuried
  BY DEF Init, NothingBuried
<1>2. SafeInv /\ NothingBuried => KeptUntilAcknowledged
  BY DEF SafeInv, NothingBuried, NoAcceptedEventLost, KeptUntilAcknowledged
<1>3. SafeInv => TypeOK
  BY DEF SafeInv
<1> QED
  BY <1>1, <1>2, <1>3, NextNothingBuried, SpecSafeInv, PTL DEF Spec

\* The outcome of t's batch for e is in memory only.
Pending(t, e) == Undecided(t) /\ e \in work[t] \ remaining[t]

\* The event is in the file, or in the reload of somebody about to write it.
Kept(e) == e \in disk \/ \E t \in Threads : Writing(t) /\ e \in snap[t]

\* What t's Flush has read and may still hand over, or write back.
Claimed(t) ==
    IF pc[t] \in {"batchUnlock", "publish"} THEN snap[t]
    ELSE IF pc[t] = "send" THEN work[t]
    ELSE IF Undecided(t) THEN remaining[t] ELSE {}

\* What was handed over and is still kept will be taken out by the thread that
\* knows, or nobody will ever know; a Flush has nothing in its hands that was
\* handed over without that having been lost.
OutcomesKnown == \A e \in Events \ Invalid :
    /\ sent[e] > 1 \/ (sent[e] > 0 /\ e \in dead) => e \in unsaved
    /\ (Kept(e) /\ e \in HandedOver) => e \in unsaved \/ \E t \in Threads : Pending(t, e)
    /\ \A t \in Threads : e \in Claimed(t) \cap HandedOver => e \in unsaved

\* A thread that holds the flush lock is the only one with an outcome or a batch.
LEMMA FlusherIsAlone ==
    ASSUME QueueInv, NEW t \in Threads, HoldsFlush(t), NEW s \in Threads, s # t
    PROVE  Claimed(s) = {} /\ \A e : ~Pending(s, e)
<1>1. ~HoldsFlush(s)
  BY DEF QueueInv, SafeInv, FlushOwned
<1> QED
  BY <1>1 DEF HoldsFlush, FlushPc, Claimed, Pending, Undecided

\* Steps that change no outcome, and bring no event back that was handed over.
LEMMA OutcomesKept ==
    ASSUME OutcomesKnown, sent' = sent, dead' \ dead \subseteq Invalid,
           unsaved \subseteq unsaved',
           \A e \in Events : Kept(e)' => Kept(e) \/ e \notin HandedOver,
           \A e \in Events, t \in Threads :
              e \in Claimed(t)' => e \in Claimed(t) \cup unsaved \/ e \notin HandedOver,
           \A e \in Events, t \in Threads : Pending(t, e) => Pending(t, e)' \/ e \in unsaved'
    PROVE  OutcomesKnown'
<1> SUFFICES ASSUME NEW e \in Events \ Invalid
             PROVE  /\ sent[e] > 1 \/ (sent[e] > 0 /\ e \in dead') => e \in unsaved'
                    /\ (Kept(e)' /\ e \in HandedOver')
                          => e \in unsaved' \/ \E t \in Threads : Pending(t, e)'
                    /\ \A t \in Threads : e \in Claimed(t)' \cap HandedOver' => e \in unsaved'
  BY DEF OutcomesKnown
<1>1. e \in dead' => e \in dead
  OBVIOUS
<1>2. e \in HandedOver' => e \in HandedOver
  BY <1>1 DEF HandedOver, Delivered
<1> QED
  BY <1>1, <1>2 DEF OutcomesKnown

\* A process that is down has no thread at work.
DownIsDown == \A t \in Threads : up[ProcOf[t]] # "up" => pc[t] = "down"

LEMMA NextDown == TypeOK /\ DownIsDown /\ [Next]_vars => DownIsDown'
<1> SUFFICES ASSUME TypeOK, DownIsDown, [Next]_vars PROVE DownIsDown'
  OBVIOUS
<1> USE ConfigAssumption DEF DownIsDown, TypeOK, Goto, shared, memory, local, history
<1>1. ASSUME NEW t \in Threads, Call(t) \/ EnqueueStep(t) \/ SeeStale(t) \/ RemoveStale(t)
      PROVE  DownIsDown'
  BY <1>1 DEF Call, EnqueueCall, FlushCall, CloseCall, EnqueueStep, AcquirePersist,
     EnqueueTimeout, LockTimeout, EnqueueLoad, EnqueueWrite, EnqueueRefuse, EnqueueUnlock,
     SeeStale, RemoveStale
<1>2. ASSUME NEW t \in Threads, SnapshotStep(t) \/ FinishStep(t)
      PROVE  DownIsDown'
  BY <1>2 DEF SnapshotStep, AcquireFlush, AcquirePersist, FlushTimeout, LockTimeout,
     BatchTimeout, BatchLoad, BatchUnlock, Publish, FinishStep, FinLockTimeout, FinLoad,
     FinWrite, FinUnlock, FlushUnlock
<1>3. ASSUME NEW t \in Threads, DeliverStep(t)
      PROVE  DownIsDown'
  BY <1>3 DEF DeliverStep, SendOK, SendCancelled, SendRetry, SendAbandon
<1>4. ASSUME NEW p \in Procs, Crash(p) \/ NewQueue(p) \/ QuarantineFile(p)
      PROVE  DownIsDown'
  BY <1>4 DEF Crash, NewQueue, QuarantineFile, OwnedBy
<1>5. CASE UNCHANGED vars
  BY <1>5 DEF vars
<1> QED
  BY <1>1, <1>2, <1>3, <1>4, <1>5, Zenon DEF Next

LEMMA NextOutcomes == QueueInv /\ DownIsDown /\ OutcomesKnown /\ [Next]_vars => OutcomesKnown'
<1> SUFFICES ASSUME QueueInv, DownIsDown, OutcomesKnown, [Next]_vars PROVE OutcomesKnown'
  OBVIOUS
<1>0. TypeOK
  BY DEF QueueInv, SafeInv
<1> USE <1>0 DEF Pending, Undecided, Writing, Kept, Claimed, TypeOK, Goto, Forget,
                 shared, memory, local, history
<1>1. ASSUME NEW t \in Threads, EnqueueWrite(t) PROVE OutcomesKnown'
  <2>1. disk' = snap[t] \cup work[t] /\ work[t] \cap HandedOver = {}
    BY <1>1 DEF EnqueueWrite, QueueInv, AskedIsNew, Asking
  <2>2. \A e \in Events, s \in Threads : Pending(s, e) => Pending(s, e)'
    BY <1>1 DEF EnqueueWrite
  <2>3. \A e \in Events : Kept(e)' => Kept(e) \/ e \notin HandedOver
    BY <1>1, <2>1 DEF EnqueueWrite
  <2>4. \A s \in Threads : Claimed(s)' \subseteq Claimed(s)
    BY <1>1 DEF EnqueueWrite
  <2> QED
    BY <1>1, <2>2, <2>3, <2>4, OutcomesKept DEF EnqueueWrite
<1>2. ASSUME NEW t \in Threads, EnqueueStep(t), ~EnqueueWrite(t) PROVE OutcomesKnown'
  <2> USE DEF EnqueueStep, AcquirePersist, EnqueueTimeout, LockTimeout, EnqueueLoad,
       EnqueueRefuse, EnqueueUnlock
  <2>1. UNCHANGED <<disk, sent, dead, unsaved>>
    BY <1>2
  <2>2. \A e \in Events, s \in Threads : Pending(s, e) => Pending(s, e)'
    BY <1>2
  <2>3. \A e \in Events : Kept(e)' => Kept(e)
    BY <1>2
  <2>4. \A s \in Threads : Claimed(s)' \subseteq Claimed(s)
    BY <1>2
  <2> QED
    BY <2>1, <2>2, <2>3, <2>4, OutcomesKept
<1>3. ASSUME NEW t \in Threads, BatchLoad(t) PROVE OutcomesKnown'
  <2>1. UNCHANGED <<disk, sent, dead, unsaved>>
    BY <1>3 DEF BatchLoad
  <2>2. \A e \in Events, s \in Threads : Pending(s, e) => Pending(s, e)'
    BY <1>3 DEF BatchLoad
  <2>3. \A e \in Events : Kept(e)' => Kept(e)
    BY <1>3 DEF BatchLoad
  <2>4. ASSUME NEW e \in Events \ Invalid, e \in Claimed(t)', e \in HandedOver PROVE e \in unsaved
    <3>1. e \in disk
      BY <1>3, <2>4 DEF BatchLoad
    <3>2. HoldsFlush(t) /\ ~Pending(t, e)
      BY <1>3 DEF BatchLoad, HoldsFlush, FlushPc
    <3>3. \A s \in Threads : ~Pending(s, e)
      BY <3>2, FlusherIsAlone
    <3> QED
      BY <2>4, <3>1, <3>3 DEF OutcomesKnown
  <2>5. \A s \in Threads : s # t => Claimed(s)' \subseteq Claimed(s)
    BY <1>3 DEF BatchLoad
  <2> SUFFICES ASSUME NEW e \in Events \ Invalid
               PROVE  /\ sent'[e] > 1 \/ (sent'[e] > 0 /\ e \in dead') => e \in unsaved'
                      /\ (Kept(e)' /\ e \in HandedOver')
                            => e \in unsaved' \/ \E s \in Threads : Pending(s, e)'
                      /\ \A s \in Threads : e \in Claimed(s)' \cap HandedOver' => e \in unsaved'
    BY DEF OutcomesKnown
  <2>6. e \in HandedOver' <=> e \in HandedOver
    BY <2>1 DEF HandedOver, Delivered
  <2>7. \A s \in Threads : e \in Claimed(s)' \cap HandedOver => e \in unsaved
    BY <2>4, <2>5 DEF OutcomesKnown
  <2> QED
    BY <2>1, <2>2, <2>3, <2>6, <2>7 DEF OutcomesKnown
<1>4. ASSUME NEW t \in Threads, SnapshotStep(t), ~BatchLoad(t) PROVE OutcomesKnown'
  <2> USE DEF SnapshotStep, AcquireFlush, AcquirePersist, FlushTimeout, LockTimeout,
       BatchTimeout, BatchUnlock, Publish
  <2>1. UNCHANGED <<disk, sent, dead, unsaved>>
    BY <1>4
  <2>2. \A e \in Events, s \in Threads : Pending(s, e) => Pending(s, e)'
    BY <1>4
  <2>3. \A e \in Events : Kept(e)' => Kept(e)
    BY <1>4
  <2>4. \A s \in Threads : Claimed(s)' \subseteq Claimed(s)
    BY <1>4
  <2> QED
    BY <2>1, <2>2, <2>3, <2>4, OutcomesKept
<1>5. ASSUME NEW t \in Threads, Call(t) \/ SeeStale(t) \/ RemoveStale(t) PROVE OutcomesKnown'
  <2> USE DEF Call, EnqueueCall, FlushCall, CloseCall, SeeStale, RemoveStale
  <2>1. UNCHANGED <<disk, sent, unsaved>> /\ dead' \ dead \subseteq Invalid
    BY <1>5
  <2>2. \A e \in Events, s \in Threads : Pending(s, e) => Pending(s, e)'
    BY <1>5
  <2>3. \A e \in Events : Kept(e)' => Kept(e)
    BY <1>5
  <2>4. \A s \in Threads : Claimed(s)' \subseteq Claimed(s)
    BY <1>5
  <2> QED
    BY <2>1, <2>2, <2>3, <2>4, OutcomesKept
<1>6. ASSUME NEW t \in Threads, SendCancelled(t) \/ SendRetry(t) PROVE OutcomesKnown'
  <2>1. UNCHANGED <<disk, sent, dead, unsaved>>
    BY <1>6 DEF SendCancelled, SendRetry
  <2>2. \A e \in Events, s \in Threads : Pending(s, e) => Pending(s, e)'
    BY <1>6 DEF SendCancelled, SendRetry
  <2>3. \A e \in Events : Kept(e)' => Kept(e)
    BY <1>6 DEF SendCancelled, SendRetry
  <2>4. \A s \in Threads : Claimed(s)' \subseteq Claimed(s)
    BY <1>6 DEF SendCancelled, SendRetry
  <2> QED
    BY <2>1, <2>2, <2>3, <2>4, OutcomesKept
<1>7. ASSUME NEW t \in Threads, NEW gone \in SUBSET work[t], pc[t] = "send",
             pc' = [pc EXCEPT ![t] = "finLock"],
             UNCHANGED <<disk, unsaved, work, snap>>,
             remaining' = [remaining EXCEPT ![t] = work[t] \ gone],
             HandedOver' = HandedOver \cup gone,
             \A e \in Events : sent'[e] > 1 \/ (sent'[e] > 0 /\ e \in dead')
                => sent[e] > 1 \/ (sent[e] > 0 /\ e \in dead) \/ e \in gone \cap HandedOver
      PROVE  OutcomesKnown'
  <2> SUFFICES ASSUME NEW e \in Events \ Invalid
               PROVE  /\ sent'[e] > 1 \/ (sent'[e] > 0 /\ e \in dead') => e \in unsaved'
                      /\ (Kept(e)' /\ e \in HandedOver')
                            => e \in unsaved' \/ \E s \in Threads : Pending(s, e)'
                      /\ \A s \in Threads : e \in Claimed(s)' \cap HandedOver' => e \in unsaved'
    BY DEF OutcomesKnown
  <2>1. Claimed(t) = work[t] /\ HoldsFlush(t)
    BY <1>7 DEF HoldsFlush, FlushPc
  <2>2. e \in work[t] /\ e \in HandedOver => e \in unsaved
    BY <2>1 DEF OutcomesKnown
  <2>3. sent'[e] > 1 \/ (sent'[e] > 0 /\ e \in dead') => e \in unsaved'
    BY <1>7, <2>2 DEF OutcomesKnown
  <2>4. e \in gone => Pending(t, e)'
    BY <1>7
  <2>5. Kept(e)' <=> Kept(e)
    BY <1>7
  <2>6. \A s \in Threads : Pending(s, e) => Pending(s, e)'
    BY <1>7
  <2>7. (Kept(e)' /\ e \in HandedOver') => e \in unsaved' \/ \E s \in Threads : Pending(s, e)'
    BY <1>7, <2>4, <2>5, <2>6 DEF OutcomesKnown
  <2>8. Claimed(t)' = work[t] \ gone
    BY <1>7
  <2>9. \A s \in Threads : s # t => Claimed(s)' = Claimed(s)
    BY <1>7
  <2>10. \A s \in Threads : s # t => Claimed(s) = {}
    BY <2>1, FlusherIsAlone
  <2>11. \A s \in Threads : e \in Claimed(s)' \cap HandedOver' => e \in unsaved'
    BY <1>7, <2>2, <2>8, <2>9, <2>10
  <2> QED
    BY <2>3, <2>7, <2>11
<1>8. ASSUME NEW t \in Threads, SendOK(t) PROVE OutcomesKnown'
  <2>1. pc[t] = "send" /\ UNCHANGED <<disk, dead, unsaved, work, snap>>
        /\ pc' = [pc EXCEPT ![t] = "finLock"] /\ remaining' = [remaining EXCEPT ![t] = {}]
        /\ sent' = [x \in Events |-> IF x \in work[t] THEN sent[x] + 1 ELSE sent[x]]
    BY <1>8 DEF SendOK
  <2>2. HandedOver' = HandedOver \cup work[t]
    BY <2>1 DEF HandedOver, Delivered
  <2>3. \A e \in Events : sent'[e] > 1 \/ (sent'[e] > 0 /\ e \in dead')
           => sent[e] > 1 \/ (sent[e] > 0 /\ e \in dead) \/ e \in work[t] \cap HandedOver
    BY <2>1 DEF HandedOver, Delivered
  <2>4. work[t] \ work[t] = {} /\ work[t] \in SUBSET work[t]
    OBVIOUS
  <2> QED
    BY <1>7, <2>1, <2>2, <2>3, <2>4
<1>9. ASSUME NEW t \in Threads, SendAbandon(t) PROVE OutcomesKnown'
  <2>1. PICK kept \in SUBSET work[t] :
           /\ dead' = dead \cup (work[t] \ kept)
           /\ remaining' = [remaining EXCEPT ![t] = kept]
    BY <1>9 DEF SendAbandon
  <2>2. pc[t] = "send" /\ UNCHANGED <<disk, sent, unsaved, work, snap>>
        /\ pc' = [pc EXCEPT ![t] = "finLock"]
    BY <1>9 DEF SendAbandon
  <2> DEFINE gone == work[t] \ kept
  <2>3. HandedOver' = HandedOver \cup gone
    BY <2>1, <2>2 DEF HandedOver, Delivered
  <2>4. \A e \in Events : sent'[e] > 1 \/ (sent'[e] > 0 /\ e \in dead')
           => sent[e] > 1 \/ (sent[e] > 0 /\ e \in dead) \/ e \in gone \cap HandedOver
    BY <2>1, <2>2 DEF HandedOver, Delivered
  <2>5. work[t] \ gone = kept /\ gone \in SUBSET work[t]
    BY <2>1
  <2> HIDE DEF gone
  <2> QED
    BY <1>7, <2>1, <2>2, <2>3, <2>4, <2>5
<1>10. ASSUME NEW t \in Threads, FinWrite(t) PROVE OutcomesKnown'
  <2>1. pc[t] = "finWrite" /\ pc' = [pc EXCEPT ![t] = "finUnlock"]
        /\ UNCHANGED <<work, remaining, snap, sent, dead>>
        /\ \/ disk' = Final(t) /\ unsaved' = unsaved
           \/ unsaved' = unsaved \cup work[t] /\ disk' = disk
    BY <1>10 DEF FinWrite
  <2>2. \A e \in Events, s \in Threads \ {t} : Pending(s, e) => Pending(s, e)'
    BY <2>1
  <2>3. \A s \in Threads : Claimed(s)' \subseteq Claimed(s)
    BY <2>1
  <2>4. CASE unsaved' = unsaved \cup work[t] /\ disk' = disk
    <3>1. \A e \in Events : Kept(e)' => Kept(e)
      BY <2>1, <2>4
    <3> QED
      BY <2>1, <2>2, <2>3, <2>4, <3>1, OutcomesKept
  <2>5. CASE disk' = Final(t) /\ unsaved' = unsaved
    <3> SUFFICES ASSUME NEW e \in Events \ Invalid
                 PROVE  /\ sent'[e] > 1 \/ (sent'[e] > 0 /\ e \in dead') => e \in unsaved'
                        /\ (Kept(e)' /\ e \in HandedOver')
                              => e \in unsaved' \/ \E s \in Threads : Pending(s, e)'
                        /\ \A s \in Threads : e \in Claimed(s)' \cap HandedOver' => e \in unsaved'
      BY DEF OutcomesKnown
    <3>1. HandedOver' = HandedOver
      BY <2>1 DEF HandedOver, Delivered
    <3>2. HoldsFlush(t) /\ HoldsPersist(t)
      BY <2>1 DEF HoldsFlush, HoldsPersist, FlushPc
    <3>3. \A s \in Threads : s # t => ~HoldsPersist(s)
      BY <3>2 DEF QueueInv, SafeInv, PersistOwned
    <3>4. \A s \in Threads : ~Writing(s)'
      BY <2>1, <3>3 DEF HoldsPersist
    <3>5. Kept(e)' => e \in Final(t)
      BY <2>5, <3>4
    <3>6. e \in remaining[t] /\ e \in HandedOver => e \in unsaved
      <4>1. Claimed(t) = remaining[t]
        BY <2>1
      <4> QED
        BY <4>1 DEF OutcomesKnown
    <3>7. e \in snap[t] \ work[t] /\ e \in HandedOver => e \in unsaved
      <4>1. e \in snap[t] => Kept(e)
        BY <2>1
      <4>2. e \notin work[t] => \A s \in Threads : ~Pending(s, e)
        BY <3>2, FlusherIsAlone
      <4> QED
        BY <4>1, <4>2 DEF OutcomesKnown
    <3>8. (Kept(e)' /\ e \in HandedOver') => e \in unsaved'
      BY <2>5, <3>1, <3>5, <3>6, <3>7 DEF Final
    <3> QED
      BY <2>1, <2>3, <2>5, <3>1, <3>8 DEF OutcomesKnown
  <2> QED
    BY <2>1, <2>4, <2>5
<1>11. ASSUME NEW t \in Threads, FinishStep(t), ~FinWrite(t) PROVE OutcomesKnown'
  <2> USE DEF AcquirePersist, LockTimeout, FinLockTimeout, FinLoad, FinUnlock, FlushUnlock
  <2>1. UNCHANGED <<disk, sent, dead>> /\ unsaved \subseteq unsaved'
    BY <1>11 DEF FinishStep
  <2>2. \A e \in Events, s \in Threads : Pending(s, e) => Pending(s, e)' \/ e \in unsaved'
    <3>1. CASE FinLoad(t)
      BY <3>1
    <3>2. CASE FinLockTimeout(t)
      BY <3>2
    <3>3. CASE AcquirePersist(t, "finLock", "finLoad") \/ FinUnlock(t) \/ FlushUnlock(t)
      BY <3>3
    <3> QED
      BY <1>11, <3>1, <3>2, <3>3 DEF FinishStep
  <2>3. \A e \in Events : Kept(e)' => Kept(e)
    BY <1>11 DEF FinishStep
  <2>4. \A s \in Threads : Claimed(s)' \subseteq Claimed(s)
    BY <1>11 DEF FinishStep
  <2> QED
    BY <2>1, <2>2, <2>3, <2>4, OutcomesKept
<1>12. ASSUME NEW p \in Procs, Crash(p) PROVE OutcomesKnown'
  <2>1. UNCHANGED <<disk, sent, dead>> /\ unsaved \subseteq unsaved'
    BY <1>12 DEF Crash
  <2>2. ASSUME NEW s \in Threads
        PROVE  /\ Writing(s)' => Writing(s) /\ snap'[s] = snap[s]
               /\ Claimed(s)' \subseteq Claimed(s)
               /\ \A e \in Events : Pending(s, e) => Pending(s, e)' \/ e \in unsaved'
    <3>1. CASE s \in OwnedBy(p)
      <4>1. pc'[s] = "down"
        BY <1>12, <3>1 DEF Crash
      <4>2. \A e \in Events : Pending(s, e) => e \in unsaved'
        BY <1>12, <3>1 DEF Crash
      <4> QED
        BY <4>1, <4>2
    <3>2. CASE s \notin OwnedBy(p)
      <4>1. pc'[s] = pc[s] /\ work'[s] = work[s] /\ snap'[s] = snap[s]
            /\ remaining'[s] = remaining[s]
        BY <1>12, <3>2 DEF Crash
      <4> QED
        BY <4>1
    <3> QED
      BY <3>1, <3>2
  <2>3. \A e \in Events : Kept(e)' => Kept(e)
    BY <2>1, <2>2
  <2> QED
    BY <2>1, <2>2, <2>3, OutcomesKept
<1>13. ASSUME NEW p \in Procs, NewQueue(p) \/ QuarantineFile(p) PROVE OutcomesKnown'
  <2>1. UNCHANGED <<sent, dead, unsaved>> /\ disk' \subseteq disk
    BY <1>13 DEF NewQueue, QuarantineFile
  <2>2. \A s \in OwnedBy(p) : pc[s] = "down"
    BY <1>13 DEF NewQueue, QuarantineFile, OwnedBy, DownIsDown
  <2>3. /\ UNCHANGED <<work, snap, remaining>>
        /\ \A s \in Threads : s \in OwnedBy(p) \/ pc'[s] = pc[s]
        /\ \A s \in OwnedBy(p) : pc'[s] \in {"idle", "down"}
    BY <1>13, <2>2 DEF NewQueue, QuarantineFile, OwnedBy
  <2>4. \A e \in Events, s \in Threads : Pending(s, e) => Pending(s, e)'
    BY <2>2, <2>3
  <2>5. \A e \in Events : Kept(e)' => Kept(e)
    BY <2>1, <2>2, <2>3
  <2>6. \A s \in Threads : Claimed(s)' \subseteq Claimed(s)
    BY <2>2, <2>3
  <2> QED
    BY <2>1, <2>4, <2>5, <2>6, OutcomesKept
<1>14. CASE UNCHANGED vars
  BY <1>14, OutcomesKept DEF vars
<1> QED
  BY <1>1, <1>2, <1>3, <1>4, <1>5, <1>6, <1>8, <1>9, <1>10, <1>11, <1>12, <1>13, <1>14, Zenon
     DEF Next, DeliverStep

\* An event is handed over a second time only if the outcome of the first time
\* could not be saved (queue.go:274-308).
THEOREM RedeliveredOnlyUnsaved == AtomicReclaim /\ Spec => []RedeliveryNeedsUnsavedOutcome
<1>1. Init => OutcomesKnown /\ DownIsDown
  <2>1. ASSUME Init PROVE HandedOver = {} /\ \A e \in Events : ~(sent[e] > 1) /\ ~(sent[e] > 0)
    BY <2>1 DEF Init, HandedOver, Delivered
  <2>2. Init => DownIsDown
    BY ConfigAssumption DEF Init, DownIsDown
  <2> QED
    BY <2>1, <2>2, Zenon DEF OutcomesKnown
<1>2. OutcomesKnown => RedeliveryNeedsUnsavedOutcome
  BY DEF OutcomesKnown, RedeliveryNeedsUnsavedOutcome
<1>3. QueueInv => TypeOK
  BY DEF QueueInv, SafeInv
<1> QED
  BY <1>1, <1>2, <1>3, NextDown, NextOutcomes, SpecQueueInv, PTL DEF Spec
=============================================================================
