-------------------------- MODULE SiemOutputProofs --------------------------
(***************************************************************************)
(* For any number of processes, threads, fingerprints and failures, the    *)
(* types of SiemOutput; that no process clobbers what another one recorded *)
(* in the dedup file; that what suppresses a finding is backed by an event *)
(* queued or told; that nobody is alerted twice.  Of AuditRun, that all    *)
(* this still holds of whole runs, and that exit code 0 means what it says *)
(* when no two runs overlap.                                               *)
(***************************************************************************)
EXTENDS AuditRun, SequenceTheorems, TLAPS

-----------------------------------------------------------------------------
(* The operators on caches.  No entry is younger than the clock.           *)

LEMMA EntryIsSomething ==
    ASSUME NEW n \in Nat, NEW e \in Entries(0..n)
    PROVE  e # None /\ e.at \in 0..n /\ e.status \in Statuses
<1>1. e \in Entries(Nat)
  BY DEF Entries
<1> QED
  BY <1>1, NoneAssumption DEF Entries

LEMMA CacheEntries ==
    ASSUME NEW n \in Nat, NEW c \in Caches(0..n), NEW fp \in Fps, c[fp] # None
    PROVE  c[fp] \in Entries(0..n) /\ c[fp].at \in 0..n
<1>1. c[fp] \in Entries(0..n)
  BY DEF Caches
<1> QED
  BY <1>1, EntryIsSomething

\* Merge keeps every entry of the file, or a younger one of its own.
LEMMA MergeKeeps ==
    ASSUME NEW n \in Nat, NEW onDisk \in Caches(0..n), NEW c \in Caches(0..n)
    PROVE  /\ Merge(onDisk, c) \in Caches(0..n)
           /\ \A fp \in Fps : onDisk[fp] # None =>
                /\ Merge(onDisk, c)[fp] # None
                /\ Merge(onDisk, c)[fp].at >= onDisk[fp].at
<1>1. Merge(onDisk, c) \in Caches(0..n)
  BY DEF Merge, Caches
<1>2. ASSUME NEW fp \in Fps, onDisk[fp] # None
      PROVE  Merge(onDisk, c)[fp] # None /\ Merge(onDisk, c)[fp].at >= onDisk[fp].at
  <2>1. onDisk[fp].at \in 0..n
    BY <1>2, CacheEntries
  <2>2. CASE c[fp] = None \/ c[fp].at < onDisk[fp].at
    BY <1>2, <2>1, <2>2 DEF Merge
  <2>3. CASE c[fp] # None /\ ~(c[fp].at < onDisk[fp].at)
    <3>1. c[fp].at \in 0..n
      BY <2>3, CacheEntries
    <3>2. Merge(onDisk, c)[fp] = c[fp]
      BY <1>2, <2>3 DEF Merge
    <3> QED
      BY <2>1, <2>3, <3>1, <3>2
  <2> QED
    BY <2>2, <2>3
<1> QED
  BY <1>1, <1>2

LEMMA PruneKeeps ==
    ASSUME NEW n \in Nat, NEW c \in Caches(0..n)
    PROVE  /\ Prune(c, n) \in Caches(0..n)
           /\ \A fp \in Fps : c[fp] # None /\ ~Expired(c[fp], n) => Prune(c, n)[fp] = c[fp]
  BY DEF Prune, Caches

LEMMA UpdateKeeps ==
    ASSUME NEW n \in Nat, NEW c \in Caches(0..n), NEW es \in SUBSET Event
    PROVE  /\ Update(c, es, n) \in Caches(0..n)
           /\ \A fp \in Fps : c[fp] # None =>
                /\ Update(c, es, n)[fp] # None
                /\ Update(c, es, n)[fp].at >= c[fp].at
<1>1. ASSUME NEW fp \in Fps, \E e \in es : e.fp = fp
      PROVE  /\ Update(c, es, n)[fp] \in Entries(0..n)
             /\ Update(c, es, n)[fp].at = n
  <2>1. (CHOOSE e \in es : e.fp = fp) \in es
    BY <1>1
  <2>2. (CHOOSE e \in es : e.fp = fp).status \in Statuses
    BY <2>1 DEF Event
  <2>3. Update(c, es, n)[fp] = [status |-> (CHOOSE e \in es : e.fp = fp).status, at |-> n]
    BY <1>1 DEF Update
  <2> QED
    BY <2>2, <2>3 DEF Entries
<1>2. ASSUME NEW fp \in Fps, ~ \E e \in es : e.fp = fp
      PROVE  Update(c, es, n)[fp] = c[fp]
  BY <1>2 DEF Update
<1>3. Update(c, es, n) \in Caches(0..n)
  <2>1. Update(c, es, n) = [fp \in Fps |-> Update(c, es, n)[fp]]
    BY DEF Update
  <2>2. \A fp \in Fps : Update(c, es, n)[fp] \in Entries(0..n) \cup {None}
    BY <1>1, <1>2 DEF Caches
  <2> QED
    BY <2>1, <2>2 DEF Caches
<1>4. ASSUME NEW fp \in Fps, c[fp] # None
      PROVE  Update(c, es, n)[fp] # None /\ Update(c, es, n)[fp].at >= c[fp].at
  <2>1. c[fp].at \in 0..n
    BY <1>4, CacheEntries
  <2> QED
    BY <1>1, <1>2, <1>4, <2>1, EntryIsSomething
<1> QED
  BY <1>3, <1>4

LEMMA ForgottenKeeps ==
    ASSUME NEW n \in Nat, NEW c \in Caches(0..n), NEW fps
    PROVE  /\ Forgotten(c, fps) \in Caches(0..n)
           /\ \A fp \in Fps \ fps : Forgotten(c, fps)[fp] = c[fp]
  BY DEF Forgotten, Caches

LEMMA TimePasses ==
    ASSUME NEW n \in Nat, NEW m \in Nat, n <= m, NEW c \in Caches(0..n)
    PROVE  c \in Caches(0..m)
<1>1. Entries(0..n) \subseteq Entries(0..m)
  BY DEF Entries
<1> QED
  BY <1>1 DEF Caches

-----------------------------------------------------------------------------
(* Events and batches.                                                     *)

LEMMA BatchEvents ==
    ASSUME NEW b \in Seq(SUBSET Event)
    PROVE  EventsOf(b) \subseteq Event
<1>1. \A i \in DOMAIN b : b[i] \subseteq Event
  BY LenProperties
<1> QED
  BY <1>1, Zenon DEF EventsOf

LEMMA SmallerBatches ==
    ASSUME NEW b, NEW f, DOMAIN f = DOMAIN b, \A i \in DOMAIN b : f[i] \subseteq b[i]
    PROVE  EventsOf(f) \subseteq EventsOf(b)
<1>1. ASSUME NEW e \in EventsOf(f) PROVE e \in EventsOf(b)
  <2>1. PICK i \in DOMAIN f : e \in f[i]
    BY DEF EventsOf
  <2>2. i \in DOMAIN b /\ e \in b[i]
    BY <2>1
  <2> QED
    BY <2>2 DEF EventsOf
<1> QED
  BY <1>1

LEMMA Fingerprints ==
    ASSUME NEW es \in SUBSET Event
    PROVE  FpsOf(es) \subseteq Fps
  BY DEF FpsOf, Event

LEMMA FindingEvents ==
    ASSUME NEW c, NEW fp \in Fps
    PROVE  LifecycleEvent(c, fp) \in Event
  BY DEF LifecycleEvent, Event, Statuses, EventTypes

LEMMA RemediatedEvents ==
    ASSUME NEW c, NEW res, NEW n
    PROVE  RemediationEvents(c, res, n) \subseteq Event
  BY DEF RemediationEvents, Event, Statuses, EventTypes

-----------------------------------------------------------------------------
(* The type invariant, strengthened: no time stamp lies in the future.     *)

TypeInv ==
    /\ TypeOK
    /\ disk \in Caches(0..now) /\ auth \in Caches(0..now)
    /\ cache \in [Procs -> Caches(0..now)]

LEMMA InitTypeInv == Init => TypeInv
<1> SUFFICES ASSUME Init PROVE TypeInv
  OBVIOUS
<1>1. Empty \in Caches(0..0) /\ Empty \in Caches(0..MaxTime)
  BY DEF Empty, Caches
<1>2. <<>> \in Seq(SUBSET Event)
  BY EmptySeq
<1>3. now = 0 /\ 0 \in 0..MaxTime /\ 0 \in 0..MaxFaults /\ 0 \in 0..MaxRuns
  BY OutputAssumption DEF Init
<1> QED
  BY <1>1, <1>2, <1>3 DEF Init, TypeInv, TypeOK, Pc, Results

\* What every action reads.
LEMMA Reads ==
    ASSUME TypeInv, NEW t \in Threads
    PROVE  /\ now \in Nat /\ ProcOf[t] \in Procs
           /\ OwnCache(t) \in Caches(0..now)
           /\ EventsOf(batch[t]) \subseteq Event
           /\ Releasing(t) \subseteq Fps
<1>1. now \in Nat /\ ProcOf[t] \in Procs
  BY OutputAssumption DEF TypeInv, TypeOK
<1>2. OwnCache(t) \in Caches(0..now)
  BY <1>1 DEF TypeInv, OwnCache
<1>3. EventsOf(batch[t]) \subseteq Event
  BY BatchEvents DEF TypeInv, TypeOK
<1>4. Releasing(t) \subseteq Fps
  BY <1>3, Fingerprints DEF TypeInv, TypeOK, Releasing
<1> QED
  BY <1>1, <1>2, <1>3, <1>4

\* The clock stands still in every step but Tick, so the bound on the time
\* stamps carries TypeOK's.
LEMMA StampsBounded ==
    ASSUME now \in 0..MaxTime, disk \in Caches(0..now), auth \in Caches(0..now),
           cache \in [Procs -> Caches(0..now)]
    PROVE  /\ disk \in Caches(0..MaxTime) /\ auth \in Caches(0..MaxTime)
           /\ cache \in [Procs -> Caches(0..MaxTime)]
<1>1. now \in Nat /\ MaxTime \in Nat /\ now <= MaxTime
  BY OutputAssumption
<1>2. \A c \in Caches(0..now) : c \in Caches(0..MaxTime)
  BY <1>1, TimePasses
<1> QED
  BY <1>2

\* TypeOK in groups, so that a step need only look at those it changes.
Counters == now \in 0..MaxTime /\ faults \in 0..MaxFaults /\ runs \in 0..MaxRuns
Stamped  == /\ disk \in Caches(0..now) /\ auth \in Caches(0..now)
            /\ cache \in [Procs -> Caches(0..now)]
Queueing == queue \in Seq(SUBSET Event) /\ flusher \in Threads \cup {Nobody}
Running  == /\ audited \in [Procs -> BOOLEAN]
            /\ pc \in [Threads -> Pc]
            /\ results \in [Threads -> [Fps -> Results]]
            /\ events \in [Threads -> SUBSET Event]
            /\ batch \in [Threads -> Seq(SUBSET Event)]
Records  == /\ told \in [Fps -> SUBSET Statuses]
            /\ {excused, doubled, remediated} \subseteq SUBSET Fps

LEMMA Groups == TypeInv <=> Counters /\ Stamped /\ Queueing /\ Running /\ Records
<1>1. Counters /\ Stamped => /\ disk \in Caches(0..MaxTime) /\ auth \in Caches(0..MaxTime)
                            /\ cache \in [Procs -> Caches(0..MaxTime)]
  BY StampsBounded DEF Counters, Stamped
<1> QED
  BY <1>1, Zenon DEF TypeInv, TypeOK, Counters, Stamped, Queueing, Running, Records

-----------------------------------------------------------------------------
(* The two Releases keep the types.                                        *)

LEMMA Returned ==
    ASSUME TypeInv, NEW t \in Threads, Return(t)
    PROVE  events' \in [Threads -> SUBSET Event] /\ batch' \in [Threads -> Seq(SUBSET Event)]
<1>1. Running /\ <<>> \in Seq(SUBSET Event)
  BY Groups, EmptySeq
<1> QED
  BY <1>1 DEF Running, Return

LEMMA ReleaseTyped ==
    ASSUME TypeInv, NEW t \in Threads, NEW from, Release(t, from) \/ ReleaseFails(t, from)
    PROVE  TypeInv'
<1> USE DEF bounds, dedupVars, queueVars
<1> DEFINE left == Prune(Forgotten(Merge(disk, OwnCache(t)), Releasing(t)), now)
<1>0. Counters /\ Stamped /\ Queueing /\ Running /\ Records
  BY Groups
<1>1. /\ now \in Nat /\ ProcOf[t] \in Procs /\ OwnCache(t) \in Caches(0..now)
      /\ Releasing(t) \subseteq Fps
  BY Reads
<1>2. left \in Caches(0..now) /\ Forgotten(auth, Releasing(t)) \in Caches(0..now)
  BY <1>0, <1>1, MergeKeeps, ForgottenKeeps, PruneKeeps DEF Stamped
<1>3. /\ pc' = [pc EXCEPT ![t] = "idle"] /\ Return(t)
      /\ UNCHANGED <<now, runs, audited, queue, flusher, results, told,
                     doubled, remediated>>
      /\ \/ /\ disk' = left /\ SetCache(t, left) /\ auth' = Forgotten(auth, Releasing(t))
            /\ excused' = excused \cup (Releasing(t) \cap KeptElsewhere(t))
            /\ UNCHANGED faults
         \/ /\ Fault /\ (UNCHANGED cache \/ SetCache(t, left))
            /\ excused' = excused \cup Releasing(t) /\ UNCHANGED <<disk, auth>>
  BY DEF Release, ReleaseFails, Goto, Fault
<1> HIDE DEF left
<1>4. pc' \in [Threads -> Pc] /\ Running'
  <2>1. pc' \in [Threads -> Pc]
    BY <1>0, <1>3 DEF Running, Pc
  <2>2. events' \in [Threads -> SUBSET Event] /\ batch' \in [Threads -> Seq(SUBSET Event)]
    BY <1>3, Returned
  <2> QED
    BY <1>0, <1>3, <2>1, <2>2 DEF Running
<1>5. cache' \in [Procs -> Caches(0..now)]
  BY <1>0, <1>1, <1>2, <1>3 DEF Stamped, SetCache
<1>6. Counters'
  BY <1>0, <1>3, OutputAssumption DEF Counters, Fault
<1>7. Stamped'
  BY <1>0, <1>2, <1>3, <1>5 DEF Stamped
<1>8. Queueing' /\ Records'
  BY <1>0, <1>1, <1>3 DEF Queueing, Records
<1> QED
  BY <1>4, <1>6, <1>7, <1>8, Groups, PTL

-----------------------------------------------------------------------------
(* EmitFindings keeps the types.                                           *)

LEMMA EmitTyped ==
    ASSUME TypeInv, NEW t \in Threads, EmitStep(t)
    PROVE  TypeInv'
<1> USE DEF bounds, dedupVars, queueVars, local, history
<1>0. Counters /\ Stamped /\ Queueing /\ Running /\ Records
  BY Groups
<1>1. now \in Nat /\ ProcOf[t] \in Procs /\ OwnCache(t) \in Caches(0..now)
      /\ Releasing(t) \subseteq Fps
  BY Reads
<1>2. ASSUME NEW c \in Caches(0..now), SetCache(t, c)
      PROVE  cache' \in [Procs -> Caches(0..now)]
  BY <1>0, <1>2 DEF Stamped, SetCache
<1>3. ASSUME NEW es \in SUBSET Event, events' = [events EXCEPT ![t] = es]
      PROVE  events' \in [Threads -> SUBSET Event]
  BY <1>0, <1>3 DEF Running
<1>4. ASSUME NEW from, NEW to \in Pc, Goto(t, from, to)
      PROVE  pc' \in [Threads -> Pc]
  BY <1>0, <1>4 DEF Running, Goto
<1>5. ASSUME Fault PROVE Counters' /\ now' = now
  BY <1>0, <1>5, OutputAssumption DEF Counters, Fault
<1>p. "idle" \in Pc /\ "detect" \in Pc /\ "filter" \in Pc /\ "enqueue" \in Pc /\ "unreserve" \in Pc
  BY DEF Pc
<1>e. {} \in SUBSET Event
  OBVIOUS
<1>g. ASSUME Counters', Stamped', Queueing', Running', Records' PROVE TypeInv'
  BY <1>g, Groups, PTL
<1>6. ASSUME NEW res \in [Fps -> Results], Determine(t, res) PROVE TypeInv'
  <2> DEFINE found == {LifecycleEvent(OwnCache(t), fp) : fp \in {f \in Fps : res[f] = "fail"}}
  <2>1. found \in SUBSET Event
    BY FindingEvents
  <2>2. events' = [events EXCEPT ![t] = found] /\ Goto(t, "idle", "detect")
    BY <1>6 DEF Determine
  <2> HIDE DEF found
  <2>3. events' \in [Threads -> SUBSET Event] /\ pc' \in [Threads -> Pc]
    BY <1>3, <1>4, <1>p, <2>1, <2>2
  <2>4. Running'
    BY <1>0, <1>1, <1>6, <2>3 DEF Determine, Running
  <2>5. Counters' /\ Stamped' /\ Queueing' /\ Records'
    BY <1>0, <1>6 DEF Determine, Counters, Stamped, Queueing, Records
  <2> QED
    BY <1>g, <2>4, <2>5
<1>7. ASSUME Detect(t) PROVE TypeInv'
  <2> DEFINE all == events[t] \cup RemediationEvents(OwnCache(t), results[t], now)
  <2>1. all \in SUBSET Event
    BY <1>0, RemediatedEvents DEF Running
  <2>2. events' = [events EXCEPT ![t] = all]
    BY <1>7 DEF Detect
  <2>3. pc' \in [Threads -> Pc]
    BY <1>4, <1>7, <1>p DEF Detect
  <2> HIDE DEF all
  <2>4. events' \in [Threads -> SUBSET Event]
    BY <1>3, <2>1, <2>2
  <2>5. Running'
    BY <1>0, <1>7, <2>3, <2>4 DEF Detect, Running
  <2>6. Counters' /\ Stamped' /\ Queueing' /\ Records'
    BY <1>0, <1>7 DEF Detect, Counters, Stamped, Queueing, Records
  <2> QED
    BY <1>g, <2>5, <2>6
<1>8. ASSUME Filter(t) PROVE TypeInv'
  <2> DEFINE merged == Merge(disk, OwnCache(t))
             emit   == {e \in events[t] : ShouldEmit(merged, e, now)}
             kept   == Prune(Update(merged, emit, now), now)
  <2>1. emit \in SUBSET Event
    BY <1>0 DEF Running
  <2>2. kept \in Caches(0..now)
    BY <1>0, <1>1, <2>1, MergeKeeps, UpdateKeeps, PruneKeeps DEF Stamped
  <2>3. Update(auth, emit, now) \in Caches(0..now)
    BY <1>0, <1>1, <2>1, UpdateKeeps DEF Stamped
  <2>4. /\ disk' = kept /\ SetCache(t, kept) /\ auth' = Update(auth, emit, now)
        /\ events' = [events EXCEPT ![t] = emit]
        /\ UNCHANGED <<now, faults, runs, audited, queue, flusher, results, batch, told, excused>>
    BY <1>8 DEF Filter
  <2>5. pc' \in [Threads -> Pc]
    BY <1>4, <1>8, <1>p DEF Filter
  <2>6. doubled' \subseteq Fps /\ remediated' \subseteq Fps
    BY <1>0, <1>8 DEF Filter, Records, Running, FpsOf, Event
  <2> HIDE DEF merged, emit, kept
  <2>7. cache' \in [Procs -> Caches(0..now)] /\ events' \in [Threads -> SUBSET Event]
    BY <1>2, <1>3, <2>1, <2>2, <2>4
  <2>8. Stamped'
    BY <2>2, <2>3, <2>4, <2>7 DEF Stamped
  <2>9. Running' /\ Records'
    BY <1>0, <2>4, <2>5, <2>6, <2>7 DEF Running, Records
  <2>10. Counters' /\ Queueing'
    BY <1>0, <2>4 DEF Counters, Queueing
  <2> QED
    BY <1>g, <2>8, <2>9, <2>10
<1>9. ASSUME FilterFails(t) PROVE TypeInv'
  <2>1. cache' \in [Procs -> Caches(0..now)]
    <3>1. Merge(disk, OwnCache(t)) \in Caches(0..now)
      BY <1>0, <1>1, MergeKeeps DEF Stamped
    <3> QED
      BY <1>0, <1>2, <1>9, <3>1 DEF FilterFails, Stamped
  <2>2. Goto(t, "filter", "idle") /\ Fault /\ events' = [events EXCEPT ![t] = {}]
    BY <1>9 DEF FilterFails
  <2>3. pc' \in [Threads -> Pc]
    BY <1>4, <1>p, <2>2
  <2>4. events' \in [Threads -> SUBSET Event]
    BY <1>3, <1>e, <2>2
  <2>5. Counters' /\ now' = now
    BY <1>5, <2>2
  <2>6. Stamped'
    BY <1>0, <1>9, <2>1, <2>5 DEF FilterFails, Stamped
  <2>7. Running'
    BY <1>0, <1>9, <2>3, <2>4 DEF FilterFails, Running
  <2>8. Queueing' /\ Records'
    BY <1>0, <1>9 DEF FilterFails, Queueing, Records
  <2> QED
    BY <1>g, <2>5, <2>6, <2>7, <2>8
<1>10. ASSUME Enqueue(t) PROVE TypeInv'
  <2> DEFINE valid == {e \in events[t] : e.fp \notin Invalid}
  <2>1. valid \in SUBSET Event
    BY <1>0 DEF Running
  <2>2. queue' = IF valid = {} THEN queue ELSE Append(queue, valid)
    BY <1>10 DEF Enqueue
  <2> HIDE DEF valid
  <2>3. queue' \in Seq(SUBSET Event)
    BY <1>0, <2>1, <2>2, AppendProperties DEF Queueing
  <2>4. Goto(t, "enqueue", "idle") /\ events' = [events EXCEPT ![t] = {}]
    BY <1>10 DEF Enqueue
  <2>5. pc' \in [Threads -> Pc]
    BY <1>4, <1>p, <2>4
  <2>6. events' \in [Threads -> SUBSET Event]
    BY <1>3, <1>e, <2>4
  <2>7. Running' /\ Queueing'
    BY <1>0, <1>10, <2>3, <2>5, <2>6 DEF Enqueue, Running, Queueing
  <2>8. Counters' /\ Stamped' /\ Records'
    BY <1>0, <1>10 DEF Enqueue, Counters, Stamped, Records
  <2> QED
    BY <1>g, <2>7, <2>8
<1>11. ASSUME EnqueueFails(t) PROVE TypeInv'
  <2>1. pc' \in [Threads -> Pc]
    BY <1>4, <1>11, <1>p DEF EnqueueFails
  <2>2. Counters' /\ now' = now
    BY <1>0, <1>5, <1>11 DEF EnqueueFails, Counters
  <2>3. Running'
    BY <1>0, <1>11, <2>1 DEF EnqueueFails, Running
  <2>4. Stamped' /\ Queueing' /\ Records'
    BY <1>0, <1>11, <2>2 DEF EnqueueFails, Stamped, Queueing, Records
  <2> QED
    BY <1>g, <2>2, <2>3, <2>4
<1>12. ASSUME Release(t, "unreserve") \/ ReleaseFails(t, "unreserve") PROVE TypeInv'
  BY <1>12, ReleaseTyped
<1> QED
  BY <1>6, <1>7, <1>8, <1>9, <1>10, <1>11, <1>12, Zenon DEF EmitStep

-----------------------------------------------------------------------------
(* Flush keeps the types.                                                  *)

LEMMA NewcomerBatches ==
    ASSUME TypeInv, NEW t \in Threads
    PROVE  Newcomers(t) \in Seq(SUBSET Event)
<1>1. queue \in Seq(SUBSET Event) /\ batch[t] \in Seq(SUBSET Event)
  BY Groups DEF Queueing, Running
<1>2. \A i \in Len(batch[t]) + 1 .. Len(queue) : queue[i] \in SUBSET Event
  BY <1>1, LenProperties
<1> QED
  BY <1>1, <1>2, LenProperties, SubSeqProperties DEF Newcomers

LEMMA StampedBatch ==
    ASSUME TypeInv, NEW t \in Threads
    PROVE  Recorded(t) \in Caches(0..now)
<1> DEFINE with(fp) == {i \in DOMAIN batch[t] : fp \in FpsOf(batch[t][i])}
           last(fp) == CHOOSE i \in with(fp) : \A j \in with(fp) : j <= i
           newest   == {e \in EventsOf(batch[t]) : e \in batch[t][last(e.fp)]}
<1>1. newest \in SUBSET Event /\ now \in Nat /\ OwnCache(t) \in Caches(0..now)
  BY Reads
<1>2. Recorded(t) = Prune(Update(OwnCache(t), newest, now), now)
  BY DEF Recorded
<1> HIDE DEF newest
<1>3. Update(OwnCache(t), newest, now) \in Caches(0..now)
  BY <1>1, UpdateKeeps
<1> QED
  BY <1>1, <1>2, <1>3, PruneKeeps

LEMMA FlushTyped ==
    ASSUME TypeInv, NEW t \in Threads, FlushStep(t)
    PROVE  TypeInv'
<1> USE DEF bounds, dedupVars, queueVars, history
<1>0. Counters /\ Stamped /\ Queueing /\ Running /\ Records
  BY Groups
<1>1. now \in Nat /\ ProcOf[t] \in Procs /\ EventsOf(batch[t]) \subseteq Event
  BY Reads
<1>2. ASSUME NEW c \in Caches(0..now), SetCache(t, c)
      PROVE  cache' \in [Procs -> Caches(0..now)]
  BY <1>0, <1>2 DEF Stamped, SetCache
<1>3. ASSUME NEW b \in Seq(SUBSET Event), batch' = [batch EXCEPT ![t] = b]
      PROVE  batch' \in [Threads -> Seq(SUBSET Event)]
  BY <1>0, <1>3 DEF Running
<1>4. ASSUME NEW from, NEW to \in Pc, Goto(t, from, to)
      PROVE  pc' \in [Threads -> Pc]
  BY <1>0, <1>4 DEF Running, Goto
<1>5. ASSUME Fault PROVE Counters' /\ now' = now
  BY <1>0, <1>5, OutputAssumption DEF Counters, Fault
<1>p. "idle" \in Pc /\ "send" \in Pc /\ "record" \in Pc /\ "release" \in Pc
  BY DEF Pc
<1>g. ASSUME Counters', Stamped', Queueing', Running', Records' PROVE TypeInv'
  BY <1>g, Groups, PTL
<1>6. ASSUME FlushStart(t) PROVE TypeInv'
  <2>1. pc' \in [Threads -> Pc]
    BY <1>4, <1>6, <1>p DEF FlushStart
  <2>2. batch' \in [Threads -> Seq(SUBSET Event)]
    BY <1>0, <1>3, <1>6 DEF FlushStart, Queueing
  <2>3. Running'
    BY <1>0, <1>6, <2>1, <2>2 DEF FlushStart, Running
  <2>4. Queueing'
    BY <1>0, <1>6 DEF FlushStart, Queueing
  <2>5. Counters' /\ Stamped' /\ Records'
    BY <1>0, <1>6 DEF FlushStart, Counters, Stamped, Records
  <2> QED
    BY <1>g, <2>3, <2>4, <2>5
<1>7. ASSUME FlushDelivers(t) PROVE TypeInv'
  <2>1. pc' \in [Threads -> Pc]
    BY <1>4, <1>7, <1>p DEF FlushDelivers
  <2>2. Counters' /\ now' = now
    BY <1>0, <1>5, <1>7 DEF FlushDelivers, Counters
  <2>3. Queueing'
    BY <1>0, <1>7, NewcomerBatches DEF FlushDelivers, Queueing
  <2>4. told' \in [Fps -> SUBSET Statuses]
    <3>1. \A fp \in Fps : {e.status : e \in {x \in EventsOf(batch[t]) : x.fp = fp}} \subseteq Statuses
      BY <1>1 DEF Event
    <3> QED
      BY <1>0, <1>7, <3>1 DEF FlushDelivers, Records
  <2>5. Running'
    BY <1>0, <1>7, <2>1 DEF FlushDelivers, Running
  <2>6. Stamped' /\ Records'
    BY <1>0, <1>7, <2>2, <2>4 DEF FlushDelivers, Stamped, Records
  <2> QED
    BY <1>g, <2>2, <2>3, <2>5, <2>6
<1>8. ASSUME FlushKeeps(t) PROVE TypeInv'
  <2>1. pc' \in [Threads -> Pc]
    BY <1>4, <1>8, <1>p DEF FlushKeeps
  <2>2. events' \in [Threads -> SUBSET Event] /\ batch' \in [Threads -> Seq(SUBSET Event)]
    BY <1>8, Returned DEF FlushKeeps
  <2>3. Running'
    BY <1>0, <1>8, <2>1, <2>2 DEF FlushKeeps, Running
  <2>4. Counters' /\ now' = now
    BY <1>0, <1>5, <1>8 DEF FlushKeeps, Counters
  <2>5. queue' \in Seq(SUBSET Event)
    <3>1. batch[t] \in Seq(SUBSET Event) /\ queue \in Seq(SUBSET Event)
      BY <1>0 DEF Running, Queueing
    <3>2. queue' = queue \/ queue' = batch[t] \o Newcomers(t)
      BY <1>8 DEF FlushKeeps
    <3> QED
      BY <3>1, <3>2, NewcomerBatches, ConcatProperties
  <2>6. Queueing'
    BY <1>8, <2>5 DEF FlushKeeps, Queueing
  <2>7. Stamped' /\ Records'
    BY <1>0, <1>8, <2>4 DEF FlushKeeps, Stamped, Records
  <2> QED
    BY <1>g, <2>3, <2>4, <2>6, <2>7
<1>9. ASSUME FlushAbandons(t) PROVE TypeInv'
  <2>1. pc' \in [Threads -> Pc]
    BY <1>4, <1>9, <1>p DEF FlushAbandons
  <2>2. Counters' /\ now' = now
    BY <1>0, <1>5, <1>9 DEF FlushAbandons, Counters
  <2>3. PICK kept : /\ \/ queue' = queue
                       \/ queue' = (IF kept = {} THEN <<>>
                            ELSE [i \in DOMAIN batch[t] |-> batch[t][i] \cap kept]) \o Newcomers(t)
                    /\ batch' = [batch EXCEPT ![t] = [i \in DOMAIN @ |-> @[i] \ kept]]
    BY <1>9 DEF FlushAbandons
  <2>4. batch[t] \in Seq(SUBSET Event)
    BY <1>0 DEF Running
  <2>5. \A i \in DOMAIN batch[t] : batch[t][i] \cap kept \in SUBSET Event
                                  /\ batch[t][i] \ kept \in SUBSET Event
    BY <2>4, LenProperties
  <2>6. /\ [i \in DOMAIN batch[t] |-> batch[t][i] \cap kept] \in Seq(SUBSET Event)
        /\ [i \in DOMAIN batch[t] |-> batch[t][i] \ kept] \in Seq(SUBSET Event)
    BY <2>4, <2>5, LenProperties, SeqDef
  <2>7. Queueing'
    <3> DEFINE stay == IF kept = {} THEN <<>>
                       ELSE [i \in DOMAIN batch[t] |-> batch[t][i] \cap kept]
    <3>0. stay \in Seq(SUBSET Event) /\ queue \in Seq(SUBSET Event)
      BY <1>0, <2>6, EmptySeq DEF Queueing
    <3>2. queue' = queue \/ queue' = stay \o Newcomers(t)
      BY <2>3
    <3> HIDE DEF stay
    <3>1. queue' \in Seq(SUBSET Event)
      BY <3>0, <3>2, NewcomerBatches, ConcatProperties
    <3> QED
      BY <1>9, <3>1 DEF FlushAbandons, Queueing
  <2>8. batch' \in [Threads -> Seq(SUBSET Event)]
    BY <1>0, <2>3, <2>6 DEF Running
  <2>9. Running'
    BY <1>0, <1>9, <2>1, <2>8 DEF FlushAbandons, Running
  <2>10. Stamped' /\ Records'
    BY <1>0, <1>9, <2>2 DEF FlushAbandons, Stamped, Records
  <2> QED
    BY <1>g, <2>2, <2>7, <2>9, <2>10
<1>10. ASSUME Record(t) \/ RecordFails(t) PROVE TypeInv'
  <2> DEFINE merged == Prune(Merge(disk, Recorded(t)), now)
  <2>1. Recorded(t) \in Caches(0..now)
    BY StampedBatch
  <2>2. merged \in Caches(0..now)
    BY <1>0, <1>1, <2>1, MergeKeeps, PruneKeeps DEF Stamped
  <2>3. /\ Goto(t, "record", "idle") /\ Return(t)
        /\ UNCHANGED <<audited, queueVars, results, history>>
        /\ \/ disk' = merged /\ SetCache(t, merged) /\ UNCHANGED bounds
           \/ /\ Fault /\ UNCHANGED disk
              /\ SetCache(t, Recorded(t)) \/ SetCache(t, merged)
    BY <1>10 DEF Record, RecordFails
  <2> HIDE DEF merged
  <2>4. cache' \in [Procs -> Caches(0..now)]
    BY <1>2, <2>1, <2>2, <2>3
  <2>5. Counters' /\ now' = now
    BY <1>0, <1>5, <2>3 DEF Counters
  <2>6. Stamped'
    BY <1>0, <2>2, <2>3, <2>4, <2>5 DEF Stamped
  <2>7. pc' \in [Threads -> Pc]
    BY <1>4, <1>p, <2>3
  <2>8. events' \in [Threads -> SUBSET Event] /\ batch' \in [Threads -> Seq(SUBSET Event)]
    BY <2>3, Returned
  <2>9. Running'
    BY <1>0, <2>3, <2>7, <2>8 DEF Running
  <2>10. Queueing' /\ Records'
    BY <1>0, <2>3 DEF Queueing, Records
  <2> QED
    BY <1>g, <2>5, <2>6, <2>9, <2>10
<1> QED
  BY <1>6, <1>7, <1>8, <1>9, <1>10, ReleaseTyped, Zenon DEF FlushStep

-----------------------------------------------------------------------------
(* Type correctness.                                                       *)

LEMMA RunTyped ==
    ASSUME TypeInv, NEW p \in Procs, Stop(p) \/ Crash(p)
    PROVE  TypeInv'
<1> USE DEF queueVars, local, history
<1> DEFINE merged == Prune(Merge(disk, cache[p]), now)
<1>0. Counters /\ Stamped /\ Queueing /\ Running /\ Records /\ now \in Nat
  BY Groups, OutputAssumption DEF Counters
<1>1. merged \in Caches(0..now)
  BY <1>0, MergeKeeps, PruneKeeps DEF Stamped
<1>2. now' = now /\ audited' = [audited EXCEPT ![p] = FALSE] /\ runs < MaxRuns /\ runs' = runs + 1
  BY DEF Stop, Crash, NewRun
<1>3. /\ disk' = merged \/ disk' = disk
      /\ cache' = [cache EXCEPT ![p] = Prune(disk', now)] \/ cache' = [cache EXCEPT ![p] = Prune(disk, now)]
      /\ auth' = auth
  BY DEF Stop, Crash
<1> HIDE DEF merged
<1>4. disk' \in Caches(0..now) /\ Prune(disk', now) \in Caches(0..now) /\ Prune(disk, now) \in Caches(0..now)
  BY <1>0, <1>1, <1>3, PruneKeeps DEF Stamped
<1>5. Stamped'
  BY <1>0, <1>2, <1>3, <1>4 DEF Stamped
<1>6. Counters'
  BY <1>0, <1>2, OutputAssumption DEF Counters, Stop, Crash
<1>7. CASE Stop(p)
  <2>1. Running'
    BY <1>0, <1>2, <1>7 DEF Stop, Running
  <2>2. Queueing' /\ Records'
    BY <1>0, <1>7 DEF Stop, Queueing, Records
  <2> QED
    BY <1>5, <1>6, <2>1, <2>2, Groups, PTL
<1>8. CASE Crash(p)
  <2>1. pc' \in [Threads -> Pc]
    BY <1>0, <1>8 DEF Crash, Running, Pc
  <2>2. events' \in [Threads -> SUBSET Event]
    BY <1>0, <1>8 DEF Crash, Running
  <2>3. batch' \in [Threads -> Seq(SUBSET Event)]
    BY <1>0, <1>8, EmptySeq DEF Crash, Running
  <2>4. Running'
    BY <1>0, <1>2, <1>8, <2>1, <2>2, <2>3 DEF Crash, Running
  <2>5. Queueing'
    BY <1>0, <1>8 DEF Crash, Queueing
  <2>6. \A t \in Threads : Releasing(t) \cup FpsOf(events[t]) \subseteq Fps
    BY <1>0, Reads, Fingerprints DEF Running
  <2>7. excused' \subseteq Fps
    BY <1>0, <1>8, <2>6, Zenon DEF Crash, Records, OwnedBy
  <2>8. Records'
    BY <1>0, <1>8, <2>7 DEF Crash, Records
  <2> QED
    BY <1>5, <1>6, <2>4, <2>5, <2>8, Groups, PTL
<1> QED
  BY <1>7, <1>8

LEMMA TickTyped == TypeInv /\ Tick => TypeInv'
<1> SUFFICES ASSUME TypeInv, Tick PROVE TypeInv'
  OBVIOUS
<1> USE DEF dedupVars, queueVars, local, history
<1>0. Counters /\ Stamped /\ Queueing /\ Running /\ Records /\ now \in Nat
  BY Groups, OutputAssumption DEF Counters
<1>1. Counters' /\ now' = now + 1
  BY <1>0, OutputAssumption DEF Tick, Counters
<1>2. \A c \in Caches(0..now) : c \in Caches(0..now')
  BY <1>0, <1>1, TimePasses
<1>3. Stamped'
  BY <1>0, <1>2 DEF Tick, Stamped
<1>4. Queueing' /\ Running' /\ Records'
  BY <1>0 DEF Tick, Queueing, Running, Records
<1> QED
  BY <1>1, <1>3, <1>4, Groups, PTL

LEMMA StartTyped == TypeInv /\ StartFails => TypeInv'
<1> SUFFICES ASSUME TypeInv, StartFails PROVE TypeInv'
  OBVIOUS
<1> USE DEF local
<1>0. Counters /\ Stamped /\ Queueing /\ Running /\ Records
  BY Groups
<1>1. Counters' /\ now' = now
  BY <1>0, OutputAssumption DEF StartFails, Fault, Counters
<1>2. Empty \in Caches(0..now)
  BY DEF Empty, Caches
<1>3. Stamped'
  BY <1>0, <1>1, <1>2 DEF StartFails, Stamped
<1>4. Queueing'
  <2>1. \A i \in DOMAIN queue : {} \in SUBSET Event
    OBVIOUS
  <2>2. [i \in DOMAIN queue |-> {}] \in Seq(SUBSET Event)
    BY <1>0, <2>1, LenProperties, SeqDef DEF Queueing
  <2> QED
    BY <1>0, <2>2 DEF StartFails, Queueing
<1>5. FpsOf(EventsOf(queue)) \subseteq Fps
  BY <1>0, BatchEvents, Fingerprints DEF Queueing
<1>6. Running' /\ Records'
  BY <1>0, <1>5 DEF StartFails, Running, Records
<1> QED
  BY <1>1, <1>3, <1>4, <1>6, Groups, PTL

LEMMA NextTypeInv == TypeInv /\ [Next]_vars => TypeInv'
<1>1. ASSUME TypeInv, UNCHANGED vars PROVE TypeInv'
  BY <1>1 DEF TypeInv, TypeOK, vars, bounds, dedupVars, queueVars, local, history
<1> QED
  BY <1>1, EmitTyped, FlushTyped, RunTyped, StartTyped, TickTyped, Zenon DEF Next

\* Type correctness, and no entry of a cache, of the file or of the history is
\* stamped later than the clock (dedup.go:281-291 stamps with time.Now).
THEOREM OutputTypeCorrect == Spec => []TypeInv
<1> QED
  BY InitTypeInv, NextTypeInv, PTL DEF Spec

-----------------------------------------------------------------------------
(* No process clobbers what another one recorded.                          *)

\* What is not expired survives the pruning of whatever replaced it.
LEMMA PruneSurvives ==
    ASSUME NEW n \in Nat, NEW d \in Caches(0..n), NEW c \in Caches(0..n), NEW fp \in Fps,
           d[fp] # None, ~Expired(d[fp], n), c[fp] # None, c[fp].at >= d[fp].at
    PROVE  Prune(c, n)[fp] # None /\ Prune(c, n)[fp].at >= d[fp].at
<1>1. d[fp].at \in 0..n /\ c[fp].at \in 0..n
  BY CacheEntries
<1>2. ~Expired(c[fp], n)
  BY <1>1, OutputAssumption DEF Expired
<1> QED
  BY <1>2, PruneKeeps

\* A merge into the file, with or without new reservations, keeps its entries.
LEMMA MergeSurvives ==
    ASSUME NEW n \in Nat, NEW d \in Caches(0..n), NEW c \in Caches(0..n), NEW fp \in Fps,
           d[fp] # None, ~Expired(d[fp], n)
    PROVE  /\ Prune(Merge(d, c), n)[fp] # None /\ Prune(Merge(d, c), n)[fp].at >= d[fp].at
           /\ \A es \in SUBSET Event :
                 /\ Prune(Update(Merge(d, c), es, n), n)[fp] # None
                 /\ Prune(Update(Merge(d, c), es, n), n)[fp].at >= d[fp].at
<1>1. /\ Merge(d, c) \in Caches(0..n) /\ Merge(d, c)[fp] # None
      /\ Merge(d, c)[fp].at >= d[fp].at
  BY MergeKeeps
<1>2. ASSUME NEW es \in SUBSET Event
      PROVE  /\ Update(Merge(d, c), es, n) \in Caches(0..n)
             /\ Update(Merge(d, c), es, n)[fp] # None
             /\ Update(Merge(d, c), es, n)[fp].at >= d[fp].at
  <2>1. /\ Update(Merge(d, c), es, n) \in Caches(0..n)
        /\ Update(Merge(d, c), es, n)[fp] # None
        /\ Update(Merge(d, c), es, n)[fp].at >= Merge(d, c)[fp].at
    BY <1>1, UpdateKeeps
  <2>2. d[fp].at \in Nat /\ Merge(d, c)[fp].at \in Nat /\ Update(Merge(d, c), es, n)[fp].at \in Nat
    BY <1>1, <2>1, CacheEntries
  <2> QED
    BY <1>1, <2>1, <2>2
<1> QED
  BY <1>1, <1>2, PruneSurvives

Survives == \A fp \in Fps :
    disk[fp] # None /\ ~Expired(disk[fp], now) =>
        \/ disk'[fp] # None /\ disk'[fp].at >= disk[fp].at
        \/ StartFails
        \/ \E t \in Threads : /\ pc[t] \in {"unreserve", "release"}
                              /\ pc'[t] = "idle"
                              /\ fp \in Releasing(t)

LEMMA EmitSurvives ==
    ASSUME TypeInv, disk' # disk, [Next]_vars
    PROVE  Survives
<1>1. now \in Nat /\ disk \in Caches(0..now) /\ pc \in [Threads -> Pc]
  BY Groups, OutputAssumption DEF Counters, Stamped, Running
<1> SUFFICES ASSUME NEW fp \in Fps, disk[fp] # None, ~Expired(disk[fp], now)
             PROVE  \/ disk'[fp] # None /\ disk'[fp].at >= disk[fp].at
                    \/ StartFails
                    \/ \E t \in Threads : /\ pc[t] \in {"unreserve", "release"}
                                          /\ pc'[t] = "idle"
                                          /\ fp \in Releasing(t)
  BY DEF Survives
<1>2. ASSUME NEW t \in Threads, Filter(t)
      PROVE  disk'[fp] # None /\ disk'[fp].at >= disk[fp].at
  <2> DEFINE emit == {e \in events[t] : ShouldEmit(Merge(disk, OwnCache(t)), e, now)}
  <2>1. emit \in SUBSET Event
    BY Groups DEF Running
  <2>2. disk' = Prune(Update(Merge(disk, OwnCache(t)), emit, now), now)
    BY <1>2 DEF Filter
  <2> HIDE DEF emit
  <2> QED
    BY <1>1, <2>1, <2>2, Reads, MergeSurvives
<1>3. ASSUME NEW t \in Threads, Record(t)
      PROVE  disk'[fp] # None /\ disk'[fp].at >= disk[fp].at
  <2>1. disk' = Prune(Merge(disk, Recorded(t)), now)
    BY <1>3 DEF Record
  <2> QED
    BY <1>1, <2>1, StampedBatch, MergeSurvives
<1>4. ASSUME NEW p \in Procs, Stop(p), disk' # disk
      PROVE  disk'[fp] # None /\ disk'[fp].at >= disk[fp].at
  <2>1. disk' = Prune(Merge(disk, cache[p]), now)
    BY <1>4 DEF Stop
  <2>2. cache[p] \in Caches(0..now)
    BY Groups DEF Stamped
  <2> QED
    BY <1>1, <2>1, <2>2, MergeSurvives
<1>5. ASSUME NEW t \in Threads, NEW from \in {"unreserve", "release"}, Release(t, from)
      PROVE  \/ disk'[fp] # None /\ disk'[fp].at >= disk[fp].at
             \/ /\ pc[t] \in {"unreserve", "release"}
                /\ pc'[t] = "idle"
                /\ fp \in Releasing(t)
  <2>1. pc[t] \in {"unreserve", "release"} /\ pc'[t] = "idle"
    BY <1>1, <1>5 DEF Release, Goto
  <2>2. CASE fp \notin Releasing(t)
    <3> DEFINE merged == Merge(disk, OwnCache(t))
               left   == Forgotten(merged, Releasing(t))
    <3>1. merged \in Caches(0..now) /\ merged[fp] # None /\ merged[fp].at >= disk[fp].at
      BY <1>1, Reads, MergeKeeps
    <3>2. disk' = Prune(left, now)
      BY <1>5 DEF Release
    <3> HIDE DEF merged
    <3>3. left \in Caches(0..now) /\ left[fp] = merged[fp]
      BY <1>1, <2>2, <3>1, ForgottenKeeps
    <3> HIDE DEF left
    <3> QED
      BY <1>1, <3>1, <3>2, <3>3, PruneSurvives
  <2> QED
    BY <2>1, <2>2
<1>6. \/ \E t \in Threads : \/ Filter(t) \/ Record(t)
                            \/ Release(t, "unreserve") \/ Release(t, "release")
      \/ StartFails
      \/ \E p \in Procs : Stop(p)
  BY DEF Next, EmitStep, FlushStep, Determine, Detect, FilterFails, Enqueue, EnqueueFails,
         ReleaseFails, FlushStart, FlushDelivers, FlushKeeps, FlushAbandons, RecordFails,
         Crash, Tick, vars, dedupVars
<1> QED
  BY <1>2, <1>3, <1>4, <1>5, <1>6

LEMMA NothingTaken == TypeInv /\ disk' = disk => Survives
<1> SUFFICES ASSUME TypeInv, disk' = disk PROVE Survives
  OBVIOUS
<1>1. \A fp \in Fps : disk[fp] # None => disk[fp].at \in 0..now
  BY CacheEntries, Groups, OutputAssumption DEF Counters, Stamped
<1>2. now \in Nat
  BY Groups, OutputAssumption DEF Counters
<1> QED
  BY <1>1, <1>2 DEF Survives

LEMMA StepSurvives == TypeInv /\ [Next]_vars => Survives
  BY NothingTaken, EmitSurvives

\* Survives is what ReservationsSurvive says of a step.
LEMMA SurvivesStep ==
    Survives => [\A fp \in Fps :
        disk[fp] # None /\ ~Expired(disk[fp], now) =>
            \/ disk'[fp] # None /\ disk'[fp].at >= disk[fp].at
            \/ StartFails
            \/ \E t \in Threads : /\ pc[t] \in {"unreserve", "release"}
                                  /\ pc'[t] = "idle"
                                  /\ fp \in Releasing(t)]_vars
  BY DEF Survives

\* ReservationsSurvive for every number of agents sharing the dedup file: only
\* expiry or a Release of it takes an entry away, whatever crashes or fails.
THEOREM NothingClobbered == Spec => ReservationsSurvive
  BY StepSurvives, SurvivesStep, OutputTypeCorrect, PTL DEF Spec, ReservationsSurvive

-----------------------------------------------------------------------------
(* What the entries of a cache say: a set of pairs they stay within.       *)

Within(c, S) == \A fp \in Fps : c[fp] # None => <<fp, c[fp].status>> \in S

LEMMA WithinMore ==
    ASSUME NEW S, NEW c, Within(c, S), NEW T,
           \A fp \in Fps, s \in Statuses : <<fp, s>> \in S => <<fp, s>> \in T,
           NEW n \in Nat, c \in Caches(0..n)
    PROVE  Within(c, T)
<1>1. \A fp \in Fps : c[fp] # None => c[fp].status \in Statuses
  BY CacheEntries, EntryIsSomething
<1> QED
  BY <1>1 DEF Within

LEMMA MergeWithin ==
    ASSUME NEW S, NEW d, NEW c, Within(d, S), Within(c, S)
    PROVE  Within(Merge(d, c), S)
  BY DEF Within, Merge

LEMMA PruneWithin ==
    ASSUME NEW S, NEW c, Within(c, S), NEW n
    PROVE  Within(Prune(c, n), S)
  BY DEF Within, Prune

LEMMA UpdateWithin ==
    ASSUME NEW S, NEW c, Within(c, S), NEW es, NEW n,
           \A e \in es : <<e.fp, e.status>> \in S
    PROVE  Within(Update(c, es, n), S)
<1> SUFFICES ASSUME NEW fp \in Fps, Update(c, es, n)[fp] # None
             PROVE  <<fp, Update(c, es, n)[fp].status>> \in S
  BY DEF Within
<1>1. CASE \E e \in es : e.fp = fp
  <2> DEFINE e == CHOOSE x \in es : x.fp = fp
  <2>1. e \in es /\ e.fp = fp
    BY <1>1
  <2>2. Update(c, es, n)[fp].status = e.status
    BY <1>1 DEF Update
  <2> HIDE DEF e
  <2> QED
    BY <2>1, <2>2
<1>2. CASE ~ \E e \in es : e.fp = fp
  BY <1>2 DEF Update, Within
<1> QED
  BY <1>1, <1>2

LEMMA ForgottenWithin ==
    ASSUME NEW S, NEW c, Within(c, S), NEW fps
    PROVE  /\ Within(Forgotten(c, fps), S)
           /\ \A fp \in Fps : fp \in fps => Forgotten(c, fps)[fp] = None
  BY DEF Within, Forgotten

LEMMA NothingWithin == \A S : Within(Empty, S)
  BY DEF Within, Empty

\* What RecordDelivered writes comes from its cache and its batch.
LEMMA RecordedWithin ==
    ASSUME NEW S, NEW t \in Threads, Within(OwnCache(t), S),
           \A e \in EventsOf(batch[t]) : <<e.fp, e.status>> \in S
    PROVE  Within(Recorded(t), S)
<1> DEFINE with(fp) == {i \in DOMAIN batch[t] : fp \in FpsOf(batch[t][i])}
           last(fp) == CHOOSE i \in with(fp) : \A j \in with(fp) : j <= i
           newest   == {e \in EventsOf(batch[t]) : e \in batch[t][last(e.fp)]}
<1>1. Recorded(t) = Prune(Update(OwnCache(t), newest, now), now)
  BY DEF Recorded
<1>2. \A e \in newest : <<e.fp, e.status>> \in S
  OBVIOUS
<1> HIDE DEF newest
<1> QED
  BY <1>1, <1>2, UpdateWithin, PruneWithin

-----------------------------------------------------------------------------
(* What a step of one thread leaves alone.                                 *)

LEMMA OneThread ==
    ASSUME TypeInv, NEW t \in Threads, EmitStep(t) \/ FlushStep(t)
    PROVE  /\ \A s \in Threads \ {t} : /\ pc'[s] = pc[s] /\ events'[s] = events[s]
                                       /\ batch'[s] = batch[s]
           /\ \A p \in Procs \ {ProcOf[t]} : cache'[p] = cache[p]
           /\ \A fp \in Fps : told[fp] \subseteq told'[fp]
           /\ excused \subseteq excused' /\ remediated \subseteq remediated'
<1> USE DEF bounds, dedupVars, queueVars, local, history, Goto, Return, SetCache
<1>0. Stamped /\ Running /\ Records
  BY Groups
<1>1. CASE EmitStep(t)
  <2>1. /\ \A s \in Threads \ {t} : pc'[s] = pc[s]
        /\ told' = told /\ excused \subseteq excused' /\ remediated \subseteq remediated'
    BY <1>0, <1>1 DEF EmitStep, Determine, Detect, Filter, FilterFails, Enqueue, EnqueueFails,
                      Release, ReleaseFails, Running, Fault
  <2>2. /\ \A s \in Threads \ {t} : events'[s] = events[s] /\ batch'[s] = batch[s]
    BY <1>0, <1>1 DEF EmitStep, Determine, Detect, Filter, FilterFails, Enqueue, EnqueueFails,
                      Release, ReleaseFails, Running
  <2>3. \A p \in Procs \ {ProcOf[t]} : cache'[p] = cache[p]
    BY <1>0, <1>1 DEF EmitStep, Determine, Detect, Filter, FilterFails, Enqueue, EnqueueFails,
                      Release, ReleaseFails, Stamped
  <2> QED
    BY <2>1, <2>2, <2>3
<1>2. CASE FlushStep(t)
  <2>1. /\ \A s \in Threads \ {t} : pc'[s] = pc[s]
        /\ excused \subseteq excused' /\ remediated \subseteq remediated'
    BY <1>0, <1>2 DEF FlushStep, FlushStart, FlushDelivers, FlushKeeps, FlushAbandons, Record,
                      RecordFails, Release, ReleaseFails, Running
  <2>2. /\ \A s \in Threads \ {t} : events'[s] = events[s] /\ batch'[s] = batch[s]
    BY <1>0, <1>2 DEF FlushStep, FlushStart, FlushDelivers, FlushKeeps, FlushAbandons, Record,
                      RecordFails, Release, ReleaseFails, Running
  <2>3. \A p \in Procs \ {ProcOf[t]} : cache'[p] = cache[p]
    BY <1>0, <1>2 DEF FlushStep, FlushStart, FlushDelivers, FlushKeeps, FlushAbandons, Record,
                      RecordFails, Release, ReleaseFails, Stamped
  <2>4. \A fp \in Fps : told[fp] \subseteq told'[fp]
    BY <1>0, <1>2 DEF FlushStep, FlushStart, FlushDelivers, FlushKeeps, FlushAbandons, Record,
                      RecordFails, Release, ReleaseFails, Records
  <2> QED
    BY <2>1, <2>2, <2>3, <2>4
<1> QED
  BY <1>1, <1>2

LEMMA NoEvents == EventsOf(<<>>) = {}
<1>1. DOMAIN <<>> = {}
  BY EmptySeq, LenProperties
<1> QED
  BY <1>1 DEF EventsOf

LEMMA AppendedEvents ==
    ASSUME NEW b \in Seq(SUBSET Event), NEW es \in SUBSET Event
    PROVE  EventsOf(Append(b, es)) = EventsOf(b) \cup es
<1>1. /\ Append(b, es) \in Seq(SUBSET Event) /\ Len(Append(b, es)) = Len(b) + 1
      /\ \A i \in 1..Len(b) : Append(b, es)[i] = b[i]
      /\ Append(b, es)[Len(b) + 1] = es
      /\ Len(b) \in Nat
  BY AppendProperties, LenProperties
<1>2. DOMAIN b = 1..Len(b) /\ DOMAIN Append(b, es) = 1..Len(b) \cup {Len(b) + 1}
  BY <1>1, LenProperties
<1> QED
  BY <1>1, <1>2 DEF EventsOf

LEMMA JoinedEvents ==
    ASSUME NEW a \in Seq(SUBSET Event), NEW b \in Seq(SUBSET Event)
    PROVE  EventsOf(a \o b) = EventsOf(a) \cup EventsOf(b)
<1>1. /\ a \o b \in Seq(SUBSET Event) /\ Len(a \o b) = Len(a) + Len(b)
      /\ \A i \in 1..Len(a) + Len(b) : (a \o b)[i] = IF i <= Len(a) THEN a[i] ELSE b[i - Len(a)]
      /\ Len(a) \in Nat /\ Len(b) \in Nat
  BY ConcatProperties, LenProperties
<1>2. DOMAIN a = 1..Len(a) /\ DOMAIN b = 1..Len(b) /\ DOMAIN (a \o b) = 1..Len(a) + Len(b)
  BY <1>1, LenProperties
<1>3. EventsOf(a \o b) \subseteq EventsOf(a) \cup EventsOf(b)
  <2> SUFFICES ASSUME NEW i \in 1..Len(a) + Len(b)
               PROVE  (a \o b)[i] \subseteq EventsOf(a) \cup EventsOf(b)
    BY <1>2, Zenon DEF EventsOf
  <2>1. CASE i <= Len(a)
    BY <1>1, <1>2, <2>1 DEF EventsOf
  <2>2. CASE ~(i <= Len(a))
    <3>1. i - Len(a) \in 1..Len(b) /\ (a \o b)[i] = b[i - Len(a)]
      BY <1>1, <2>2
    <3> QED
      BY <1>2, <3>1 DEF EventsOf
  <2> QED
    BY <2>1, <2>2
<1>4. EventsOf(a) \subseteq EventsOf(a \o b)
  <2>1. \A i \in DOMAIN a : i \in DOMAIN (a \o b) /\ (a \o b)[i] = a[i]
    BY <1>1, <1>2
  <2> QED
    BY <2>1 DEF EventsOf
<1>5. EventsOf(b) \subseteq EventsOf(a \o b)
  <2>1. \A i \in DOMAIN b : i + Len(a) \in DOMAIN (a \o b) /\ (a \o b)[i + Len(a)] = b[i]
    BY <1>1, <1>2
  <2> QED
    BY <2>1 DEF EventsOf
<1> QED
  BY <1>3, <1>4, <1>5

-----------------------------------------------------------------------------
(* A flush in flight holds the front of the queue, or what the front held   *)
(* before the file was moved aside; what it records is told.                *)

AllTold(es) == \A e \in es : e.status \in told[e.fp]

Fronts(b, q) == Len(b) <= Len(q) /\ \A i \in 1..Len(b) : q[i] \subseteq b[i]

InFlight ==
    /\ \A t \in Threads : pc[t] = "record" => AllTold(EventsOf(batch[t]))
    /\ \A t \in Threads : pc[t] = "send" => flusher = t /\ Fronts(batch[t], queue)

LEMMA FrontAndRest ==
    ASSUME TypeInv, NEW t \in Threads, Fronts(batch[t], queue)
    PROVE  EventsOf(queue) \subseteq EventsOf(batch[t]) \cup EventsOf(Newcomers(t))
<1>1. queue \in Seq(SUBSET Event) /\ batch[t] \in Seq(SUBSET Event)
  BY Groups DEF Queueing, Running
<1>2. /\ Len(queue) \in Nat /\ Len(batch[t]) \in Nat /\ Len(batch[t]) <= Len(queue)
      /\ DOMAIN queue = 1..Len(queue) /\ DOMAIN batch[t] = 1..Len(batch[t])
      /\ \A i \in 1..Len(batch[t]) : queue[i] \subseteq batch[t][i]
  BY <1>1, LenProperties DEF Fronts
<1>3. /\ DOMAIN Newcomers(t) = 1..Len(queue) - Len(batch[t])
      /\ \A j \in 1..Len(queue) - Len(batch[t]) : Newcomers(t)[j] = queue[Len(batch[t]) + j]
  <2> DEFINE m == Len(batch[t]) + 1
             n == Len(queue)
             rest == SubSeq(queue, m, n)
  <2>1. m \in Nat /\ n \in Nat /\ m <= n + 1 /\ n - m + 1 = n - Len(batch[t])
    BY <1>2
  <2>2. \A i \in m..n : queue[i] \in SUBSET Event
    BY <1>1, <1>2
  <2>3. Newcomers(t) = rest
    BY DEF Newcomers
  <2> HIDE DEF m, n, rest
  <2>4. /\ rest \in Seq(SUBSET Event) /\ Len(rest) = IF m <= n THEN n - m + 1 ELSE 0
        /\ \A i \in 1..n - m + 1 : rest[i] = queue[m + i - 1]
    BY <2>1, <2>2, SubSeqProperties DEF rest
  <2>5. DOMAIN rest = 1..n - m + 1
    BY <2>1, <2>4, LenProperties
  <2>6. \A j \in 1..n - Len(batch[t]) : m + j - 1 = Len(batch[t]) + j
    BY <1>2 DEF m
  <2>7. n = Len(queue)
    BY DEF n
  <2> QED
    BY <2>1, <2>3, <2>4, <2>5, <2>6, <2>7
<1> SUFFICES ASSUME NEW i \in 1..Len(queue)
             PROVE  queue[i] \subseteq EventsOf(batch[t]) \cup EventsOf(Newcomers(t))
  BY <1>2, Zenon DEF EventsOf
<1>4. CASE i <= Len(batch[t])
  BY <1>2, <1>4 DEF EventsOf
<1>5. CASE ~(i <= Len(batch[t]))
  <2>1. /\ i - Len(batch[t]) \in 1..Len(queue) - Len(batch[t])
        /\ Len(batch[t]) + (i - Len(batch[t])) = i
    BY <1>2, <1>5
  <2>2. Newcomers(t)[i - Len(batch[t])] = queue[i]
    BY <1>3, <2>1
  <2> QED
    BY <1>3, <2>1, <2>2 DEF EventsOf
<1> QED
  BY <1>4, <1>5

LEMMA ToldStays ==
    ASSUME NEW s \in Threads, batch'[s] = batch[s], AllTold(EventsOf(batch[s])),
           \A e \in EventsOf(batch[s]) : told[e.fp] \subseteq told'[e.fp]
    PROVE  AllTold(EventsOf(batch[s]))'
<1>1. EventsOf(batch[s])' = EventsOf(batch[s])
  BY DEF EventsOf
<1>2. \A e \in EventsOf(batch[s])' : e.status \in told'[e.fp]
  BY <1>1 DEF AllTold
<1> QED
  BY <1>2, Zenon DEF AllTold

LEMMA InitInFlight == Init => InFlight
<1> SUFFICES ASSUME Init, NEW t \in Threads PROVE pc[t] = "idle"
  BY DEF InFlight
<1> QED
  BY DEF Init

LEMMA StepInFlight ==
    ASSUME TypeInv, InFlight, NEW t \in Threads, EmitStep(t) \/ FlushStep(t)
    PROVE  InFlight'
<1> USE DEF bounds, dedupVars, queueVars, history
<1>0. Queueing /\ Running /\ Records
  BY Groups
<1>1. /\ \A s \in Threads \ {t} : pc'[s] = pc[s] /\ batch'[s] = batch[s]
      /\ \A fp \in Fps : told[fp] \subseteq told'[fp]
  BY OneThread
<1>2. \A s \in Threads : \A e \in EventsOf(batch[s]) : e.fp \in Fps
  BY Reads DEF Event
<1>3. \A s \in Threads \ {t} : pc'[s] = "record" => AllTold(EventsOf(batch[s]))'
  BY <1>1, <1>2, ToldStays DEF InFlight
<1>4. ASSUME NEW s \in Threads \ {t}, pc[s] = "send", flusher' = flusher,
             queue' = queue \/ \E es \in SUBSET Event : queue' = Append(queue, es)
      PROVE  flusher' = s /\ Fronts(batch[s], queue')
  <2>1. flusher = s /\ Len(batch[s]) <= Len(queue)
        /\ \A i \in 1..Len(batch[s]) : queue[i] \subseteq batch[s][i]
    BY <1>4 DEF InFlight, Fronts
  <2>2. Len(batch[s]) \in Nat /\ Len(queue) \in Nat
    BY <1>0, LenProperties DEF Queueing, Running
  <2>3. ASSUME NEW es \in SUBSET Event, queue' = Append(queue, es)
        PROVE  Len(queue) <= Len(queue') /\ \A i \in 1..Len(queue) : queue'[i] = queue[i]
    BY <1>0, <2>2, <2>3, AppendProperties DEF Queueing
  <2>4. Len(queue) <= Len(queue') /\ \A i \in 1..Len(queue) : queue'[i] = queue[i]
    BY <1>4, <2>2, <2>3
  <2>5. Len(queue') \in Nat
    BY <1>0, <1>4, <2>2, AppendProperties DEF Queueing
  <2> QED
    BY <1>4, <2>1, <2>2, <2>4, <2>5 DEF Fronts
\* Steps that leave the lock of Flush alone.
<1>5. ASSUME flusher' = flusher, pc'[t] # "record", pc'[t] # "send",
             queue' = queue \/ \E es \in SUBSET Event : queue' = Append(queue, es)
      PROVE  InFlight'
  <2>1. \A s \in Threads \ {t} : pc'[s] = "send" => flusher' = s /\ Fronts(batch'[s], queue')
    BY <1>1, <1>4, <1>5
  <2> QED
    BY <1>3, <1>5, <2>1, Zenon DEF InFlight, Fronts
\* Steps that give it back.
<1>6. ASSUME pc[t] = "send", pc'[t] # "send",
             pc'[t] = "record" => AllTold(EventsOf(batch[t]))'
      PROVE  InFlight'
  <2>1. \A s \in Threads \ {t} : pc'[s] # "send"
    BY <1>1, <1>6 DEF InFlight
  <2> QED
    BY <1>3, <1>6, <2>1, Zenon DEF InFlight
<1>7. CASE EmitStep(t)
  <2>1. flusher' = flusher /\ pc'[t] # "record" /\ pc'[t] # "send"
    BY <1>0, <1>7 DEF EmitStep, Determine, Detect, Filter, FilterFails, Enqueue, EnqueueFails,
                      Release, ReleaseFails, Goto, Running
  <2>2. ASSUME Enqueue(t)
        PROVE  queue' = queue \/ \E es \in SUBSET Event : queue' = Append(queue, es)
    <3>1. {e \in events[t] : e.fp \notin Invalid} \in SUBSET Event
      BY <1>0 DEF Running
    <3> QED
      BY <2>2, <3>1, Zenon DEF Enqueue
  <2>3. queue' = queue \/ \E es \in SUBSET Event : queue' = Append(queue, es)
    BY <1>7, <2>2 DEF EmitStep, Determine, Detect, Filter, FilterFails, EnqueueFails,
                      Release, ReleaseFails
  <2> QED
    BY <1>5, <2>1, <2>3
<1>8. CASE FlushStep(t)
  <2>1. ASSUME FlushStart(t) PROVE InFlight'
    <3>1. flusher = Nobody /\ flusher' = t /\ queue' = queue /\ pc'[t] = "send" /\ batch'[t] = queue
      BY <1>0, <2>1 DEF FlushStart, Goto, Running
    <3>2. \A s \in Threads : pc[s] # "send"
      BY <3>1, OutputAssumption DEF InFlight
    <3>3. Fronts(batch'[t], queue')
      BY <1>0, <3>1, LenProperties DEF Fronts, Queueing
    <3> QED
      <4>1. \A s \in Threads : pc'[s] = "send" => s = t
        BY <1>1, <3>2
      <4>2. \A s \in Threads : pc'[s] = "record" => AllTold(EventsOf(batch[s]))'
        BY <1>3, <3>1
      <4> QED
        BY <3>1, <3>3, <4>1, <4>2, Zenon DEF InFlight, Fronts
  <2>2. ASSUME FlushDelivers(t) PROVE InFlight'
    <3>1. pc[t] = "send" /\ pc'[t] = "record" /\ batch' = batch
      BY <1>0, <2>2 DEF FlushDelivers, Goto, Running
    <3>2. ASSUME NEW e \in EventsOf(batch[t]) PROVE e.status \in told'[e.fp]
      BY <1>2, <2>2, <3>2 DEF FlushDelivers
    <3> QED
      BY <1>6, <3>1, <3>2 DEF AllTold, EventsOf
  <2>3. ASSUME FlushKeeps(t) \/ FlushAbandons(t) PROVE InFlight'
    <3>1. pc[t] = "send" /\ pc'[t] # "send" /\ pc'[t] # "record"
      BY <1>0, <2>3 DEF FlushKeeps, FlushAbandons, Goto, Running
    <3> QED
      BY <1>6, <3>1
  <2>4. ASSUME \/ Record(t) \/ RecordFails(t)
               \/ Release(t, "release") \/ ReleaseFails(t, "release")
        PROVE InFlight'
    <3>1. flusher' = flusher /\ queue' = queue /\ pc'[t] # "record" /\ pc'[t] # "send"
      BY <1>0, <2>4 DEF Record, RecordFails, Release, ReleaseFails, Goto, Running
    <3> QED
      BY <1>5, <3>1
  <2> QED
    BY <1>8, <2>1, <2>2, <2>3, <2>4, Zenon DEF FlushStep
<1> QED
  BY <1>7, <1>8

LEMMA NextInFlight == TypeInv /\ InFlight /\ [Next]_vars => InFlight'
<1> SUFFICES ASSUME TypeInv, InFlight, [Next]_vars PROVE InFlight'
  OBVIOUS
<1> USE DEF queueVars, local, history
<1>1. ASSUME UNCHANGED <<pc, batch, told, flusher, queue>> PROVE InFlight'
  <2>1. \A s \in Threads : pc'[s] = "record" => AllTold(EventsOf(batch[s]))'
    BY <1>1, ToldStays DEF InFlight
  <2>2. \A s \in Threads : pc'[s] = "send" => flusher' = s /\ Fronts(batch'[s], queue')
    BY <1>1 DEF InFlight
  <2> QED
    BY <2>1, <2>2, Zenon DEF InFlight, Fronts
<1>2. ASSUME NEW p \in Procs, Crash(p) PROVE InFlight'
  <2>0. Running
    BY Groups
  <2>1. \A s \in Threads : pc'[s] # "idle" => pc'[s] = pc[s] /\ batch'[s] = batch[s] /\ s \notin OwnedBy(p)
    BY <1>2, <2>0 DEF Crash, Running
  <2>2. told' = told /\ queue' = queue /\ (flusher \notin OwnedBy(p) => flusher' = flusher)
    BY <1>2 DEF Crash
  <2>3. ASSUME NEW s \in Threads, pc'[s] = "record" PROVE AllTold(EventsOf(batch[s]))'
    <3>1. pc[s] = "record" /\ batch'[s] = batch[s]
      BY <2>1, <2>3
    <3> QED
      BY <2>2, <3>1, Zenon DEF InFlight, AllTold, EventsOf
  <2>4. ASSUME NEW s \in Threads, pc'[s] = "send" PROVE flusher' = s /\ Fronts(batch'[s], queue')
    BY <2>1, <2>2, <2>4 DEF InFlight
  <2> QED
    BY <2>3, <2>4, Zenon DEF InFlight, AllTold, Fronts, EventsOf
<1>3. (\E p \in Procs : Stop(p)) \/ Tick \/ UNCHANGED vars => UNCHANGED <<pc, batch, told, flusher, queue>>
  BY DEF Stop, Tick, vars
<1>4. ASSUME StartFails PROVE InFlight'
  <2>1. /\ UNCHANGED <<pc, batch, told, flusher>>
        /\ queue' = queue \/ queue' = [i \in DOMAIN queue |-> {}]
    BY <1>4 DEF StartFails
  <2>2. \A s \in Threads : pc'[s] = "record" => AllTold(EventsOf(batch[s]))'
    BY <2>1, ToldStays DEF InFlight
  <2>3. ASSUME NEW s \in Threads, pc[s] = "send" PROVE Fronts(batch[s], queue')
    <3>1. queue \in Seq(SUBSET Event) /\ batch[s] \in Seq(SUBSET Event)
      BY Groups DEF Queueing, Running
    <3>2. Fronts(batch[s], queue)
      BY <2>3 DEF InFlight
    <3>3. CASE queue' = [i \in DOMAIN queue |-> {}]
      <4>1. DOMAIN queue = 1..Len(queue) /\ Len(queue) \in Nat /\ Len(batch[s]) \in Nat
        BY <3>1, LenProperties
      <4>2. \A i \in DOMAIN queue : {} \in SUBSET Event
        OBVIOUS
      <4>3. queue' \in Seq(SUBSET Event) /\ DOMAIN queue' = 1..Len(queue)
        BY <3>3, <4>1, <4>2, SeqDef
      <4>4. Len(queue') = Len(queue)
        BY <4>1, <4>3, LenProperties
      <4> QED
        BY <3>2, <3>3, <4>1, <4>4 DEF Fronts
    <3> QED
      BY <2>1, <3>2, <3>3
  <2>4. \A s \in Threads : pc'[s] = "send" => flusher' = s /\ Fronts(batch'[s], queue')
    BY <2>1, <2>3 DEF InFlight
  <2> QED
    BY <2>2, <2>4, Zenon DEF InFlight, Fronts
<1> QED
  BY <1>1, <1>2, <1>3, <1>4, StepInFlight, Zenon DEF Next

-----------------------------------------------------------------------------
(* Every reservation is backed.  Expired entries are, too: the invariant   *)
(* need not know which entries a later merge brings back.                  *)

Backing ==
    {x \in Fps \X Statuses :
        \/ x[1] \in excused \cup Invalid
        \/ x[2] \in told[x[1]]
        \/ \E e \in Alive : e.fp = x[1] /\ e.status = x[2]}

EntriesBacked == Within(disk, Backing) /\ \A p \in Procs : Within(cache[p], Backing)

Lives(e) ==
    \/ e \in EventsOf(queue)
    \/ \E s \in Threads : pc[s] \in {"enqueue", "unreserve"} /\ e \in events[s]
    \/ \E s \in Threads : pc[s] = "release" /\ e \in EventsOf(batch[s])

LEMMA Living == \A e : e \in Alive <=> Lives(e)
<1> TAKE e
<1> DEFINE own  == UNION {events[t] : t \in {s \in Threads : pc[s] \in {"enqueue", "unreserve"}}}
           gone == UNION {EventsOf(batch[t]) : t \in {s \in Threads : pc[s] = "release"}}
<1>1. e \in own <=> \E s \in Threads : pc[s] \in {"enqueue", "unreserve"} /\ e \in events[s]
  OBVIOUS
<1>2. e \in gone <=> \E s \in Threads : pc[s] = "release" /\ e \in EventsOf(batch[s])
  OBVIOUS
<1>3. Alive = EventsOf(queue) \cup own \cup gone
  BY DEF Alive
<1> HIDE DEF own, gone
<1> QED
  BY <1>1, <1>2, <1>3, Zenon DEF Lives

LEMMA LivingNext == \A e : e \in Alive' <=> Lives(e)'
<1>1. (\A e : e \in Alive <=> Lives(e))'
  BY Living, PTL
<1> QED
  BY <1>1

\* What becomes of a living event when one thread moves.
LEMMA LivingStays ==
    ASSUME NEW t \in Threads,
           \A s \in Threads \ {t} : /\ pc'[s] = pc[s] /\ events'[s] = events[s]
                                    /\ batch'[s] = batch[s],
           NEW e \in Alive
    PROVE  \/ e \in Alive'
           \/ e \in EventsOf(queue) /\ e \notin EventsOf(queue')
           \/ pc[t] \in {"enqueue", "unreserve"} /\ e \in events[t]
           \/ pc[t] = "release" /\ e \in EventsOf(batch[t])
<1>1. ASSUME e \in EventsOf(queue), e \in EventsOf(queue')
      PROVE  Lives(e)'
  BY <1>1 DEF Lives, EventsOf
<1>2. ASSUME NEW s \in Threads, pc[s] \in {"enqueue", "unreserve"}, e \in events[s], s # t
      PROVE  Lives(e)'
  <2>1. pc'[s] \in {"enqueue", "unreserve"} /\ e \in events'[s]
    BY <1>2
  <2> QED
    BY <2>1, Zenon DEF Lives
<1>3. ASSUME NEW s \in Threads, pc[s] = "release", e \in EventsOf(batch[s]), s # t
      PROVE  Lives(e)'
  <2>1. pc'[s] = "release" /\ batch'[s] = batch[s]
    BY <1>3
  <2>2. EventsOf(batch[s])' = EventsOf(batch[s])
    BY <2>1 DEF EventsOf
  <2>3. pc'[s] = "release" /\ e \in EventsOf(batch[s])'
    BY <1>3, <2>1, <2>2
  <2> QED
    BY <2>3, Zenon DEF Lives
<1>4. Lives(e)
  BY Living
<1> QED
  BY <1>1, <1>2, <1>3, <1>4, LivingNext, Zenon DEF Lives

\* Backing shrinks only by the fingerprints in gone.
LEMMA BackingKept ==
    ASSUME NEW gone, excused \subseteq excused',
           \A fp \in Fps : told[fp] \subseteq told'[fp],
           \A e \in Alive : \/ e \in Alive'
                            \/ e.fp \in excused' \cup Invalid \cup gone
                            \/ e.fp \in Fps /\ e.status \in told'[e.fp]
    PROVE  \A fp \in Fps \ gone, s \in Statuses : <<fp, s>> \in Backing => <<fp, s>> \in Backing'
<1> SUFFICES ASSUME NEW fp \in Fps \ gone, NEW s \in Statuses, <<fp, s>> \in Backing
             PROVE  <<fp, s>> \in Backing'
  OBVIOUS
<1>0. ASSUME \/ fp \in excused' \cup Invalid \/ s \in told'[fp]
             \/ \E e \in Alive' : e.fp = fp /\ e.status = s
      PROVE  <<fp, s>> \in Backing'
  <2> DEFINE x == <<fp, s>>
  <2>1. x \in Fps \X Statuses /\ x[1] = fp /\ x[2] = s
    OBVIOUS
  <2> HIDE DEF x
  <2>2. \/ x[1] \in excused' \cup Invalid \/ x[2] \in told'[x[1]]
        \/ \E e \in Alive' : e.fp = x[1] /\ e.status = x[2]
    BY <1>0, <2>1
  <2>3. x \in Backing'
    BY <2>1, <2>2, Zenon DEF Backing
  <2> QED
    BY <2>3 DEF x
<1>1. \/ fp \in excused \cup Invalid \/ s \in told[fp]
      \/ \E e \in Alive : e.fp = fp /\ e.status = s
  BY DEF Backing
<1>2. CASE \E e \in Alive : e.fp = fp /\ e.status = s
  BY <1>0, <1>2
<1> QED
  BY <1>0, <1>1, <1>2

\* What leaves the queue was delivered or is abandoned.
LEMMA LeavesTheQueue ==
    ASSUME TypeInv, InFlight, NEW t \in Threads, EmitStep(t) \/ FlushStep(t)
    PROVE  \A e \in EventsOf(queue) :
              \/ e \in EventsOf(queue')
              \/ FlushDelivers(t) /\ e.fp \in Fps /\ e.status \in told'[e.fp]
              \/ FlushAbandons(t) /\ pc'[t] = "release" /\ e \in EventsOf(batch[t])'
<1> USE DEF queueVars, history
<1>0. Queueing /\ Running /\ Records
  BY Groups
<1>1. ASSUME pc[t] = "send"
      PROVE  /\ queue \in Seq(SUBSET Event) /\ batch[t] \in Seq(SUBSET Event)
             /\ EventsOf(queue) \subseteq EventsOf(batch[t]) \cup EventsOf(Newcomers(t))
             /\ Newcomers(t) \in Seq(SUBSET Event)
  BY <1>0, <1>1, FrontAndRest, NewcomerBatches DEF InFlight, Queueing, Running
<1>2. ASSUME Enqueue(t)
      PROVE  \A e \in EventsOf(queue) : e \in EventsOf(queue')
  <2> DEFINE valid == {e \in events[t] : e.fp \notin Invalid}
  <2>1. valid \in SUBSET Event /\ queue' = IF valid = {} THEN queue ELSE Append(queue, valid)
    BY <1>0, <1>2 DEF Enqueue, Running
  <2> HIDE DEF valid
  <2> QED
    BY <1>0, <2>1, AppendedEvents DEF Queueing
<1>3. ASSUME FlushDelivers(t)
      PROVE  \A e \in EventsOf(queue) : \/ e \in EventsOf(queue')
                                        \/ e.fp \in Fps /\ e.status \in told'[e.fp]
  <2>1. pc[t] = "send" /\ (queue' = queue \/ queue' = Newcomers(t))
    BY <1>3 DEF FlushDelivers, Goto
  <2>2. \A e \in EventsOf(batch[t]) : e.fp \in Fps
    BY Reads DEF Event
  <2>3. \A e \in EventsOf(batch[t]) : e.fp \in Fps /\ e.status \in told'[e.fp]
    BY <1>3, <2>2 DEF FlushDelivers
  <2> QED
    BY <1>1, <2>1, <2>3
<1>4. ASSUME FlushAbandons(t)
      PROVE  \A e \in EventsOf(queue) : e \in EventsOf(queue') \/ e \in EventsOf(batch[t])'
  <2>1. PICK kept : /\ \/ queue' = queue
                       \/ queue' = (IF kept = {} THEN <<>>
                            ELSE [i \in DOMAIN batch[t] |-> batch[t][i] \cap kept]) \o Newcomers(t)
                    /\ batch' = [batch EXCEPT ![t] = [i \in DOMAIN @ |-> @[i] \ kept]]
    BY <1>4 DEF FlushAbandons
  <2> DEFINE stay == IF kept = {} THEN <<>> ELSE [i \in DOMAIN batch[t] |-> batch[t][i] \cap kept]
             go   == [i \in DOMAIN batch[t] |-> batch[t][i] \ kept]
  <2>2. pc[t] = "send" /\ pc'[t] = "release"
    BY <1>0, <1>4 DEF FlushAbandons, Goto, Running
  <2>3. stay \in Seq(SUBSET Event)
    <3>1. \A i \in DOMAIN batch[t] : batch[t][i] \cap kept \in SUBSET Event
      BY <1>1, <2>2, LenProperties
    <3>2. [i \in DOMAIN batch[t] |-> batch[t][i] \cap kept] \in Seq(SUBSET Event)
      BY <1>1, <2>2, <3>1, LenProperties, SeqDef
    <3> QED
      BY <3>2, EmptySeq
  <2>4. batch'[t] = go
    BY <1>0, <2>1 DEF Running
  <2>5. \A e \in EventsOf(batch[t]) : e \in EventsOf(stay) \/ e \in EventsOf(go)
    <3>1. ASSUME NEW i \in DOMAIN batch[t], NEW e \in batch[t][i], e \in kept
          PROVE  e \in EventsOf(stay)
      <4>1. stay = [j \in DOMAIN batch[t] |-> batch[t][j] \cap kept]
        BY <3>1
      <4> QED
        BY <3>1, <4>1 DEF EventsOf
    <3>2. ASSUME NEW i \in DOMAIN batch[t], NEW e \in batch[t][i], e \notin kept
          PROVE  e \in EventsOf(go)
      BY <3>2 DEF EventsOf
    <3> QED
      BY <3>1, <3>2 DEF EventsOf
  <2> HIDE DEF stay, go
  <2>6. queue' = queue \/ EventsOf(queue') = EventsOf(stay) \cup EventsOf(Newcomers(t))
    BY <1>1, <2>1, <2>2, <2>3, JoinedEvents DEF stay
  <2>7. EventsOf(batch[t])' = EventsOf(go)
    BY <2>4 DEF EventsOf
  <2>8. CASE queue' = queue
    BY <2>8
  <2> QED
    BY <1>1, <2>2, <2>5, <2>6, <2>7, <2>8
<1>5. FlushAbandons(t) => pc'[t] = "release"
  BY <1>0 DEF FlushAbandons, Goto, Running
<1>6. ASSUME ~ Enqueue(t), ~ FlushDelivers(t), ~ FlushAbandons(t), ~ FlushKeeps(t)
      PROVE  queue' = queue
  BY <1>6 DEF EmitStep, FlushStep, Determine, Detect, Filter, FilterFails, EnqueueFails,
              Release, ReleaseFails, FlushStart, Record, RecordFails
<1>7. ASSUME FlushKeeps(t)
      PROVE  \A e \in EventsOf(queue) : e \in EventsOf(queue')
  <2>1. pc[t] = "send" /\ (queue' = queue \/ queue' = batch[t] \o Newcomers(t))
    BY <1>7 DEF FlushKeeps, Goto
  <2>2. queue' = queue \/ EventsOf(queue') = EventsOf(batch[t]) \cup EventsOf(Newcomers(t))
    BY <1>1, <2>1, JoinedEvents
  <2> QED
    BY <1>1, <2>1, <2>2
<1> QED
  BY <1>2, <1>3, <1>4, <1>5, <1>6, <1>7

\* The steps that release nothing: what backs an entry goes on backing it.
LEMMA NothingReleased ==
    ASSUME TypeInv, InFlight, NEW t \in Threads, EmitStep(t) \/ FlushStep(t),
           pc[t] \notin {"unreserve", "release"}
    PROVE  \A fp \in Fps, s \in Statuses : <<fp, s>> \in Backing => <<fp, s>> \in Backing'
<1> USE DEF queueVars, history
<1>0. Queueing /\ Running /\ Records
  BY Groups
<1>1. /\ \A s \in Threads \ {t} : /\ pc'[s] = pc[s] /\ events'[s] = events[s]
                                  /\ batch'[s] = batch[s]
      /\ \A fp \in Fps : told[fp] \subseteq told'[fp]
      /\ excused \subseteq excused'
  BY OneThread
<1>2. ASSUME \A e \in Alive : \/ e \in Alive' \/ e.fp \in Invalid
                              \/ e.fp \in Fps /\ e.status \in told'[e.fp]
      PROVE  \A fp \in Fps, s \in Statuses : <<fp, s>> \in Backing => <<fp, s>> \in Backing'
  <2> DEFINE gone == {}
  <2>1. \A fp \in Fps \ gone, s \in Statuses : <<fp, s>> \in Backing => <<fp, s>> \in Backing'
    <3> HIDE DEF gone
    <3> QED
      BY <1>1, <1>2, BackingKept
  <2> QED
    BY <2>1
<1>3. ASSUME queue' = queue, pc[t] # "enqueue"
      PROVE  \A e \in Alive : e \in Alive'
  BY <1>1, <1>3, LivingStays
<1>4. CASE Enqueue(t)
  <2> DEFINE valid == {e \in events[t] : e.fp \notin Invalid}
  <2>1. queue' = IF valid = {} THEN queue ELSE Append(queue, valid)
    BY <1>4 DEF Enqueue
  <2>2. valid \in SUBSET Event /\ \A e \in events[t] : e \in valid \/ e.fp \in Invalid
    BY <1>0 DEF Running
  <2> HIDE DEF valid
  <2>3. EventsOf(queue') = EventsOf(queue) \cup valid
    BY <1>0, <2>1, <2>2, AppendedEvents DEF Queueing
  <2>4. EventsOf(queue') \subseteq Alive'
    BY Zenon DEF Alive, EventsOf
  <2>5. pc[t] = "enqueue"
    BY <1>4 DEF Enqueue, Goto
  <2> QED
    BY <1>1, <1>2, <2>2, <2>3, <2>4, <2>5, LivingStays
<1>5. CASE EnqueueFails(t)
  <2>1. pc[t] = "enqueue" /\ pc'[t] = "unreserve" /\ events' = events /\ queue' = queue
    BY <1>0, <1>5 DEF EnqueueFails, Goto, Running
  <2>2. \A e \in events[t] : e \in Alive'
    BY <2>1, Zenon DEF Alive
  <2> QED
    BY <1>1, <1>2, <2>1, <2>2, LivingStays
<1>6. \A e \in EventsOf(queue) :
          \/ e \in EventsOf(queue')
          \/ e.fp \in Fps /\ e.status \in told'[e.fp]
          \/ pc'[t] = "release" /\ e \in EventsOf(batch[t])'
  BY LeavesTheQueue
<1>7. ASSUME pc'[t] = "release" PROVE EventsOf(batch[t])' \subseteq Alive'
  BY <1>7, LivingNext, Zenon DEF Lives
<1>8. CASE FlushDelivers(t) \/ FlushKeeps(t) \/ FlushAbandons(t)
  <2>1. pc[t] = "send"
    BY <1>8 DEF FlushDelivers, FlushKeeps, FlushAbandons, Goto
  <2> QED
    BY <1>1, <1>2, <1>6, <1>7, <2>1, LivingStays
<1>9. ASSUME ~ Enqueue(t), ~ EnqueueFails(t), ~ FlushDelivers(t), ~ FlushKeeps(t),
             ~ FlushAbandons(t)
      PROVE  queue' = queue /\ pc[t] # "enqueue"
  BY <1>9 DEF EmitStep, FlushStep, Determine, Detect, Filter, FilterFails, Release, ReleaseFails,
              FlushStart, Record, RecordFails, Goto
<1> QED
  BY <1>2, <1>3, <1>4, <1>5, <1>8, <1>9

LEMMA EntriesCarried ==
    ASSUME TypeInv, EntriesBacked,
           \A fp \in Fps, s \in Statuses : <<fp, s>> \in Backing => <<fp, s>> \in Backing'
    PROVE  Within(disk, Backing') /\ \A p \in Procs : Within(cache[p], Backing')
<1>1. now \in Nat /\ disk \in Caches(0..now) /\ \A p \in Procs : cache[p] \in Caches(0..now)
  BY Groups, OutputAssumption DEF Stamped, Counters
<1>2. ASSUME NEW c \in Caches(0..now), Within(c, Backing) PROVE Within(c, Backing')
  BY <1>1, <1>2, WithinMore
<1> QED
  BY <1>1, <1>2 DEF EntriesBacked

\* A step of one thread, once its own two caches are accounted for.
LEMMA EntriesAfter ==
    ASSUME TypeInv, EntriesBacked, NEW t \in Threads, EmitStep(t) \/ FlushStep(t),
           Within(disk', Backing'), Within(cache'[ProcOf[t]], Backing'),
           \A p \in Procs \ {ProcOf[t]} : Within(cache[p], Backing')
    PROVE  EntriesBacked'
<1>1. \A p \in Procs \ {ProcOf[t]} : cache'[p] = cache[p]
  BY OneThread
<1>2. \A p \in Procs : Within(cache'[p], Backing')
  BY <1>1
<1> QED
  BY <1>2, Zenon DEF EntriesBacked, Within

LEMMA KeepsEntriesBacked ==
    ASSUME TypeInv, InFlight, EntriesBacked, NEW t \in Threads, EmitStep(t) \/ FlushStep(t),
           pc[t] \notin {"unreserve", "release"}
    PROVE  EntriesBacked'
<1> USE DEF bounds, dedupVars, queueVars, history
<1>0. Stamped /\ Running /\ ProcOf[t] \in Procs
  BY Groups, Reads
<1>1. /\ Within(disk, Backing') /\ \A p \in Procs : Within(cache[p], Backing')
      /\ \A fp \in Fps, s \in Statuses : <<fp, s>> \in Backing => <<fp, s>> \in Backing'
  BY NothingReleased, EntriesCarried
<1>2. Within(OwnCache(t), Backing')
  BY <1>0, <1>1 DEF OwnCache
<1>3. ASSUME NEW c, SetCache(t, c) PROVE cache'[ProcOf[t]] = c
  BY <1>0, <1>3 DEF SetCache, Stamped
<1>4. CASE Filter(t)
  <2> DEFINE merged == Merge(disk, OwnCache(t))
             emit   == {e \in events[t] : ShouldEmit(merged, e, now)}
             kept   == Prune(Update(merged, emit, now), now)
  <2>1. /\ disk' = kept /\ cache'[ProcOf[t]] = kept /\ emit \in SUBSET Event
        /\ events'[t] = emit /\ (emit # {} => pc'[t] = "enqueue")
    BY <1>0, <1>3, <1>4 DEF Filter, Goto, Running
  <2>2. Within(merged, Backing')
    BY <1>1, <1>2, MergeWithin
  <2>3. ASSUME NEW e \in emit PROVE <<e.fp, e.status>> \in Backing'
    <3>1. e \in events'[t] /\ pc'[t] = "enqueue" /\ e.fp \in Fps /\ e.status \in Statuses
      BY <2>1, <2>3 DEF Event
    <3>2. Lives(e)'
      BY <3>1, Zenon DEF Lives
    <3>3. e \in Alive'
      BY <3>2, LivingNext
    <3> QED
      BY <3>1, <3>3 DEF Backing
  <2> HIDE DEF merged, emit
  <2>4. Within(kept, Backing')
    BY <2>2, <2>3, UpdateWithin, PruneWithin
  <2> HIDE DEF kept
  <2> QED
    BY <1>1, <2>1, <2>4, EntriesAfter
<1>5. CASE FilterFails(t)
  <2>1. disk' = disk /\ (cache' = cache \/ cache'[ProcOf[t]] = Merge(disk, OwnCache(t)))
    BY <1>3, <1>5 DEF FilterFails
  <2>2. Within(Merge(disk, OwnCache(t)), Backing')
    BY <1>1, <1>2, MergeWithin
  <2> QED
    BY <1>0, <1>1, <2>1, <2>2, EntriesAfter
<1>6. CASE Record(t) \/ RecordFails(t)
  <2> DEFINE merged == Prune(Merge(disk, Recorded(t)), now)
  <2>1. /\ disk' = merged \/ disk' = disk
        /\ cache'[ProcOf[t]] \in {merged, Recorded(t)} /\ pc[t] = "record"
    BY <1>3, <1>6 DEF Record, RecordFails, Goto
  <2>2. ASSUME NEW e \in EventsOf(batch[t]) PROVE <<e.fp, e.status>> \in Backing'
    <3>1. e.fp \in Fps /\ e.status \in Statuses
      BY Reads DEF Event
    <3>2. e.status \in told[e.fp]
      BY <2>1 DEF InFlight, AllTold
    <3>3. <<e.fp, e.status>> \in Backing
      BY <3>1, <3>2 DEF Backing
    <3> QED
      BY <1>1, <3>1, <3>3
  <2>3. Within(Recorded(t), Backing')
    BY <1>2, <2>2, RecordedWithin
  <2>4. Within(merged, Backing')
    BY <1>1, <2>3, MergeWithin, PruneWithin
  <2> HIDE DEF merged
  <2> QED
    BY <1>1, <2>1, <2>3, <2>4, EntriesAfter
<1>7. ASSUME ~ Filter(t), ~ FilterFails(t), ~ Record(t), ~ RecordFails(t)
      PROVE  disk' = disk /\ cache' = cache
  BY <1>7 DEF EmitStep, FlushStep, Determine, Detect, Enqueue, EnqueueFails, Release, ReleaseFails,
              FlushStart, FlushDelivers, FlushKeeps, FlushAbandons, Goto
<1> QED
  BY <1>0, <1>1, <1>4, <1>5, <1>6, <1>7, EntriesAfter

\* What a thread gives up it releases.
LEMMA GivenUp ==
    ASSUME NEW t \in Threads, NEW e, pc[t] \in {"unreserve", "release"},
           \/ pc[t] \in {"enqueue", "unreserve"} /\ e \in events[t]
           \/ pc[t] = "release" /\ e \in EventsOf(batch[t])
    PROVE  e.fp \in Releasing(t)
  BY DEF Releasing, FpsOf

LEMMA ReleaseEntriesBacked ==
    ASSUME TypeInv, EntriesBacked, NEW t \in Threads, NEW from \in {"unreserve", "release"},
           Release(t, from) \/ ReleaseFails(t, from)
    PROVE  EntriesBacked'
<1> USE DEF queueVars
<1> DEFINE left == Prune(Forgotten(Merge(disk, OwnCache(t)), Releasing(t)), now)
<1>0. /\ Stamped /\ ProcOf[t] \in Procs /\ now \in Nat
      /\ OwnCache(t) \in Caches(0..now) /\ disk \in Caches(0..now)
  BY Groups, Reads DEF Stamped
<1>1. /\ EmitStep(t) \/ FlushStep(t)
      /\ pc[t] = from /\ queue' = queue /\ told' = told /\ excused \subseteq excused'
  BY DEF Release, ReleaseFails, EmitStep, FlushStep, Goto
<1>2. \A e \in Alive : e \in Alive' \/ e.fp \in Releasing(t)
  BY <1>1, OneThread, LivingStays, GivenUp
<1>3. \A fp \in Fps \ Releasing(t), s \in Statuses : <<fp, s>> \in Backing => <<fp, s>> \in Backing'
  <2> DEFINE gone == Releasing(t)
  <2>1. \A e \in Alive : e \in Alive' \/ e.fp \in excused' \cup Invalid \cup gone
    BY <1>2
  <2> HIDE DEF gone
  <2>2. \A fp \in Fps \ gone, s \in Statuses : <<fp, s>> \in Backing => <<fp, s>> \in Backing'
    BY <1>1, <2>1, BackingKept
  <2> QED
    BY <2>2 DEF gone
<1>4. ASSUME NEW c \in Caches(0..now), Within(c, Backing),
             \A fp \in Releasing(t) : fp \in Fps /\ c[fp] # None => fp \in excused'
      PROVE  Within(c, Backing')
  <2> SUFFICES ASSUME NEW fp \in Fps, c[fp] # None PROVE <<fp, c[fp].status>> \in Backing'
    BY DEF Within
  <2>1. c[fp].status \in Statuses
    BY <1>0, <1>4, CacheEntries, EntryIsSomething
  <2>2. CASE fp \in Releasing(t)
    BY <1>4, <2>1, <2>2 DEF Backing
  <2>3. CASE fp \notin Releasing(t)
    BY <1>3, <1>4, <2>1, <2>3 DEF Within
  <2> QED
    BY <2>2, <2>3
<1>5. left \in Caches(0..now) /\ Within(left, Backing)
      /\ \A fp \in Fps : fp \in Releasing(t) => left[fp] = None
  <2> DEFINE merged == Merge(disk, OwnCache(t))
             rest   == Forgotten(merged, Releasing(t))
  <2>1. merged \in Caches(0..now) /\ Within(merged, Backing)
    BY <1>0, MergeKeeps, MergeWithin DEF EntriesBacked, OwnCache
  <2> HIDE DEF merged
  <2>2. rest \in Caches(0..now) /\ Within(rest, Backing)
        /\ \A fp \in Fps : fp \in Releasing(t) => rest[fp] = None
    BY <1>0, <2>1, ForgottenKeeps, ForgottenWithin
  <2> HIDE DEF rest
  <2>3. Prune(rest, now) \in Caches(0..now) /\ Within(Prune(rest, now), Backing)
        /\ \A fp \in Fps : fp \in Releasing(t) => Prune(rest, now)[fp] = None
    <3>1. \A fp \in Fps : fp \in Releasing(t) => Prune(rest, now)[fp] = None
      BY <2>2 DEF Prune
    <3> QED
      BY <1>0, <2>2, <3>1, PruneKeeps, PruneWithin
  <2> QED
    BY <2>3 DEF rest, merged
<1> HIDE DEF left
<1>6. Within(left, Backing')
  BY <1>4, <1>5
<1>7. ASSUME Release(t, from) PROVE EntriesBacked'
  <2>1. disk' = left /\ cache'[ProcOf[t]] = left
        /\ excused' = excused \cup (Releasing(t) \cap KeptElsewhere(t))
    BY <1>0, <1>7 DEF Release, SetCache, Stamped, left
  <2>2. ASSUME NEW p \in Procs \ {ProcOf[t]} PROVE Within(cache[p], Backing')
    <3>1. \A fp \in Releasing(t) : fp \in Fps /\ cache[p][fp] # None => fp \in excused'
      BY <2>1 DEF KeptElsewhere
    <3>2. cache[p] \in Caches(0..now) /\ Within(cache[p], Backing)
      BY <1>0 DEF Stamped, EntriesBacked
    <3> QED
      BY <1>4, <3>1, <3>2
  <2> QED
    BY <1>1, <1>6, <2>1, <2>2, EntriesAfter
<1>8. ASSUME ReleaseFails(t, from) PROVE EntriesBacked'
  <2>1. disk' = disk /\ (cache' = cache \/ cache'[ProcOf[t]] = left)
        /\ excused' = excused \cup Releasing(t)
    BY <1>0, <1>8 DEF ReleaseFails, SetCache, Stamped, left
  <2>2. Within(disk, Backing') /\ \A p \in Procs : Within(cache[p], Backing')
    BY <1>0, <1>4, <2>1 DEF Stamped, EntriesBacked
  <2> QED
    BY <1>0, <1>1, <1>6, <2>1, <2>2, EntriesAfter
<1> QED
  BY <1>7, <1>8

LEMMA RunEntriesBacked ==
    ASSUME TypeInv, EntriesBacked, NEW p \in Procs, Stop(p) \/ Crash(p)
    PROVE  EntriesBacked'
<1> USE DEF queueVars, local, history
<1>0. Stamped /\ Running
  BY Groups
<1>1. \A fp \in Fps, s \in Statuses : <<fp, s>> \in Backing => <<fp, s>> \in Backing'
  <2> DEFINE gone == {}
  <2>1. told' = told /\ excused \subseteq excused'
    BY DEF Stop, Crash
  <2>2. ASSUME NEW e \in Alive PROVE e \in Alive' \/ e.fp \in excused'
    <3>1. CASE Stop(p)
      <4>1. UNCHANGED <<queue, pc, events, batch>>
        BY <3>1 DEF Stop
      <4> QED
        BY <4>1 DEF Alive, EventsOf
    <3>2. CASE Crash(p)
      <4>1. /\ queue' = queue
            /\ \A s \in Threads \ OwnedBy(p) : pc'[s] = pc[s] /\ events'[s] = events[s] /\ batch'[s] = batch[s]
        BY <3>2 DEF Crash
      <4>2. ASSUME NEW s \in Threads, s \in OwnedBy(p),
                   \/ pc[s] \in {"enqueue", "unreserve"} /\ e \in events[s]
                   \/ pc[s] = "release" /\ e \in EventsOf(batch[s])
            PROVE  e.fp \in excused'
        <5>1. e.fp \in Releasing(s) \cup FpsOf(events[s])
          BY <4>2 DEF Releasing, FpsOf
        <5>2. pc[s] \in {"enqueue", "unreserve", "release"}
          BY <4>2
        <5> QED
          BY <3>2, <4>2, <5>1, <5>2 DEF Crash
      <4>3. Lives(e)
        BY Living
      <4>4. CASE e \in EventsOf(queue)
        <5>1. e \in EventsOf(queue')
          BY <4>1, <4>4
        <5> QED
          BY <5>1, LivingNext DEF Lives, EventsOf
      <4>5. ASSUME NEW s \in Threads \ OwnedBy(p), pc[s] \in {"enqueue", "unreserve"}, e \in events[s]
            PROVE  e \in Alive'
        <5>1. pc'[s] \in {"enqueue", "unreserve"} /\ e \in events'[s]
          BY <4>1, <4>5
        <5> QED
          BY <5>1, LivingNext, Zenon DEF Lives
      <4>6. ASSUME NEW s \in Threads \ OwnedBy(p), pc[s] = "release", e \in EventsOf(batch[s])
            PROVE  e \in Alive'
        <5>1. pc'[s] = "release" /\ EventsOf(batch[s])' = EventsOf(batch[s])
          BY <4>1, <4>6 DEF EventsOf
        <5> QED
          BY <4>6, <5>1, LivingNext, Zenon DEF Lives
      <4>7. ASSUME NEW s \in Threads, \/ pc[s] \in {"enqueue", "unreserve"} /\ e \in events[s]
                                      \/ pc[s] = "release" /\ e \in EventsOf(batch[s])
            PROVE  e \in Alive' \/ e.fp \in excused'
        <5>1. CASE s \in OwnedBy(p)
          BY <4>2, <4>7, <5>1
        <5>2. CASE s \notin OwnedBy(p)
          BY <4>5, <4>6, <4>7, <5>2
        <5> QED
          BY <5>1, <5>2
      <4> QED
        BY <4>3, <4>4, <4>7, Zenon DEF Lives
    <3> QED
      BY <3>1, <3>2
  <2>3. \A fp \in Fps \ gone, s \in Statuses : <<fp, s>> \in Backing => <<fp, s>> \in Backing'
    <3> HIDE DEF gone
    <3> QED
      BY <2>1, <2>2, BackingKept
  <2> QED
    BY <2>3
<1>2. Within(disk, Backing') /\ \A q \in Procs : Within(cache[q], Backing')
  BY <1>1, EntriesCarried
<1>3. Within(disk', Backing')
  <2>1. disk' = disk \/ disk' = Prune(Merge(disk, cache[p]), now)
    BY DEF Stop, Crash
  <2>2. Within(Merge(disk, cache[p]), Backing')
    BY <1>2, MergeWithin
  <2>3. Within(Prune(Merge(disk, cache[p]), now), Backing')
    BY <2>2, PruneWithin
  <2> QED
    BY <1>2, <2>1, <2>3
<1>4. /\ \A q \in Procs \ {p} : cache'[q] = cache[q]
      /\ cache'[p] = Prune(disk', now) \/ cache'[p] = Prune(disk, now)
  BY <1>0 DEF Stop, Crash, Stamped
<1>5. \A q \in Procs : Within(cache'[q], Backing')
  BY <1>2, <1>3, <1>4, PruneWithin
<1> QED
  BY <1>3, <1>5, Zenon DEF EntriesBacked, Within

LEMMA UntouchedEntriesBacked ==
    ASSUME EntriesBacked, UNCHANGED <<disk, cache, queue, pc, events, batch, told, excused>>
    PROVE  EntriesBacked'
<1>1. Alive' = Alive
  BY DEF Alive, EventsOf
<1>2. Backing' = Backing
  BY <1>1 DEF Backing
<1>3. Within(disk, Backing') /\ \A p \in Procs : Within(cache[p], Backing')
  BY <1>2 DEF EntriesBacked
<1> QED
  BY <1>3 DEF EntriesBacked, Within

\* What a start moves aside is excused, or takes its entries with it.
LEMMA StartEntriesBacked ==
    ASSUME TypeInv, EntriesBacked, StartFails
    PROVE  EntriesBacked'
<1> USE DEF local
<1>1. \A fp \in Fps, s \in Statuses : <<fp, s>> \in Backing => <<fp, s>> \in Backing'
  <2> DEFINE gone == {}
  <2>1. /\ UNCHANGED <<pc, events, batch, told>> /\ excused \subseteq excused'
        /\ queue' = queue \/ FpsOf(EventsOf(queue)) \subseteq excused'
    BY DEF StartFails
  <2>2. ASSUME NEW e \in Alive PROVE e \in Alive' \/ e.fp \in excused'
    <3>1. Lives(e)
      BY Living
    <3>2. CASE e \in EventsOf(queue)
      <4>1. e \in EventsOf(queue') \/ e.fp \in excused'
        BY <2>1, <3>2 DEF FpsOf
      <4> QED
        BY <4>1, LivingNext DEF Lives, EventsOf
    <3>3. ASSUME NEW s \in Threads, pc[s] \in {"enqueue", "unreserve"}, e \in events[s]
          PROVE  e \in Alive'
      <4>1. pc'[s] \in {"enqueue", "unreserve"} /\ e \in events'[s]
        BY <2>1, <3>3
      <4> QED
        BY <4>1, LivingNext, Zenon DEF Lives
    <3>4. ASSUME NEW s \in Threads, pc[s] = "release", e \in EventsOf(batch[s])
          PROVE  e \in Alive'
      <4>1. pc'[s] = "release" /\ EventsOf(batch[s])' = EventsOf(batch[s])
        BY <2>1, <3>4 DEF EventsOf
      <4> QED
        BY <3>4, <4>1, LivingNext, Zenon DEF Lives
    <3> QED
      BY <3>1, <3>2, <3>3, <3>4, Zenon DEF Lives
  <2>3. \A fp \in Fps \ gone, s \in Statuses : <<fp, s>> \in Backing => <<fp, s>> \in Backing'
    <3> HIDE DEF gone
    <3> QED
      BY <2>1, <2>2, BackingKept
  <2> QED
    BY <2>3
<1>2. Within(disk, Backing') /\ \A q \in Procs : Within(cache[q], Backing')
  BY <1>1, EntriesCarried
<1>3. (disk' = disk \/ disk' = Empty) /\ cache' = cache
  BY DEF StartFails
<1>4. Within(disk', Backing') /\ \A q \in Procs : Within(cache'[q], Backing')
  BY <1>2, <1>3, NothingWithin
<1> QED
  BY <1>4, Zenon DEF EntriesBacked, Within

LEMMA NextEntriesBacked ==
    TypeInv /\ InFlight /\ EntriesBacked /\ [Next]_vars => EntriesBacked'
<1> SUFFICES ASSUME TypeInv, InFlight, EntriesBacked, [Next]_vars PROVE EntriesBacked'
  OBVIOUS
<1> USE DEF dedupVars, queueVars, local, history
<1>1. ASSUME UNCHANGED <<disk, cache, queue, pc, events, batch, told, excused>>
      PROVE  EntriesBacked'
  BY <1>1, UntouchedEntriesBacked
<1>2. Tick \/ UNCHANGED vars => UNCHANGED <<disk, cache, queue, pc, events, batch, told, excused>>
  BY DEF Tick, vars
<1>3. ASSUME NEW t \in Threads, EmitStep(t) \/ FlushStep(t) PROVE EntriesBacked'
  <2>1. CASE pc[t] \notin {"unreserve", "release"}
    BY <1>3, <2>1, KeepsEntriesBacked
  <2>2. ASSUME pc[t] \in {"unreserve", "release"}
        PROVE  \E from \in {"unreserve", "release"} : Release(t, from) \/ ReleaseFails(t, from)
    BY <1>3, <2>2 DEF EmitStep, FlushStep, Determine, Detect, Filter, FilterFails, Enqueue,
          EnqueueFails, FlushStart, FlushDelivers, FlushKeeps, FlushAbandons, Record, RecordFails, Goto
  <2> QED
    BY <2>1, <2>2, ReleaseEntriesBacked
<1> QED
  BY <1>1, <1>2, <1>3, RunEntriesBacked, StartEntriesBacked, Zenon DEF Next

LEMMA InitEntriesBacked == Init => EntriesBacked
<1> SUFFICES ASSUME Init PROVE EntriesBacked
  OBVIOUS
<1>1. disk = Empty /\ \A p \in Procs : cache[p] = Empty
  BY DEF Init
<1> QED
  BY <1>1, NothingWithin DEF EntriesBacked

LEMMA BackedEntries == TypeInv /\ EntriesBacked => ReservationBacked
<1> SUFFICES ASSUME TypeInv, EntriesBacked, NEW fp \in Fps \ (excused \cup Invalid), disk[fp] # None
             PROVE  \/ disk[fp].status \in told[fp]
                    \/ \E e \in Alive : e.fp = fp /\ e.status = disk[fp].status
  BY DEF ReservationBacked
<1>1. <<fp, disk[fp].status>> \in Backing
  BY DEF EntriesBacked, Within
<1> QED
  BY <1>1 DEF Backing

\* ReservationBacked for any number of agents and threads, whatever fails or
\* crashes: a fingerprint is suppressed only if the SIEM was told or an event
\* is still on its way (output.go:318-371, dedup.go:111-213).
THEOREM SuppressedIsBacked == Spec => []ReservationBacked
  BY InitEntriesBacked, BackedEntries, InitTypeInv, NextTypeInv, InitInFlight, NextInFlight,
     NextEntriesBacked, PTL DEF Spec

-----------------------------------------------------------------------------
(* One alert per window.  A fingerprint nobody remediated has only open    *)
(* entries and events, and what was let through within the window is in    *)
(* the dedup file, at least as young.                                      *)

Opened == {x \in Fps \X Statuses : x[2] = "open" \/ x[1] \in remediated}

Named(es) == \A e \in es : <<e.fp, e.status>> \in Opened

PlainEvent(e) == /\ e.type = "regressed" => e.fp \in remediated
                 /\ e.type = "remediated" => e.status = "remediated"

Plain(es) == \A e \in es : PlainEvent(e)

EntriesOpened == Within(disk, Opened) /\ \A p \in Procs : Within(cache[p], Opened)

EventsOpened ==
    /\ Named(EventsOf(queue))
    /\ \A t \in Threads : /\ Plain(events[t]) /\ Named(EventsOf(batch[t]))
                          /\ pc[t] = "enqueue" => Named(events[t])

AuthOnDisk ==
    \A fp \in Fps : auth[fp] # None /\ ~Expired(auth[fp], now) =>
                        disk[fp] # None /\ disk[fp].at >= auth[fp].at

LEMMA OpenedGrows ==
    ASSUME TypeInv, remediated \subseteq remediated'
    PROVE  /\ \A fp \in Fps, s \in Statuses : <<fp, s>> \in Opened => <<fp, s>> \in Opened'
           /\ \A e : PlainEvent(e) => PlainEvent(e)'
           /\ \A es \in SUBSET Event : Named(es) => \A e \in es : <<e.fp, e.status>> \in Opened'
<1>1. \A fp \in Fps, s \in Statuses : <<fp, s>> \in Opened => <<fp, s>> \in Opened'
  BY DEF Opened
<1>2. \A e : PlainEvent(e) => PlainEvent(e)'
  BY DEF PlainEvent
<1>3. \A es \in SUBSET Event : Named(es) => \A e \in es : <<e.fp, e.status>> \in Opened'
  BY <1>1 DEF Named, Event
<1> QED
  BY <1>1, <1>2, <1>3

LEMMA OpenedIs ==
    \A fp \in Fps, s \in Statuses : <<fp, s>> \in Opened <=> s = "open" \/ fp \in remediated
  BY DEF Opened

LEMMA EntriesOpenedStay ==
    ASSUME TypeInv, EntriesOpened, remediated \subseteq remediated'
    PROVE  Within(disk, Opened') /\ \A p \in Procs : Within(cache[p], Opened')
<1>1. now \in Nat /\ disk \in Caches(0..now) /\ \A p \in Procs : cache[p] \in Caches(0..now)
  BY Groups, OutputAssumption DEF Stamped, Counters
<1>2. ASSUME NEW c \in Caches(0..now), Within(c, Opened) PROVE Within(c, Opened')
  BY <1>1, <1>2, WithinMore, OpenedGrows
<1> QED
  BY <1>1, <1>2 DEF EntriesOpened

LEMMA StepEntriesOpened ==
    ASSUME TypeInv, EntriesOpened, EventsOpened, NEW t \in Threads, EmitStep(t) \/ FlushStep(t)
    PROVE  EntriesOpened'
<1> USE DEF bounds, dedupVars, queueVars, history
<1>0. Stamped /\ Running /\ Records /\ ProcOf[t] \in Procs
  BY Groups, Reads
<1>1. /\ remediated \subseteq remediated'
      /\ \A p \in Procs \ {ProcOf[t]} : cache'[p] = cache[p]
  BY OneThread
<1>2. Within(disk, Opened') /\ \A p \in Procs : Within(cache[p], Opened')
  BY <1>1, EntriesOpenedStay
<1>3. Within(OwnCache(t), Opened')
  BY <1>0, <1>2 DEF OwnCache
<1>4. ASSUME NEW c, SetCache(t, c) PROVE cache'[ProcOf[t]] = c
  BY <1>0, <1>4 DEF SetCache, Stamped
<1>5. ASSUME Within(disk', Opened'), Within(cache'[ProcOf[t]], Opened')
      PROVE  EntriesOpened'
  <2>1. \A p \in Procs : Within(cache'[p], Opened')
    BY <1>1, <1>2, <1>5
  <2> QED
    BY <1>5, <2>1, Zenon DEF EntriesOpened, Within
<1>6. Within(Merge(disk, OwnCache(t)), Opened')
  BY <1>2, <1>3, MergeWithin
<1>7. CASE Filter(t)
  <2> DEFINE merged == Merge(disk, OwnCache(t))
             emit   == {e \in events[t] : ShouldEmit(merged, e, now)}
             kept   == Prune(Update(merged, emit, now), now)
  <2>1. disk' = kept /\ cache'[ProcOf[t]] = kept /\ emit \in SUBSET Event
    BY <1>0, <1>4, <1>7 DEF Filter, Running
  <2>2. ASSUME NEW e \in emit PROVE <<e.fp, e.status>> \in Opened'
    <3>1. e.fp \in Fps /\ e.status \in Statuses
      BY <2>1, <2>2 DEF Event
    <3>2. e.status = "remediated" => e.fp \in remediated'
      BY <1>7, <2>2 DEF Filter, FpsOf
    <3> QED
      BY <3>1, <3>2 DEF Opened, Statuses
  <2>3. Within(merged, Opened')
    BY <1>6
  <2> HIDE DEF merged, emit
  <2>4. Within(kept, Opened')
    BY <2>2, <2>3, UpdateWithin, PruneWithin
  <2> HIDE DEF kept
  <2> QED
    BY <1>5, <2>1, <2>4
<1>8. CASE FilterFails(t)
  <2>1. disk' = disk /\ (cache' = cache \/ cache'[ProcOf[t]] = Merge(disk, OwnCache(t)))
    BY <1>4, <1>8 DEF FilterFails
  <2> QED
    BY <1>0, <1>2, <1>5, <1>6, <2>1
<1>9. CASE Record(t) \/ RecordFails(t)
  <2> DEFINE merged == Prune(Merge(disk, Recorded(t)), now)
  <2>1. /\ disk' = merged \/ disk' = disk
        /\ cache'[ProcOf[t]] \in {merged, Recorded(t)}
    BY <1>4, <1>9 DEF Record, RecordFails
  <2>2. \A e \in EventsOf(batch[t]) : <<e.fp, e.status>> \in Opened'
    BY <1>1, OpenedGrows, Reads DEF EventsOpened
  <2>3. Within(Recorded(t), Opened')
    BY <1>3, <2>2, RecordedWithin
  <2>4. Within(merged, Opened')
    BY <1>2, <2>3, MergeWithin, PruneWithin
  <2> HIDE DEF merged
  <2> QED
    BY <1>2, <1>5, <2>1, <2>3, <2>4
<1>10. ASSUME NEW from \in {"unreserve", "release"}, Release(t, from) \/ ReleaseFails(t, from)
       PROVE  EntriesOpened'
  <2> DEFINE left == Prune(Forgotten(Merge(disk, OwnCache(t)), Releasing(t)), now)
  <2>1. /\ disk' = left \/ disk' = disk
        /\ cache' = cache \/ cache'[ProcOf[t]] = left
    BY <1>4, <1>10 DEF Release, ReleaseFails
  <2>2. Within(left, Opened')
    BY <1>6, ForgottenWithin, PruneWithin
  <2> HIDE DEF left
  <2> QED
    BY <1>0, <1>2, <1>5, <2>1, <2>2
<1>11. ASSUME ~ Filter(t), ~ FilterFails(t), ~ Record(t), ~ RecordFails(t),
              ~ \E from \in {"unreserve", "release"} : Release(t, from) \/ ReleaseFails(t, from)
       PROVE  disk' = disk /\ cache' = cache
  BY <1>11 DEF EmitStep, FlushStep, Determine, Detect, Enqueue, EnqueueFails,
               FlushStart, FlushDelivers, FlushKeeps, FlushAbandons
<1> QED
  BY <1>0, <1>2, <1>5, <1>7, <1>8, <1>9, <1>10, <1>11

\* A finding of a fingerprint nobody remediated is new or recurring.
LEMMA FindingsPlain ==
    ASSUME NEW c, Within(c, Opened), NEW fp \in Fps
    PROVE  Plain({LifecycleEvent(c, fp)})
<1>1. c[fp] # None /\ c[fp].status = "remediated" => fp \in remediated
  BY OpenedIs DEF Within, Statuses
<1> QED
  BY <1>1 DEF Plain, PlainEvent, LifecycleEvent

LEMMA RemediationsPlain ==
    ASSUME NEW c, NEW res, NEW n
    PROVE  Plain(RemediationEvents(c, res, n))
  BY DEF Plain, PlainEvent, RemediationEvents

LEMMA NewcomersQueued ==
    ASSUME TypeInv, NEW t \in Threads
    PROVE  EventsOf(Newcomers(t)) \subseteq EventsOf(queue)
<1>1. queue \in Seq(SUBSET Event) /\ batch[t] \in Seq(SUBSET Event)
  BY Groups DEF Queueing, Running
<1> DEFINE m == Len(batch[t]) + 1
           n == Len(queue)
           rest == SubSeq(queue, m, n)
<1>2. m \in Nat \ {0} /\ n \in Nat /\ DOMAIN queue = 1..n
  BY <1>1, LenProperties
<1>3. \A i \in m..n : i \in DOMAIN queue /\ queue[i] \in SUBSET Event
  BY <1>1, <1>2, LenProperties
<1>4. Newcomers(t) = rest
  BY DEF Newcomers
<1> HIDE DEF m, n, rest
<1>5. /\ rest \in Seq(SUBSET Event) /\ Len(rest) = IF m <= n THEN n - m + 1 ELSE 0
      /\ \A i \in 1..n - m + 1 : rest[i] = queue[m + i - 1]
  BY <1>2, <1>3, SubSeqProperties DEF rest
<1>6. DOMAIN rest = IF m <= n THEN 1..n - m + 1 ELSE {}
  BY <1>2, <1>5, LenProperties
<1>7. \A i \in DOMAIN rest : m + i - 1 \in DOMAIN queue /\ rest[i] = queue[m + i - 1]
  BY <1>2, <1>5, <1>6
<1> QED
  BY <1>4, <1>7 DEF EventsOf

LEMMA StepEventsOpened ==
    ASSUME TypeInv, EntriesOpened, EventsOpened, NEW t \in Threads, EmitStep(t) \/ FlushStep(t)
    PROVE  EventsOpened'
<1> USE DEF bounds, dedupVars, queueVars, history
<1>0. Queueing /\ Running /\ Records /\ ProcOf[t] \in Procs
  BY Groups, Reads
<1>1. /\ remediated \subseteq remediated'
      /\ \A s \in Threads \ {t} : /\ pc'[s] = pc[s] /\ events'[s] = events[s]
                                  /\ batch'[s] = batch[s]
  BY OneThread
<1>2. /\ \A e : PlainEvent(e) => PlainEvent(e)'
      /\ \A es \in SUBSET Event : Named(es) => \A e \in es : <<e.fp, e.status>> \in Opened'
  BY <1>1, OpenedGrows
<1>3. /\ EventsOf(queue) \in SUBSET Event /\ events[t] \in SUBSET Event
      /\ \A s \in Threads : EventsOf(batch[s]) \in SUBSET Event /\ events[s] \in SUBSET Event
  BY <1>0, BatchEvents DEF Queueing, Running
<1>4. /\ \A e \in EventsOf(queue) : <<e.fp, e.status>> \in Opened'
      /\ \A s \in Threads : /\ \A e \in EventsOf(batch[s]) : <<e.fp, e.status>> \in Opened'
                            /\ \A e \in events[s] : PlainEvent(e)'
                            /\ pc[s] = "enqueue" => \A e \in events[s] : <<e.fp, e.status>> \in Opened'
  BY <1>2, <1>3 DEF EventsOpened, Plain
<1>g. ASSUME \A e \in EventsOf(queue') : <<e.fp, e.status>> \in Opened',
             \A e \in EventsOf(batch'[t]) : <<e.fp, e.status>> \in Opened',
             \A e \in events'[t] : PlainEvent(e)',
             pc'[t] = "enqueue" => \A e \in events'[t] : <<e.fp, e.status>> \in Opened'
      PROVE  EventsOpened'
  <2>1. \A s \in Threads :
            /\ \A e \in EventsOf(batch'[s]) : <<e.fp, e.status>> \in Opened'
            /\ \A e \in events'[s] : PlainEvent(e)'
            /\ pc'[s] = "enqueue" => \A e \in events'[s] : <<e.fp, e.status>> \in Opened'
    BY <1>1, <1>4, <1>g
  <2> QED
    BY <1>g, <2>1, Zenon DEF EventsOpened, Named, Plain, EventsOf
<1>e. EventsOf(<<>>) = {}
  BY NoEvents
<1>5. CASE EmitStep(t)
  <2>1. ASSUME NEW res \in [Fps -> Results], Determine(t, res) PROVE EventsOpened'
    <3> DEFINE found == {LifecycleEvent(OwnCache(t), fp) : fp \in {f \in Fps : res[f] = "fail"}}
    <3>1. events'[t] = found /\ pc'[t] = "detect" /\ batch' = batch /\ queue' = queue
      BY <1>0, <2>1 DEF Determine, Goto, Running
    <3>2. \A e \in found : PlainEvent(e)
      <4>1. Within(OwnCache(t), Opened)
        BY <1>0 DEF EntriesOpened, OwnCache
      <4>2. \A fp \in Fps : PlainEvent(LifecycleEvent(OwnCache(t), fp))
        BY <4>1, FindingsPlain DEF Plain
      <4> QED
        BY <4>2
    <3> HIDE DEF found
    <3> QED
      BY <1>2, <1>4, <1>g, <3>1, <3>2
  <2>2. ASSUME Detect(t) PROVE EventsOpened'
    <3>1. /\ events'[t] = events[t] \cup RemediationEvents(OwnCache(t), results[t], now)
          /\ pc'[t] # "enqueue" /\ batch' = batch /\ queue' = queue
      BY <1>0, <2>2 DEF Detect, Goto, Running
    <3>2. \A e \in RemediationEvents(OwnCache(t), results[t], now) : PlainEvent(e)
      BY RemediationsPlain DEF Plain
    <3> QED
      BY <1>2, <1>4, <1>g, <3>1, <3>2
  <2>3. ASSUME Filter(t) PROVE EventsOpened'
    <3>1. events'[t] \subseteq events[t] /\ batch' = batch /\ queue' = queue
      BY <1>0, <2>3 DEF Filter, Running
    <3>2. ASSUME NEW e \in events'[t] PROVE <<e.fp, e.status>> \in Opened'
      <4>1. e.fp \in Fps /\ e.status \in Statuses
        BY <1>3, <3>1, <3>2 DEF Event
      <4>2. e.status = "remediated" => e.fp \in remediated'
        BY <1>0, <2>3, <3>2 DEF Filter, FpsOf, Running
      <4> QED
        BY <4>1, <4>2 DEF Opened, Statuses
    <3> QED
      BY <1>4, <1>g, <3>1, <3>2
  <2>4. ASSUME FilterFails(t) PROVE EventsOpened'
    <3>1. events'[t] = {} /\ batch' = batch /\ queue' = queue
      BY <1>0, <2>4 DEF FilterFails, Running
    <3> QED
      BY <1>4, <1>g, <3>1
  <2>5. ASSUME Enqueue(t) PROVE EventsOpened'
    <3> DEFINE valid == {e \in events[t] : e.fp \notin Invalid}
    <3>1. events'[t] = {} /\ batch' = batch /\ pc[t] = "enqueue"
          /\ queue' = IF valid = {} THEN queue ELSE Append(queue, valid)
      BY <1>0, <2>5 DEF Enqueue, Goto, Running
    <3>2. valid \in SUBSET Event /\ valid \subseteq events[t]
      BY <1>3
    <3> HIDE DEF valid
    <3>3. EventsOf(queue') = EventsOf(queue) \cup valid
      BY <1>0, <3>1, <3>2, AppendedEvents DEF Queueing
    <3> QED
      BY <1>4, <1>g, <3>1, <3>2, <3>3
  <2>6. ASSUME EnqueueFails(t) PROVE EventsOpened'
    <3>1. events' = events /\ batch' = batch /\ pc'[t] = "unreserve" /\ queue' = queue
      BY <1>0, <2>6 DEF EnqueueFails, Goto, Running
    <3> QED
      BY <1>4, <1>g, <3>1
  <2>7. ASSUME Release(t, "unreserve") \/ ReleaseFails(t, "unreserve") PROVE EventsOpened'
    <3>1. events'[t] = {} /\ batch'[t] = <<>> /\ queue' = queue
      BY <1>0, <2>7 DEF Release, ReleaseFails, Return, Running
    <3> QED
      BY <1>4, <1>e, <1>g, <3>1
  <2> QED
    BY <1>5, <2>1, <2>2, <2>3, <2>4, <2>5, <2>6, <2>7, Zenon DEF EmitStep
<1>6. CASE FlushStep(t)
  <2>1. ASSUME FlushStart(t) PROVE EventsOpened'
    <3>1. batch'[t] = queue /\ events' = events /\ queue' = queue /\ pc'[t] = "send"
      BY <1>0, <2>1 DEF FlushStart, Goto, Running
    <3> QED
      BY <1>4, <1>g, <3>1
  <2>2. ASSUME FlushDelivers(t) PROVE EventsOpened'
    <3>1. batch' = batch /\ events' = events /\ pc'[t] = "record"
          /\ (queue' = queue \/ queue' = Newcomers(t))
      BY <1>0, <2>2 DEF FlushDelivers, Goto, Running
    <3> QED
      BY <1>4, <1>g, <3>1, NewcomersQueued
  <2>3. ASSUME FlushAbandons(t) PROVE EventsOpened'
    <3>1. PICK kept : /\ \/ queue' = queue
                         \/ queue' = (IF kept = {} THEN <<>>
                              ELSE [i \in DOMAIN batch[t] |-> batch[t][i] \cap kept]) \o Newcomers(t)
                      /\ batch' = [batch EXCEPT ![t] = [i \in DOMAIN @ |-> @[i] \ kept]]
      BY <2>3 DEF FlushAbandons
    <3> DEFINE stay == IF kept = {} THEN <<>> ELSE [i \in DOMAIN batch[t] |-> batch[t][i] \cap kept]
               go   == [i \in DOMAIN batch[t] |-> batch[t][i] \ kept]
    <3>2. batch[t] \in Seq(SUBSET Event)
      BY <1>0 DEF Running
    <3>3. stay \in Seq(SUBSET Event)
      <4>1. \A i \in DOMAIN batch[t] : batch[t][i] \cap kept \in SUBSET Event
        BY <3>2, LenProperties
      <4>2. [i \in DOMAIN batch[t] |-> batch[t][i] \cap kept] \in Seq(SUBSET Event)
        BY <3>2, <4>1, LenProperties, SeqDef
      <4> QED
        BY <4>2, EmptySeq
    <3>4. EventsOf(stay) \subseteq EventsOf(batch[t])
      <4>1. [i \in DOMAIN batch[t] |-> batch[t][i] \cap kept] = stay \/ stay = <<>>
        OBVIOUS
      <4>2. EventsOf([i \in DOMAIN batch[t] |-> batch[t][i] \cap kept]) \subseteq EventsOf(batch[t])
        BY SmallerBatches
      <4> QED
        BY <1>e, <4>1, <4>2
    <3>5. EventsOf(go) \subseteq EventsOf(batch[t])
      BY SmallerBatches
    <3>6. batch'[t] = go /\ events' = events /\ pc'[t] = "release"
      BY <1>0, <2>3, <3>1 DEF FlushAbandons, Goto, Running
    <3>7. queue' = queue \/ queue' = stay \o Newcomers(t)
      BY <3>1
    <3> HIDE DEF stay, go
    <3>8. queue' = queue \/ EventsOf(queue') = EventsOf(stay) \cup EventsOf(Newcomers(t))
      BY <3>3, <3>7, NewcomerBatches, JoinedEvents
    <3>9. \A e \in EventsOf(queue') : <<e.fp, e.status>> \in Opened'
      BY <1>4, <3>4, <3>8, NewcomersQueued
    <3>10. \A e \in EventsOf(batch'[t]) : <<e.fp, e.status>> \in Opened'
      BY <1>4, <3>5, <3>6
    <3> QED
      BY <1>4, <1>g, <3>6, <3>9, <3>10
  <2>5. ASSUME FlushKeeps(t) PROVE EventsOpened'
    <3>1. events'[t] = {} /\ batch'[t] = <<>>
      BY <1>0, <2>5 DEF FlushKeeps, Return, Running
    <3>2. batch[t] \in Seq(SUBSET Event)
      BY <1>0 DEF Running
    <3>3. queue' = queue \/ queue' = batch[t] \o Newcomers(t)
      BY <2>5 DEF FlushKeeps
    <3>4. queue' = queue \/ EventsOf(queue') = EventsOf(batch[t]) \cup EventsOf(Newcomers(t))
      BY <3>2, <3>3, NewcomerBatches, JoinedEvents
    <3>5. \A e \in EventsOf(queue') : <<e.fp, e.status>> \in Opened'
      BY <1>4, <3>4, NewcomersQueued
    <3> QED
      BY <1>4, <1>e, <1>g, <3>1, <3>5
  <2>4. ASSUME \/ Record(t) \/ RecordFails(t)
               \/ Release(t, "release") \/ ReleaseFails(t, "release")
        PROVE  EventsOpened'
    <3>1. events'[t] = {} /\ batch'[t] = <<>> /\ queue' = queue
      BY <1>0, <2>4 DEF Record, RecordFails, Release, ReleaseFails, Return, Running
    <3> QED
      BY <1>4, <1>e, <1>g, <3>1
  <2> QED
    BY <1>6, <2>1, <2>2, <2>3, <2>4, <2>5, Zenon DEF FlushStep
<1> QED
  BY <1>5, <1>6

\* An entry of auth is covered by the file as it is, then by what replaces it.
LEMMA CoveredAfter ==
    ASSUME TypeInv, AuthOnDisk, NEW fp \in Fps, auth[fp] # None, ~Expired(auth[fp], now),
           NEW c \in Caches(0..now)
    PROVE  LET new == Prune(Merge(disk, c), now) IN
           /\ new[fp] # None /\ new[fp].at >= auth[fp].at
           /\ \A es \in SUBSET Event :
                 LET with == Prune(Update(Merge(disk, c), es, now), now) IN
                 with[fp] # None /\ with[fp].at >= auth[fp].at
<1>1. now \in Nat /\ disk \in Caches(0..now) /\ auth \in Caches(0..now)
  BY Groups, OutputAssumption DEF Counters, Stamped
<1>2. disk[fp] # None /\ disk[fp].at >= auth[fp].at /\ disk[fp].at \in 0..now /\ auth[fp].at \in 0..now
  BY <1>1, CacheEntries DEF AuthOnDisk
<1>3. ~Expired(disk[fp], now)
  BY <1>1, <1>2, OutputAssumption DEF Expired
<1>4. Prune(Merge(disk, c), now) \in Caches(0..now)
  BY <1>1, MergeKeeps, PruneKeeps
<1>5. \A es \in SUBSET Event : Prune(Update(Merge(disk, c), es, now), now) \in Caches(0..now)
  BY <1>1, MergeKeeps, UpdateKeeps, PruneKeeps
<1>6. ASSUME NEW d \in Caches(0..now), d[fp] # None, d[fp].at >= disk[fp].at
      PROVE  d[fp].at >= auth[fp].at
  <2>1. d[fp].at \in 0..now
    BY <1>1, <1>6, CacheEntries
  <2> QED
    BY <1>1, <1>2, <1>6, <2>1
<1>7. /\ Prune(Merge(disk, c), now)[fp] # None /\ Prune(Merge(disk, c), now)[fp].at >= disk[fp].at
      /\ \A es \in SUBSET Event :
            /\ Prune(Update(Merge(disk, c), es, now), now)[fp] # None
            /\ Prune(Update(Merge(disk, c), es, now), now)[fp].at >= disk[fp].at
  BY <1>1, <1>2, <1>3, MergeSurvives
<1> QED
  BY <1>4, <1>5, <1>6, <1>7

LEMMA NextAuthOnDisk == TypeInv /\ AuthOnDisk /\ [Next]_vars => AuthOnDisk'
<1> SUFFICES ASSUME TypeInv, AuthOnDisk, [Next]_vars PROVE AuthOnDisk'
  OBVIOUS
<1> USE DEF bounds, dedupVars, queueVars, local, history
<1>0. now \in Nat /\ disk \in Caches(0..now) /\ auth \in Caches(0..now)
  BY Groups, OutputAssumption DEF Counters, Stamped
<1>g. ASSUME now' = now, auth' = auth,
             \A fp \in Fps : auth[fp] # None /\ ~Expired(auth[fp], now) =>
                                disk'[fp] # None /\ disk'[fp].at >= auth[fp].at
      PROVE  AuthOnDisk'
  BY <1>g DEF AuthOnDisk, Expired
<1>1. ASSUME UNCHANGED <<now, disk, auth>> PROVE AuthOnDisk'
  BY <1>g, <1>1 DEF AuthOnDisk
<1>2. ASSUME NEW t \in Threads, Filter(t) PROVE AuthOnDisk'
  <2> DEFINE emit == {e \in events[t] : ShouldEmit(Merge(disk, OwnCache(t)), e, now)}
  <2>1. /\ disk' = Prune(Update(Merge(disk, OwnCache(t)), emit, now), now)
        /\ auth' = Update(auth, emit, now) /\ now' = now
    BY <1>2 DEF Filter
  <2>2. emit \in SUBSET Event /\ OwnCache(t) \in Caches(0..now)
    BY Groups, Reads DEF Running
  <2> HIDE DEF emit
  <2> SUFFICES ASSUME NEW fp \in Fps, auth'[fp] # None, ~Expired(auth'[fp], now)
               PROVE  disk'[fp] # None /\ disk'[fp].at >= auth'[fp].at
    BY <2>1, Zenon DEF AuthOnDisk, Expired
  <2>3. ASSUME \E e \in emit : e.fp = fp
        PROVE  disk'[fp] # None /\ disk'[fp].at >= auth'[fp].at
    <3> DEFINE entry == [status |-> (CHOOSE e \in emit : e.fp = fp).status, at |-> now]
    <3>1. (CHOOSE e \in emit : e.fp = fp) \in Event
      BY <2>2, <2>3
    <3>2. entry \in Entries(0..now) /\ entry.at = now
      BY <1>0, <3>1 DEF Entries, Event
    <3>3. auth'[fp] = entry /\ Update(Merge(disk, OwnCache(t)), emit, now)[fp] = entry
      BY <2>1, <2>3 DEF Update
    <3> HIDE DEF entry
    <3>4. entry # None /\ ~Expired(entry, now)
      BY <1>0, <3>2, EntryIsSomething, OutputAssumption DEF Expired
    <3>5. disk'[fp] = entry
      BY <2>1, <3>3, <3>4 DEF Prune
    <3> QED
      BY <1>0, <3>2, <3>3, <3>4, <3>5
  <2>4. ASSUME ~ \E e \in emit : e.fp = fp
        PROVE  disk'[fp] # None /\ disk'[fp].at >= auth'[fp].at
    <3>1. auth'[fp] = auth[fp]
      BY <2>1, <2>4 DEF Update
    <3> QED
      BY <2>1, <2>2, <3>1, CoveredAfter
  <2> QED
    BY <2>3, <2>4
<1>3. ASSUME NEW c \in Caches(0..now), disk' = Prune(Merge(disk, c), now), now' = now, auth' = auth
      PROVE  AuthOnDisk'
  BY <1>3, <1>g, CoveredAfter
<1>4. ASSUME NEW t \in Threads, Record(t) PROVE AuthOnDisk'
  <2>1. disk' = Prune(Merge(disk, Recorded(t)), now) /\ now' = now /\ auth' = auth
    BY <1>4 DEF Record
  <2> QED
    BY <1>3, <2>1, StampedBatch
<1>5. ASSUME NEW p \in Procs, Stop(p) PROVE AuthOnDisk'
  <2>1. cache[p] \in Caches(0..now)
    BY Groups DEF Stamped
  <2>2. now' = now /\ auth' = auth /\ (disk' = disk \/ disk' = Prune(Merge(disk, cache[p]), now))
    BY <1>5 DEF Stop, NewRun
  <2> QED
    BY <1>1, <1>3, <2>1, <2>2
<1>6. ASSUME NEW t \in Threads, NEW from, Release(t, from) PROVE AuthOnDisk'
  <2> DEFINE merged == Merge(disk, OwnCache(t))
             gone   == Releasing(t)
  <2>1. disk' = Prune(Forgotten(merged, gone), now) /\ auth' = Forgotten(auth, gone) /\ now' = now
    BY <1>6 DEF Release
  <2>2. OwnCache(t) \in Caches(0..now)
    BY Reads
  <2>3. \A fp \in Fps : auth[fp] # None /\ ~Expired(auth[fp], now) =>
           Prune(merged, now)[fp] # None /\ Prune(merged, now)[fp].at >= auth[fp].at
    BY <2>2, CoveredAfter
  <2> HIDE DEF merged, gone
  <2>4. \A fp \in Fps : fp \in gone => auth'[fp] = None
    BY <2>1 DEF Forgotten
  <2>5. \A fp \in Fps \ gone : auth'[fp] = auth[fp] /\ disk'[fp] = Prune(merged, now)[fp]
    BY <2>1 DEF Forgotten, Prune
  <2>6. \A fp \in Fps : auth'[fp] # None /\ ~Expired(auth'[fp], now) =>
           disk'[fp] # None /\ disk'[fp].at >= auth'[fp].at
    BY <2>3, <2>4, <2>5
  <2> QED
    BY <2>1, <2>6, Zenon DEF AuthOnDisk, Expired
<1>7. ASSUME Tick PROVE AuthOnDisk'
  <2>1. now' = now + 1 /\ disk' = disk /\ auth' = auth
    BY <1>7 DEF Tick
  <2>2. ASSUME NEW fp \in Fps, auth[fp] # None, ~Expired(auth[fp], now + 1)
        PROVE  ~Expired(auth[fp], now)
    <3>1. auth[fp].at \in 0..now
      BY <1>0, <2>2, CacheEntries
    <3> QED
      BY <1>0, <2>2, <3>1, OutputAssumption DEF Expired
  <2> QED
    BY <2>1, <2>2 DEF AuthOnDisk, Expired
<1>s. ASSUME StartFails PROVE AuthOnDisk'
  <2>1. now' = now /\ (UNCHANGED <<disk, auth>> \/ auth' = Empty)
    BY <1>s DEF StartFails, Fault
  <2>2. auth' = Empty => AuthOnDisk'
    BY DEF AuthOnDisk, Empty
  <2> QED
    BY <1>1, <2>1, <2>2
<1>8. \/ UNCHANGED <<now, disk, auth>>
      \/ Tick \/ StartFails
      \/ \E t \in Threads : \/ Filter(t) \/ Record(t)
                            \/ Release(t, "unreserve") \/ Release(t, "release")
      \/ \E p \in Procs : Stop(p)
  BY DEF Next, EmitStep, FlushStep, Determine, Detect, FilterFails, Enqueue, EnqueueFails,
         ReleaseFails, FlushStart, FlushDelivers, FlushKeeps, FlushAbandons, RecordFails,
         Crash, NewRun, Fault, vars
<1> QED
  BY <1>1, <1>2, <1>4, <1>5, <1>6, <1>7, <1>8, <1>s

LEMMA RunOpened ==
    ASSUME TypeInv, EntriesOpened, EventsOpened,
           (\E p \in Procs : Stop(p) \/ Crash(p)) \/ Tick \/ UNCHANGED vars
    PROVE  EntriesOpened' /\ EventsOpened'
<1> USE DEF bounds, dedupVars, queueVars, local, history
<1>0. Stamped /\ Running
  BY Groups
<1>1. remediated' = remediated /\ queue' = queue
  BY DEF Stop, Crash, Tick, vars
<1>2. Opened' = Opened /\ \A e : PlainEvent(e) <=> PlainEvent(e)'
  BY <1>1 DEF Opened, PlainEvent
<1>3. ASSUME NEW s \in Threads
      PROVE  /\ pc'[s] = pc[s] \/ pc'[s] = "idle"
             /\ events'[s] = events[s] \/ events'[s] = {}
             /\ batch'[s] = batch[s] \/ batch'[s] = <<>>
  <2>1. CASE \E p \in Procs : Crash(p)
    BY <2>1 DEF Crash
  <2>2. CASE ~ \E p \in Procs : Crash(p)
    BY <2>2 DEF Stop, Tick, vars
  <2> QED
    BY <2>1, <2>2
<1>4. /\ \A e \in EventsOf(queue') : <<e.fp, e.status>> \in Opened'
      /\ \A s \in Threads :
            /\ \A e \in EventsOf(batch'[s]) : <<e.fp, e.status>> \in Opened'
            /\ \A e \in events'[s] : PlainEvent(e)'
            /\ pc'[s] = "enqueue" => \A e \in events'[s] : <<e.fp, e.status>> \in Opened'
  BY <1>1, <1>2, <1>3, NoEvents DEF EventsOpened, Named, Plain
<1>5. EventsOpened'
  BY <1>4, Zenon DEF EventsOpened, Named, Plain, EventsOf
<1>6. ASSUME NEW p \in Procs, Stop(p) \/ Crash(p) PROVE EntriesOpened'
  <2>1. Within(Prune(Merge(disk, cache[p]), now), Opened) /\ Within(disk, Opened)
    BY MergeWithin, PruneWithin DEF EntriesOpened
  <2>2. /\ disk' = disk \/ disk' = Prune(Merge(disk, cache[p]), now)
        /\ \A q \in Procs \ {p} : cache'[q] = cache[q]
        /\ cache'[p] = Prune(disk', now) \/ cache'[p] = Prune(disk, now)
    BY <1>0, <1>6 DEF Stop, Crash, Stamped
  <2>3. Within(disk', Opened)
    BY <2>1, <2>2
  <2>4. \A q \in Procs : Within(cache'[q], Opened)
    BY <2>1, <2>2, <2>3, PruneWithin DEF EntriesOpened
  <2> QED
    BY <1>2, <2>3, <2>4, Zenon DEF EntriesOpened, Within
<1>7. ASSUME Tick \/ UNCHANGED vars PROVE EntriesOpened'
  <2>1. disk' = disk /\ cache' = cache
    BY <1>7 DEF Tick, vars
  <2> QED
    BY <1>2, <2>1 DEF EntriesOpened, Within
<1> QED
  BY <1>5, <1>6, <1>7

LEMMA StartOpened ==
    ASSUME TypeInv, EntriesOpened, EventsOpened, StartFails
    PROVE  EntriesOpened' /\ EventsOpened'
<1> USE DEF local
<1>1. /\ UNCHANGED <<pc, events, batch, cache, remediated>>
      /\ queue' = queue \/ queue' = [i \in DOMAIN queue |-> {}]
      /\ disk' = disk \/ disk' = Empty
  BY DEF StartFails
<1>2. Opened' = Opened /\ \A e : PlainEvent(e) <=> PlainEvent(e)'
  BY <1>1 DEF Opened, PlainEvent
<1>3. EventsOf(queue') \subseteq EventsOf(queue)
  <2>1. CASE queue' = [i \in DOMAIN queue |-> {}]
    BY <2>1 DEF EventsOf
  <2> QED
    BY <1>1, <2>1
<1>4. EventsOpened'
  <2>1. /\ \A e \in EventsOf(queue') : <<e.fp, e.status>> \in Opened'
        /\ \A s \in Threads :
              /\ \A e \in EventsOf(batch'[s]) : <<e.fp, e.status>> \in Opened'
              /\ \A e \in events'[s] : PlainEvent(e)'
              /\ pc'[s] = "enqueue" => \A e \in events'[s] : <<e.fp, e.status>> \in Opened'
    BY <1>1, <1>2, <1>3 DEF EventsOpened, Named, Plain
  <2> QED
    BY <2>1, Zenon DEF EventsOpened, Named, Plain, EventsOf
<1>5. Within(disk', Opened) /\ \A p \in Procs : Within(cache'[p], Opened)
  BY <1>1, NothingWithin DEF EntriesOpened
<1>6. EntriesOpened'
  BY <1>2, <1>5, Zenon DEF EntriesOpened, Within
<1> QED
  BY <1>4, <1>6

\* Filter lets nothing through that it let through within the window.
LEMMA FilterAlertsOnce ==
    ASSUME TypeInv, EntriesOpened, EventsOpened, AuthOnDisk, NEW t \in Threads, Filter(t),
           doubled \subseteq remediated
    PROVE  doubled' \subseteq remediated'
<1> DEFINE merged == Merge(disk, OwnCache(t))
           emit   == {e \in events[t] : ShouldEmit(merged, e, now)}
<1>0. /\ now \in Nat /\ disk \in Caches(0..now) /\ auth \in Caches(0..now)
      /\ OwnCache(t) \in Caches(0..now) /\ ProcOf[t] \in Procs /\ events[t] \in SUBSET Event
  BY Groups, Reads DEF Stamped, Running
<1>1. /\ remediated' = remediated \cup FpsOf({e \in emit : e.status = "remediated"})
      /\ doubled' = doubled \cup FpsOf({e \in emit :
            /\ auth[e.fp] # None /\ auth[e.fp].status = e.status
            /\ ~Expired(auth[e.fp], now)})
  BY DEF Filter
<1> SUFFICES ASSUME NEW e \in emit, auth[e.fp] # None, ~Expired(auth[e.fp], now),
                    e.fp \notin remediated, e.status # "remediated"
             PROVE  FALSE
  BY <1>1 DEF FpsOf
<1>2. e \in events[t] /\ ShouldEmit(merged, e, now) /\ e.fp \in Fps /\ e.status = "open"
      /\ e.type \in EventTypes
  BY <1>0 DEF Event, Statuses
<1>3. e.type \notin Significant
  <2>1. PlainEvent(e)
    BY <1>2 DEF EventsOpened, Plain
  <2> QED
    BY <1>2, <2>1 DEF PlainEvent, EventTypes, Significant
<1>4. disk[e.fp] # None /\ disk[e.fp].at >= auth[e.fp].at
  BY <1>2 DEF AuthOnDisk
<1>5. /\ merged \in Caches(0..now) /\ merged[e.fp] # None
      /\ merged[e.fp].at >= disk[e.fp].at
  BY <1>0, <1>2, <1>4, MergeKeeps
<1>6. Within(merged, Opened)
  BY <1>0, MergeWithin DEF EntriesOpened, OwnCache
<1> HIDE DEF merged, emit
<1>7. merged[e.fp].status = "open"
  <2>1. merged[e.fp].status \in Statuses
    BY <1>0, <1>2, <1>5, CacheEntries, EntryIsSomething
  <2>2. <<e.fp, merged[e.fp].status>> \in Opened
    BY <1>2, <1>5, <1>6 DEF Within
  <2> QED
    BY <1>2, <2>1, <2>2, OpenedIs
<1>8. ~Expired(merged[e.fp], now)
  <2>1. merged[e.fp].at \in 0..now /\ disk[e.fp].at \in 0..now /\ auth[e.fp].at \in 0..now
    BY <1>0, <1>2, <1>4, <1>5, CacheEntries
  <2> QED
    BY <1>0, <1>4, <1>5, <2>1, OutputAssumption DEF Expired
<1> QED
  BY <1>2, <1>3, <1>5, <1>7, <1>8 DEF ShouldEmit

AlertInv == NoDoubleAlert /\ EntriesOpened /\ EventsOpened /\ AuthOnDisk

LEMMA InitAlertInv == Init => AlertInv
<1> SUFFICES ASSUME Init PROVE AlertInv
  OBVIOUS
<1>1. /\ disk = Empty /\ auth = Empty /\ doubled = {} /\ queue = <<>>
      /\ \A p \in Procs : cache[p] = Empty
      /\ \A t \in Threads : pc[t] = "idle" /\ events[t] = {} /\ batch[t] = <<>>
  BY DEF Init
<1>2. EntriesOpened
  BY <1>1, NothingWithin DEF EntriesOpened
<1>3. EventsOpened
  BY <1>1, NoEvents DEF EventsOpened, Named, Plain
<1>4. AuthOnDisk /\ NoDoubleAlert
  BY <1>1 DEF AuthOnDisk, Empty, NoDoubleAlert
<1> QED
  BY <1>2, <1>3, <1>4 DEF AlertInv

LEMMA NextAlertInv == TypeInv /\ AlertInv /\ [Next]_vars => AlertInv'
<1> SUFFICES ASSUME TypeInv, AlertInv, [Next]_vars PROVE AlertInv'
  OBVIOUS
<1> USE DEF AlertInv
<1>1. EntriesOpened' /\ EventsOpened'
  BY StepEntriesOpened, StepEventsOpened, RunOpened, StartOpened, Zenon DEF Next
<1>2. AuthOnDisk'
  BY NextAuthOnDisk
<1>3. NoDoubleAlert'
  <2>1. ASSUME NEW t \in Threads, Filter(t) PROVE NoDoubleAlert'
    BY <2>1, FilterAlertsOnce DEF NoDoubleAlert
  <2>2. (\E t \in Threads : Filter(t)) \/ UNCHANGED <<doubled, remediated>>
    BY DEF Next, EmitStep, FlushStep, Determine, Detect, FilterFails, Enqueue, EnqueueFails,
           Release, ReleaseFails, FlushStart, FlushDelivers, FlushKeeps, FlushAbandons, Record,
           RecordFails, Stop, Crash, StartFails, Tick, vars, history
  <2> QED
    BY <2>1, <2>2 DEF NoDoubleAlert
<1> QED
  BY <1>1, <1>2, <1>3

\* NoDoubleAlert for any number of agents and threads that share the dedup
\* file: while nobody saw it remediated, a finding is let through at most once
\* per window, whatever interleaves, fails or crashes (dedup.go:91-99).
THEOREM AlertedOnce == Spec => []NoDoubleAlert
<1>1. AlertInv => NoDoubleAlert
  BY DEF AlertInv
<1> QED
  BY <1>1, InitAlertInv, NextAlertInv, InitTypeInv, NextTypeInv, PTL DEF Spec

-----------------------------------------------------------------------------
(* The exit code of one run at a time (AuditRun).  Two overlapping runs    *)
(* share the queue, and PendingCount is what a process last saw of it.     *)

OneProcess == \A p, q \in Procs : p = q

RunTypes ==
    /\ phase \in [Procs -> Phases] /\ outcome \in [Procs -> Outcomes]
    /\ err \in [Threads -> BOOLEAN] /\ periodicErr \in [Procs -> BOOLEAN]
    /\ mine \in [Procs -> SUBSET Event] /\ buried \in [Procs -> SUBSET Event]
    /\ exit \in [Procs -> Exits]

HandedOver(p, e) == Told(e) \/ e \in buried[p]

\* What a run enqueued is handed over or in the queue, and once it has counted
\* nothing pending, all of it is handed over.
KeptOrHandedOver ==
    \A p \in Procs : \A e \in mine[p] : HandedOver(p, e) \/ e \in EventsOf(queue)

Counted ==
    \A p \in Procs :
        phase[p] \in {"check", "close", "final", "last"} /\ ~outcome[p].pending =>
            \A e \in mine[p] : HandedOver(p, e)

RunInv == RunTypes /\ KeptOrHandedOver /\ Counted /\ ExitZeroLeavesNothingBehind

\* What a step of a run does that no step of SiemOutput does: a Flush that
\* returns at once, and an audit that fails.
Aside ==
    /\ UNCHANGED <<now, runs, disk, cache, queue, flusher, pc, results, events, batch>>
    /\ UNCHANGED history
    /\ faults' \in 0..MaxFaults /\ audited' \in [Procs -> BOOLEAN]

LEMMA AuditStepIs == TypeInv /\ [AuditNext]_allVars => [Next]_vars \/ Aside
<1> SUFFICES ASSUME TypeInv, [AuditNext]_allVars PROVE [Next]_vars \/ Aside
  OBVIOUS
<1>1. faults \in 0..MaxFaults /\ audited \in [Procs -> BOOLEAN] /\ MaxFaults \in Nat
  BY Groups, OutputAssumption DEF Counters, Running
<1>2. ASSUME NEW t \in Threads, FlushCall(t) PROVE [Next]_vars \/ Aside
  <2>1. CASE FlushStart(t)
    BY <2>1 DEF Next, FlushStep
  <2>2. CASE FlushReturns(t)
    <3>1. /\ UNCHANGED <<now, runs, disk, cache, queue, flusher, pc, results, events, batch>>
          /\ UNCHANGED history /\ audited' = audited
          /\ faults' = faults \/ (faults < MaxFaults /\ faults' = faults + 1)
      BY <2>2 DEF FlushReturns, Fault, bounds, dedupVars, queueVars, local
    <3> QED
      BY <1>1, <3>1 DEF Aside
  <2> QED
    BY <1>2, <2>1, <2>2 DEF FlushCall
<1>3. ASSUME NEW t \in Threads, DbFails(t) PROVE Aside
  <2>1. /\ UNCHANGED <<now, runs, disk, cache, queue, flusher, pc, results, events, batch>>
        /\ UNCHANGED history /\ faults' = faults
        /\ audited' = [audited EXCEPT ![ProcOf[t]] = TRUE]
    BY <1>3 DEF DbFails, bounds, dedupVars, queueVars, local
  <2>2. audited' \in [Procs -> BOOLEAN]
    BY <1>1, <2>1
  <2> QED
    BY <1>1, <2>1, <2>2 DEF Aside
<1>4. ASSUME NEW t \in Threads, Emit(t) \/ FlushWork(t) PROVE [Next]_vars
  BY <1>4 DEF Emit, FlushWork, FlushStep, Next
<1>5. ASSUME NEW t \in Threads, StoreError(t) \/ Count(t) \/ CheckPeriodic(t) \/ StopTicker(t)
      PROVE  UNCHANGED vars
  BY <1>5 DEF StoreError, Count, CheckPeriodic, StopTicker
<1>6. ASSUME NEW t \in Threads, TickerFlush(t) \/ EndOfRunFlush(t) \/ FinalFlush(t)
      PROVE  FlushCall(t)
  BY <1>6 DEF TickerFlush, EndOfRunFlush, FinalFlush
<1>7. (\E p \in Procs : Exit(p) \/ Killed(p)) \/ AuditTick \/ UNCHANGED allVars => [Next]_vars
  BY DEF Exit, Killed, AuditTick, Next, allVars
<1> QED
  BY <1>2, <1>3, <1>4, <1>5, <1>6, <1>7, Zenon DEF AuditNext

LEMMA AuditSteps == TypeInv /\ InFlight /\ [AuditNext]_allVars => TypeInv' /\ InFlight'
<1> SUFFICES ASSUME TypeInv, InFlight, [AuditNext]_allVars PROVE TypeInv' /\ InFlight'
  OBVIOUS
<1>1. ASSUME [Next]_vars PROVE TypeInv' /\ InFlight'
  BY <1>1, NextTypeInv, NextInFlight
<1>2. ASSUME Aside PROVE TypeInv' /\ InFlight'
  <2> USE DEF Aside
  <2>1. Counters' /\ Stamped' /\ Queueing' /\ Running' /\ Records'
    BY <1>2, Groups DEF Counters, Stamped, Queueing, Running, Records, history
  <2>2. TypeInv'
    BY <2>1, Groups, PTL
  <2>3. \A s \in Threads : pc'[s] = "record" => AllTold(EventsOf(batch[s]))'
    BY <1>2, ToldStays DEF InFlight, history
  <2>4. \A s \in Threads : pc'[s] = "send" => flusher' = s /\ Fronts(batch'[s], queue')
    BY <1>2 DEF InFlight
  <2> QED
    BY <2>2, <2>3, <2>4, Zenon DEF InFlight, Fronts
<1> QED
  BY <1>1, <1>2, AuditStepIs

LEMMA InitRunInv == AuditInit => RunInv
<1> SUFFICES ASSUME AuditInit PROVE RunInv
  OBVIOUS
<1>1. RunTypes
  BY DEF AuditInit, RunTypes, Phases, Outcomes, Clean, Exits
<1> QED
  BY <1>1 DEF AuditInit, RunInv, KeptOrHandedOver, Counted, ExitZeroLeavesNothingBehind

LEMMA NextRunTypes == TypeInv /\ TypeInv' /\ RunTypes /\ [AuditNext]_allVars => RunTypes'
<1> SUFFICES ASSUME TypeInv, TypeInv', RunTypes, [AuditNext]_allVars PROVE RunTypes'
  OBVIOUS
<1> USE DEF RunTypes
<1>0. /\ \A t \in Threads : ProcOf[t] \in Procs /\ events[t] \in SUBSET Event
      /\ \A t \in Threads : EventsOf(batch'[t]) \in SUBSET Event
  <2>1. \A t \in Threads : batch'[t] \in Seq(SUBSET Event)
    BY DEF TypeInv, TypeOK
  <2> QED
    BY <2>1, BatchEvents, Groups, Reads DEF Running
<1>1. ASSUME NEW t \in Threads PROVE outcome[ProcOf[t]] \in Outcomes
  BY <1>0
<1>2. ASSUME NEW t \in Threads, Emit(t) PROVE RunTypes'
  <2>1. {e \in events[t] : e.fp \notin Invalid} \in SUBSET Event
    BY <1>0
  <2>2. outcome' \in [Procs -> Outcomes]
    BY <1>0, <1>1, <1>2 DEF Emit, SetOutcome, Outcome, Outcomes
  <2>3. mine' \in [Procs -> SUBSET Event]
    BY <1>0, <1>2, <2>1 DEF Emit
  <2> QED
    BY <1>2, <2>2, <2>3 DEF Emit
<1>3. ASSUME NEW t \in Threads, FlushWork(t) PROVE RunTypes'
  <2>1. err' \in [Threads -> BOOLEAN]
    BY <1>3 DEF FlushWork, Noted
  <2>2. buried' \in [Procs -> SUBSET Event]
    <3>1. \/ buried' = buried
          \/ buried' = [buried EXCEPT ![ProcOf[t]] = @ \cup EventsOf(batch'[t])]
      BY <1>3, Zenon DEF FlushWork
    <3> QED
      BY <1>0, <3>1
  <2> QED
    BY <1>3, <2>1, <2>2 DEF FlushWork
<1>4. ASSUME NEW t \in Threads, FlushCall(t) PROVE err' \in [Threads -> BOOLEAN]
  BY <1>4 DEF FlushCall, FlushReturns, Noted
<1>5. ASSUME NEW t \in Threads, TickerFlush(t) \/ EndOfRunFlush(t) \/ FinalFlush(t) PROVE RunTypes'
  <2>1. err' \in [Threads -> BOOLEAN]
    BY <1>4, <1>5 DEF TickerFlush, EndOfRunFlush, FinalFlush
  <2>2. phase' \in [Procs -> Phases]
    BY <1>0, <1>5 DEF TickerFlush, EndOfRunFlush, FinalFlush, Enter, Phases
  <2> QED
    BY <1>5, <2>1, <2>2 DEF TickerFlush, EndOfRunFlush, FinalFlush
<1>6. ASSUME NEW t \in Threads, StoreError(t) \/ Count(t) \/ CheckPeriodic(t) \/ StopTicker(t) \/ DbFails(t)
      PROVE  RunTypes'
  <2>1. phase' \in [Procs -> Phases]
    BY <1>0, <1>6 DEF StoreError, Count, CheckPeriodic, StopTicker, DbFails, Enter, Phases
  <2>2. outcome' \in [Procs -> Outcomes]
    <3>1. CASE DbFails(t)
      <4>1. outcome' = [outcome EXCEPT ![ProcOf[t]] = [Outcome(t) EXCEPT !.dbFailed = TRUE]]
        BY <3>1 DEF DbFails, SetOutcome
      <4> QED
        BY <1>0, <1>1, <4>1 DEF Outcome, Outcomes
    <3>2. CASE Count(t)
      <4> DEFINE late == err[t]
                 left == EventsOf(queue) # {}
      <4>1. outcome' = [outcome EXCEPT ![ProcOf[t]] =
                [Outcome(t) EXCEPT !.deliveryErr = @ \/ late, !.pending = left]]
        BY <3>2 DEF Count, SetOutcome
      <4>2. late \in BOOLEAN /\ left \in BOOLEAN
        OBVIOUS
      <4> HIDE DEF late, left
      <4> QED
        BY <1>0, <1>1, <4>1, <4>2 DEF Outcome, Outcomes
    <3>3. CASE CheckPeriodic(t)
      <4> DEFINE late == periodicErr[ProcOf[t]]
      <4>1. outcome' = [outcome EXCEPT ![ProcOf[t]] = [Outcome(t) EXCEPT !.deliveryErr = @ \/ late]]
        BY <3>3 DEF CheckPeriodic, SetOutcome
      <4>2. late \in BOOLEAN
        BY <1>0
      <4> HIDE DEF late
      <4> QED
        BY <1>0, <1>1, <4>1, <4>2 DEF Outcome, Outcomes
    <3>4. CASE StoreError(t) \/ StopTicker(t)
      BY <3>4 DEF StoreError, StopTicker
    <3> QED
      BY <1>6, <3>1, <3>2, <3>3, <3>4
  <2>3. err' \in [Threads -> BOOLEAN] /\ periodicErr' \in [Procs -> BOOLEAN]
    BY <1>0, <1>6 DEF StoreError, Count, CheckPeriodic, StopTicker, DbFails
  <2>4. UNCHANGED <<mine, buried, exit>>
    BY <1>6 DEF StoreError, Count, CheckPeriodic, StopTicker, DbFails
  <2> QED
    BY <2>1, <2>2, <2>3, <2>4
<1>7. ASSUME NEW p \in Procs, Exit(p) \/ Killed(p) PROVE RunTypes'
  <2>1. NextRun(p)
    BY <1>7 DEF Exit, Killed
  <2>2. /\ phase' \in [Procs -> Phases] /\ outcome' \in [Procs -> Outcomes]
        /\ err' \in [Threads -> BOOLEAN] /\ periodicErr' \in [Procs -> BOOLEAN]
    BY <2>1 DEF NextRun, Phases, Outcomes, Clean
  <2>3. mine' \in [Procs -> SUBSET Event] /\ buried' \in [Procs -> SUBSET Event]
    BY <2>1 DEF NextRun
  <2>4. exit' \in [Procs -> Exits]
    <3>1. \A o : Code(o) \in 0..2
      BY DEF Code
    <3> DEFINE all  == \A e \in mine[p] : Told(e) \/ e \in buried[p]
               code == Code([outcome[p] EXCEPT !.deliveryErr = @ \/ faults' # faults])
    <3>2. exit' = exit \/ exit' = [exit EXCEPT ![p] = [code |-> code, handedOver |-> all]]
      BY <1>7, Zenon DEF Exit, Killed
    <3>3. all \in BOOLEAN /\ code \in 0..2
      BY <3>1
    <3> HIDE DEF all, code
    <3> QED
      BY <3>2, <3>3 DEF Exits
  <2> QED
    BY <2>2, <2>3, <2>4
<1>8. ASSUME AuditTick \/ UNCHANGED allVars PROVE RunTypes'
  BY <1>8 DEF AuditTick, auditVars, allVars
<1> QED
  BY <1>2, <1>3, <1>5, <1>6, <1>7, <1>8, Zenon DEF AuditNext

\* What has been handed over stays so.
LEMMA HandedOverStays ==
    ASSUME TypeInv, RunTypes, NEW p \in Procs,
           \A fp \in Fps : told[fp] \subseteq told'[fp], buried[p] \subseteq buried'[p],
           NEW e \in mine[p], HandedOver(p, e)
    PROVE  HandedOver(p, e)'
<1>1. e \in Event
  BY DEF RunTypes
<1>2. e.fp \in Fps
  BY <1>1 DEF Event
<1> QED
  BY <1>2 DEF HandedOver, Told

LEMMA NextRunInv ==
    ASSUME OneProcess, TypeInv, InFlight, RunInv, [AuditNext]_allVars
    PROVE  KeptOrHandedOver' /\ Counted' /\ ExitZeroLeavesNothingBehind'
<1>0. /\ RunTypes /\ KeptOrHandedOver /\ Counted /\ ExitZeroLeavesNothingBehind
      /\ \A t \in Threads : ProcOf[t] \in Procs
      /\ \A t \in Threads, p \in Procs : ProcOf[t] = p
  BY Reads DEF RunInv, OneProcess
\* The steps of Flush and Emit: what leaves the queue was told or is buried.
<1>1. ASSUME NEW t \in Threads, Emit(t) PROVE KeptOrHandedOver' /\ Counted' /\ exit' = exit
  <2> DEFINE valid == {e \in events[t] : e.fp \notin Invalid}
  <2>1. /\ EmitStep(t) /\ buried' = buried /\ exit' = exit
        /\ \A p \in Procs : phase'[p] = "loop"
    BY <1>0, <1>1 DEF Emit, At
  <2>2. \A fp \in Fps : told[fp] \subseteq told'[fp]
    BY <2>1, OneThread
  <2>3. pc[t] # "send"
    BY <2>1 DEF EmitStep, Determine, Detect, Filter, FilterFails, Enqueue, EnqueueFails, Release,
                ReleaseFails, Goto
  <2>4. \A e \in EventsOf(queue) :
           e \in EventsOf(queue') \/ (e.fp \in Fps /\ e.status \in told'[e.fp])
    <3>1. ~ FlushAbandons(t)
      BY <2>3 DEF FlushAbandons, Goto
    <3> QED
      BY <2>1, <3>1, LeavesTheQueue
  <2>5. ASSUME pc[t] = "enqueue", pc'[t] = "idle"
        PROVE  valid \subseteq EventsOf(queue')
    <3>1. Enqueue(t)
      <4>1. Running
        BY Groups
      <4>2. ~ EnqueueFails(t)
        BY <2>5, <4>1 DEF EnqueueFails, Goto, Running
      <4> QED
        BY <2>1, <2>5, <4>2 DEF EmitStep, Determine, Detect, Filter, FilterFails, Release,
                    ReleaseFails, Goto
    <3>2. valid \in SUBSET Event /\ queue \in Seq(SUBSET Event)
          /\ queue' = IF valid = {} THEN queue ELSE Append(queue, valid)
      BY <3>1, Groups DEF Enqueue, Running, Queueing
    <3> HIDE DEF valid
    <3> QED
      BY <3>2, AppendedEvents
  <2>6. ASSUME NEW p \in Procs, NEW e \in mine'[p]
        PROVE  HandedOver(p, e)' \/ e \in EventsOf(queue')
    <3>1. e \in mine[p] \/ (pc[t] = "enqueue" /\ pc'[t] = "idle" /\ e \in valid)
      BY <1>0, <1>1, <2>6 DEF Emit, RunTypes
    <3>2. CASE e \in mine[p]
      <4>1. HandedOver(p, e) \/ e \in EventsOf(queue)
        BY <1>0, <3>2 DEF KeptOrHandedOver
      <4>2. CASE HandedOver(p, e)
        BY <1>0, <2>1, <2>2, <3>2, <4>2, HandedOverStays
      <4>3. CASE e \in EventsOf(queue)
        BY <2>4, <4>3 DEF HandedOver, Told
      <4> QED
        BY <4>1, <4>2, <4>3
    <3> QED
      BY <2>5, <3>1, <3>2
  <2>7. KeptOrHandedOver'
    BY <2>6, Zenon DEF KeptOrHandedOver, EventsOf
  <2>8. Counted'
    BY <2>1 DEF Counted
  <2> QED
    BY <2>1, <2>7, <2>8
<1>2. ASSUME NEW t \in Threads, FlushWork(t) PROVE KeptOrHandedOver' /\ Counted' /\ exit' = exit
  <2>1. FlushStep(t) /\ UNCHANGED <<phase, outcome, mine, exit>>
    BY <1>2 DEF FlushWork, FlushStep
  <2>2. \A fp \in Fps : told[fp] \subseteq told'[fp]
    BY <2>1, OneThread
  <2>3. \A p \in Procs : buried[p] \subseteq buried'[p]
    <3>1. \/ buried' = buried
          \/ buried' = [buried EXCEPT ![ProcOf[t]] = @ \cup EventsOf(batch'[t])]
      BY <1>2, Zenon DEF FlushWork
    <3> QED
      BY <1>0, <3>1 DEF RunTypes
  <2>4. ASSUME FlushAbandons(t), pc'[t] = "release", NEW p \in Procs
        PROVE  EventsOf(batch[t])' \subseteq buried'[p]
    <3>1. buried' = [buried EXCEPT ![ProcOf[t]] = @ \cup EventsOf(batch'[t])]
      <4>1. pc[t] = "send"
        BY <2>4 DEF FlushAbandons, Goto
      <4>2. ~ FlushDelivers(t) /\ ~ FlushKeeps(t)
        BY <2>4, Groups DEF FlushDelivers, FlushKeeps, Goto, Running
      <4> QED
        BY <1>2, <4>1, <4>2 DEF FlushWork, Record, RecordFails, Release, ReleaseFails, Goto
    <3>2. buried'[p] = buried[p] \cup EventsOf(batch'[t])
      BY <1>0, <3>1 DEF RunTypes
    <3> QED
      BY <3>2 DEF EventsOf
  <2>5. ASSUME NEW p \in Procs, NEW e \in mine[p], HandedOver(p, e)
        PROVE  HandedOver(p, e)'
    BY <1>0, <2>2, <2>3, <2>5, HandedOverStays
  <2>6. ASSUME NEW p \in Procs, NEW e \in mine[p], e \in EventsOf(queue)
        PROVE  HandedOver(p, e)' \/ e \in EventsOf(queue')
    <3>1. \/ e \in EventsOf(queue')
          \/ e.fp \in Fps /\ e.status \in told'[e.fp]
          \/ FlushAbandons(t) /\ pc'[t] = "release" /\ e \in EventsOf(batch[t])'
      BY <2>1, <2>6, LeavesTheQueue
    <3> QED
      BY <2>4, <3>1 DEF HandedOver, Told
  <2>7. \A p \in Procs : \A e \in mine'[p] : HandedOver(p, e)' \/ e \in EventsOf(queue')
    BY <1>0, <2>1, <2>5, <2>6 DEF KeptOrHandedOver
  <2>8. KeptOrHandedOver'
    BY <2>7, Zenon DEF KeptOrHandedOver, EventsOf
  <2>9. Counted'
    BY <1>0, <2>1, <2>5 DEF Counted
  <2> QED
    BY <2>1, <2>8, <2>9
\* The steps that leave queue, told, mine and buried alone.
<1>3. ASSUME UNCHANGED <<queue, told, mine, buried>>,
             \A p \in Procs : phase'[p] \in {"check", "close", "final", "last"} /\ ~outcome'[p].pending =>
                \/ phase[p] \in {"check", "close", "final", "last"} /\ ~outcome[p].pending
                \/ EventsOf(queue) = {}
      PROVE  KeptOrHandedOver' /\ Counted'
  <2>1. \A p \in Procs : \A e \in mine[p] : HandedOver(p, e) <=> HandedOver(p, e)'
    BY <1>3 DEF HandedOver, Told
  <2>2. EventsOf(queue)' = EventsOf(queue)
    BY <1>3 DEF EventsOf
  <2>3. KeptOrHandedOver'
    BY <1>0, <1>3, <2>1, <2>2 DEF KeptOrHandedOver
  <2>4. EventsOf(queue) = {} => \A p \in Procs : \A e \in mine[p] : HandedOver(p, e)
    BY <1>0 DEF KeptOrHandedOver
  <2>5. Counted'
    BY <1>0, <1>3, <2>1, <2>4 DEF Counted
  <2> QED
    BY <2>3, <2>5
<1>4. ASSUME NEW t \in Threads, TickerFlush(t) \/ EndOfRunFlush(t) \/ FinalFlush(t)
      PROVE  KeptOrHandedOver' /\ Counted' /\ exit' = exit
  <2>1. UNCHANGED <<queue, told, mine, buried, outcome, exit>>
    BY <1>4 DEF TickerFlush, EndOfRunFlush, FinalFlush, FlushCall, FlushStart, FlushReturns,
                history, queueVars
  <2>2. \A p \in Procs : \/ phase'[p] = phase[p] \/ phase'[p] = "flush"
                         \/ phase[p] = "final"
    BY <1>0, <1>4 DEF TickerFlush, EndOfRunFlush, FinalFlush, Enter, At, RunTypes
  <2> QED
    BY <1>3, <2>1, <2>2
<1>5. ASSUME NEW t \in Threads, StoreError(t) \/ Count(t) \/ CheckPeriodic(t) \/ StopTicker(t) \/ DbFails(t)
      PROVE  KeptOrHandedOver' /\ Counted' /\ exit' = exit
  <2>1. UNCHANGED <<queue, told, mine, buried, exit>>
    BY <1>5 DEF StoreError, Count, CheckPeriodic, StopTicker, DbFails, vars, history, queueVars
  <2>2. ASSUME Count(t), NEW p \in Procs, ~outcome'[p].pending PROVE EventsOf(queue) = {}
    <3>1. outcome[p] \in Outcomes /\ outcome'[p].pending = (EventsOf(queue) # {})
      BY <1>0, <2>2 DEF Count, SetOutcome, Outcome, RunTypes, Outcomes
    <3> QED
      BY <2>2, <3>1
  <2>3. ASSUME ~ Count(t), NEW p \in Procs
        PROVE  /\ outcome'[p].pending = outcome[p].pending
               /\ phase'[p] = phase[p] \/ phase[p] \in {"check", "close"}
    <3>1. outcome[p] \in Outcomes
      BY <1>0 DEF RunTypes
    <3>2. outcome'[p].pending = outcome[p].pending
      BY <1>0, <1>5, <2>3, <3>1 DEF StoreError, CheckPeriodic, StopTicker, DbFails, SetOutcome,
                                    Outcome, RunTypes, Outcomes
    <3>3. phase'[p] = phase[p] \/ phase[p] \in {"check", "close"}
      BY <1>0, <1>5, <2>3 DEF StoreError, CheckPeriodic, StopTicker, DbFails, Enter, At
    <3> QED
      BY <3>2, <3>3
  <2> QED
    BY <1>3, <2>1, <2>2, <2>3
<1>6. exit' = exit => ExitZeroLeavesNothingBehind'
  BY <1>0 DEF ExitZeroLeavesNothingBehind
<1>7. ASSUME NEW p \in Procs, Exit(p) \/ Killed(p)
      PROVE  KeptOrHandedOver' /\ Counted' /\ ExitZeroLeavesNothingBehind'
  <2>1. \A q \in Procs : q = p
    BY DEF OneProcess
  <2>2. \A q \in Procs : mine'[q] = {} /\ phase'[q] = "loop"
    BY <1>0, <1>7, <2>1 DEF Exit, Killed, NextRun, RunTypes
  <2>3. KeptOrHandedOver' /\ Counted'
    BY <2>2 DEF KeptOrHandedOver, Counted
  <2>4. CASE Killed(p)
    BY <1>6, <2>3, <2>4 DEF Killed
  <2>5. CASE Exit(p)
    <3> DEFINE o == [outcome[p] EXCEPT !.deliveryErr = @ \/ faults' # faults]
    <3>1. /\ phase[p] = "last" /\ outcome[p] \in Outcomes
          /\ exit'[p].code = Code(o)
          /\ (\A e \in mine[p] : Told(e) \/ e \in buried[p]) => exit'[p].handedOver
      BY <1>0, <2>5 DEF Exit, RunTypes
    <3>2. o.pending = outcome[p].pending
      BY <3>1 DEF Outcomes
    <3> HIDE DEF o
    <3>3. exit'[p].code = 0 => ~outcome[p].pending
      BY <3>1, <3>2 DEF Code
    <3>4. exit'[p].code = 0 => \A e \in mine[p] : Told(e) \/ e \in buried[p]
      BY <1>0, <3>1, <3>3 DEF Counted, HandedOver
    <3>5. exit'[p].code = 0 => exit'[p].handedOver
      BY <3>1, <3>4
    <3>6. ASSUME NEW q \in Procs PROVE exit'[q].code = 0 => exit'[q].handedOver
      <4>1. q = p
        BY <2>1
      <4> QED
        BY <3>5, <4>1
    <3> QED
      BY <2>3, <3>6 DEF ExitZeroLeavesNothingBehind
  <2> QED
    BY <1>7, <2>3, <2>4, <2>5
<1>8. ASSUME AuditTick \/ UNCHANGED allVars PROVE KeptOrHandedOver' /\ Counted' /\ exit' = exit
  <2>1. UNCHANGED <<queue, told, mine, buried, phase, outcome, exit>>
    BY <1>8 DEF AuditTick, Tick, auditVars, allVars, vars, history, queueVars
  <2> QED
    BY <1>3, <2>1
<1> QED
  BY <1>1, <1>2, <1>4, <1>5, <1>7, <1>8, <1>6, Zenon DEF AuditNext

\* ExitZeroLeavesNothingBehind for any number of threads, findings, failures,
\* crashes and runs, where no two runs overlap: exit code 0 means that the SIEM
\* or the dead-letter file has every event of the run (main.go:380-420).
THEOREM ExitZeroIsHonest == OneProcess /\ AuditSpec => []ExitZeroLeavesNothingBehind
<1> DEFINE Inv == OneProcess /\ TypeInv /\ InFlight /\ RunInv
<1>1. OneProcess /\ AuditInit => Inv
  <2>1. AuditInit => Init
    BY DEF AuditInit
  <2> QED
    BY <2>1, InitTypeInv, InitInFlight, InitRunInv
<1>2. Inv /\ [AuditNext]_allVars => Inv'
  <2> SUFFICES ASSUME Inv, [AuditNext]_allVars PROVE Inv'
    OBVIOUS
  <2>1. TypeInv' /\ InFlight'
    BY AuditSteps
  <2>2. RunTypes'
    BY <2>1, NextRunTypes DEF RunInv
  <2>3. KeptOrHandedOver' /\ Counted' /\ ExitZeroLeavesNothingBehind'
    BY NextRunInv
  <2>4. OneProcess'
    BY DEF OneProcess
  <2> QED
    BY <2>1, <2>2, <2>3, <2>4 DEF RunInv
<1>3. Inv => ExitZeroLeavesNothingBehind
  BY DEF RunInv
<1> HIDE DEF Inv
<1> QED
  BY <1>1, <1>2, <1>3, PTL DEF AuditSpec
-----------------------------------------------------------------------------
(* What SiemOutput guarantees, a run keeps: the other steps of             *)
(* runAuditPhase, its early returns and its faults among them, take        *)
(* nothing from the dedup file, the queue or an event that is on its way.  *)

LEMMA AuditStartsAsOutput == AuditInit => Init
  BY DEF AuditInit

\* AuditTypeOK, for any number of processes and threads: a step of a run keeps
\* every variable in its type, those of the output as well (main.go:380-420).
THEOREM AuditTypes == AuditSpec => []AuditTypeOK
<1>1. AuditInit => TypeInv /\ InFlight /\ RunTypes
  BY AuditStartsAsOutput, InitTypeInv, InitInFlight, InitRunInv DEF RunInv
<1>2. TypeInv /\ InFlight /\ RunTypes /\ [AuditNext]_allVars => TypeInv' /\ InFlight' /\ RunTypes'
  BY AuditSteps, NextRunTypes
<1>3. TypeInv /\ RunTypes => AuditTypeOK
  BY DEF TypeInv, RunTypes, AuditTypeOK
<1> QED
  BY <1>1, <1>2, <1>3, PTL DEF AuditSpec

\* ReservationBacked while whole runs follow one another and overlap: a
\* fingerprint is suppressed only if the SIEM was told or an event is still on
\* its way, whichever of a run's flushes fails or returns at once
\* (main.go:380-420, output.go:318-371).
THEOREM RunsSuppressOnlyBacked == AuditSpec => []ReservationBacked
<1> DEFINE Inv == TypeInv /\ InFlight /\ EntriesBacked
<1>1. AuditInit => Inv
  BY AuditStartsAsOutput, InitTypeInv, InitInFlight, InitEntriesBacked
<1>2. Inv /\ [AuditNext]_allVars => Inv'
  <2>1. Inv /\ Aside => EntriesBacked'
    BY UntouchedEntriesBacked DEF Aside, history
  <2> QED
    BY <2>1, AuditSteps, AuditStepIs, NextEntriesBacked
<1>3. Inv => ReservationBacked
  BY BackedEntries
<1> HIDE DEF Inv
<1> QED
  BY <1>1, <1>2, <1>3, PTL DEF AuditSpec

\* NoDoubleAlert while whole runs follow one another and overlap: while nobody
\* saw it remediated, a finding is let through at most once per window, even by
\* a later run (main.go:380-420, dedup.go:91-99).
THEOREM RunsAlertOnce == AuditSpec => []NoDoubleAlert
<1> DEFINE Inv == TypeInv /\ InFlight /\ AlertInv
<1>1. AuditInit => Inv
  BY AuditStartsAsOutput, InitTypeInv, InitInFlight, InitAlertInv
<1>2. Inv /\ [AuditNext]_allVars => Inv'
  <2>1. ASSUME AlertInv, Aside PROVE AlertInv'
    <3>1. NoDoubleAlert' /\ EntriesOpened' /\ AuthOnDisk'
      BY <2>1 DEF AlertInv, Aside, history, NoDoubleAlert, EntriesOpened, Within, Opened, AuthOnDisk
    <3>2. EventsOpened'
      BY <2>1 DEF AlertInv, Aside, history, EventsOpened, Named, Plain, PlainEvent, Opened, EventsOf
    <3> QED
      BY <3>1, <3>2 DEF AlertInv
  <2> QED
    BY <2>1, AuditSteps, AuditStepIs, NextAlertInv
<1>3. Inv => NoDoubleAlert
  BY DEF AlertInv
<1> HIDE DEF Inv
<1> QED
  BY <1>1, <1>2, <1>3, PTL DEF AuditSpec

\* ReservationsSurvive of every step of a run: only expiry or a Release of it
\* takes an entry out of the dedup file, whatever a run does besides
\* (main.go:380-420, dedup.go:318-345).
THEOREM RunsClobberNothing == AuditSpec => ReservationsSurvive
<1> DEFINE Inv == TypeInv /\ InFlight
<1>1. AuditInit => Inv
  BY AuditStartsAsOutput, InitTypeInv, InitInFlight
<1>2. Inv /\ [AuditNext]_allVars => Inv'
  BY AuditSteps
<1>3. Inv /\ [AuditNext]_allVars => Survives
  BY AuditStepIs, StepSurvives, NothingTaken DEF Aside
<1> HIDE DEF Inv
<1> QED
  BY <1>1, <1>2, <1>3, SurvivesStep, PTL DEF AuditSpec, ReservationsSurvive
=============================================================================
