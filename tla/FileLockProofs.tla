--------------------------- MODULE FileLockProofs ---------------------------
(***************************************************************************)
(* FileLock proved for every number of processes, every bound on crashes   *)
(* and every value of the three time limits that meets HoldAssumption.     *)
(***************************************************************************)
EXTENDS FileLock, TLAPS

(***************************************************************************)
(* The inductive invariant.  LiveFileFresh is what HoldAssumption buys: a  *)
(* stale file has no live creator.  JudgedIsStale says a judgement stays   *)
(* right until the path changes.  HolderOwns is the lock itself.           *)
(***************************************************************************)
LiveFileFresh == file \in Procs => age <= HoldLimit

JudgedIsStale == \A p \in Procs : judged[p] => Stale

HolderOwns == usurped \/ \A p \in Procs : pc[p] = "held" => file = p

LockInv == TypeOK /\ LiveFileFresh /\ JudgedIsStale /\ HolderOwns

LEMMA InitLockInv == Init => LockInv
<1> SUFFICES ASSUME Init PROVE LockInv
  OBVIOUS
<1>1. TypeOK
  <2>1. judged \in [Procs -> BOOLEAN]
    BY Zenon DEF Init
  <2>2. usurped \in BOOLEAN
    BY Zenon DEF Init
  <2>3. /\ file \in Procs \cup {Absent, Orphan}
        /\ age \in Ages
        /\ crashes \in 0..MaxCrashes /\ errors \in 0..MaxErrors
    BY LockAssumption DEF Init, Ages
  <2>4. pc \in [Procs -> Pc]
    BY Zenon DEF Init, Pc
  <2>5. 0 \in Waits
    BY LockAssumption DEF Waits
  <2>6. waited \in [Procs -> Waits]
    BY <2>5, Zenon DEF Init
  <2> QED
    BY <2>1, <2>2, <2>3, <2>4, <2>6, Zenon DEF TypeOK
<1>2. LiveFileFresh /\ HolderOwns
  BY LockAssumption DEF Init, LiveFileFresh, HolderOwns
<1>3. JudgedIsStale
  BY DEF Init, JudgedIsStale
<1> QED
  BY <1>1, <1>2, <1>3 DEF LockInv

\* Every step keeps every variable in its type.
LEMMA NextTypeOK == TypeOK /\ [Next]_vars => TypeOK'
<1> SUFFICES ASSUME TypeOK, [Next]_vars PROVE TypeOK'
  OBVIOUS
<1> USE LockAssumption DEF TypeOK, Ages, Waits, Pc, Goto, NewFile, IOError
<1>1. CASE Tick
  BY <1>1 DEF Tick
<1>2. ASSUME NEW p \in Procs, Acquire(p) PROVE TypeOK'
  BY <1>2 DEF Acquire
<1>3. ASSUME NEW p \in Procs, Create(p) PROVE TypeOK'
  BY <1>3 DEF Create
<1>4. ASSUME NEW p \in Procs, CreateFails(p) \/ JudgeStale(p) PROVE TypeOK'
  BY <1>4 DEF CreateFails, JudgeStale
<1>5. ASSUME NEW p \in Procs, GiveUp(p) \/ SleepAndRetry(p) PROVE TypeOK'
  BY <1>5 DEF GiveUp, SleepAndRetry, NotSeenStale
<1>6. ASSUME NEW p \in Procs, Remove(p) PROVE TypeOK'
  BY <1>6 DEF Remove
<1>7. ASSUME NEW p \in Procs, Release(p) PROVE TypeOK'
  BY <1>7 DEF Release
<1>8. ASSUME NEW p \in Procs, Crash(p) PROVE TypeOK'
  BY <1>8 DEF Crash
<1>9. ASSUME NEW p \in Procs, CreateErrs(p) PROVE TypeOK'
  BY <1>9 DEF CreateErrs
<1>10. ASSUME NEW p \in Procs, RemoveFails(p) PROVE TypeOK'
  BY <1>10 DEF RemoveFails
<1>11. ASSUME NEW p \in Procs, ReleaseFails(p) PROVE TypeOK'
  BY <1>11 DEF ReleaseFails
<1>12. CASE UNCHANGED vars
  BY <1>12 DEF vars
<1> QED
  BY <1>1, <1>2, <1>3, <1>4, <1>5, <1>6, <1>7, <1>8, <1>9, <1>10, <1>11, <1>12
     DEF Next, Loop

\* The parts of the invariant that a step can disturb, action by action.
LEMMA NextLockInv == LockInv /\ [Next]_vars => LockInv'
<1> SUFFICES ASSUME LockInv, [Next]_vars
             PROVE  (LiveFileFresh /\ JudgedIsStale /\ HolderOwns)'
  BY NextTypeOK DEF LockInv
<1> USE LockAssumption, HoldAssumption
    DEF LockInv, TypeOK, LiveFileFresh, JudgedIsStale, HolderOwns, Stale, Ages,
        Goto, NewFile, IOError
<1>1. CASE Tick
  <2>1. LiveFileFresh'
    BY <1>1 DEF Tick
  <2>2. JudgedIsStale'
    BY <1>1 DEF Tick
  <2>3. HolderOwns'
    BY <1>1 DEF Tick
  <2> QED
    BY <2>1, <2>2, <2>3
<1>2. ASSUME NEW p \in Procs,
             Acquire(p) \/ CreateFails(p) \/ CreateErrs(p) \/ JudgeStale(p)
             \/ GiveUp(p) \/ SleepAndRetry(p) \/ RemoveFails(p)
      PROVE  (LiveFileFresh /\ JudgedIsStale /\ HolderOwns)'
  BY <1>2 DEF Acquire, CreateFails, CreateErrs, JudgeStale, GiveUp,
              SleepAndRetry, NotSeenStale, RemoveFails
\* The exclusive create needs the path free: nobody else held the lock.
<1>3. ASSUME NEW p \in Procs, Create(p)
      PROVE  (LiveFileFresh /\ JudgedIsStale /\ HolderOwns)'
  BY <1>3 DEF Create
\* A right judgement is about an orphan, which no holder created.
<1>4. ASSUME NEW p \in Procs, Remove(p)
      PROVE  (LiveFileFresh /\ JudgedIsStale /\ HolderOwns)'
  <2>1. LiveFileFresh' /\ JudgedIsStale'
    BY <1>4 DEF Remove
  <2>2. ASSUME judged[p] PROVE file \notin Procs
    BY <2>2
  <2>3. ASSUME ~usurped' PROVE ~usurped /\ (file = Absent \/ judged[p])
    BY <1>4, <2>3, Zenon DEF Remove
  <2>4. ASSUME ~usurped', NEW q \in Procs, pc'[q] = "held" PROVE FALSE
    <3>1. pc[q] = "held"
      BY <1>4, <2>4 DEF Remove
    <3>2. file = q
      BY <2>3, <2>4, <3>1
    <3> QED
      BY <2>2, <2>3, <2>4, <3>2
  <2> QED
    BY <2>1, <2>4
<1>5. ASSUME NEW p \in Procs, Release(p) \/ ReleaseFails(p)
      PROVE  (LiveFileFresh /\ JudgedIsStale /\ HolderOwns)'
  BY <1>5 DEF Release, ReleaseFails
<1>6. ASSUME NEW p \in Procs, Crash(p)
      PROVE  (LiveFileFresh /\ JudgedIsStale /\ HolderOwns)'
  BY <1>6 DEF Crash
<1>7. CASE UNCHANGED vars
  BY <1>7 DEF vars
<1> QED
  BY <1>1, <1>2, <1>3, <1>4, <1>5, <1>6, <1>7 DEF Next, Loop

LEMMA SpecLockInv == Spec => []LockInv
BY InitLockInv, NextLockInv, PTL DEF Spec

\* Every variable of the lock keeps its type (filelock.go as a whole).
THEOREM LockTypeCorrect == Spec => []TypeOK
<1>1. LockInv => TypeOK
  BY DEF LockInv
<1> QED
  BY <1>1, SpecLockInv, PTL

\* Two processes hold the lock only after a reclaim removed a fresh file, for
\* any number of processes and crashes (filelock.go:23-30).
THEOREM LockExclusive == Spec => []ExclusiveUnlessUsurped
<1>1. LockInv => ExclusiveUnlessUsurped
  BY DEF LockInv, HolderOwns, ExclusiveUnlessUsurped, Holders
<1> QED
  BY <1>1, SpecLockInv, PTL

\* A live holder's lock file is there and is not stale (filelock.go:57, 79).
THEOREM HolderNotRobbed == Spec => []HolderKeepsItsFile
<1>1. LockInv => HolderKeepsItsFile
  BY LockAssumption, HoldAssumption
     DEF LockInv, TypeOK, Ages, HolderOwns, LiveFileFresh, HolderKeepsItsFile,
         Holders, Stale
<1> QED
  BY <1>1, SpecLockInv, PTL
=============================================================================
