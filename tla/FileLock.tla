------------------------------ MODULE FileLock ------------------------------
(***************************************************************************)
(* The advisory lock of pkg/siem/filelock.go, one system call at a time.   *)
(*                                                                         *)
(* A process creates path.lock exclusively; if the file exists it looks at *)
(* its age, removes it when it is stale, gives up when its own deadline    *)
(* passed, and otherwise sleeps and tries again.  release removes the path *)
(* whoever created the file now there.  The system calls may also fail: an *)
(* error other than "it exists" ends the acquire, and a failing remove     *)
(* leaves the file behind.                                                 *)
(*                                                                         *)
(* Time advances in ticks shared by the file's age and the waiters'        *)
(* clocks.  Both stop at one past their limit, the only value the code     *)
(* tells apart from there on.                                              *)
(***************************************************************************)
EXTENDS Naturals

CONSTANTS
    Procs,         \* processes (or goroutines) that use the lock
    StaleAfter,    \* staleLockAfter
    AcquireLimit,  \* lockAcquireTimeout
    HoldLimit,     \* longest a live holder keeps the lock
    MaxCrashes,    \* bound on crashes
    MaxErrors,     \* bound on failing system calls
    Absent, Orphan \* no lock file; a file nobody holds (died, or its remove failed)

ASSUME LockAssumption ==
    /\ StaleAfter \in Nat /\ AcquireLimit \in Nat /\ HoldLimit \in Nat
    /\ MaxCrashes \in Nat /\ MaxErrors \in Nat
    /\ Absent \notin Procs /\ Orphan \notin Procs /\ Absent # Orphan

\* "This only needs to comfortably exceed the worst-case single operation"
\* (filelock.go:13-15): the premise the lock rests on.
ASSUME HoldAssumption == HoldLimit <= StaleAfter

VARIABLES
    file,     \* who created the lock file that is there
    age,      \* ticks since it was created
    pc,       \* where each process is
    waited,   \* ticks since acquireFileLock was called
    judged,   \* history: the file is the one this process judged stale
    usurped,  \* history: some os.Remove hit a file nobody had judged stale
    crashes, errors

vars == <<file, age, pc, waited, judged, usurped, crashes, errors>>

Ages  == 0..StaleAfter + 1
Waits == 0..AcquireLimit + 1
Pc    == {"idle", "create", "stat", "remove", "held"}

TypeOK ==
    /\ file \in Procs \cup {Absent, Orphan}
    /\ age \in Ages
    /\ pc \in [Procs -> Pc]
    /\ waited \in [Procs -> Waits]
    /\ judged \in [Procs -> BOOLEAN]
    /\ usurped \in BOOLEAN
    /\ crashes \in 0..MaxCrashes
    /\ errors \in 0..MaxErrors

Init ==
    /\ file = Absent /\ age = 0
    /\ pc = [p \in Procs |-> "idle"]
    /\ waited = [p \in Procs |-> 0]
    /\ judged = [p \in Procs |-> FALSE]
    /\ usurped = FALSE /\ crashes = 0 /\ errors = 0

Waiting(p) == pc[p] \in {"create", "stat", "remove"}
Holders    == {p \in Procs : pc[p] = "held"}
Stale      == file # Absent /\ age > StaleAfter

Goto(p, from, to) == pc[p] = from /\ pc' = [pc EXCEPT ![p] = to]

\* The path changes: nobody's judgement is about the file there now.
NewFile(f) ==
    /\ file' = f
    /\ age' = 0
    /\ judged' = [p \in Procs |-> FALSE]

IOError == errors < MaxErrors /\ errors' = errors + 1

Acquire(p) ==
    /\ Goto(p, "idle", "create")
    /\ waited' = [waited EXCEPT ![p] = 0]
    /\ UNCHANGED <<file, age, judged, usurped, crashes, errors>>

\* Mutant: the create does not fail when the file exists (no O_EXCL).
CreateAnyway(p) ==
    /\ Goto(p, "create", "held")
    /\ NewFile(p)
    /\ waited' = [waited EXCEPT ![p] = 0]
    /\ UNCHANGED <<usurped, crashes, errors>>

\* os.OpenFile(O_CREATE|O_EXCL) succeeds.
Create(p) ==
    /\ file = Absent
    /\ Goto(p, "create", "held")
    /\ NewFile(p)
    /\ waited' = [waited EXCEPT ![p] = 0]
    /\ UNCHANGED <<usurped, crashes, errors>>

\* It fails because the file exists.
CreateFails(p) ==
    /\ file # Absent
    /\ Goto(p, "create", "stat")
    /\ UNCHANGED <<file, age, waited, judged, usurped, crashes, errors>>

\* It fails for another reason: acquireFileLock returns the error.  (So it
\* does when MkdirAll fails, before anything has changed.)
CreateErrs(p) ==
    /\ IOError
    /\ Goto(p, "create", "idle")
    /\ waited' = [waited EXCEPT ![p] = 0]
    /\ UNCHANGED <<file, age, judged, usurped, crashes>>

\* Mutants: any file found is reclaimed; no file is ever old enough, because
\* the age is compared with the time this caller waited.
JudgeAnyFile(p) ==
    /\ file # Absent
    /\ Goto(p, "stat", "remove")
    /\ judged' = [judged EXCEPT ![p] = TRUE]
    /\ UNCHANGED <<file, age, waited, usurped, crashes, errors>>

JudgeByOwnWait(p) ==
    /\ file # Absent /\ waited[p] > StaleAfter
    /\ Goto(p, "stat", "remove")
    /\ judged' = [judged EXCEPT ![p] = TRUE]
    /\ UNCHANGED <<file, age, waited, usurped, crashes, errors>>

\* os.Stat: the file is older than staleLockAfter.
JudgeStale(p) ==
    /\ Stale
    /\ Goto(p, "stat", "remove")
    /\ judged' = [judged EXCEPT ![p] = TRUE]
    /\ UNCHANGED <<file, age, waited, usurped, crashes, errors>>

\* Mutant: the deadline is never looked at.
SleepForEver(p) ==
    /\ ~Stale
    /\ Goto(p, "stat", "create")
    /\ UNCHANGED <<file, age, waited, judged, usurped, crashes, errors>>

\* It is not, or is gone, or os.Stat fails.
NotSeenStale ==
    \/ ~Stale /\ UNCHANGED errors
    \/ Stale /\ IOError

\* Past the deadline, give up; before it, sleep and try again.
GiveUp(p) ==
    /\ NotSeenStale
    /\ waited[p] > AcquireLimit
    /\ Goto(p, "stat", "idle")
    /\ waited' = [waited EXCEPT ![p] = 0]
    /\ UNCHANGED <<file, age, judged, usurped, crashes>>

SleepAndRetry(p) ==
    /\ NotSeenStale
    /\ waited[p] <= AcquireLimit
    /\ Goto(p, "stat", "create")
    /\ UNCHANGED <<file, age, waited, judged, usurped, crashes>>

\* os.Remove of the path, whatever it names by now; the loop continues
\* without looking at the deadline.
Remove(p) ==
    /\ Goto(p, "remove", "create")
    /\ usurped' = (usurped \/ (file # Absent /\ ~judged[p]))
    /\ NewFile(Absent)
    /\ UNCHANGED <<waited, crashes, errors>>

\* The remove fails: the error is returned and the file stays.
RemoveFails(p) ==
    /\ file # Absent /\ IOError
    /\ Goto(p, "remove", "idle")
    /\ judged' = [judged EXCEPT ![p] = FALSE]
    /\ waited' = [waited EXCEPT ![p] = 0]
    /\ UNCHANGED <<file, age, usurped, crashes>>

\* release: os.Remove of the path, not of the file it created.
Release(p) ==
    /\ Goto(p, "held", "idle")
    /\ NewFile(Absent)
    /\ UNCHANGED <<waited, usurped, crashes, errors>>

\* release whose os.Remove fails: the lock is given up, its file stays.
ReleaseFails(p) ==
    /\ file # Absent /\ IOError
    /\ Goto(p, "held", "idle")
    /\ file' = IF file = p THEN Orphan ELSE file
    /\ UNCHANGED <<age, waited, judged, usurped, crashes>>

\* The process dies; the lock file it created stays behind.
Crash(p) ==
    /\ crashes < MaxCrashes /\ crashes' = crashes + 1
    /\ pc[p] # "idle"
    /\ pc' = [pc EXCEPT ![p] = "idle"]
    /\ waited' = [waited EXCEPT ![p] = 0]
    /\ file' = IF file = p THEN Orphan ELSE file
    /\ judged' = [judged EXCEPT ![p] = FALSE]
    /\ UNCHANGED <<age, usurped, errors>>

\* Time passes, but a live holder is done within HoldLimit.
Tick ==
    /\ file \in Procs => age < HoldLimit
    /\ file # Absent \/ \E p \in Procs : Waiting(p)
    /\ age' = IF file # Absent /\ age <= StaleAfter THEN age + 1 ELSE age
    /\ waited' = [p \in Procs |->
          IF Waiting(p) /\ waited[p] <= AcquireLimit THEN waited[p] + 1 ELSE waited[p]]
    /\ UNCHANGED <<file, pc, judged, usurped, crashes, errors>>

Loop(p) == \/ Create(p) \/ CreateFails(p) \/ CreateErrs(p)
           \/ JudgeStale(p) \/ GiveUp(p) \/ SleepAndRetry(p)
           \/ Remove(p) \/ RemoveFails(p)

Next ==
    \/ Tick
    \/ \E p \in Procs :
          Acquire(p) \/ Loop(p) \/ Release(p) \/ ReleaseFails(p) \/ Crash(p)

Spec == Init /\ [][Next]_vars

\* The scheduler runs every process that is not asleep for ever, the clock
\* advances, and holders finish their operation.
Fairness ==
    /\ WF_vars(Tick)
    /\ \A p \in Procs :
          WF_vars(Loop(p)) /\ WF_vars(Release(p) \/ ReleaseFails(p))

\* Agents are run again and again (cron), so somebody asks for the lock.
FairSpec == Spec /\ Fairness /\ \A p \in Procs : WF_vars(Acquire(p))

-----------------------------------------------------------------------------
(* Properties.                                                             *)

\* At most one process believes it holds the lock, unless a reclaim removed a
\* fresh lock file in place of the stale one it had judged: the "narrow race
\* between the staleness check and the exclusive create" (filelock.go:28) is
\* the only way two processes get in, crashes and overlapping reclaims included.
ExclusiveUnlessUsurped ==
    usurped \/ \A p, q \in Holders : p = q

\* While no race has happened a live holder's lock file is there, and fresh:
\* nobody steals it (filelock.go:10-15, 57, 79).
HolderKeepsItsFile ==
    usurped \/ \A p \in Holders : file = p /\ ~Stale

\* acquireFileLock always returns, with the lock or an error, although the
\* reclaim branch loops without looking at the deadline (filelock.go:46-69).
AcquireReturns == \A p \in Procs : Waiting(p) ~> ~Waiting(p)

\* A lock left behind by a crash or a failing release does not block the path for ever, although
\* every single wait is far shorter than staleLockAfter (filelock.go:16-21).
OrphanReclaimed == file = Orphan ~> file # Orphan
=============================================================================
