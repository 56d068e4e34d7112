------------------------------ MODULE AuditRun ------------------------------
(***************************************************************************)
(* runAuditPhase of cmd/agent/main.go in siem_only mode: what one run of   *)
(* the agent does with SiemOutput, in which order, and the exit code it    *)
(* reports.  The main thread audits, flushes, counts what is pending, asks *)
(* whether a periodic flush failed, and closes the output; the periodic    *)
(* flusher of output.go runs beside it until Close has stopped it.         *)
(*                                                                         *)
(* A run audits one database here, so one that fails is all that fail.     *)
(***************************************************************************)
EXTENDS SiemOutput

VARIABLES
    phase,        \* where runAuditPhase is
    err,          \* the error of a Flush that returned, or is about to
    periodicErr,  \* o.periodicFlushErr
    outcome,      \* runOutcome
    \* history, read by properties only
    mine,         \* events this run enqueued
    buried,       \* events a Flush of this run dead-lettered
    exit          \* the last exit: its code, and what became of the events

auditVars == <<phase, err, periodicErr, outcome, mine, buried, exit>>
allVars   == <<vars, auditVars>>

Phases == {"loop", "flush", "check", "close", "final", "last"}

\* runOutcome; siemAttempted is always set by the time code() is called.
Outcomes == [dbFailed : BOOLEAN, rejected : BOOLEAN, pending : BOOLEAN,
             deliveryErr : BOOLEAN]
Clean    == [dbFailed |-> FALSE, rejected |-> FALSE, pending |-> FALSE,
             deliveryErr |-> FALSE]

\* runOutcome.code: 0 success, 1 failure, 2 degraded.
Code(o) == IF o.dbFailed \/ o.deliveryErr THEN 1
           ELSE IF o.pending \/ o.rejected THEN 2 ELSE 0

Exits == [code : 0..2, handedOver : BOOLEAN]

AuditTypeOK ==
    /\ TypeOK
    /\ phase \in [Procs -> Phases]
    /\ err \in [Threads -> BOOLEAN]
    /\ periodicErr \in [Procs -> BOOLEAN]
    /\ outcome \in [Procs -> Outcomes]
    /\ mine \in [Procs -> SUBSET Event] /\ buried \in [Procs -> SUBSET Event]
    /\ exit \in [Procs -> Exits]

AuditInit ==
    /\ Init
    /\ phase = [p \in Procs |-> "loop"]
    /\ err = [t \in Threads |-> FALSE]
    /\ periodicErr = [p \in Procs |-> FALSE]
    /\ outcome = [p \in Procs |-> Clean]
    /\ mine = [p \in Procs |-> {}] /\ buried = [p \in Procs |-> {}]
    /\ exit = [p \in Procs |-> [code |-> 0, handedOver |-> TRUE]]

Main(t)        == t \in Auditors
At(t, ph)      == phase[ProcOf[t]] = ph
Enter(t, ph)   == phase' = [phase EXCEPT ![ProcOf[t]] = ph]
Noted(t, bad)  == err' = [err EXCEPT ![t] = @ \/ bad]
Outcome(t)     == outcome[ProcOf[t]]
SetOutcome(t, o) == outcome' = [outcome EXCEPT ![ProcOf[t]] = o]

-----------------------------------------------------------------------------
(* The loop over the databases.                                            *)

\* processSingleDatabase fails: nothing is emitted.
DbFails(t) ==
    /\ Main(t) /\ At(t, "loop") /\ pc[t] = "idle" /\ ~audited[ProcOf[t]]
    /\ audited' = [audited EXCEPT ![ProcOf[t]] = TRUE]
    /\ SetOutcome(t, [Outcome(t) EXCEPT !.dbFailed = TRUE])
    /\ UNCHANGED <<bounds, dedupVars, queueVars, local, history,
                   phase, err, periodicErr, mine, buried, exit>>

\* EmitFindings; its rejected count and its error go into the outcome.  A
\* Filter that fails closed returns neither.
Emit(t) ==
    LET enqueued == pc[t] = "enqueue" /\ pc'[t] = "idle" IN
    /\ Main(t) /\ At(t, "loop")
    /\ EmitStep(t)
    /\ SetOutcome(t, [Outcome(t) EXCEPT
          !.rejected    = @ \/ (pc[t] = "enqueue" /\ \E e \in events[t] : e.fp \in Invalid),
          !.deliveryErr = @ \/ pc[t] = "unreserve"])
    /\ mine' = [mine EXCEPT ![ProcOf[t]] =
          IF enqueued THEN @ \cup {e \in events[t] : e.fp \notin Invalid} ELSE @]
    /\ UNCHANGED <<phase, err, periodicErr, buried, exit>>

-----------------------------------------------------------------------------
(* Output.Flush, called by the main thread or by the periodic flusher.     *)

\* Queue.Flush returns at once: nothing queued, or a lock or the reload fails.
FlushReturns(t) ==
    /\ pc[t] = "idle"
    /\ \/ /\ flusher = Nobody /\ EventsOf(queue) = {}
          /\ Noted(t, FALSE) /\ UNCHANGED bounds
       \/ Noted(t, TRUE) /\ Fault
    /\ UNCHANGED <<dedupVars, audited, queueVars, local, history>>

FlushCall(t) == \/ FlushStart(t) /\ UNCHANGED err
                \/ FlushReturns(t)

\* The rest of the call.  What is kept or dead-lettered, and an outcome that
\* was not saved, are errors of Flush; what Record and Release say is not.
FlushWork(t) ==
    /\ \/ FlushDelivers(t) /\ Noted(t, faults' # faults) /\ UNCHANGED buried
       \/ FlushKeeps(t) /\ Noted(t, TRUE) /\ UNCHANGED buried
       \/ /\ FlushAbandons(t) /\ Noted(t, TRUE)
          /\ buried' = [buried EXCEPT ![ProcOf[t]] = @ \cup EventsOf(batch'[t])]
       \/ /\ \/ Record(t) \/ RecordFails(t)
             \/ Release(t, "release") \/ ReleaseFails(t, "release")
          /\ UNCHANGED <<err, buried>>
    /\ UNCHANGED <<phase, periodicErr, outcome, mine, exit>>

\* A tick, until Close has seen the flusher's goroutine end.
TickerFlush(t) ==
    /\ ~Main(t) /\ ~err[t]
    /\ ~At(t, "final") /\ ~At(t, "last")
    /\ FlushCall(t)
    /\ UNCHANGED <<phase, periodicErr, outcome, mine, buried, exit>>

\* o.periodicFlushErr.Store(true), after Flush has returned.
StoreError(t) ==
    /\ ~Main(t) /\ err[t] /\ pc[t] = "idle"
    /\ periodicErr' = [periodicErr EXCEPT ![ProcOf[t]] = TRUE]
    /\ err' = [err EXCEPT ![t] = FALSE]
    /\ UNCHANGED <<vars, phase, outcome, mine, buried, exit>>

-----------------------------------------------------------------------------
(* The end of runAuditPhase.                                               *)

EndOfRunFlush(t) ==
    /\ Main(t) /\ At(t, "loop") /\ audited[ProcOf[t]]
    /\ FlushCall(t)
    /\ Enter(t, "flush")
    /\ UNCHANGED <<periodicErr, outcome, mine, buried, exit>>

\* Mutant: PendingCount is not looked at.
CountIgnoresPending(t) ==
    /\ Main(t) /\ At(t, "flush") /\ pc[t] = "idle"
    /\ SetOutcome(t, [Outcome(t) EXCEPT !.deliveryErr = @])
    /\ err' = [err EXCEPT ![t] = FALSE]
    /\ Enter(t, "check")
    /\ UNCHANGED <<vars, periodicErr, mine, buried, exit>>

\* Flush's error, and PendingCount: with one process, what the queue holds.
Count(t) ==
    /\ Main(t) /\ At(t, "flush") /\ pc[t] = "idle"
    /\ SetOutcome(t, [Outcome(t) EXCEPT !.deliveryErr = @ \/ err[t],
                                        !.pending = EventsOf(queue) # {}])
    /\ err' = [err EXCEPT ![t] = FALSE]
    /\ Enter(t, "check")
    /\ UNCHANGED <<vars, periodicErr, mine, buried, exit>>

\* PeriodicFlushErrorOccurred, asked before Close.
CheckPeriodic(t) ==
    /\ Main(t) /\ At(t, "check")
    /\ SetOutcome(t, [Outcome(t) EXCEPT !.deliveryErr = @ \/ periodicErr[ProcOf[t]]])
    /\ Enter(t, "close")
    /\ UNCHANGED <<vars, err, periodicErr, mine, buried, exit>>

\* The deferred Close: stop the flusher and wait for it to exit.
StopTicker(t) ==
    /\ Main(t) /\ At(t, "close")
    /\ \A s \in OwnedBy(ProcOf[t]) : pc[s] = "idle" /\ ~err[s]
    /\ Enter(t, "final")
    /\ UNCHANGED <<vars, err, periodicErr, outcome, mine, buried, exit>>

FinalFlush(t) ==
    /\ Main(t) /\ At(t, "final")
    /\ FlushCall(t)
    /\ Enter(t, "last")
    /\ UNCHANGED <<periodicErr, outcome, mine, buried, exit>>

NextRun(p) ==
    /\ phase' = [phase EXCEPT ![p] = "loop"]
    /\ err' = [t \in Threads |-> t \notin OwnedBy(p) /\ err[t]]
    /\ periodicErr' = [periodicErr EXCEPT ![p] = FALSE]
    /\ outcome' = [outcome EXCEPT ![p] = Clean]
    /\ mine' = [mine EXCEPT ![p] = {}] /\ buried' = [buried EXCEPT ![p] = {}]

Told(e) == e.status \in told[e.fp]

\* The rest of Close, which only logs what the final flush returned, and
\* os.Exit.  Only a failure to persist the dedup state changes the code.
Exit(p) ==
    LET o == [outcome[p] EXCEPT !.deliveryErr = @ \/ faults' # faults] IN
    /\ phase[p] = "last"
    /\ Stop(p)
    /\ exit' = [exit EXCEPT ![p] =
          [code |-> Code(o), handedOver |-> \A e \in mine[p] : Told(e) \/ e \in buried[p]]]
    /\ NextRun(p)

Killed(p) ==
    /\ Crash(p)
    /\ NextRun(p)
    /\ UNCHANGED exit

AuditTick == Tick /\ UNCHANGED auditVars

AuditNext ==
    \/ \E t \in Threads :
        \/ DbFails(t) \/ Emit(t)
        \/ TickerFlush(t) \/ StoreError(t)
        \/ EndOfRunFlush(t) \/ FinalFlush(t) \/ FlushWork(t)
        \/ Count(t) \/ CheckPeriodic(t) \/ StopTicker(t)
    \/ \E p \in Procs : Exit(p) \/ Killed(p)
    \/ AuditTick

AuditSpec == AuditInit /\ [][AuditNext]_allVars

-----------------------------------------------------------------------------
(* Properties.                                                             *)

\* A run that exits with 0 leaves none of its events behind: each was
\* acknowledged by the SIEM or is in the dead-letter file, whatever the
\* periodic flusher did meanwhile (main.go:380-420, output.go:347-371).
ExitZeroLeavesNothingBehind ==
    \A p \in Procs : exit[p].code = 0 => exit[p].handedOver
=============================================================================
