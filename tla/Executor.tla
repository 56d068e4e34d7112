------------------------------ MODULE Executor ------------------------------
(***************************************************************************)
(* The execution of a control set: one control after another, one          *)
(* procedure after another, by a query, a source scan, or requests to the  *)
(* system under audit (pkg/controlset/executor.go).  What a procedure      *)
(* finds is nondeterministic; what the executor makes of it is Conditions. *)
(*                                                                         *)
(* The stages of an active validation are the requests it makes for one    *)
(* target: one; register, trigger and poll; or mint, fetch and further     *)
(* fetches.  Evidence capture, the last part of a control, is in Evidence. *)
(***************************************************************************)
EXTENDS PackFetch, SequencesExt

CONSTANTS
    MaxRows,         \* bound on the rows of a procedure
    MaxSeeds,        \* bound on the rows of a seed query
    MaxMatches,      \* source scan: max_matches
    MaxTargets,      \* max_targets
    MaxRequests,     \* active_validation.max_requests_per_run
    PollAttempts     \* callback_poll_attempts

ASSUME ExecutorAssumption ==
    /\ {MaxRows, MaxSeeds} \subseteq Nat
    /\ {MaxMatches, MaxTargets, MaxRequests, PollAttempts} \subseteq Nat \ {0}

VARIABLES
    enabled, allowed,    \* active_validation.enabled, allow_state_change
    results,             \* results of the controls that are done
    status, done,        \* the control at work: its status, its procedures' outcomes
    sent,                \* activeRequests
    left, stage, polls,  \* targets to do, next stage of the first, polls it has left
    found                \* rows of the targets done

settings == <<enabled, allowed>>
target   == <<left, stage, polls, found>>
exec     == <<results, status, done, sent, target>>
vars     == <<fetchVars, settings, exec>>

Rows      == SUBSET Columns
RowLists  == BoundedSeq(Rows, MaxRows)

Control   == set.controls[Len(results) + 1]
Procedure == Control[Len(done) + 1]
AtProcedure(mode) ==
    /\ pc = "execute" /\ Len(results) < Len(set.controls)
    /\ Len(done) < Len(Control) /\ Procedure.mode = mode

Init ==
    /\ FetchInit
    /\ enabled \in BOOLEAN /\ allowed \in BOOLEAN
    /\ results = <<>> /\ status = "PASS" /\ done = <<>> /\ sent = 0
    /\ left = 0 /\ stage = 1 /\ polls = PollAttempts /\ found = <<>>

\* The end of a procedure: its outcome, and what it makes of the control.
\* error: did the procedure fail, or one of its criteria?  unasked: targets
\* that were not asked to the end (history).
Outcome(st, error, n) == [status |-> st, error |-> error, unasked |-> n]

Complete(outcome) ==
    /\ pc' = "execute"
    /\ done' = Append(done, outcome) /\ status' = Worsened(status, outcome.status)
    /\ left' = 0 /\ stage' = 1 /\ polls' = PollAttempts /\ found' = <<>>
    /\ UNCHANGED <<source, local, cache, strict, held, set, validated, faults, settings,
                   results>>

Judge(rows, n) ==
    LET st == ProcedureStatus(Procedure.criteria, rows) IN
    Complete(Outcome(st, IF st = "ERROR" THEN "criteria" ELSE "none", n))

Abort == Complete(Outcome("ERROR", "procedure", left))

-----------------------------------------------------------------------------
StartRun ==
    /\ StartFetch
    /\ results' = <<>> /\ status' = "PASS" /\ done' = <<>> /\ sent' = 0
    /\ UNCHANGED <<settings, target>>

Fetch == FetchControlSet /\ UNCHANGED <<settings, exec>>

\* The database, or the management API, answers with rows or does not.
RunQuery ==
    /\ AtProcedure("query")
    /\ Abort \/ \E rows \in RowLists : Judge(rows, 0)
    /\ UNCHANGED sent

\* executeSourceScanProcedure: its specification, or a file, cannot be read; or
\* it has rows, max_matches at most, and none where there is no path to scan.
RunSourceScan ==
    /\ AtProcedure("source_scan")
    /\ \/ Abort
       \/ \E rows \in RowLists : Judge(SubSeq(rows, 1, Min({MaxMatches, Len(rows)})), 0)
    /\ UNCHANGED sent

\* executeActiveValidationProcedure up to the first request: is it enabled, and
\* what are its targets?  Without seeds there is one target.
Prepared(n) ==
    IF n = 0 THEN Judge(<<>>, 0)
    ELSE /\ pc' = "request" /\ left' = Min({n, MaxTargets})
         /\ UNCHANGED <<source, local, cache, strict, held, set, validated, faults, settings,
                        results, status, done, stage, polls, found>>

PrepareValidation ==
    /\ AtProcedure("active_validation")
    /\ \/ Abort
       \/ enabled /\ \E n \in IF Procedure.seeded THEN 0..MaxSeeds ELSE {1} : Prepared(n)
    /\ UNCHANGED sent

Stage == Procedure.stages[stage]

\* checkStateChangeMethodPolicy, in the flows that ask it.
Refused ==
    /\ pc = "request" /\ ~allowed
    /\ Stage \in {"request", "register", "trigger", "poll"} \cap Procedure.changing
    /\ Abort /\ UNCHANGED sent

MayAsk ==
    /\ pc = "request"
    /\ allowed \/ Stage \notin {"request", "register", "trigger", "poll"} \cap Procedure.changing

\* Mutants: the targets that were reached are enough for a verdict.
BudgetSpentJudges ==
    /\ MayAsk /\ sent >= MaxRequests
    /\ Judge(found, left) /\ UNCHANGED sent

\* Mutant: a request waits for a budget nobody refills.
BudgetSpentWaits == MayAsk /\ sent >= MaxRequests /\ UNCHANGED vars

\* executeActiveValidationRaw.
BudgetSpent ==
    /\ MayAsk /\ sent >= MaxRequests
    /\ Abort /\ UNCHANGED sent

\* No answer, too long a one, an unexpected status, or not what it must hold;
\* a path the target does not allow is refused before it is counted.
RequestFails ==
    /\ MayAsk /\ sent < MaxRequests
    /\ Abort /\ sent' \in {sent, sent + 1}

\* The target is done with these rows; the next one, or the verdict.
TargetDone(rows) ==
    IF left = 1 THEN Judge(found \o rows, 0)
    ELSE /\ found' = found \o rows /\ left' = left - 1
         /\ stage' = 1 /\ polls' = PollAttempts
         /\ UNCHANGED <<fetchVars, settings, results, status, done>>

PollAgain ==
    /\ polls > 1 /\ polls' = polls - 1
    /\ UNCHANGED <<fetchVars, settings, results, status, done, left, stage, found>>

\* An answer: a plain request has any number of rows, a flow one row.
Answered ==
    /\ MayAsk /\ sent < MaxRequests /\ sent' = sent + 1
    /\ IF Stage = "request" THEN \E rows \in RowLists : TargetDone(rows)
       ELSE IF stage < Len(Procedure.stages)
       THEN /\ stage' = stage + 1
            /\ UNCHANGED <<fetchVars, settings, results, status, done, left, polls, found>>
       ELSE \/ \E row \in Rows : TargetDone(<<row>>)
            \/ Stage = "poll" /\ PollAgain

\* ExecuteControl's end; a control without procedures is an error.
FinishControl ==
    /\ pc = "execute" /\ Len(results) < Len(set.controls) /\ Len(done) = Len(Control)
    /\ results' = Append(results, [status |-> IF Control = <<>> THEN "ERROR" ELSE status,
                                   procedures |-> done])
    /\ status' = "PASS" /\ done' = <<>>
    /\ UNCHANGED <<fetchVars, settings, sent, target>>

FinishSet ==
    /\ pc = "execute" /\ Len(results) = Len(set.controls)
    /\ GivenUp
    /\ UNCHANGED <<source, local, cache, strict, held, faults, settings, exec>>

\* The process dies: the results of the set are lost with it.
Crash ==
    /\ CrashFetching
    /\ results' = <<>> /\ status' = "PASS" /\ done' = <<>>
    /\ left' = 0 /\ stage' = 1 /\ polls' = PollAttempts /\ found' = <<>>
    /\ UNCHANGED <<settings, sent>>

ExecuteProcedure == RunQuery \/ RunSourceScan \/ PrepareValidation
ActiveValidation == Refused \/ BudgetSpent \/ RequestFails \/ Answered

Work == Fetch \/ ExecuteProcedure \/ ActiveValidation \/ FinishControl \/ FinishSet
Next == StartRun \/ Work \/ Crash

\* Every query has a timeout of 30 s and every request one of its own, so a run
\* that has begun goes on.
Spec == Init /\ [][Next]_vars /\ WF_vars(Work)

-----------------------------------------------------------------------------
Procedures == {done[i] : i \in DOMAIN done} \cup
    UNION {{results[i].procedures[j] : j \in DOMAIN results[i].procedures} : i \in DOMAIN results}

\* The status of a control is the worst of its procedures' and, among those
\* that are neither errors nor failures, the first that is not PASS, in
\* whatever order they come; only a control nothing was executed for is an
\* error of its own (pkg/controlset/executor.go:239-255).
StatusFollowsProcedures ==
    \A i \in DOMAIN results :
       LET ps     == results[i].procedures
           Is(st) == \E j \in DOMAIN ps : ps[j].status = st
           first  == Min({j \in DOMAIN ps : ps[j].status # "PASS"})
       IN results[i].status =
             IF ps = <<>> \/ Is("ERROR") THEN "ERROR"
             ELSE IF Is("FAIL") THEN "FAIL"
             ELSE IF \A j \in DOMAIN ps : ps[j].status = "PASS" THEN "PASS"
             ELSE ps[first].status

\* What a condition says, whatever order its parts come in.
Holds(c, row) ==
    IsLabel(c) \/ \E i \in DOMAIN c.anyOf : \A j \in DOMAIN c.anyOf[i] : c.anyOf[i][j] \in row

\* Validation and evaluation are two parsers (pkg/controlset/executor.go:1760-1956).
\* No outcome of a pack that was validated when it was read is a criterion that
\* cannot be evaluated, and every condition on columns is evaluated as what it
\* says, although the evaluator stops at the part that decides.  Conditions that
\* count rows are not covered: a compound one is validated part by part and then
\* evaluated as its first comparison, or as not met (2196-2232).
ValidatedNeverMisread ==
    validated =>
        /\ \A p \in Procedures : p.error # "criteria"
        /\ \A i \in DOMAIN set.controls : \A j \in DOMAIN set.controls[i] :
           \A k \in DOMAIN set.controls[i][j].criteria :
              LET c == set.controls[i][j].criteria[k] IN
              ~CountsRows(c) =>
                 \A row \in Rows : Evaluate(c, row) = IF Holds(c, row) THEN "match" ELSE "no"

\* No verdict over a part of the targets (those beyond max_targets apart, which
\* are cut off before the first request): a procedure that ran out of its budget
\* of requests, which the procedures of a set share, or met a request that
\* failed, is an error whatever the targets before it answered
\* (pkg/controlset/executor.go:650-671, 1227-1232).
VerdictCoversEveryTarget ==
    /\ sent <= MaxRequests
    /\ \A p \in Procedures : p.status # "ERROR" => p.unasked = 0

\* The execution of a set ends: also a callback that never comes, and a cache
\* or a backend that fails, only end it sooner (pkg/controlset/executor.go:827-897).
RunEnds == pc # "off" ~> pc = "off"
=============================================================================
