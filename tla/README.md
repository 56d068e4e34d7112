# Formal models of the BaseCheck agent

TLA+ models of the parts of `basecheck-agent` whose correctness depends on
order, concurrency and failure; TLC runs that check them on small instances;
and TLAPS proofs of the most important results for every instance. Paths are
relative to the repository. `PROJECT.json` maps every definition to the lines
it models and lists runs, mutants, findings, hazards and theorems.

## 1. The system

An agent process is started (by hand or by a scheduler), finds out whether a
backend is reachable, audits the configured databases one after the other and
exits with a code that says what happened. Several processes may overlap on one
machine, sharing files; several agents on different machines may read the same
database log and talk to one backend.

| Part | Source | State | Operations | What makes it correct |
|---|---|---|---|---|
| Delivery queue | `pkg/siem/queue.go` | persist file, memory copy, two lock files | NewQueue, Enqueue, Flush, Close | nothing accepted is lost; a batch is sent by one flush at a time; capacity; in the end everything is handed over |
| Advisory lock | `pkg/siem/filelock.go` | `<path>.lock`, its age | acquire, release, reclaim | mutual exclusion, no wait without end, orphans reclaimed |
| Deduplicator | `pkg/siem/dedup.go` | cache, persist file | Filter, Release, RecordDelivered, DetermineLifecycle, DetectRemediations, Close | no double alert in a window, nothing suppressed that nobody was told |
| SIEM output | `pkg/siem/output.go` | flusher goroutine, its error flag | EmitFindings, Flush, Close | reservations are given back on every failing path |
| Audit phase | `cmd/agent/main.go` runAuditPhase | runOutcome | loop, flush, exit code | the exit code says what happened |
| csvlog collection, lease | `pkg/logs/postgres/csvlog.go`, `main.go` | state file, lease | Collect, LoadState, SaveState, acquireIngestionLease | no row skipped, no row lost, one hash per row |
| Results output | `pkg/output/output.go` | pending directory | writeToHTTP, QueueResult, UploadPending | a result is at the backend or queued |
| Log mining cursor | `pkg/logs/cursor_store.go`, `pkg/logs/oracle`, `main.go` | `cursors.json`, its temporary file, lease | collectConfiguredLogSources, Load, Save | no cursor passes a line that is in no result; the file is whole; in the end a line is reported or was lost with its run |
| Startup | `main.go`, `pkg/agent`, `pkg/registration`, `pkg/entitlement`, `pkg/discovery` | mode, token, ID, entitlement files | detectMode, EnsureRegistered, loadAgentEntitlement, performDiscovery, syncOnlineDatabases | a token that cannot be read makes no second agent; token and ID are a pair; the entitlement is the agent's own; a system is reported once |
| Control packs | `pkg/controlset/fetcher.go`, `loader.go`, `compatibility.go` | cache file | FetchControlSet, cache, signature, entitlement | no unsigned or unpaid pack is executed, cached or not |
| Executor | `pkg/controlset/executor.go` | results so far, request budget | ExecuteControl, query, source scan, active validation | a control's status follows its procedures; no verdict over a part of the targets; a condition that validates is evaluated as it says; a set ends |
| Evidence capture | `pkg/controlset/executor.go` | lease, watermark | executeEvidenceCapture, acquireEvidenceLease | the watermark covers only what is stored; records arrive |
| Dead-letter file | `pkg/siem/deadletter.go` | file, rotation | Write, checkRotate | nothing given up is lost silently |
| Event, converter, destinations, configuration, drivers, signing tool | the rest | none worth modelling | | stateless or pure I/O |

How they interact: `runAuditPhase` calls `EmitFindings`, which asks the
Deduplicator (lifecycle, remediations, Filter) and then `Queue.Enqueue`; the
end-of-run flush, the periodic flusher goroutine and `Close` all call
`Output.Flush`, which runs `Queue.Flush` and feeds its result back to the
Deduplicator. The queue and the Deduplicator share files with other processes
and take the advisory lock around every access; the start-up files and
`cursors.json` are shared without one. `main` chooses mode and identity before
it loops over the databases; `processSingleDatabase` fetches and executes the
control packs of one (the executor captures evidence under a backend lease),
collects its log sources, each under a lease too, and hands the result to the
results output, which posts it or queues it.

What is hard: threads and processes interleave between any two of those calls;
a process can die holding a lock or between two files; writes and sends fail one
by one; locks and sends time out and are retried; cached state is stale when
used. The list, line by line, is `hazards` in `PROJECT.json`.

## 2. The modules

| Module | Models | Built on |
|---|---|---|
| `Outbox` | abstract specification of the queue: Accept, Reject, Deliver, Bury, Remove, SetAside | |
| `DeliveryQueue` | `queue.go`: threads of several processes over one persist file and two locks | implements `Outbox` |
| `FileLock` | `filelock.go`, one system call at a time | |
| `Deduplicator` | the decisions of `dedup.go` as operators on caches | |
| `SiemOutput` | `output.go` with the Deduplicator and a queue that behaves as `Outbox` says | `Deduplicator` |
| `AuditRun` | `runAuditPhase` in siem_only mode, the periodic flusher, exit code | `SiemOutput` |
| `LogIngestion` | csvlog collector, lease, POST, pending directory, backend | |
| `LogMining` | `collectConfiguredLogSources`, `cursor_store.go`: several sources, one cursor file, overlapping processes | |
| `AgentStartup` | `main` around the audit: mode, identity, entitlement, discovery, upload and result, run after run | |
| `Conditions` | validation and evaluation of criteria, statuses of procedures and controls, as operators | |
| `ControlPack` | what a pack must pass before it is executed, as operators | `Conditions` |
| `PackFetch` | `FetchControlSet` and `executeControlSet`: local, backend, cache | `ControlPack` |
| `Executor` | the execution of a set: queries, source scans, active validation | `PackFetch` |
| `Evidence` | evidence capture of several agents over one audit trail | |
| `*Proofs` | theorems | the module they name |
| `MC*` | instances for TLC | the module they name |

The models compose by level: `FileLock` justifies the atomic acquire of
`DeliveryQueue`; `DeliveryQueue` is proved to implement `Outbox`; `SiemOutput`
uses a queue with `Outbox`'s behaviour; `AuditRun` extends `SiemOutput`.
`Executor` extends `PackFetch`, so that what a pack is, how it got into the cache
and what its criteria mean are one model from publisher to verdict.

**DeliveryQueue.** `disk` is the persist file, `pending` is `q.pending` of each
process, `persistLock` and `flushLock` are the two lock files (owner, free or
orphaned), and `pc` says where a thread is. Enqueue is `EnqueueCall` (closed
check, validation), `AcquirePersist`, `EnqueueLoad` (reload, capacity),
`EnqueueWrite` or `EnqueueRefuse` (second closed check, persist), `EnqueueUnlock`.
Flush is `AcquireFlush`, `BatchLoad`, `Publish`, the `Send...` actions
(deliverWithRetry), and `FinLoad`, `FinWrite`, `FinUnlock`, `FlushUnlock`. Every
lock wait may time out, every load, write and send may fail (a load also for a
line the scanner cannot hold), and `Crash` may take a process at any point;
`NewQueue` starts the next one, or cannot load the file: then `QuarantineFile`
renames it aside, as it is by then, or not even that, and the process ends.
`Orphan` locks are reclaimed in two steps, `SeeStale` and `RemoveStale`, between
which others act, unless `AtomicReclaim` is set. Events are identities; the order
of lines is left out. Backoff times are left out: a retry is a step.

**FileLock.** `Create`, `JudgeStale`, `Remove`, `SleepAndRetry`, `GiveUp` and
`Release` are the system calls; `age` and `waited` advance together in `Tick`.
A live holder keeps the lock at most `HoldLimit`, the premise the comment at
`filelock.go:13-15` states. `CreateErrs`, `RemoveFails`, `ReleaseFails` and
`NotSeenStale` are the paths of a system call that fails: an acquire returns the
error, a release leaves a file that is nobody's.

**Deduplicator, SiemOutput.** Each Deduplicator method runs under `d.mu` and the
dedup file lock, so it is one step; between two of them every thread and process
may run. `Filter` reserves, `Enqueue` or `EnqueueFails` plus `Release` follow;
`FlushDelivers`, `FlushKeeps`, `FlushAbandons` are the results of `Queue.Flush`,
`Record` and `Release` what `Output.Flush` does with them. The final write of a
flush may fail and leave everything in the file. `Stop` and `Crash` end a run, and
the next one loads the files or, in `StartFails`, moves one of them aside and ends.
The lock or the write of each may fail.

**AuditRun.** `phase` is where `runAuditPhase` is: the database loop, the
end-of-run flush, the count, the check of the periodic error flag, and the three
parts of the deferred `Close`. `TickerFlush` and `StoreError` are the flusher
goroutine: storing the flag is a step of its own, after Flush has returned.

**LogIngestion.** A row is a (file generation, number) pair of length one, and
the csv reader fetches `Buffer` units ahead, because `csvlog.go` computes its
cursor from what the reader *fetched*. A fingerprint is a stamp that every write
changes. `cut` is the history of reads that stopped at `MaxRows`. `Lease` and `NoLease` are acquireIngestionLease, `Read` is Collect
including SaveState, `PostOK`, `Queue` and `QueueRefused` are writeToHTTP. The
backend (`Accept`, `LeaseExpires`) and PostgreSQL (`AppendRow`, `Rotate`) are
external and modelled from how the agent uses them.

**LogMining.** A line is its number in what Oracle ever wrote to a source, a file
is its number, its first line and its length, an offset counts lines. `Load`,
`Read` (lease, seek, parse to the end, one source after another), then the system
calls of `Save`: `Create` truncates `cursors.json.tmp`, `Write` fills it, `Rename`
replaces `cursors.json`; `fd` is the name under which the file a process writes
can be found, so a second process may write into a file the first has renamed.
`Post` delivers the result with the cursor of the last source. `settled` is the
history of what was delivered, was lost with a run that died after its cursors
reached the disk or found its temporary file renamed away, or was overtaken by a
file that was emptied and grew up to an old offset.

**AgentStartup.** `pc` walks through `main`: `DetectMode`, `UploadPending` file by
file, `Identity` (`PersistToken`, `AlreadyRegistered`, `Register`, `SaveToken`,
`SaveAgentID`, `RegisterFails`), `LoadEntitlement` and its
cache, `Discovery` system by system and credential by credential,
`SyncDatabases`, `WriteResults`. The files keep their content from run to run; a
crash, a failed save, a token or ID file that cannot be read (an error `main`
ignores when the run begins), an outage of the backend and an answer that is lost
are faults, possible between any two steps. Agent and token number `n` come from
the `n`-th registration. A queued result is one the backend will take or will
never take. A `local` control-set source is offline for ever and has no
start-up of this kind; the loop over the databases is one step here. Runs follow
one another: that two overlapping runs load, check and save the mode file without
a lock is not modelled.

**Conditions, ControlPack.** A condition is a disjunction of conjunctions of
atoms, and a row is the set of the column atoms that hold of it: the parser's
precedences and the evaluator's order of alternatives stay, the comparisons go.
`ValidSyntax` and `Evaluate` are the two functions the code keeps "in sync";
`RowCountMet` is the third parser, which takes of a condition on `row_count` the
first comparison and knows no AND and OR. A
signature is missing, wrong, or right for the content that was published, and
`altered` says whether the content still is that one: the backend's JSON drops
compatibility limits and undecodable criteria, and a cache write may be cut.

**PackFetch, Executor.** `StartRun` draws what the operator may have changed
since the last run (`require_signatures`, entitlement, active validation);
`FetchLocal`, `Download`, `FallBackOnCache`, `SaveToCache`, `CheckPack` bring a set
into hand or give up. `RunQuery`, `RunSourceScan`, `PrepareValidation` are
`executeProcedure`; an active validation is a list of stages (one request;
register, trigger, poll; mint, fetch, replay) for each of its targets, each of
which is refused, over budget, failed or answered. Rows, seeds and answers are
chosen; `ProcedureStatus` and `Worsened` judge them.

**Evidence.** A record is the second of its stamp, a fraction and a key (one
number for all keys that order records of one stamp); a watermark has no
fraction, because the agent formats it without one. `After` is the condition a
query resumes with: a later stamp, or the same stamp and a greater key, or, for a
capture whose rows lack the keys, the whole second. Captures are those `fetcher.go`
adds to a pack, by mode, template and type of their time stamps, and one a pack may
bring itself. A run uploads what earlier ones queued (`UploadQueued`, several
results, which may fail after any of them) and then captures, also when the upload
failed (`Begin`). `AcquireLease`, `UseLease`, `Skip`, `LeaseUnavailable` (no answer,
or a lease that was given and not understood), `CaptureDirectly` are the ways into
the query, which reads the `Limit` oldest rows behind the watermark or the default
window, of equal ones any; the result of the run is posted, queued, or gone.
A lease ends when its holder has died or forgot it, or while it works
(`RunOutlastsLease`), and the backend may be down for a while. `late` names the
records that came behind a watermark, `outside` those out of the default window at
a leased query that had no watermark to resume from.

## 3. The runs

| Run | Instance | Shows |
|---|---|---|
| `DQ_Crash` | two processes, three events, capacity 2, one crash, one fault, no dead-letter file | nothing lost, flushes serialised, capacity, kept until acknowledged or moved aside, redelivery only after an unsaved outcome, refinement of `Outbox` |
| `DQ_Damage` | one process, three events (one invalid, one too long), two crashes, reclaims in two steps, one thread | redelivery only after an unsaved outcome; events leave the file only when handed over or moved aside |
| `DQ_Live` | two processes, three threads, one event, one crash, one fault, fairness | every accepted event is handed over in the end, or was moved aside |
| `FL_Lock` | three processes, two crashes, one failing system call, fairness | exclusion, holder's file, every wait ends, orphans reclaimed |
| `SO_Pair` | two processes auditing the same finding, one of them with its periodic flusher, one fault, one restart | no double alert; suppression is backed by an event, also one of another process; no clobbered reservation |
| `AR_Run` | one process with its flusher, one fault, one restart | exit 0 leaves nothing behind |
| `LI_Ingest` | two agents, a file of up to three units and two stamps, a buffer and a row limit of two, one fault or crash | no row lost; until a read stops at its limit none skipped, and one hash per row |
| `LM_Pair` | two processes, two sources, the first with up to two lines, one rotation or truncation, one fault, fairness | no cursor passes an unreported line, the cursor file is whole unless two runs save at once, every line is reported or was lost with its run |
| `AG_Start` | five configurations, one system with two credentials, pending limit 2, three faults, fairness | pairing of token and ID, entitlement of the agent, one report per system, registration only after a loss, pending results are uploaded |
| `EX_Run` | nine packs, four entitlements, two columns, up to two rows, seeds and targets, budget of three requests, two polls, one fault, fairness | only cleared packs run, status follows procedures, what was validated is evaluated as it says, a verdict covers every target, the set ends |
| `EV_Pair` | two agents, seven combinations of a capture, who leases and where records lie, two records over two seconds, limit 1, up to two queued results, one fault or outage, fairness | the watermark covers only what is stored, records arrive |

One more run is expected to fail; it refutes a sentence of the repository and is
listed under `findings`:

| Run | Sentence | What happens |
|---|---|---|
| `LI_Reset` | "Reset if file truncated" (`csvlog.go:122`) | the cursor grows past the file, which then counts as truncated |

**Bounds and why they are enough.** The queue's hazards need at most two
processes, one of them with a second thread, a batch in flight and one event
that arrives meanwhile: two events do. Three lock users are needed for the
reclaim race (an orphan and two waiters with a third to rob); two crashes give an
orphan and a second one during recovery. `RetryMax = 1` gives a first attempt, a
retry and the end. In `SiemOutput` the window is one tick and the clock has three
values: within the window, at its edge, expired. `MaxFaults` counts failures of
any kind, at any place, so one fault is every single failure.
`LI_Ingest` has files that exceed the reader's buffer and the row limit, so that
`cut` becomes true; `LogIngestionProofs` covers any file, buffer and limit. In `LM_Pair` every order of two loads, reads, creates, writes, renames and
posts occurs. The second source stays empty: it is there to be read, to be skipped
or to fail after the first was read (with lines in it too, the liveness check
takes too long; `LogMiningProofs` covers any number). Two lines let a file be
emptied and grow up to an old offset. `AG_Start`
has three faults because the interesting identities need three: a registration
that ends between its saves, a token that is lost, an outage at the next run.
The packs of `EX_Run` have between them every mode of execution, every tier,
every state of a signature, every kind of limit and every defect, and controls
of zero to two procedures, in which both orders of a failure and an error occur;
the budget of three requests runs out inside the second target of the second
procedure. In `EV_Pair` a limit of one with two records leaves one behind, and a
window of one second of two lets a record grow old. Where both agents use leases,
the records differ by second only and one result may wait; where one does, two may,
and the records also differ by key or fraction, or it captures twice in a run, or
its capture has no keys, no readable stamps or no template. `EvidenceProofs` covers any combination. Symmetry is used for
interchangeable events and agents only.

Deadlock is checked in every run but those of `SiemOutput` and `AuditRun`, which
stop when their clock and restarts are used up and say `CHECK_DEADLOCK FALSE`.

**Mutants.** Every property of a passing run has a mutant: a changed
definition (a dropped guard, a missing reset, a swapped order) under which TLC
finds that property violated. They sit beside the original, marked `Mutant:`.

**Fairness.** `DeliveryQueue!FairSpec`: a thread inside a call goes on (the
operating system schedules it; strong fairness, because a lock it polls is free
again and again and each poll has a chance); the periodic flusher calls Flush
again and again (weak); an agent that died is started again (a scheduler runs
it). Faults are bounded, so a destination that is down for ever ends in the
dead-letter file by the code's own retry limit. `FileLock!FairSpec`: time passes
and each process goes on. `AgentStartup!FairSpec`: the scheduler starts the agent
again and again, a run goes on, an outage ends and 24 hours (`RetryDue`) pass, all
weak. `Executor!Spec`: a set that is being executed goes on, because every query
and request has a timeout. `Evidence!FairSpec`: agents run again and again and a
lease of a dead or finished run has an end, and so has an outage. `LogMining!FairSpec`: runs start again and again and go on; that
a rename of one process does not starve another follows, it is not assumed.

## 4. The proofs

Assumptions are the named `ASSUME`s of each module: types of the constants, and
for the lock `HoldLimit <= StaleAfter`.

* `FileLockProofs`: type correctness; `LockInv` (who holds the lock, whose file
  is there, what was judged) is inductive; exclusion and the holder's file follow.
  `ExclusiveUnlessUsurped` alone is not inductive: nothing in it ties the holder to
  the file.
* `DeliveryQueueProofs`: type correctness without a premise; with `AtomicReclaim`
  the invariant `SafeInv`: the lock owners are exactly the threads inside the
  sections (`PersistOwned`, `FlushOwned`), a thread about to write has a reload that
  covers the file (`ReloadCoversDisk`), and what a flush drops was handed over
  (`DroppedWasHandedOver`). From it follow `NothingLost`, `OneFlushAtATime` and
  `OnlyHandedOverLeaves`. `NoAcceptedEventLost` needs all of these: a writer with
  an old reload would erase an enqueue.
  With the same premise, and whatever loads fail, the reload *is* the file (or the
  load failed and nothing is written), and the batch is still in it or was moved
  aside (`QueueInv`), hence capacity up to what was moved aside and step by step
  the refinement of `Outbox`; nothing is given up without a dead-letter file
  (`NothingGivenUp`), hence `KeptWithoutDeadLetter`; and what was handed over and
  is still in the file is in the hands of a flush that is not decided yet, or its
  outcome is marked unsaved (`OutcomesKnown`, with `SenderIsAlone` and
  `DownIsDown`), hence `RedeliveredOnlyUnsaved`.
* `LogIngestionProofs`: `NoPassedRowLost`, without a premise. `KeptInv` adds to
  the property that an agent has no result in hand except between Collect and
  WriteResults (`HandEmpty`), so a new result never replaces rows that were not
  written. There a pending directory is a sequence of whatever it holds
  (`IsSequence`), and a cursor is not looked into.
  `IngestionTypes`, without a premise, does look into it: `Offset` is a recursive
  sum. A proof cannot expand one, so first the function is shown to exist, and
  then to be natural and at least its first value, each by the least number for
  which it fails (`SumExists`, `SumOfNumbers`); the terms are natural because what
  is fetched grows with what is consumed (`FetchedGrows`, `DivisionGrows`). The
  rest is `FileInv`: the file an agent has open is the one that is there or an
  older one, so it is never longer than a file of its own generation.
  `NoRowSkipped` and `OneHash` hold without a premise, for any `Buffer` and
  `MaxRows`, as long as `cut` is false: as long as no read has stopped at
  `MaxRows`. `PositionInv` says that a position anywhere (in a state file, a lease,
  the backend, a pending file, a result in hand) whose stamp is that of the file
  lies at its end or past it, with all rows taken and as many lines counted; that
  a position with an older stamp stays behind; and that every event anywhere has
  the line number of its row. A position past the end counts as truncated, so the
  file is read again with the same numbers. After a read that was cut both fail:
  with `MaxRows = 1` and three rows the offset is past a row that was not read,
  with `Buffer = MaxRows = 2` and six a row gets two numbers (see section 5).
* `SiemOutputProofs`: `OutputTypeCorrect` strengthens the types by the fact that no
  entry of a cache or of the file is stamped later than the clock. From it
  `NothingClobbered`: a merge keeps of each entry the file's or a younger one
  (`MergeKeeps`), an update only makes younger (`UpdateKeeps`), and what is younger
  than an unexpired entry is not pruned (`PruneSurvives`). The bound on the
  stamps is needed by `UpdateKeeps`: stamping an entry from the future with the
  current time would make it older.
  `SuppressedIsBacked`: `ReservationBacked` looks at one process and the entries
  that have not expired, but a merge can bring in any entry of the file and a
  later one any entry of a cache. The invariant therefore says of every entry, in
  the file and in all caches, expired or not, that it lies in `Backing` (queued,
  told, or in the hands of the thread that reserved it), and of every flush that
  it holds the front of the queue and records only what was told (`InFlight`).
  `AlertedOnce`: a finding nobody saw remediated is open in every entry and every
  event (`EntriesOpened`, `EventsOpened`), and what was let through within the
  window, and not given up, is in the file, at least as young (`AuthOnDisk`), so
  the merge in Filter finds it with the same status. `ExitZeroIsHonest` has the premise `OneProcess`, because with a second
  one `PendingCount` may be stale: what a run enqueued is told, dead-lettered or
  in the queue (`KeptOrHandedOver`), and no longer in the queue once the count
  was zero (`Counted`).
  `AuditRun` composes the output with the run that drives it and has two steps
  `SiemOutput` has not, a flush that returns at once and an audit that fails. Every
  other step is one of `SiemOutput` or leaves its variables alone (`AuditStepIs`),
  and those two touch only the fault count and `audited` (`Aside`), so that the
  invariants above carry over to whole runs, overlapping or not:
  `RunsSuppressOnlyBacked`, `RunsAlertOnce`, `RunsClobberNothing`; and `AuditTypes`.
* `LogMiningProofs`: no premise. `TypeInv`; `FileInv`, which ties the name a run
  writes under to where it is in `Save` and says that the temporary file is whole
  when it is renamed, as long as no two runs saved at once; and `CoverInv`: what a
  cursor at the backend or on disk has passed is *safe* (settled, or in the hands
  of a run whose cursors are on disk), and what a run's own cursor has passed is
  safe or in its hands. `PassedLinesAreReported` is weaker and not inductive: it
  says nothing of the temporary file or of the cursors in memory, which become
  `cursors.json`. The lemmas `FitsGrown`, `FitsChanged` and `ReadFits` are what
  append, rotation and a read do to what a cursor has passed.
* `AgentStartupProofs`: `Inv` says of every place in `main` what the identity in
  use has to do with the files (`Saving`, `TokenOfRun`, `Configured`), also when a
  read of them failed; with it the five properties that are not liveness, the
  action property by cases over the steps that count registrations.
* `ExecutorProofs`: the pack in hand has passed the checks that lie behind `pc`;
  `StatusOf` relates the status of the control at work to the procedures done so
  far (the fold of `ExecuteControl`, kept by each `Append`); the targets left of a
  procedure are those that no outcome counts yet. From these, for any packs:
  `OnlyCleared`, `StatusFollows`, `VerdictsAreComplete`.
  `ValidatedIsReadable`: evaluation and the status of a procedure are folds that
  stop at the first part that decides, over lists in lists. If the result is an
  error, then the deciding position exists, is the least (`LeastOf`), and leads
  down to a malformed atom, which validation looks for anywhere (`EvaluateMisread`,
  `ProcedureMisread`); if nothing is malformed and no rows are counted, the parts
  that decide are those of the condition's meaning `Holds` (`AllHolds`, `AnyHolds`,
  `EvaluateHolds`). The invariants carry that a pack in hand which was validated is
  readable from the file or the cache to the procedure at work (`PackInv`,
  `WorkInv`), and that none of its outcomes is such an error (`ReadInv`). What the
  constant `Packs` may hold is `IsPack`: any lists of controls, procedures and
  criteria, of conditions and labels the type `ControlCriteria` can express.
* `EvidenceProofs`: no premise. `Inv` joins the types with `OneToken`: of all
  tokens in the hands of runs and in queued results one at most is good, and its
  agent holds the lease. `CoverInv`: what is not after the backend's watermark, the
  watermark of a lease, or the one a result reports is stored, goes with that
  result, is equal in stamp and keys to such a record, or is excepted. A query
  that returns only the oldest `Limit` rows, ties broken in any way, keeps it,
  because a record that was selected and is not after the last row is before that
  row, and then was returned, or equals it (`OldestCover`); a late result of an
  expired lease keeps it, because the backend takes only its rows.
  `WatermarkCoversOnlyStored` alone says nothing of the watermarks on their way.

`AtomicReclaim` is the premise that no other process acts between the staleness
check and the removal of a lock file; `filelock.go:23-30` documents that race and
accepts it, and `DQ_Damage` runs without the premise.

Only model-checked: all liveness (out of the prover's reach):
`EventuallyHandedOver`, `AcquireReturns`, `OrphanReclaimed`, `EventuallyUploaded`,
`RunEnds`, `EvidenceArrives`, `LinesAreReported`. Every other property of a passing
run is stated by a theorem.

## 5. What the models leave out, and what was noticed on the way

Left out on purpose: wording and logging; JSON and csv text; TLS and HTTP
details; SQL; the comparisons in conditions; configuration defaults. Configured
destinations differ only in the answers of `Send`.

Behaviour the models have, or that was met while reading, and that a reader of
the code may not expect. No property says otherwise, except where one is named.

SIEM:

* an event line beyond 64 KiB is written but never read again; the file is moved
  aside with everything in it (`queue.go:515`, an `Oversize` event of the model);
  and any other error of a load at start does the same (`queue.go:88-96`), after
  which nothing reads those events again (`quarantined`);
* a flush that had a batch of a file moved aside writes it back, so that the file
  can exceed the capacity by it (`CapacityRespected`);
* RecordDelivered of an older event overwrites the status a newer reservation
  stored (`dedup.go:196`), so that a change back to the older one is suppressed for
  a window, although "Status changes are never suppressed" (`dedup.go:13`);
* the error flag of the periodic flusher is read before `Close` has waited for it
  (`main.go:402`), although `output.go:426` says "after Close": the exit code can
  be 0 when the last flush failed; its events stay in the file;
* when Filter fails closed (`dedup.go:108`) findings are neither sent nor counted,
  and the run may exit 0;
* a reservation that is released goes from the file and from the releaser's cache
  only; another process that has read it brings it back with its next merge
  (`dedup.go:334-341`), and the finding stays suppressed for a window, which
  `dedup.go:157-160` says Release prevents (`KeptElsewhere`; the models call
  it excused);
* a finding whose process dies between Filter's save and the enqueue stays
  suppressed for the window (the models call it excused);
* `Len` counts what this process last saw, so `PendingCount` can be stale when
  another process has flushed.

Control packs and executor:

* an error of `executeControlSet` leaves the database's status "success", and a
  control set that cannot be fetched is only logged (`main.go:505-517`);
* packs from the backend are not validated when they are read: the syntax of their
  conditions is met when they are evaluated (`validated` in `PackFetch`), and their
  compatibility limits are dropped by `convertBackendResponse`, so that
  `CheckCompatibility` finds none (`main.go:1037-1050`);
* of several local files the glob takes the first name, which is the oldest
  version, where a comment says latest (`fetcher.go:204-251`);
* a `row_count` comparison followed by AND or OR is accepted by the validation part
  by part (`executor.go:1777-1797`) and evaluated as its first comparison, or as not
  met (`2196-2232`), without an error (`ValidatedNeverMisread` is about the others);
* `max_targets` cuts off the seeds beyond it before the first request; they are
  neither asked nor counted (`executor.go:651-657`);
* in a criterion list the last match decides the status of a procedure
  (`executor.go:1623-1664`); a source scan stops at `max_matches`;
* the budget of requests belongs to an executor, that is to one set of one
  database, where `config.go:301` says "per run"; the requests that replay a signed
  URL are not asked for the state-change policy.

Evidence:

* the drivers return time values, whose `%v` form has a blank where the pattern
  (`executor.go:164`) wants a `T`: no capture the agent adds itself ever resumes
  from its watermark; each reads its default window, the oldest rows first, up to
  the limit. `executor_test.go:1632-1673` uses text stamps, for which it works. A
  record whose result was lost and which then leaves the window is not read again
  (`outside`);
* the placeholder for the watermark is filled in only when a lease is asked for,
  so offline such a query fails (`QueryFails`);
* the watermark loses the fraction of the second, so records with a fraction are
  read again and again; `Limit` of them in one second, or more records in the
  window, leave the rest unread for ever, and so does a record committed late with
  an old stamp (`late`, `outside`, `Roomy` in `EvidenceArrives`);
* of records equal in stamp and keys that a query's limit separates, the rest is
  never read (`Reached`);
* a capture that falls back on the default window may look empty while older
  records are unread.

Log sources:

* the offset of a csvlog adds what was fetched again for every row
  (`csvlog.go:163-172`), so in a log with more rows than `MaxRows` it can be past rows
  that were not read, and they are skipped; or the log is read again from the top,
  and the rows behind `MaxRows` are never reached (`cut`, `LI_Reset`);
* two overlapping saves share the name of the temporary file, so `cursors.json`
  can be cut or empty for a while, or for good after a crash, although the comment
  says "atomically" (`cursor_store.go:52-53`); a run whose rename finds the file
  gone fails and drops its lines, although the other run's rename may have saved
  its cursors (`settled` counts those lines as lost);
* one failing source drops the result of the sources before it; a line beyond
  1 MiB fails for ever and stops log mining of its database;
* online only the cursor of the last source is reported (`main.go:665-681`); the
  others are read again from where the backend believes they are;
* a file that was emptied and has grown past the old offset is not told from the
  old one (its inode is the same, and only the size is compared);
* the hash of an Oracle event is that of code and message (two equal errors are
  one);
* the csvlog result and the log-mining result of one database share a key, the
  second replaces the first (`main.go:542-568`).

Start-up:

* a cached online mode is never checked again (`mode.go:50`), so an agent whose backend went away fails instead of going offline;
* a crash between saving the token and the agent ID (`registration.go:162-169`)
  leaves an agent that uses its name as ID (`interrupted`);
* an agent that was never online and has no token never reaches
  EnsureRegistered: the backend is not probed without one (`RegistersOnlyAfterALoss`);
* `UploadPending` stops at the first file the backend rejects, in every run
  (`output.go:277-281`; `EventuallyUploaded` goes up to the first one refused);
* `main.go:216-217` announces that a bad entitlement is fatal for an online agent too; that is so
  only with `entitlement.local_path`.

## 6. Not modelled, and what is left

Not modelled, with the reason: the query guard, URL validation and the signing
tool (stateless, lexical or one-shot; their unit tests enumerate the cases); the
configuration (read once); events and converter beyond the fields the
Deduplicator tells apart; syslog and webhook network code (the answers of
`Send` are choices); the dead-letter file's rotation (a rename under one mutex that
drops the one-but-last generation; nothing reads the file back); the caps
on the files and bytes of an upload, except in `LogIngestion` and `AgentStartup`; the refusal of plain HTTP in detectMode, which
makes a run offline without saving that; control packs, scripts and the demo.

Left for later work: the remaining modes of `runAuditPhase`, several databases,
overlapping runs on the mode file, and the byte cap of an upload.
