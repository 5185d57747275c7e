# MAGI V3 runtime: TLA+ models, checks and proofs

MAGI is an assistant for a law office: chat and web front ends, a scheduler,
document and court-portal automations that run as worker processes, and an
installer that replaces one release by the next. The part whose correctness is a
matter of *protocol* is the V3 runtime (`src/magi_v3`): a durable job ledger in
SQLite, a dispatcher that turns queued jobs into worker processes, the worker
supervisor, the resource governor, a delivery outbox, the production cron service
with its slot for rebuilding the vector index, and the resumable synchronisation of
case files with Google Drive. This directory models that runtime. Sections:
inventory, plan, modules, runs, fairness, proofs, findings, what is left out.

## 1. Inventory

| Component | State | Operations | What is hard | Correct when |
|---|---|---|---|---|
| Job state machine `magi_v3/state.py` | - | `ensure_transition` | success only with business success | a terminal status has no successor |
| Job ledger `magi_v3/ledger.py` | tables `jobs`, `attempts`, `leases` | create, confirm, challenge, transition, lease, mark running, bind pid, heartbeat, abandon, suspend, commit, four kinds of fence operation | credentials that went stale, clocks read before the lock is held, nine ways out of a lease, a retry budget that refunds preemptions, effects that may or may not have happened | the three tables agree; no dangerous job runs unconfirmed or twice; no late result counts |
| Outbox `magi_v3/ledger.py` | table `outbox` | enqueue, claim (with two sweeps), mark sent, mark failed | senders that vanish or report late, time to live against retries | claims exclusive and counted; every record is sent or given up |
| Dispatcher `magi_v3/dispatcher.py` | `_active` handles | `dispatch_next` (with preemption), `heartbeat`, `poll`, `commit_result`, `expire` | seven steps, each may fail; the ledger and the process table change one after the other | process, lease and handle stay in step on every path |
| Supervisor `magi_v3/supervisor.py` | `_workers` | start, poll, wait, terminate, reap, shutdown | a group outlives its leader; kill may fail | a lease goes only after the group is gone |
| Resource governor `magi_v3/resource.py` | active claims | evaluate, acquire, release | limits counted per tracked worker | never more workers than slots |
| Cron scheduler `skills/ops/cron_scheduler.py` | the state file: pending rows, `v3_pending`, `v3_retry` tickets, running marks, last occurrences | due and missed jobs, mark pending, dispatched, started, result; schedule a retry; reconcile at startup | several writes per outcome with a crash between any two; tickets handed out again while queued and running; definitions reloaded under a running command | an occurrence is settled once, by a run of the current definition, and its attempts are bounded |
| Cron service `magi_v3/cron_service.py`, `cron_policy.py` | pending map, lanes, futures, owner lock | poll, enqueue and coalesce, submit, claim, run, record, stop, hand over | threads that outlive the loop, an owner that dies or is killed, commands that survive a killed owner, coalescing against loss-sensitive jobs | one execution per job and lanes within their caps, across owners that drain before they hand over |
| Index maintenance `magi_v3/faiss_maintenance.py`, `scripts/ops/faiss_rebuild_worker.py` | the request file, the active index, the worker process | mark required, ready, run, back off, clear | sources mark while a rebuild reads, publishes or fails; workers survive their owner; generations start over | no marked batch is forgotten before it is indexed |
| Drive checkpoint `magi_v3/drive_file_checkpoint.py` | checkpoint file, journal | open and replay, phase, bind, partial, completed, complete, defer, discard | two-step saves, lines lost or torn, kills in between | what is recovered is what was known |
| Drive synchronisation `api/osc/drive_case_sync.py`, `scripts/drive_case_sync_worker.py` | cursor, partial files, both sides' files | plan, download, upload, conclude, move the cursor | resumption after hours, people editing both sides and the list of cases, deadlines, cases and files the scan leaves out without a failure | the cursor passes a case only when the files it looked at are at their destination |
| Business recovery `business_recovery.py` | - | classify the text of a result | wording | each outcome falls into one disposition |
| Mutable-state handoff `mutable_state_handoff.py` | staged copies | stage, verify, activate | crash between releases | one owner of the state |
| Controlled evolution `controlled_evolution.py` | proposals | propose, approve, apply, roll back | long approval protocol | no change applied unapproved |
| Release cutover `scripts/v3_cutover` | plan, activation records | plan, probe, execute, recover | partial activation | one active release |
| Evidence, memory stores | append-only files | append, retain | mostly hashing and I/O | - |
| Service supervision `supervisor_service.py`, `service_runtime.py` | OS processes | start, stop, monitor | signals | - |
| Gateway, control plane, Agent API, workflows, skills | web and external state | request handling | external services | - |

How they interact: the API submits and confirms jobs (ledger); the dispatcher
leases one (ledger), asks the supervisor for a worker, which asks the governor for
a slot, binds its pid (ledger), then polls, heartbeats, commits or fences it
(ledger, supervisor). An interactive job may push a heavy reader aside. Workers
are their own process groups and survive the core; the ledger survives everything.
The cron owner polls the scheduler's durable state, runs due, missed, pending and
retried occurrences as child processes in lanes, records each outcome there, and in
its rebuild slot runs the index worker when a job has left a request. One of its
jobs is the Drive worker: every run opens the checkpoint of one case, and passes a
cursor in the worker's state file on when the case is done.
At this commit `DurableDispatcher` is put together by scripts and tests only;
`CoreRuntime` (`runtime.py`) composes ledger, governor and supervisor.

## 2. Plan

Done, in this order: `JobStatus`, `JobLedger` (core), `LeaseContract` (what the core
promises), `JobLedgerProofs`, `JobLedgerRefinement`, `Outbox`, `OutboxProofs`,
`Dispatcher`, `CronService` (owner loop and durable scheduler state together, since
every hazard lies between the two), `CronServiceProofs`, `FaissRebuild`,
`FaissRebuildProofs`, `DriveCheckpoint` (the checkpoint with the synchronisation
that uses it), `DispatcherProofs`, `DriveCheckpointProofs`, `WorkerContract` (what the
dispatcher promises about processes on top of `LeaseContract`), `DispatcherRefinement`.

Left, most important first:

1. `StateHandoff` and `Cutover`: staged copies and activation records with crashes,
   refining an atomic switch.
2. `ControlledEvolution`: proposal, approval, application, rollback.

## 3. Modules and the code

* `JobStatus` - the status enum, `TERMINAL_STATUSES` and `ALLOWED_TRANSITIONS`,
  status for status, and `CanTransition` for `ensure_transition`.
* `JobLedger` - one action per public operation of `JobLedger` on jobs, attempts
  and leases. Each is one `BEGIN IMMEDIATE` transaction, so it is one step, enabled
  when the code commits; a call that raises rolls back and is a stutter. A token is
  a fresh uuid per lease, so a credential is (job, attempt number), and stale
  credentials are numbers that no longer match. **Time**: operations read the clock
  before they wait for the write lock; `t \in Stamps` is that reading, up to
  `MaxLag` behind the time of the commit. `Spent` counts attempts the way
  `lease_next` does, `ExpiryTarget` the way `resolve_fenced_lease` does.
  Transition helpers (`Moved`, `Released`, `FinishedRow`, `ExpiredRow`,
  `CloseAttempt`) stand for the UPDATE and DELETE statements the operations repeat.
* `LeaseContract` - the abstract promise: owners numbered in order, at most one at
  a time, a barred owner completes nothing, a job with an outcome is never owned.
  `JobLedger!Contract` is the refinement mapping (owner: the lease row's attempt;
  issued: `attempt_count`; barred: fenced; outcome: the status once terminal).
* `WorkerContract` - EXTENDS `LeaseContract` with the processes that exist. Its steps:
  `Handover` (a step of the lease contract in which a job with a process keeps its
  owner), `Launch` (an owner that is not barred starts a process where none is), `Exit`
  (processes end, of many jobs at once). `Dispatcher!WorkerPromise` is the mapping:
  the lease contract's, with `alive` as the processes. It is a promise of three parts of
  the code at once: the dispatcher's order of steps, the supervisor's drain, the
  ledger's fences.
* `Outbox` - the outbox table. `Claim` contains both sweeps of `claim_outbox`
  (reopen what ran out, bury what is hopeless) and the claim itself, in the code's
  order; `ClaimStands` is the check of `_finish_outbox`; a claim token is the
  claim generation. `acked` is a history variable: the claim whose acknowledgement
  was accepted.
* `Dispatcher` - EXTENDS `JobLedger`; its own state is `_active` (`active`), the
  supervisor's `_workers` (`table`), the process groups that exist (`alive`) and
  the call in progress (`op`). The dispatcher's lock serialises calls; a call is one
  step per ledger transaction or supervisor call, because workers exit, the API
  moves jobs, time passes and the core dies between them. `op.t` is the timestamp
  a call read and keeps using. Worker exits may leave children in the group.
  Failures the code has paths for (a kill that fails, a transaction that raises)
  are injected at most `MaxFaults` times, restarts at most `MaxStops`.
* `CronService` - the loop of `CronService.run` and the methods of `CronScheduler` it
  calls, over the durable state they share. One occurrence is a member of
  `Occurrences`; a job's durable state is its pending rows (`rows`), its retry
  ticket (`receipt`), the mark of a dispatch (`claimed`) and the definition in force
  (`command`). The pending map of an owner holds, per job, an item or a sequence of
  items, as in the code. A poll is one step (it takes the scheduler's lock once),
  each queued item is one `Enqueue` step, so that the loop's later exceptions and
  kills fall between; a running occurrence is a thread that claims, begins, ends and
  records in separate steps, the retry's two writes included. `Start` is the whole
  startup reconciliation. An owner ends by a raised exception (`Raise`), a stop, or a
  kill; its lock is released only after its executor has drained unless it is killed.
  A command is a process in a session of its own, so a kill takes the threads and
  leaves their commands: `Kill` keeps the jobs of commands that had begun in `orphans`
  until `OrphanEnds`. Nobody waits for an orphan or records its outcome, and the next
  owner recovers its row (`Recovered`) and may run it beside the orphan.
* `FaissRebuild` - the request file with its id and generation, the cron owner's
  slot (`Dispatch`, `BeginRebuild`, `Settle`), and worker processes, the one of the
  present owner and orphans of killed ones, each with its phase, the request it was
  started for and the batches in the snapshot it read. The index is the set of
  batches in it.
* `DriveCheckpoint` - `Write`, `EmptyJournal` and `Log` are the two steps of a whole
  save and the append of a line; `Recovered` replays the journal as
  `_replay_journal` does, line by line (`Replay`, `Applied`), and is `Broken` where the
  code raises. A run
  is `Start`, the phases (`SetPhase`), `Plan`, one item after the other (`GetFile`,
  `FetchChunk`, `RecordPartial`, `Publish`; `PutFile`; `MarkCompleted`), `Conclude`,
  `SaveCursor`, `Discard`. The plan is what the code makes of what it saw, not of what
  is there: `SkipCase` leaves out a case that cannot be looked up or reached, or whose
  Drive folder may not be used, and `PlanNothing` then binds an empty plan without a
  failure; a `Plan` may miss files on the NAS (`unseen`: a missing folder or an
  unreadable entry is passed over), find nothing comparable and fail, or defer the case
  for colliding names; and `Missing` omits what the naming rules refuse (`Unmapped`).
  `SaveCursor`, `Discard`. The content of a file is the sequence of its chunks, each
  the version of the source it was read from, and a hash is the content itself, so a
  download resumed after an edit is a mixture that compares unequal. `Timeout` is the
  deadline, which saves the checkpoint; `Crash` is a kill or a termination signal,
  which saves nothing. People edit sources, targets and the list of cases. `blame`
  and `excused` are history variables: the faults after which recovery is not promised,
  and the files the run does not answer for, because its case was left out, the scan
  passed them over, or people changed them since the plan. Sequence numbers matter only
  by their distance, so `Settled` renumbers them when the journal is empty; the
  comment there says why 3 is enough.
* `MCJobLedger`, `MCOutbox`, `MCDispatcher`, `MCCronService`, `MCFaissRebuild`,
  `MCDriveCheckpoint` - instances for TLC. Operators whose
  comment starts with "Mutant" beside a definition are a plausible bug in it, which
  the properties are measured against; nothing uses them.

## 4. Runs

| Run | Instance | States | Shows |
|---|---|---|---|
| `ledger` | one job slot, three envelopes (heavy reader, writing draft, dangerous commit), two attempts plus refunds, lag 1, clock 0..3 | 279,576 | all ledger invariants and action properties; the ledger implements `LeaseContract` |
| `outbox` | two records, one or two attempts, short and long time to live, clock 0..5 | 88,356 | `DeadLetterSound`, `AckByNewestClaim`, `ClaimExclusive`, `EventuallyOver` |
| `dispatcher` | a heavy reader and a dangerous interactive job, two faults, one restart | 1,587,793 | `WorkerHasLease`, `HandleMirrorsLease`, `NoOrphanLease`, `PreemptedForHigher`; the three parts together implement `WorkerContract` |
| `dispatcher_calm` | two heavy readers and the interactive job, no faults | 400,199 | `HeavyLimit`, `LeaseSettles` |
| `cron` | a loss-sensitive job with a timeout and a coalescing one without, sharing the heavy slot, two occurrences, one retry, one reload, one kill or stop | 798,858 | `LaneCapacity`, `OneExecutionPerJob`, `ClaimedIsOpen`, `RunningRetryNotRequeued`, `EvidenceOfCurrentDefinition`, `ExhaustedIsFinal`, `RetryResolved` |
| `faiss_handoff` | two ingests, a killed owner, an orphan, failures, one change of release | 119,989 | `HandoffKept`, `BackoffIsOwn`, `RowsIndexed` |
| `drive_checkpoint` | four cases, four files (one of two chunks, one the naming rules refuse), three faults or left-out cases, two edits | 1,579,581 | `Recoverable`, `ProofsAreOfThePlan`, `CursorPassesSynced`, `CursorMoves` |
| `success_without_receipt`, `preemption_not_refunded`, `retries_unbounded`, `queued_row_not_pending`, `target_overwritten` | small instances of the same modules | - | each one statement of the repository that the code does not keep (section 7) |

Why the bounds are enough. Ledger operations read and write the rows of one job
only (the single exception, the priority order of `lease_next`, is exercised with
two and three jobs by the dispatcher runs), so one job slot with every class of
envelope shows every behaviour of the ledger's invariants, and section 6 proves
them for any number. `MaxAttemptNo` 3 with `max_attempts` 2 leaves room for a
refunded attempt beside a used-up budget; `MaxFence` 2 for a cancelled fence and a
second one; clock 3 with leases of two seconds for an expiry, a retry and
a lease cut by the deadline; lag 1 for a timestamp that is already past the lease.
Outbox records do not read each other, except that `claim_outbox` takes the oldest:
two records show that. The dispatcher needs two jobs for a preemption, three for
the heavy limit under a preemption. `dispatcher_calm` gives each job one attempt so
that its liveness fits; retries are in `dispatcher`.

The cron jobs meet in one lane, so two of them, one of each policy, show coalescing,
the list of a loss-sensitive job, and a blocked lane; one kill, stop or exception
makes an owner and its successor, whose reconciliation may find every combination of
durable writes, and beside which an orphan of the first may still run. The rebuild
needs two batches for a request marked during a rebuild, one kill for an orphan beside a
new owner, and a release change for the start-over of generations. For Drive, three faults are what the worst history needs: a case closed
but not passed on, a line journalled by the next run, and a kill between the two steps
of opening another case's checkpoint; two edits are needed to relist a case and change
a file, or to remove a finished file and change its source. Two chunks make a partial
download, and the bound on versions makes an edited file the one too large to move. The
file the rules refuse is one people leave alone (`Edited`): no run ever plans it, so
changing it would only multiply the states. A left-out case or scan uses one fault, so
that it may come before or after a kill.

`CHECK_DEADLOCK FALSE` throughout: once the bounded clock, retries and edits are used
up the system may have nothing left to do, and a worker whose checkpoint cannot be
opened stops at every start: real ends, not deadlocks.

## 5. Fairness

* `Outbox!FairSpec`: some sender keeps calling `claim_outbox`, and time passes. No
  sender need ever report. The repository has no production caller of
  `claim_outbox` at this commit, so the property says what a sender loop gets.
* `Dispatcher!DFairSpec`: the thread inside a call goes on (or fails), whoever
  drives the dispatcher keeps polling each handle, and time passes. Workers need
  not exit, nobody need dispatch again, and nothing is assumed of the API. The
  test harnesses and scripts that drive the dispatcher poll in a loop.
* `LeaseSettles` needs that time, since a worker may hang: the deadline cap on
  heartbeats is what ends its lease.

* `CronService!CronFairSpec`: the owner's loop goes on (a supervisor restarts it
  when it ends), each executor thread goes on, and time passes. Commands end because
  the code gives each a time limit. Neither kills, stops, reloads nor successes are
  assumed.
* `FaissRebuild!FaissFairSpec`: the owner's loop and the worker go on and time passes;
  failures are bounded by the instance, not assumed away: a request whose rebuilds fail
  for ever is retried for ever.
* `DriveCheckpoint!FairSpec`: the schedule starts a worker again and again and a
  started one goes on. `CursorMoves` excuses the schedule while it is `Blocked`, which
  lists by name everything the code cannot resolve by itself; faults and edits are
  finite, so all else must be passed.

## 6. Proofs

All for every set of jobs, envelopes, tokens and every bound, from the named
assumptions in `JobLedger` (`EnvelopeAssumption`: what `JobSpec` validates;
`BoundsAssumption`: the constants are numbers), in `Dispatcher`
(`DispatcherAssumption`: an envelope per job, slot limits are numbers) and in the other
modules.

`JobLedgerProofs`. The invariants are not inductive one by one: that a lease is
current rests on no attempt being left open, confirmation on the shape of rows in
every status, the phase of a row on its effect. `IInv` is therefore stated job by
job: `TypeOK`, a `RowSound` for each jobs row (which status goes with which
columns), and the agreement of lease, attempts and row. Because operations write one
job, the step cases reduce to four shapes, each a lemma: a step on an unleased row
(`UnleasedStep`), a step that closes the attempt (`CloseStep`), a step on the lease
row alone (`LeaseRowStep`) and the two that open or start an attempt
(`LeaseNextSound`, `RunningSound`); rows written by the code have a lemma each
(`MovedSound`, `FinishedSound`, `ReleasedSound`, `ExpiredSound`). The steps are those
of `LateNext`: `Next` with timestamps of any age instead of at most `MaxLag`. `Next`
implies it (`NextIsLate`), and the dispatcher, which keeps using one reading of the
clock through several transactions, needs all of it. `LateSound` combines
`OperatorSound`, `LeaseSound` and `FenceSound`. From `IInv`: `TypeOK`,
`LeaseCurrent`, `NoOrphanAttempt`, `DangerousConfirmed`, `AmbiguousNeverRuns`,
`CanonicalRow`, `VerifiedHasEvidence`, `LeaseWithinDeadline`, and, through lemmas
that say what a step does to a row and to an attempt, the action properties
`TerminalIsFinal`, `ClosedAttemptIsFinal`, `FencedResultRejected` and
`WriteNeverAutoRequeued` (`TerminalStep`, `ClosedAttemptStep`, `FencedStep`,
`WriteStep`). `BudgetKept` needs cardinalities: a counted attempt is
added only by `lease_next`, below the budget (`BudgetStep`).

`JobLedgerRefinement`. `Spec => ImplementsContract`: the initial states map to the
contract's, and each late operation maps to a contract step or a stutter (`ContractStep`),
again one lemma per shape of step.

`DispatcherProofs`. The dispatcher reads the clock and then uses that timestamp through
several transactions, so it may be older than any lag of `JobLedger!Spec`.
`LedgerOperation` shows, place by place of a call, that every step of `DNext` is one
operation of `LateNext` or leaves the ledger alone; hence `IInv` holds under `DSpec` too
(`LedgerConsistent`). On top of it the invariant has two parts.
`JobHeld`, for every job: its handle, its table entry and its process groups are those
of the attempt that holds the lease. This is not inductive, because between two steps of
a call the lease, the worker and the handle come and go one by one; `CallSound` says for
each value of `op.pc` what the call has already done and nobody else can undo: nothing
launched yet, launched but without a handle, drained, the victim drained. From both
follow `WorkerHasLease` and `HandleMirrorsLease`. `NoOrphanLease` needs `CalmSound`:
without faults a lease is the call's own, its victim's, or has its handle and worker.
`HeavyLimit` needs that until a restart every process group has its table entry
(`Accounted`), so that the groups map one to one into the slots admission counts
(`SlotsKept`). `PreemptedForHigher` follows from `CallSound`, since only
`RequeueVictim` writes the outcome (`Spares` for every other step).

`DispatcherRefinement`. Because every dispatcher step is a late ledger operation
(`OnlyLedgerOperations`), what the ledger promises its callers holds of the whole system:
`DispatcherContract`, the action properties (`DispatcherTerminal`, `DispatcherHistory`,
`DispatcherFence`, `DispatcherWrites`) and the budget. These do not follow from the
theorems about `JobLedger!Spec`, whose timestamps are bounded by `MaxLag`.
`WorkersExclusive` is the refinement of `WorkerContract`. `ProcessStep` lists what a step
may do to processes and leases together: only a reap, an exit or a crash ends a process,
only `StartWorker` starts one, and then the ledger does not move. Two more invariants are
needed. `Backed`: a table entry that is not marked as exited has its process group,
without which an exit recorded by the supervisor could bring a dead group back.
`Unbarred`: a call about to start a worker holds an unfenced lease, since only the calls
themselves set fences and the lock serialises them; without it a launch for a barred
owner could not be excluded. That a lease moves only over a vacant job is
`WorkerHasLease` after the step: a group that exists holds the lease of its own attempt
before and after, so the owner has not changed.

`OutboxProofs`. The record-wise invariant and the six safety properties. The sweeps
are composed operators, so each has its own lemma (`ReapedSound`, `BuriedSound`,
`SweptSound`) and `ClaimSound` only composes them.

`OverIsFinal` and `ClaimShape` of the outbox, and `VerifiedHasEvidence`, `NoOrphanAttempt`,
`ClosedAttemptIsFinal` and `FencedResultRejected` of the ledger, are proved here and no
longer part of a run.

`CronServiceProofs`. What makes `OneExecutionPerJob` true is not visible in it: an owner
that is up holds a future for every thread at work (`OwnerKnows`), and when no owner is
up no thread is left (`DownIsIdle`), so a successor starts with no thread of its
predecessor at work. A kill leaves no thread either, but it may leave orphans, of which
neither the code nor the theorems say anything (`OneExecutionPerJob`, `LaneCapacity` and
`ClaimedIsOpen` are about executions an owner answers for). `IInv` adds
that at most one pending item, thread or future is there per retried occurrence
(`OnePerIdentity`, for `RunningRetryNotRequeued`) and that a ticket whose attempts are
spent is exhausted (`SpentExhausted`, for `ExhaustedIsFinal`). Threads change in five
ways, each a lemma (`ThreadsSame`, `ThreadMoves`, `ThreadEnds`, `ThreadsNone`,
`SubmitThreads`), and tickets in the ways `ReceiptStep` lists. From it follow the type
invariant, `LaneCapacity`, `OneExecutionPerJob`, `ClaimedIsOpen`,
`RunningRetryNotRequeued`, `ExhaustedIsFinal` and `EvidenceOfCurrentDefinition`, for
every set of jobs, every assignment to lanes and every number of owners.

`FaissRebuildProofs`. `HandoffKept` needs that a snapshot taken for the request on disk
holds every batch marked up to it (`SnapshotCovers`), and that request ids are never
reused. `BackoffIsOwn` follows from the comparison of both id and generation.

`DriveCheckpointProofs`, for any finite set of case numbers, any files, versions and
numbers of edits and faults, and for journals of any length. The replay is a recursive
function over the lines, so the module begins with induction: every non-empty set of
numbers has a least one (`LeastNumber`, from the well-foundedness of `<`), hence a set
of numbers with 0 and with the successor of each of its members is all of them
(`SetInduction`; sets, because a lemma that takes an operator cannot be cited). From it
come the lemmas about replay: it takes lines one by one (`ReplayAppend`), it ignores lines the file
holds already (`ReplayStale`), and what every line preserves it preserves
(`ReplayInvariant`); and that the offset under the cursor names a listed case
(`RankExists`, `OffsetNamesCase`). `Recoverable` alone is not inductive: that a whole
save makes the journal's lines stale needs that every line's number has been given out
(`Known`), also after an append that raised and spent a number, and that an undischarged
save has file and copy equal. `StoreSound` says so, and the steps of the worker change
the store in the eight ways that have a lemma each (`WrittenStore`, `EmptiedStore`,
`LoggedStore`, `LosesStore`, `OpenedStore`, `LeftStore`, `DiscardedStore`, `KeptStore`). `ProofsAreOfThePlan` also
needs that lines in the journal are sound, and that an item about to be marked has been
compared with the plan (`MarkSound`). `CursorPassesSynced` needs `Synced`: as long as
nothing failed, each file the run answers for is in place or planned (`BoundRun` for the
three ways a plan is made), and each planned one is still to be dealt with, too large, or
delivered; `SaveSound` then excludes the first two where the cursor is saved. The
theorem claims nothing of a case that was skipped or deferred, nor of files the rules
refuse, the scan passed over, or people changed: there the code passes the cursor with
the files absent (section 7). Whatever happens to an item is one of three things (`FailedRun`, `DoneRun`,
`HeldRun`).

Only model-checked: the liveness properties (`EventuallyOver`, `LeaseSettles`,
`RetryResolved`, `RowsIndexed`, `CursorMoves`), which tlapm cannot prove under fairness,
and the violations of section 7. No project module declares a recursive operator.

## 7. Findings

1. `transition_job` lets a confirmed dangerous job succeed without a receipt, which
   `ledger.py:1398` and `src/README.md:223` rule out (run `success_without_receipt`).
   Only the lease-bound path asks for it.
2. `resolve_fenced_lease` counts preempted attempts against `max_attempts`, while
   `lease_next` refunds them, as `tests/v3/test_core_ledger.py:594` asks: after one
   preemption the first expiry ends the job (run `preemption_not_refunded`).
3. A retry that ends in a deferral which is neither terminal nor recoverable leaves
   its ticket "running", and running tickets are handed out again: the same attempt
   runs at every poll without end (run `retries_unbounded`; `README.md:230` says that
   retries are bounded).
4. Two pending occurrences of a loss-sensitive job become a list in the owner's map,
   and the idle wait reads `not_before` of the list. The owner dies of it, and the next
   one recovers one occurrence per job; the other row stays queued with nobody to run
   it (run `queued_row_not_pending`; `cron_policy.py:24-26` says that each occurrence
   is retained).
5. A download looks for its target before the transfer and replaces it afterwards, so
   a file saved there meanwhile is lost, while the report says
   "no_overwrite_no_delete" (run `target_overwritten`).

Observed while modelling, where no statement of the repository is contradicted: after a
restart nothing takes over the leases of the earlier dispatcher; a `commit_result` that
fails with anything but a lease conflict leaves a lease nobody can resolve; an append to
the checkpoint's journal that raises still spends its sequence number, so a kill before
the next whole save leaves a checkpoint no run can open; a case with an exported Google
document that has been downloaded, or with a file beyond the size limit, holds the
cursor until people act; and the cursor is an offset, so a change to the list of cases
may leave an unfinished checkpoint that no later run is allowed to open.

Two more, which the properties of section 4 exempt by name. A case that
`db_local_cases_for_numbers` skips (`drive_case_sync.py:2231-2258`: the lookup fails or
the NAS folder cannot be reached), or whose Drive folder is blocked (7878-7895), leaves
an empty plan and sets nothing that `report_has_partial_failures` (7713-7753) counts, so
`mark_case_complete` succeeds and the cursor passes with nothing compared; the worker's
"pinned until every file proof" (`drive_case_sync_worker.py:1873-1874`) is then kept of
no file at all. So it is when the case folder is not there at scan time (1657), with a
directory entry whose `stat` fails (1622-1626; the docstring at 1603-1605 promises a case
error for a timeout only), and with files the naming rules refuse (6846-6856, 6974-6982).
And the command of a killed cron owner survives it in a session of its own
(`safe_process.py:1168`) and may run beside the next owner's execution of the same job;
the comment at `cron_service.py:1007-1010`, which excludes that, is about the drained
shutdown.

## 8. Abstractions and what is left out

* Payloads, results, errors and artifacts are present or absent; owner names are
  part of the credential; `created_at` ties in `ORDER BY` are a free choice.
* `process_group_gone` is TRUE in every call that commits, and the supervisor's
  drain raises otherwise, so it is not a parameter.
* In `Dispatcher` the API confirms, requeues and cancels (the moves that meet a
  dispatch); `JobLedger` has all of them. The governor's host gates (memory, heat,
  CPU, Metal) only refuse more and are covered by `StartRefused`.
* The outbox row that `_finish_lease` may insert with a result is not linked to the
  `Outbox` module: `Produce` enqueues at any time, which covers it.
* `wait`, `reap_finished` and `active_job_ids` of the supervisor have no caller
  beside a dispatcher and are not modelled; signals and process groups are a set of
  groups that exist.
* `CronService`: re-arming of deferrals for storage, `reconcile_terminal_schedule_deferrals`,
  the notification flusher, the legacy "latest occurrence wins" policy, entries that do
  not recover automatically, orchestrator macros, failures of the state file itself, and
  data races inside one scheduler method. The order of items that tie is open. What an
  orphaned command does is not modelled beyond that it runs: it does not write the
  scheduler's state, and its work on files and databases is its own. The rebuild worker
  of a killed owner is in `FaissRebuild`.
* `FaissRebuild`: legacy requests without an id, validation of request and lock, the
  index file format, launcher checks. The database read is one snapshot; a count that
  does not match is a failed rebuild.
* `DriveCheckpoint`: byte and item limits (an item that fails covers them), the cached
  hashes themselves, ignored names, the chunks of
  a resumable upload, review for data integrity (it needs colliding names too),
  the worker locks, the inventory modes. A file whose content is elsewhere in the case
  folder (6796-6814, 6957-6964) counts as present at its destination. An upload the scan
  of the NAS did not see but that Drive already has would be planned as a download that
  finds its target; it is left out with the other unseen files. A new version of a source
  has as many chunks as the old one. How Drive answers a range past the end of an
  exported file is external; the model lets it refuse.
* The release installer, the web and chat front ends, the portal and document automation
  and the skills are most of the repository's lines: sequential work on external sites,
  databases and documents, where the hard part is what those systems return. They have
  no protocol between concurrent parts of this repository other than the ones modelled
  here, which is why the models cover a small share of its lines and a large share of
  the runtime's.
* Schema migration of old databases is sequential and not modelled.
* Whatever `PROJECT.json` lists as `not_modelled`, with the reason beside it.
