# TLA+ models of pickle-rick-codex

Pickle Rick runs long autonomous coding sessions: a PRD is refined into tickets,
sealed, and then executed by processes that are killed, restarted, replaced by
newer builds and cancelled, often for days. Everything those processes agree on
is a set of JSON files in a session directory. These modules model the protocols
over those files: who may own a session, which writes count, what a crash leaves
behind and who repairs it. Paths below are relative to `extension/src/`.

## 1. The system

| Component | State it keeps | Operations | Why it is hard | Correct means |
|---|---|---|---|---|
| Logical pipeline (`services/durable-supervisor.ts`, `services/durable-runtime.ts`) | `logical-pipeline.json`: event journal, control and terminal state, lease, generation, restart count | create, begin, acquire, renew, recover, release, checkpoint, revision, handoff, terminate, cancel | several processes, expiry, stale owners, kills between two operations | one owner per generation; no write of an owner that lost its lease; the pipeline ends |
| Supervised runner, runtime handoff (`bin/supervised-runner.ts`, `bin/runtime-handoff.ts`, `bin/mux-runner.ts` around the lease) | process positions, `.session-operation.lock`, the pending request | poll, launch, reap, restart; request, release, spawn, accept, abort | decisions from unlocked reads; the supervisor dies under its child; source or target never comes | each request settled once, nobody waits for ever |
| PRD seal (`services/session-prd-seal.ts`, `services/prd-seal.ts`) | `prd.lock.json` beside the journal | seal, begin, request a revision, approve | two files, two locks, stale reads, crash in between | execution runs under the seal on disk |
| State files (`services/state-manager.ts`, `services/recoverable-json.ts`) | every JSON file, its `.lock`, orphaned `.tmp.<pid>` files | update, steal a stale lock, recover an orphan on read | lock without payload, readers that write | no lost update |
| Ticket transactions (`services/ticket-transaction.ts`) | `ticket-transaction-ledger.json` and its lock | run, roll back, recover | crash in a rollback, an operator cancels | all or nothing |
| Ticket scheduler (`bin/mux-runner.ts`, `services/tickets.ts`, `services/recovery-controller.ts`, `services/productive-autonomy.ts`, ...) | manifest, tickets, recovery history, strategy journal, circuit | select, attempt, recover, start an epoch, roll over a budget | counters in several files, restarts in the middle | neither gives up nor spins |
| Worker process (`services/codex.ts`, `bin/monitored-process-broker.ts`, `bin/monitored-target-guardian.ts`) | `active_child_identities` in `state.json`, an IPC channel | spawn, record, release, shut down, attest, reap | forks, reused numbers, hung brokers | no process of the tree escapes the record, none that is foreign is hit |
| Worker attempt (`bin/spawn-morty.ts`, `services/refinement-artifacts.ts`, `services/recoverable-git.ts`, ...) | the repository, `refinement-repository-advance.json`, checkpoints, the ticket | boundary, phases, gate, completion, rollback, reconciliation | commands and workers edit at any time; kills between git and the files | nothing made is lost; Done is what the gate saw |
| Cancellation (`bin/cancel.ts`, `services/cancellation-recovery.ts`, watchdog) | `cancellation_recovery` and the watchdog's arm in `state.json` | arm, cancel, reap, reconcile, complete | children launched while it concludes there are none | no live child forgotten; it completes |
| Owner recovery (`services/autonomous-owner-recovery.ts`, `services/session.ts`) | owner identity and restoration intent in `state.json` | plan, claim, launch, publish, fail, retry | two recoverers of one owner, stale plans | a session with work has one owner again |
| Phase pipeline (`bin/pipeline-runner.ts`, `services/pipeline-state.ts`) | `pipeline-state.json` beside `state.json` | start, begin a phase, end it, reset, finish | two files, restarts | phases in order, refusals first |
| Citadel (`services/citadel.ts`, `services/citadel-*.ts`) | check journal, review state, report, approval, system block, repair journals, remediation and attribution intents | check, review, report, approve, block, repair, attribute, reopen | about ten files, one decision; the commit moves meanwhile | what is released was reviewed |
| Measured loop (`bin/loop-runner.ts`, `services/experiment-ledger.ts`, ...) | ledger, metric file, attempt transaction, archives, candidate clone, live checkout | propose, work, measure, promote or revert, recover | seven writes per experiment, a checkout that belongs to the operator | ledger, metric and history agree |
| Legacy adoption, detached launch, manager relaunch, telemetry, configuration | reservations, receipts, artifacts | launch, adopt, report | see section 6 | |

The components meet in files only. A supervisor launches a runner; the runner takes
the operation lock, then the lease, and asserts the lease around every phase. The
pipeline runs the ticket loop as its first phase and the citadel as its last; the
ticket loop runs an attempt for each ticket, the attempt runs model processes through
brokers. A revision, a handoff or a cancellation ends all of it from outside; a daemon
starts it again. Every file operation goes through the state-file layer, the ticket
files through the transaction layer.

`PROJECT.json` lists all components, the parts of each that are left out, and the
hazards, each at its line with the properties that would catch it.

## 2. Modules

| Module | Models | Notes |
|---|---|---|
| `LogicalPipeline` | journal, lease, runners, supervisors, handoff, clock | every operation of `durable-supervisor.ts` on a running session |
| `FencedOwnership` | what the journal promises its executors | abstract; `LogicalPipeline` implements it |
| `PrdSealControl` | seal and journal as two files, launches and approvals as processes | the control states of `LogicalPipeline`, where sealing and approval are one step each |
| `StateFile` | one file, its lock, its temporary files | how far an operation on a file is one step, which the other modules take it to be |
| `TicketTransaction` | lock, undo ledger, several files, cancellation | `StateManager.update` is one step here |
| `AtomicFiles` | what a ticket transaction promises | abstract; `TicketTransaction` implements it |
| `TicketScheduler` | the ticket loop, its recovery decisions, its restarts and the release gate | one runner at a time, which `LogicalPipeline` is about |
| `MonitoredProcess` | controller, broker, target, descendant, IPC, ledger | one call after another |
| `WorkerAttempt` | one ticket over a repository | what `TicketScheduler` takes as three outcomes |
| `CancellationRecovery` | canceller, watchdog, daemon, controller, children | each update of `state.json` is a step |
| `OwnerRecovery` | daemon, supervisors, executors, other commands | leases are in `LogicalPipeline` |
| `CitadelGate` | one run of `runCitadel` | extended by the next two |
| `ReviewerContract` | the repair of the reviewer's contract | extends `CitadelGate` |
| `PipelinePhases` | the phases around the citadel and what becomes of a refusal | extends `ReviewerContract`; the composition that is checked |
| `MicroverseLoop` | the measured loop | alone; it runs under the same lease |
| `MC*` | model values, bounds and symmetry for TLC | nothing of the system |
| `*Proofs` | theorems of the module they extend (`OperatorCommandProofs`: of `PrdSealControl` and `CancellationRecovery`; `DurabilityProofs`: of `StateFile` and `WorkerAttempt`; `SupervisionProofs`: of `MonitoredProcess` and `OwnerRecovery`) | checked by TLAPS |

Operators whose comment begins with "Fault:" are not the system. Each is a
plausible mistake in the definition that follows it; a property of a run must fail
when that definition is replaced by it.

### LogicalPipeline

`mutate` in `durable-supervisor.ts` holds the file's lock around read, change,
validation and write, so an operation is one action. The places where processes
interleave are between operations: the first read of the journal and the grant it
leads to (`StartRun`, then `Acquire`, `Watchdog` or `Accept`), `assertOwned` and
the checkpoint it protects (`AssertOwned`, `RecordCheckpoint`), the read in
`finish` and the release or termination (`Finish`, `Terminate`, `ReleaseLease`), and
the handoff's request and release. A *lane* is a supervisor and its current
runner; the second lane is the target of a handoff. `held` is the generation of
the lease in a runner's memory; it stands for owner id and token, which are drawn
together with the generation. The clock is two flags, `leaseExpired` and
`handoffOverdue`. The journal is the sequence of events with the parts of their
details that the replay or a later operation reads.

A revision comes from two sides: a runner asks for it under the operation lock
(`RequestPrdRevision`), a launcher that found another contract than the sealed one asks
without any lock, on a journal it read at some time before (`LauncherRevisesPrd`).
Accepting a handoff does not look at the control state again, so the second may fall
between a target's start and its acceptance. `RevisionAdmitsOneTarget` is what is left:
nobody else gets the lease before the revision is approved. `ExclusiveOperation` stands
for `.session-operation.lock`, which is taken as the lock of `StateFile` and is exclusive
as far as that one is (section 5).

The bound `MaxEvents` stops the environment, not the protocol: kills, expiry of a
live owner, checkpoints, renewals and revisions happen only while the journal is
shorter; the operations that end or recover a pipeline go on without a bound.

### PrdSealControl

`resolveSessionPrdSeal` compares the accepted refinement with the seal by content
hash and decides on a journal read without a lock. A contract stands for the
refinement and the hash of its seal. Each file operation is an action
(`Create`, `Observe`, `CompareSeal`, `WriteSeal`, `Begin`, `RequestRevision`,
`ReplaceSeal`, `CommitApproval`); `approvePrdRevision` holds the journal's lock over
its two writes, which `lock` records. A command can die anywhere. A handoff is asked for
in autonomous execution, checked by its target without a lock (`CheckRunnable`) and
accepted without a look at the control state (`AcceptHandoff`), so its lease may come
after a revision was requested (section 5).

### StateFile

`acquireLock` creates the lock file and then writes its payload. A contender that finds
the name taken looks at the lock (`Judge`); when it is gone or has no payload the parse
throws and it looks again (`JudgeAgain`), where a payload written meanwhile is not a
number and makes the lock stale; and it removes whatever has the name by then
(`StealLock`). So a live owner may lose its lock, without any death, and `robbed` names
those that did. The operation lock of a session is taken the same way. A write is a
temporary file and a rename; a read parses the file (`Read`), looks for temporary files of
dead processes (`Scan`) and promotes the newest one that is not older than the file, or
returns what it parsed when another reader was faster (`Promote`). Modification times come
from a clock that need not advance between two writes, as on coarse file systems. A live
process is assumed to fill a lock it created before the lock is old.

### TicketTransaction

A call takes the lock, recovers what a dead process left, snapshots the files it
names into the ledger, changes them one at a time in any order, and commits; a
throw rolls back. `state.json` is written last and under a check of the
cancellation, as `promoteRefinementArtifacts` does; its rollback merges the
cancellation's marker. A content is the name of the process that wrote it.
A lock that is gone when it is looked at reads as abandoned, and what is removed is
whatever has its name by then, so a contender may remove the lock of a live owner
(section 5). `robbed` records that this has happened; the properties say what holds
until then, and that cancellations stay even afterwards.

### TicketScheduler

`runSequentialWithLease` is sequential code over files that outlive it, so `run`
holds what dies with the process (position, ticket, pending and repairing tickets,
the failure under decision) and the other variables are the files:

| Variable | File |
|---|---|
| `status` | the manifest and the ticket files |
| `window` | recovery history cut at the last authorization (`getTicketRecoveryUsage`): failures of a ticket, in all and by signature |
| `strategy` | unresolved epochs of the strategy journal: their number and the domain of the last |
| `circuit` | the breaker, open or closed |
| `session` | activity, cancellation, exit reason, crossed budget, rollover intent and recovery flag of `state.json` |
| `reopen` | the pending Citadel remediation intent |
| `terminal` | the terminal state of the logical pipeline |

Every durable write is a step, so a kill falls between any two: a failure is
journaled (`RecordFailure`), judged (`JudgeExhausted`, `JudgeFailure`), weighed against
what `state.json` says now (`Weigh*`) and decided (`Abort`, `YieldTicket`,
`RetryTicket`); a new epoch is a strategy, an authorization and a reset of the
breaker, in this order. Two writes share a step with another: `recordIteration`
follows the status write it belongs to and leaves the breaker open or closed, and
a status write covers manifest and ticket file, as `TicketTransaction` allows.
`runTicket` is three outcomes: it throws before it touches the ticket, it takes the
ticket and completes it, or it parks it (`Parked`) and throws or refuses. A failure
is its kind, which selects the catch branch, and its route, which selects the
strategy; two failures with the same of both have the same signature.

The catch branches differ in what they report: `ExitOf` is the reason of the
decision, except for contract failures, which report their own kind (section 5).
The gate is `runCitadel` by its exit: approval, a refusal with tickets at fault (any
set), a system block that is retried or stops the run, an error, and checks that failed:
these are mapped to their owners (`MapFailedChecks`), which are reopened one by one,
without the tickets that depend on them (`ReopenOwner`); `rechecked` is history.

### MonitoredProcess

`runSpawnedCommand` in `codex.ts` (`ctl`, the position of the controller) talks with
the broker process (`brk`) over an ordered IPC channel (`toBroker`, `toController`), which
ends when the controller dies. The broker starts its target stopped, behind a guardian,
and releases it when the controller has stored both identities in `ledger`. One
descendant (`dsc`) stands for all: it may stay in the broker's group or lead one of its
own, and may be forked at any time the target runs; `seen` says what the broker knows of
it. Any of broker and controller may be killed or hang; when a group is gone its number
may be taken by a foreign one (`foreign`), and `hurt` records that such a group was
signalled. Finding a success, a timeout or a cancellation is a choice: how output is
parsed does not matter to what follows. A later controller reaps what the ledger holds.

### WorkerAttempt

The repository is a sequence of commits (`log`) and a work tree (`files`), a set of
changes; `refs` are the contents anchored under `refs/pickle`. Workers, gates and
verification commands may add changes at each step that runs one (`Edit`), and a worker may
commit by itself. From the gate's verdict to Done, at once or in a reconciliation, the
hooks of a commit or the user may add or overwrite a path, and hooks may stage it
(`LateEdit`, `Staged`); nothing compares the tree with the gate's again. `ctl` walks through `runTicket`: boundary, restored candidate, context
checkpoint, the eight lifecycle phases with their attempts, gate, scope, evidence,
commit, `Done`; every refusal goes through rejection, candidate checkpoint and
rollback. The executor may be interrupted anywhere; `Reconcile*` are the next bootstrap.
`made`, `approved` and `late` are history: what the attempt made and nobody overwrote
later, what its gate saw, and what was changed after the gate's verdict.

### CancellationRecovery

Cancellers, controller, watchdog and daemon share `state.json`; every one of their
updates is a step, and what a process read before is its own copy (`known`, `rec`). A
child is a process group; it can outlive its recorded identity (`"orphaned"`). The
controller registers children until it sees the cancellation; `StillQuiet` is the last
look of `reconcileCancellationRecovery` before it clears the ledger.

### OwnerRecovery

`st` and `rest` are the fields of `state.json` for the session and its restoration
intent. A supervisor boots, registers, launches executors and ends; the daemon plans,
claims, spawns, publishes, and reaps a replacement that lost its claim. Reconciliations
by other commands are a read (`look`) and a later update, as in `session.ts`. A tmux
session differs in who owns the process: publishing comes before the registration.

### CitadelGate, ReviewerContract, PipelinePhases

One program in three modules, because `runCitadel`, the repair of the reviewer's contract
and the pipeline around them are three files of the code. Every artifact is a variable
and every write of one a step; `ctl` is the controller's position, which a kill loses.
Findings of a report are the set of tickets they belong to (`report.owners`, empty when
no ticket can be told); a failed reviewer candidate is a number (`review.n`) with an
error kind. The checks of the tickets pass or fail with owners; the reviewer approves,
refuses with any owners, or writes something invalid. `env` stands for what
`deriveCitadelChecksAuthorityContext` binds the checks to beside the commit, the process
environment and the timeout; a run may be started in another one, from a new tmux pane
or shell, and then runs the checks again and opens a review of its own. An error after a
candidate was validated, or on resuming with one, rejects it and asks again
(`ValidatedRejected`, and in `OpenReview`). `ReviewerContract` has the journal
of mechanisms with its authentication, reuse after a kill, projection into the review
and the instruction the controller writes itself at the end. `PipelinePhases` has the
startup reconciliations in the order of `runPipelineWithLease`, the transaction over
`pipeline-state.json` and `state.json`, the attribution of a refusal, its intent, the
reopening of tickets with their dependents, the repair of verifiers and of failing
checks, the revision of the PRD and the operator's cancellation. What the ticket loop does
is a step per ticket here; `TicketScheduler` has the rest.

### MicroverseLoop

One action per durable write or per read that decides the next write; `run.pc` names it.
`cand` is the isolated clone, `archives` what `archiveMicroverseExperiment` stored of an
experiment, `live` the checkout with the promoted experiments and what the operator did
to it. `attempt` is `microverse-attempt.json` with its phases `running`,
`promotion_pending`, `promoted` and `quarantined`. `cand.moved` says that the head of the
clone moved, `cand.work` in what its tree differs from the base: commits that leave the
tree as it was count as an improvement and are "promoted" without touching the checkout
(`Diffless`). Rollbacks of a candidate may throw with the paths undone or not
(`RevertThrows`, `RevertOnExit`). `measured` is history.

## 3. Runs

| Run | Instance | States | Shows |
|---|---|---|---|
| `logical_pipeline` | 2 lanes, 1 handoff, 1 receipt with 2 payloads, runners take the operation lock, fair | 616,539 | `FileValid`, `RevisionAdmitsOneTarget`, `NeverStuck` |
| `lease_alone` | 2 lanes, 2 handoffs, 1 receipt, runners do not exclude one another | 938,797 | `FencedWrites`, `NoLeaseTheft`, `ImplementsFencedOwnership` |
| `prd_seal_control` | 2 contracts, 2 commands, any number of kills and refinements | 129,142 | `ExecutionUnderItsSeal`, `SealedContractStands`, `SealedPrdBegins` |
| `state_file` | 2 writers, either of which may die, 1 reader | 28,406 | `MutualExclusion`, `NoLostUpdate`, `CallersFinish` |
| `ticket_transaction` | 2 processes, 2 files, 2 calls that change files and any number that recover, 1 death, cancellation at any time | 501,292 | `OneTransaction`, `ImplementsAtomicFiles`, `InterruptedIsUndone` |
| `ticket_scheduler` | 3 tickets, one dependent, 3 failures and the default one, limits 2 and 3, 3 troubles | 1,105,833 | `DoneNeedsDependencies`, `AttemptsAreAuthorized`, `ReleaseSeesNoQueuedTicket`, `CancelledStaysInactive`, `SessionEnds` |
| `cancellation_recovery` | 2 children, 1 canceller, 1 kill | 309,902 | `NothingForgotten`, `CancellationCompletes` |
| `owner_recovery` | 3 supervisors, 2 events, 2 rollovers of a detached session or 1 of a tmux session | 803,181 | `RolloverOwned`, `LiveOwnerStays` |
| `worker_process` | 2 calls, 1 crash of the controller, any broker hang or kill | 60,042 | `TreeIsRecorded`, `SuccessLeavesNothing`, `ForeignUntouched`, `CallReturns` |
| `worker_attempt` | 3 changes, 2 of them in scope, 2 attempts, 1 interruption, 1 commit of a worker, 1 of another, 1 change after the verdict | 8,210,882 | `AttemptPreserved`, `RejectedLeavesNothing`, `DoneIsDelivered` |
| `microverse_loop` | 2 experiments, target 2, failure limit 2, 2 upsets, 1 visit of the operator | 1,595,419 | `PromotionRecorded`, `LedgerAgrees`, `RejectedEvidenceKept`, `AttemptSettles` |
| `pipeline_phases` | 2 tickets, one dependent, 1 catalog strategy, 2 mechanisms, 1 criterion, 2 commits, 2 candidates, 1 check strategy, 2 environments, 1 upset | 1,436,800 | `CompletedMeansReviewed`, `RefusedHeadStaysRefused`, `RefusalsFirst`, `VerdictKept`, `RefusalWorkedOff` |

Why the bounds are enough to be interesting:

- Two lanes and two requests give every pairing of source, target and interloper
  for one handoff and a second one right after it. Six events cover a grant, a
  checkpoint, a request, a loss of ownership and a return; the endgame is
  unbounded. `lease_alone` removes the operation lock because the lease has to
  hold by itself: recovered supervisors and the handoff's two runtimes meet there.
- Two contracts and two commands give a launch and an approval, two launches, or
  two approvals of different contracts; kills are not bounded there.
- In `state_file` a death may be at any step, so every crash point meets every
  interleaving of the survivors, and two writers are enough for every way to rob a live
  owner: between two looks, after a judgement, and by a late release.
- In `ticket_transaction` a death in the mutation, the rollback or the recovery is
  followed by every behaviour of the survivor, whose undo may fail and be repeated.
  Two calls that change files and any number of recoveries are enough for a stolen lock
  and two transactions that run into one another.
- In `ticket_scheduler` the environment strikes three times (`TroubleBound`), each
  time with any failure, kill, crossed budget, failing repair or refusal of the
  gate. Two equal failures exhaust a lineage and open the circuit, three exhaust
  the ticket, and a kill still fits between an exhausted lineage and its epoch. A
  dependent pair and an independent ticket give yielding, waiting and the reopening
  of a dependent. The code's limits (`MAX_ADAPTIVE_TICKET_FAILURES` and the configured
  thresholds) are larger, and the proofs hold for any.
- In `cancellation_recovery` one kill may take canceller, controller, daemon or
  watchdog at any step; two at once leave nobody, which the property excepts.
- In `owner_recovery` two events give a failed restoration followed by the death of
  the replacement, or a stale plan beside a kill. Three supervisors are the owner,
  its replacement and one planned beside both. The second rollover is
  one that an orphaned executor schedules while the restoration of the first is claimed;
  both properties are about detached sessions, so a tmux session has only one.
- In `worker_process` a second call meets what the first, or a dead controller, left.
- In `worker_attempt` two attempts give a rejected candidate and its restoration or a
  completed successor; the interruption falls into either or into a rollback. Two
  changes in scope tell apart what one attempt kept and the next added; they are
  symmetric. One late change is an approved path overwritten, or another one added in
  or outside the scope, between any two steps after the verdict.
- In `microverse_loop` two upsets give a kill in the recovery from a kill; two
  experiments give a promotion after a promotion, a rejection after either, and a
  restored best. A candidate without a diff meets both, and each kill.
- In `pipeline_phases` one upset is enough for every window between two files, since
  the repairs themselves do not count as upsets: each may be needed, fail and go on.
  Two commits tell the refused one from its repair. A start in another environment counts
  as an upset: two environments are one change, which reruns checks and review of a commit
  that was refused or approved before. Two mechanisms are a plain one and
  the sharded one.

Deadlock is checked where the system never stops (`prd_seal_control`) and in
`pipeline_phases`, whose only end is a settled pipeline (`Done`). Pipelines end, writers
finish and the last process may die, so the others say `CHECK_DEADLOCK FALSE`.

### Fairness

- A live process takes its next step (`WF` on the steps of a runner, supervisor,
  command, writer, controller, broker, daemon or watchdog). Nothing forces a failure,
  a kill, a checkpoint, a revision or an operator's handoff. The operator is only
  expected to seal the PRD and to approve a revision that is asked for.
- A run of the ticket loop ends (`SF` on `EndRun` with success or cancellation):
  runs are bounded by time and iterations, and a supervisor repeats them. This is
  the assumption about everything the model leaves inside "the ticket loop".
- `Calm` in `LogicalPipeline`: at some point the host stops killing. Without it a
  pipeline can be killed for ever.
- A caller of a ticket transaction that comes back for ever also gets to create the lock
  when it is free for ever again (`SF` on `CreateLock` in `TicketTransaction`). In
  `StateFile` weak fairness of a caller's steps is enough.
- `InterruptedIsUndone` assumes that restoring a file does not fail for ever.
- `SessionEnds` assumes that the runner steps (`WF` on `RunnerSteps`, which includes
  the restart by the supervisor) and that a cancellation is completed once no runner
  is left. Troubles are not fair and end with their bound: a ticket that fails for
  ever is retried for ever, which is what the code wants.
- `OwnerRecovery`: the daemon's claim is strongly fair (`SF` on `Claim`): its delay
  passes, but other commands may rewrite the intent in between. A worker ends.
- `MonitoredProcess`: `close` comes once the pipes are closed, which a descendant may
  delay; the broker's steps are fair unless it hangs. Time passes by the timers
  (`fallback`), which are steps of the controller.
- `MicroverseLoop`: a stopped session is resumed (`WF` on `Start`).
- `PipelinePhases`: the controller steps, which includes its restart, and a
  cancellation that was asked for reaps and settles.

## 4. What is proved

All for any values of the constants, by TLAPS.

- `LogicalPipelineProofs`. `TypeCorrect`. `WritesAreFenced` proves `FencedWrites`
  for any number of lanes, with or without the operation lock. The property alone
  is not inductive: `FenceInv` adds that the generation of a lease is the newest,
  that no journaled generation exceeds it, and that no end event carries the
  generation still in force.
  The operations are first reduced to a handful of effects on journal and lease
  (`JournalStep`), and the invariant is preserved by each effect.
  `LeaseNeverStolen` proves `NoLeaseTheft` from the same invariant.
  `RevisionsAdmitOneTarget` proves `RevisionAdmitsOneTarget`. It needs `AloneInside`, one
  runner at a time is inside the operation lock, and `RevisionWaits`: while a revision
  waits for its approval the control state says so, and as long as a start that had read
  it before stands at its acceptance, nobody has owned the lease nor asked for a handoff
  since, so what is accepted was asked for earlier. Every step only adds to the journal,
  quietly, with a seal, a revision or a grant (`JournalMoves`), and each of the four keeps
  the invariant.
  `OwnershipIsFenced` is the refinement of `FencedOwnership`: the history of grants,
  uses and ends is read off the journal, and `RefInv` adds that at most one handoff is
  pending, that only a requested one was settled and that a lease names its owner.
  `FileStaysValid` proves `FileValid`: the journal starts with its creation, nothing
  follows the end, and its replay is the persisted projection. The replay is a recursive
  function, and nothing here unfolds it by induction; instead `ReplayInv` says that some
  function satisfies the replay's equation on the journal so far and that every such
  function ends in the projection. Appending events extends the function by their points,
  one operation at a time (`YieldsAppend`, `StepReplays`).
  `SupervisorsSurvive` proves `OnlyOverdueHandoffKills`: an ended pipeline with an overdue
  handoff is the only thing the decision of a supervisor throws on. No run repeats it.
- `OperatorCommandProofs`, about the two commands by which an operator steers a session.
  `ExecutionSealed` and `SealStands` (`PrdSealControl`): the invariant `FilesAgree` says
  what each step of a command may rely on although it read the journal earlier: a seal
  once written equals its contract until a revision, and only the holder of the
  journal's lock sees the two files differ. `NothingIsForgotten` (`CancellationRecovery`)
  proves `NothingForgotten` for any number of children, cancellers and kills, through
  `LiveOnLedger`: whoever clears or replaces the ledger has seen that everything on it is
  gone, so a live child is on the ledger itself and the intent is a second record of it.
- `DurabilityProofs`, about what nobody takes away again: the updates of a state file
  (`StateFile`) and the changes of an attempt (`WorkerAttempt`).

  For any number of writers, readers and deaths and any stale threshold. `LockExcludes`
  (`MutualExclusion`): of two writers inside one was robbed of its lock. It needs only that
  the lock file is its holder's unless that was robbed (`LockIsHolders`), which is kept
  whatever happens. `UpdatesSurvive` (`NoLostUpdate`): until a robbery no returned update is
  lost. Its invariant (`Safe`) says that one temporary file exists at most and has every
  update that returned (`OneTmp`), and so has what a holder carries from its read to its
  rename, although a reader may change the file in between (`CarriesReturned`).

  `NothingMadeIsLost`, `RejectionIsClean` and `DoneMeansDelivered`, for any changes, scope
  and number of attempts, interruptions and commits. One
  invariant, `IInv`, says what each position of an attempt may rely on: the work tree only
  grows from the boundary to the gate; from then on the gate's tree, but for the later
  changes, is the work tree, the one the journal calls verified and in a detached session
  the commit; everything the attempt made is anchored before the rollback removes it; and an attempt that is neither interrupted nor left for recovery began at the
  accepted repository. It needs of types only that histories are sequences of
  commits (`RepoTypes`).
- `TicketTransactionProofs`. `OneTransactionAtATime` and `TransactionsAreAtomic`:
  for any number of processes, files and deaths, the module refines `AtomicFiles`,
  which promises atomic changes until calls overlap. The invariant has a part that is
  kept whoever is inside (`Kept`) and one that is kept until a live owner is robbed of
  its lock (`Exclusive`). The refinement maps a file to the content the next caller
  will find: the ledger's entry if there is one, the file otherwise. The invariant
  says that the lock is its holder's, that entries of an active ledger cover every
  file that was touched, and that a file restored or not yet touched already has
  its ledger content. Commit is the only step that changes the mapped files.
- `TicketSchedulerProofs`. `TypeCorrect`, `CancelledStays` and `AttemptsCorrect`, for any
  tickets, dependencies, failures, limits and number of troubles. The type
  invariant needs that an inactive session says why and that a recovery epoch
  between a failure and its verdict keeps the failure. `AttemptsAreAuthorized` needs
  that an authorization empties the window and that nothing is journaled between
  the reset of the breaker and the attempt. `DependenciesHold` and `GateSeesAll`
  (`DoneNeedsDependencies`, `ReleaseSeesNoQueuedTicket`) share the invariant `Dispatch`; the
  former excepts the owner of a failed check until it is Done again (`rechecked`): a
  queued ticket is on the runner's list or in its hands, the ticket in hand has its
  dependencies, and a remediation that is half applied still names what it has not
  reopened. Two theorems bound what the code gets wrong (section 5).
  `CompletionNeedsCleanStarts`: `CompletedMeansDone` holds as long as no run starts with a
  ticket that an earlier one left Blocked (`NoneLeftBlocked`); `BlockedHeld` says that what
  a runner parks itself stays on its list. `RolloversAreConsumed`: `RolloverConsumedFirst`
  holds when no failure is reported under its own kind (`NoContractFailures`), since an
  intent then waits in an active session for the next run (`IntentWaits`).
- `PipelinePhasesProofs`, for any number of commits, kills, repairs and reviews.
  `RefusalsComeFirst` (`RefusalsFirst`) knows the places where a refusal may be outstanding
  and that every way out of them settles it. `RefusalsStand`
  (`RefusedHeadStaysRefused`) needs that what refused a commit, its checks and an accepted
  review with findings, is still on disk whenever a later run may judge it
  (`RefusedInv`); `refused` lets go of a commit where the code judges it anew, with a changed
  verifier, a revised PRD, checks run in another environment or a refusal that cannot be
  read again. It also needs what each step of a citadel run finds on disk (`RunInv`).
  `CompletedIsReviewed` (`CompletedMeansReviewed`) needs that no step touches the evidence
  while the citadel phase is done but a commit of the user, after which the approval is of
  another commit (`CompletedInv`). `VerdictsAreKept` (`VerdictKept`) needs that a repair of
  the contract which is not projected into the review yet never meets a judged candidate
  (`JournalInv`, `VerdictInv`); it excepts an error with the candidate itself
  (`CandidateLost`), which is possible before the report is written and never afterwards.
  `ReleaseNeedsReset`: `ReleasedMeansDone` (section 5) holds as
  long as no run inherits tickets reopened beside finished phases without an intent that
  has them reset (`StartsReset`); every other way to reopen a ticket closes that gap before
  the citadel is asked (`GapInv`).
- `SupervisionProofs`, about the processes of a session (`MonitoredProcess`) and the
  supervisor that runs them (`OwnerRecovery`). `TypeCorrect`; `TreesAreRecorded`
  (`TreeIsRecorded`): a launch or release that is still in the pipe to the broker was
  preceded by its record
  (`RecordInv`); `SuccessIsDrained` (`SuccessLeavesNothing`): a broker that has sent its
  acknowledgement discovers nothing more, and the controller that heard it has stored what
  was attested (`ReportInv`); `GroupsAreAttested` (`ForeignUntouched`): a number is taken
  only when nobody is left in the group, and every signal is preceded by the look that
  attests a member.

  `OneOwnerAtATime`, `RecoveryTyped` and `OwnersAreKept` (`LiveOwnerStays`), for any number of
  supervisors, rollovers and failures. The property speaks of a step; what makes it hold is
  `OwnerInv`, as long as no restoration was planned beside a live supervisor or in place of
  a live restorer's claim (`stale`): a pending or failed restoration means that no
  supervisor lives, a claim that is being served has a live restorer and no supervisor
  beside it, and a replacement that lives holds the claim it was spawned for or has settled
  it. The plan after a loss, which looks at the recorded owner only, never happens in a
  detached session (`NoLossInProcess`).
- `MicroverseLoopProofs`, for any number of experiments, kills, exceptions and operator
  visits. `PromotionIsRecorded` (`PromotionRecorded`), `LedgersAgree` (`LedgerAgrees`),
  `EvidenceIsKept` (`RejectedEvidenceKept`) and `ShapeKept`. Files written one after the
  other agree only relative to how far an attempt has come, so the invariant has three
  layers. `DurableInv` speaks of the files alone: between attempts everything agrees
  (`ClosedInv`); an attempt without an outcome can be undone, because its transaction still
  has the metric state from before, or completed, because it has the one from after
  (`UndecidedInv`); one with an outcome is at most one count behind (`DecidedInv`); and
  only the open attempt may be in the checkout without being accepted (`OpenInv`). What is promoted is in the checkout unless its archive is empty
  (`Landed`, `DeliveredInv`), which is why the archive must be the candidate's work from the
  measurement to the promotion. A kill
  changes none of that, so recovery starts from it. `PlacesInv` adds what each position of
  the process relies on: that a metric file is written back before the transaction is
  cleared, that an exit that was not deferred finds no promotion on record. `EvidenceInv`
  says between which positions the archive is the work that is measured. That experiments
  end in their order (`Ordered`) makes the last accepted one the best.

Only model-checked: liveness (`NeverStuck`, `SealedPrdBegins`, `CallersFinish`,
`InterruptedIsUndone`, `SessionEnds`, `CancellationCompletes`, `RolloverOwned`,
`CallReturns`, `AttemptSettles`, `RefusalWorkedOff`): TLAPS has no rules for fairness here.
Every invariant and every action property of a run is a theorem, some of them under a
proviso that is named with it.

## 5. Where the code falls short of what it says

These are stated as definitions beside the properties and are violated by what the code
does; TLC finds a counterexample when one is checked in place of a property of the
module's run (`ReleasedMeansDone` with `MaxUpsets = 2`, `LiveOwnerKeepsLock` as noted there).
No run keeps them, so that the suite stays green.

| Definition | Module | What happens |
|---|---|---|
| `TerminalStopsSupervisor` | `LogicalPipeline` | A supervisor dies on an ended pipeline whose handoff request is overdue (`bin/supervised-runner.ts:104`, before the terminal check at 108). `SupervisorsSurvive` proves that it dies of nothing else. |
| `LeaseOnlyInAutonomy` | `LogicalPipeline` | A launcher revises the PRD without the operation lock between the start and the acceptance of a handoff target (`services/session-prd-seal.ts:243`, `services/durable-supervisor.ts:775`): the target holds a lease and executes while the pipeline waits for its PRD. |
| `ApprovedRevisionResumes` | `PrdSealControl` | An approval killed between the seal and the journal cannot be repeated (`services/session-prd-seal.ts:258`). |
| `LeaseNeedsAutonomy` | `PrdSealControl` | A revision requested between the target's check and its acceptance of a handoff leaves a lease on a pipeline that is not in autonomous execution (`services/durable-supervisor.ts:775`). |
| `IntentSurvives` | `TicketTransaction` | Undoing a transaction over `state.json` drops the cancellation's recovery intent (`services/ticket-transaction.ts:158`). |
| `LiveOwnerKeepsStateLock` | `StateFile` | A contender that found a lock without its payload, or none, and reads it once more takes the payload written meanwhile for garbage and removes the lock of a live owner (`services/state-manager.ts:242-246`). |
| `FileOnlyGrows` | `StateFile` | A writer that parsed the file before a reader promoted a dead writer's temporary file, and lost the race for it, writes on top of what it parsed: the recovered update is gone again (`services/recoverable-json.ts:155`, `:160`). |
| `LiveOwnerKeepsLock` | `TicketTransaction` | A ticket lock released between the failed creation and the read is taken for an abandoned one, and its successor is removed (`services/ticket-transaction.ts:117`): two processes with repeated calls are enough to be inside together. |
| `DoneStandsOnDone` | `TicketScheduler` | When a deterministic check fails at the gate, its owner is reopened by itself: tickets that depend on it stay Done while it is done again (`services/citadel-deterministic-recovery.ts:182` and `:357`). |
| `CompletedMeansDone` | `TicketScheduler` | A ticket parked Blocked by a runner that then dies, rolls over or exits is not pending for the next runner, and the pipeline completes without it (`bin/mux-runner.ts:371`). `CompletionNeedsCleanStarts` proves that there is no other way. |
| `RolloverConsumedFirst` | `TicketScheduler` | A rollover decided for a contract failure is reported as the contract failure: its intent is never consumed, and the next crossed budget runs into the assertion against a second one (`bin/mux-runner.ts:924`). `RolloversAreConsumed` proves it for all other failures. |
| `GuardedUntilComplete` | `CancellationRecovery` | A canceller that gave up reopens the completed intent (`bin/cancel.ts:358-364`) while the daemon is about to end, which counts as running, and the watchdog is gone (`services/autonomous-owner-recovery.ts:1219` says that they re-ensure each other until it is complete). |
| `BoundaryKept` | `WorkerAttempt` | The dirt of a crashed attempt is refused as pre-existing (`bin/spawn-morty.ts:1187`), and parking the ticket clears its boundary (1744): there is nothing left to reconstruct the workspace from. |
| `CandidateRestores` | `WorkerAttempt` | A candidate that was rejected for a change outside the scope is preserved as it is, and the scope check of its restoration (`bin/spawn-morty.ts:1268`) rejects the next attempt before it begins. |
| `StampDelivered` | `WorkerAttempt` | The completion commit stays on the ticket when its attempt is rolled back; the next attempt may be accepted with it although it is not in the history (the comment at `bin/spawn-morty.ts:1655` excludes that). |
| `DoneIsApproved` | `WorkerAttempt` | Between the gate's verdict and Done, hooks of the completion commit and users change the repository and nothing compares it with the gate's tree again: what they change is accepted with the ticket, though only the fenced delta is meant to be (`bin/spawn-morty.ts:501-503`). `DoneMeansDelivered` bounds the difference. |
| `AcceptedIsLive` | `MicroverseLoop` | A better score on commits that leave the tree as it was counts as a change (`bin/loop-runner.ts:1139`), its promotion returns before the fast-forward (`:838`), and the ledger accepts an experiment that is not in the checkout's history. |
| `PromotionSettles` | `MicroverseLoop` | The same promotion, killed before its outcome: recovery looks for the commit in the history and throws on every start, on a checkout nobody touched (`bin/loop-runner.ts:933-934`). |
| `EvidenceOutlivesClone` | `MicroverseLoop` | Recovery refs of a candidate are refs of its clone, which is deleted next (`services/git-utils.ts` `recoverableHardReset`; `README.md:228`). |
| `QuarantineKeepsCandidate` | `MicroverseLoop` | A kill between the deletion of the clone and the removal of the transaction quarantines a transaction without its candidate, for good (`bin/loop-runner.ts:909`). |
| `ReleasedMeansDone` | `PipelinePhases` | A kill between the reopening of the owner of a failing check and the reset of the phases lets the citadel approve with a ticket still to do (`services/citadel-deterministic-recovery.ts`). `ReleaseNeedsReset` proves that there is no other way. |
| `RefusalIsFinal` | `PipelinePhases` | A restart in another environment (`services/autonomous-owner-recovery.ts:1054` opens a new tmux session) invalidates the checks (`services/citadel.ts:1359-1391`, `:1929`), and with them the review: the commit that was refused is judged anew. |
| `VerdictKeptAfterRepair` | `PipelinePhases` | A block that was repaired is still on disk when a run is killed before the report; the next start repairs again, discards the verdict and uses up a mechanism (`services/citadel-reviewer-recovery.ts:1328`). |
| `ContractRepairable` | `PipelinePhases` | A journal resolved for an earlier review makes every later block of the reviewer's contract throw at startup. |

Smaller observations from the same reading, without a definition of their own: a
broker killed alone while its target holds the pipes delays `close` without a bound,
because the termination of the call is only asked of a child that runs
(`services/codex.ts:426-439`); a descendant in a group of its own that was never observed
escapes; a restoration claimed by a daemon that dies after its supervisor lost its runner
is not planned again (`services/autonomous-owner-recovery.ts:331`); a replacement that has
registered as the owner is reaped when an orphaned executor scheduled the next rollover
meanwhile and another command planned its restoration over the claim
(`services/session.ts:945`, `services/autonomous-owner-recovery.ts:1014`), after which the
daemon starts another; the promotion of an
experiment over which the operator commits afterwards is deferred, or throws, on every
restart (`bin/loop-runner.ts:933`); an error after the reviewer's
candidate was validated, or on resuming with one, rejects it and asks the model again
(`services/citadel.ts:3347-3353`, `:3168-3180`); resetting the phases erases `last_exit_reason`
`cancelled`; the repair of dependency contracts outside the loop binds no input hashes
and may meet `recovery-strategy-not-novel` (`bin/mux-runner.ts:1155`).

## 6. Not modelled, and the plan

Not modelled, with the reason:

- Legacy adoption, and the attestation of live-session migrations: one-way migrations
  of older releases over material the modules do not have.
- The handoff transactions of the recovery daemon
  (`services/autonomous-owner-recovery.ts:1251-1585`): the next candidate for
  `OwnerRecovery`, which is already at the size a run can bear.
- The telemetry journal, budgets in tokens and time, progress snapshots, breaker
  counters: accounting that the models take as a choice.
- `StateManager.transaction`: undo in memory, hence not atomic under a kill; its
  callers are covered where a kill between their files matters (`PipelinePhases`).
- Qualitative loops (goal, szechuan-sauce, anatomy-park), hypothesis families, metric
  timeouts, transactions of schema 1.
- The processes inside verification gates and refinement: their outcome is a choice.
- In `PipelinePhases`: details of deterministic narrowing, journals of earlier schemas,
  drift quarantine, tampered artifacts. In `WorkerAttempt`: a stale worker's rollback beside a
  replacement, history rewriting, scope expansion, the index. In `CancellationRecovery`: two
  concurrent cancellers and tmux sessions.
- Formatting, prompts, command lines, metrics and status output, tmux and git
  themselves, hashing (a content stands for its hash).

What is left to prove is out of reach of the provers here (section 4). A new property or
run has to displace one that says less, to keep the suite short enough to be run on every
change.
