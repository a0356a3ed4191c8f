--------------------------- MODULE LogicalPipeline ---------------------------
(***************************************************************************)
(* The durable control plane of one session: the journal and projection in *)
(* logical-pipeline.json (durable-supervisor.ts), the runner that owns the *)
(* supervisor lease (durable-runtime.ts inside mux-runner.ts), the         *)
(* supervisor that restarts runners (supervised-runner.ts) and the         *)
(* operator's blue-green handoff (runtime-handoff.ts).                     *)
(*                                                                         *)
(* Every operation on the file runs under its lock (mutate), so it is one  *)
(* action here; the code between two operations is where processes         *)
(* interleave.  Abstractions:                                              *)
(*   - a lease's token is a UUID drawn with its generation, so the pair    *)
(*     (owner, generation) stands for (owner_id, token);                   *)
(*   - the clock is two flags: leaseExpired says that the current lease's  *)
(*     expires_at has passed, handoffOverdue that the pending request is   *)
(*     older than the abort timeout;                                       *)
(*   - a lane is a place a supervisor and its one runner child live in; a  *)
(*     lane's runners are distinct incarnations, told apart by held.       *)
(***************************************************************************)
EXTENDS Integers, Sequences, FiniteSets

CONSTANTS
  Lanes,               \* supervisors, each with its current runner process
  NoLane,              \* owner of no lease
  FirstLane,           \* the lane the session was launched in
  Requests,            \* handoff request ids
  NoRequest,
  Receipts,            \* receipt_id values of phase checkpoints
  Payloads,            \* checkpoint contents the receipts may carry
  NoItem,
  ExclusiveOperation,  \* TRUE: runners take .session-operation.lock first
  MaxEvents            \* bound: the environment interferes only while the
                       \* journal is shorter than this

ASSUME LaneAssumption ==
  /\ FirstLane \in Lanes
  /\ NoLane \notin Lanes
ASSUME RequestAssumption ==
  NoRequest \notin Requests \cup (Receipts \X Payloads) \cup {NoItem}
ASSUME BoundAssumption ==
  /\ ExclusiveOperation \in BOOLEAN
  /\ MaxEvents \in Nat

VARIABLES
  control,         \* control_state
  terminal,        \* terminal_state, "none" for null
  lease,           \* lease, NoLease for null
  leaseGeneration, \* lease_generation
  restarts,        \* executor_restart_count
  events,          \* events
  leaseExpired,    \* expires_at <= now for the current lease
  handoffOverdue,  \* now - occurred_at >= timeoutMs for the pending request
  pc,              \* [Lanes -> where the lane's runner stands]
  held,            \* [Lanes -> generation of activeLease, 0 before one]
  exitReason,      \* [Lanes -> exitReason passed to finish, "killed" after a kill]
  supervisor,      \* [Lanes -> where the lane's supervisor stands]
  accepting,       \* [Lanes -> --handoff-request of the supervisor]
  operator         \* the runtime-handoff.ts process

file     == <<control, terminal, lease, leaseGeneration, restarts, events>>
clock    == <<leaseExpired, handoffOverdue>>
runners  == <<pc, held, exitReason>>
deciders == <<supervisor, accepting>>
vars     == <<file, clock, runners, deciders, operator>>

Controls  == {"prd_development", "autonomous_execution", "prd_revision_required"}
Terminals == {"none", "completed", "cancelled"}
Kinds == {"pipeline_created", "prd_sealed", "prd_revision_requested",
          "lease_acquired", "lease_recovered", "lease_renewed", "lease_released",
          "executor_lost", "checkpoint_recorded", "runtime_handoff_requested",
          "runtime_handoff_aborted", "runtime_handoff_released",
          "runtime_handoff_completed", "pipeline_completed", "pipeline_cancelled"}
GrantKinds    == {"lease_acquired", "lease_recovered", "runtime_handoff_completed"}
SettledKinds  == {"runtime_handoff_completed", "runtime_handoff_aborted"}
TerminalKinds == {"pipeline_completed", "pipeline_cancelled"}
\* The kinds whose replay leaves no lease, and executor_lost, which precedes one
\* of them or a grant to another owner.
EndKinds == {"prd_revision_requested", "lease_released", "executor_lost",
             "runtime_handoff_aborted", "runtime_handoff_released"} \cup TerminalKinds

\* The kinds an owner writes under its fence.
WriteKinds == {"checkpoint_recorded", "lease_renewed", "runtime_handoff_requested",
               "lease_released"}

NoLease == [owner |-> NoLane, generation |-> 0]
Items   == Requests \cup (Receipts \X Payloads) \cup {NoItem}

\* A journal event: its kind, the lease owner and generation of its details (the
\* current generation where the details name none) and the request id or
\* checkpoint it carries.
Ev(kind, owner, generation, item) ==
  [kind |-> kind, owner |-> owner, generation |-> generation, item |-> item]

RunnerPCs == {"idle", "start", "accept", "acquire", "watchdog", "run", "owned",
              "finish", "commit"}
Reasons   == {"none", "killed", "success", "cancelled", "runtime_handoff",
              "prd_revision_required", "other"}

-----------------------------------------------------------------------------
(* What the operations read                                                *)

Leased    == lease # NoLease
LeaseLive == Leased /\ ~leaseExpired
Owns(l)   == lease.owner = l /\ lease.generation = held[l] /\ Leased

\* The runner holds .session-operation.lock.
Inside(l) == pc[l] \notin {"idle", "start"}

\* executorAlive: the very process the lease names still runs.
OwnerAlive == Leased /\ Inside(lease.owner) /\ Owns(lease.owner)

Journaled(kinds, item) ==
  \E i \in DOMAIN events : events[i].kind \in kinds /\ events[i].item = item

Open(r) == /\ Journaled({"runtime_handoff_requested"}, r)
           /\ ~Journaled(SettledKinds, r)

Pending == {r \in Requests : Open(r)}

Recorded(receipt, payload) ==
  \E i \in DOMAIN events : /\ events[i].kind = "checkpoint_recorded"
                           /\ events[i].item = <<receipt, payload>>

\* MaxEvents leaves room for one more act of the environment.
Room == Len(events) < MaxEvents

-----------------------------------------------------------------------------
(* Updates of the journal: appendEvent refuses a terminal pipeline.        *)

Append1(e) == terminal = "none" /\ events' = Append(events, e)

Lost == Ev("executor_lost", lease.owner, lease.generation, NoItem)

\* Fault: the loss is counted but not journaled.
LoseOwnerSilently == <<>>

\* Takes the lease from an owner that lost it, if there is one.
LoseOwner == IF Leased THEN <<Lost>> ELSE <<>>

Grant(l, kind, item) ==
  /\ terminal = "none"
  /\ leaseGeneration' = leaseGeneration + 1
  /\ lease' = [owner |-> l, generation |-> leaseGeneration + 1]
  /\ events' = events \o LoseOwner
                 \o <<Ev(kind, l, leaseGeneration + 1, item)>>
  /\ restarts' = IF Leased THEN restarts + 1 ELSE restarts
  /\ leaseExpired' = FALSE
  /\ held' = [held EXCEPT ![l] = leaseGeneration + 1]
  /\ pc' = [pc EXCEPT ![l] = "run"]
  /\ UNCHANGED <<control, terminal, handoffOverdue, exitReason>>

DropLease == lease' = NoLease /\ leaseExpired' = FALSE

-----------------------------------------------------------------------------
(* The runner process: mux-runner's runSequential around                   *)
(* startDurableRuntimeOwnership.                                           *)

\* The process ends, orderly: the operation lock is released, memory is gone.
Exit(l) ==
  /\ pc' = [pc EXCEPT ![l] = "idle"]
  /\ held' = [held EXCEPT ![l] = 0]
  /\ exitReason' = [exitReason EXCEPT ![l] = "none"]

Goto(l, place) ==
  /\ pc' = [pc EXCEPT ![l] = place]
  /\ UNCHANGED <<held, exitReason>>

Leave(l, reason) ==
  /\ pc' = [pc EXCEPT ![l] = "finish"]
  /\ exitReason' = [exitReason EXCEPT ![l] = reason]
  /\ UNCHANGED held

\* acquireSessionOperation: refused while another live process holds the lock; a
\* dead holder's lock is stolen at once (staleLockThresholdMs 0).
OperationFree(l) == ExclusiveOperation => \A m \in Lanes \ {l} : ~Inside(m)

\* The first read of the journal picks the way to the lease.
Route(l) ==
  IF Leased THEN "watchdog"
  ELSE IF accepting[l] # NoRequest THEN "accept" ELSE "acquire"

\* runSequential takes the operation lock and startDurableRuntimeOwnership reads
\* the journal; either may refuse the start.
StartRun(l) ==
  /\ pc[l] = "start"
  /\ IF OperationFree(l) /\ control = "autonomous_execution" /\ terminal = "none"
       THEN Goto(l, Route(l))
       ELSE Exit(l)
  /\ UNCHANGED <<file, clock, deciders, operator>>

\* Fault: the reservation for the handoff target is not consulted.
MayAcquireIgnoringHandoff == /\ control = "autonomous_execution"
                             /\ terminal = "none"
                             /\ ~LeaseLive

\* Fault: the control state is left to the first read.
MayAcquireByFirstRead == terminal = "none" /\ Pending = {} /\ ~LeaseLive

MayAcquire == /\ control = "autonomous_execution"
              /\ terminal = "none"
              /\ Pending = {}
              /\ ~LeaseLive

\* acquireSupervisorLease
Acquire(l) ==
  /\ pc[l] = "acquire"
  /\ IF MayAcquire
       THEN Grant(l, IF leaseGeneration = 0 THEN "lease_acquired" ELSE "lease_recovered",
                  NoItem)
       ELSE Exit(l) /\ UNCHANGED <<file, clock>>
  /\ UNCHANGED <<deciders, operator>>

\* Fault: any lease the first read saw is taken over.
MayRecoverAnyOwner == /\ control = "autonomous_execution"
                      /\ terminal = "none"
                      /\ Pending = {}

MayRecover == /\ control = "autonomous_execution"
              /\ terminal = "none"
              /\ Pending = {}
              /\ ~(LeaseLive /\ OwnerAlive)

\* watchdogRecoverSupervisor; a healthy owner makes startDurableRuntimeOwnership
\* throw.
Watchdog(l) ==
  /\ pc[l] = "watchdog"
  /\ IF MayRecover
       THEN Grant(l, "lease_recovered", NoItem)
       ELSE Exit(l) /\ UNCHANGED <<file, clock>>
  /\ UNCHANGED <<deciders, operator>>

MayAccept(r) == terminal = "none" /\ Open(r) /\ ~LeaseLive

\* acceptRuntimeHandoff
Accept(l) ==
  /\ pc[l] = "accept"
  /\ IF MayAccept(accepting[l])
       THEN Grant(l, "runtime_handoff_completed", accepting[l])
       ELSE Exit(l) /\ UNCHANGED <<file, clock>>
  /\ UNCHANGED <<deciders, operator>>

\* Fault: the fence trusts the lease the runner remembers.
FencedByMemory(l) == held[l] > 0

\* assertLeaseFence and the renewal guard.
Fenced(l) == Owns(l) /\ ~leaseExpired

\* The renewal timer: renewSupervisorLease.  A renewal refused by the fence sets
\* renewalError, which changes nothing: a lost lease never comes back, so the
\* next assertOwned drains anyway.  A renewal that fails otherwise drains and
\* makes finish throw: the process ends with its lease, as in CrashRunner.
Renew(l) ==
  /\ pc[l] = "run" /\ Room /\ Fenced(l)
  /\ Append1(Ev("lease_renewed", l, held[l], NoItem))
  /\ UNCHANGED <<control, terminal, lease, leaseGeneration, restarts, clock, runners,
                 deciders, operator>>

\* assertOwned: a runner that lost ownership drains (DurableOwnershipDrainError).
AssertOwned(l) ==
  /\ pc[l] = "run"
  /\ IF Fenced(l)
       THEN Goto(l, "owned")
       ELSE Leave(l, "runtime_handoff")
  /\ UNCHANGED <<file, clock, deciders, operator>>

\* Every payload journaled under this receipt is the incoming one.
ReplaysExactly(receipt, payload) ==
  \A q \in Payloads : Recorded(receipt, q) => q = payload

ReceiptKnown(receipt) == \E q \in Payloads : Recorded(receipt, q)

\* recordSupervisorCheckpoint: fenced again under the lock; a receipt journaled
\* before is a no-op when it carries the same payload and an integrity error else.
RecordCheckpoint(l, receipt, payload) ==
  /\ pc[l] = "owned"
  /\ ReplaysExactly(receipt, payload) \/ Room
  /\ IF Fenced(l) /\ (ReceiptKnown(receipt) => ReplaysExactly(receipt, payload))
       THEN Goto(l, "run")
       ELSE Leave(l, "other")
  /\ IF Fenced(l) /\ ~ReceiptKnown(receipt)
       THEN Room /\ Append1(Ev("checkpoint_recorded", l, held[l], <<receipt, payload>>))
       ELSE UNCHANGED events
  /\ UNCHANGED <<control, terminal, lease, leaseGeneration, restarts, clock,
                 deciders, operator>>

\* The run ends after its last ownership check: the tickets and Citadel are done,
\* the session was cancelled, or a limit, refusal or error stops this executor.
EndRun(l, reason) ==
  /\ pc[l] = "owned"
  /\ reason \in {"success", "cancelled", "other"}
  /\ reason = "other" => Room
  /\ Leave(l, reason)
  /\ UNCHANGED <<file, clock, deciders, operator>>

\* requestPrdRevision reads no lease: it checks the control state only, and takes
\* whatever lease there is.
MayRevise == control = "autonomous_execution" /\ terminal = "none"

Revise == /\ control' = "prd_revision_required"
          /\ DropLease
          /\ Append1(Ev("prd_revision_requested", lease.owner, leaseGeneration, NoItem))
          /\ UNCHANGED <<terminal, leaseGeneration, restarts, handoffOverdue>>

\* A Citadel system block or an exhausted recovery route makes the runner ask for one.
RequestPrdRevision(l) ==
  /\ pc[l] = "owned" /\ Room
  /\ Leave(l, "prd_revision_required")
  /\ IF MayRevise THEN Revise ELSE UNCHANGED <<file, clock>>
  /\ UNCHANGED <<deciders, operator>>

\* finish: nothing to give back under a PRD revision or after a handoff, an
\* ownership check otherwise.  A failed check throws and the process ends.
Finish(l) ==
  /\ pc[l] = "finish"
  /\ IF control # "prd_revision_required" /\ Fenced(l)
       THEN Goto(l, "commit")
       ELSE Exit(l)
  /\ UNCHANGED <<file, clock, deciders, operator>>

\* terminateLogicalPipeline and releaseSupervisorLease compare owner and token
\* and leave the expiry out.  Completion also needs Citadel's approval.
MayEnd(l) == Owns(l) /\ terminal = "none"

Terminate(l, state) ==
  /\ pc[l] = "commit" /\ exitReason[l] \in {"success", "cancelled"}
  /\ state = IF exitReason[l] = "success" THEN "completed" ELSE "cancelled"
  /\ IF MayEnd(l)
       THEN /\ Append1(Ev(IF state = "completed" THEN "pipeline_completed"
                                                 ELSE "pipeline_cancelled",
                          l, leaseGeneration, NoItem))
            /\ terminal' = state
            /\ DropLease
       ELSE UNCHANGED <<terminal, lease, leaseExpired, events>>
  /\ Exit(l)
  /\ UNCHANGED <<control, leaseGeneration, restarts, handoffOverdue, deciders, operator>>

\* assertCitadelReleaseApproval refuses: the runner ends and keeps the lease.
CitadelRefuses(l) ==
  /\ pc[l] = "commit" /\ exitReason[l] = "success" /\ MayEnd(l) /\ Room
  /\ Exit(l)
  /\ UNCHANGED <<file, clock, deciders, operator>>

ReleaseLease(l) ==
  /\ pc[l] = "commit" /\ exitReason[l] \notin {"success", "cancelled"}
  /\ IF MayEnd(l)
       THEN /\ Append1(Ev("lease_released", l, leaseGeneration, NoItem))
            /\ DropLease
       ELSE UNCHANGED <<lease, leaseExpired, events>>
  /\ Exit(l)
  /\ UNCHANGED <<control, terminal, leaseGeneration, restarts, handoffOverdue,
                 deciders, operator>>

\* SIGKILL, power loss: the operation lock names a dead process from now on and
\* the lease, if the runner had it, a dead owner.
CrashRunner(l) ==
  /\ pc[l] # "idle" /\ Room
  /\ pc' = [pc EXCEPT ![l] = "idle"]
  /\ held' = [held EXCEPT ![l] = 0]
  /\ exitReason' = [exitReason EXCEPT ![l] = "killed"]
  /\ UNCHANGED <<file, clock, deciders, operator>>

-----------------------------------------------------------------------------
(* supervised-runner.js: one runner child at a time, a decision between two. *)

Poll(l, place) == supervisor' = [supervisor EXCEPT ![l] = place]

\* A supervisor started for a handoff that is no longer pending: after an
\* acceptance it goes on as the lane's supervisor; after an abort its ownership
\* transaction is rolled back and it stops, or it never began one and goes on.
SettleAccepting(l) ==
  /\ supervisor[l] = "poll" /\ accepting[l] # NoRequest /\ Pending = {}
  /\ accepting' = [accepting EXCEPT ![l] = NoRequest]
  /\ \/ UNCHANGED supervisor
     \/ /\ Journaled({"runtime_handoff_aborted"}, accepting[l])
        /\ Poll(l, "stopped")
  /\ UNCHANGED <<file, clock, runners, operator>>

\* Fault: the abort waits for the lease of a source that is already dead.
MayAbortUnleased == Pending # {} /\ handoffOverdue /\ ~Leased

\* abortExpiredRuntimeHandoff settles an overdue request whose source no longer
\* owns the lease alive.
MayAbort == Pending # {} /\ handoffOverdue /\ ~(LeaseLive /\ OwnerAlive)

Abort(r) ==
  /\ terminal = "none"
  /\ events' = events \o LoseOwner
                 \o <<Ev("runtime_handoff_aborted", NoLane, leaseGeneration, r)>>
  /\ restarts' = IF Leased THEN restarts + 1 ELSE restarts
  /\ DropLease
  /\ UNCHANGED <<control, terminal, leaseGeneration, handoffOverdue>>

\* supervisedRunnerDecision starts with the abort; on a terminal pipeline its
\* appendEvent throws and the supervisor dies.
AbortExpiredHandoff(l) ==
  /\ supervisor[l] = "poll" /\ MayAbort
  /\ IF terminal = "none"
       THEN (\E r \in Pending : Abort(r)) /\ UNCHANGED supervisor
       ELSE UNCHANGED <<file, clock>> /\ Poll(l, "failed")
  /\ UNCHANGED <<runners, accepting, operator>>

\* The rest of the decision: terminal, wait for the handoff, wait for the PRD, or
\* launch.  The budget and cancellation waits only delay the next poll.
Launches(l) == /\ terminal = "none"
               /\ Pending # {} => accepting[l] # NoRequest
               /\ Pending = {} => control # "prd_revision_required"

Decide(l) ==
  /\ supervisor[l] = "poll" /\ ~MayAbort
  /\ accepting[l] # NoRequest => Pending # {}
  /\ \/ /\ terminal # "none"
        /\ Poll(l, "stopped")
        /\ UNCHANGED runners
     \/ /\ Launches(l) /\ pc[l] = "idle"
        /\ Poll(l, "wait")
        /\ pc' = [pc EXCEPT ![l] = "start"]
        /\ exitReason' = [exitReason EXCEPT ![l] = "none"]
        /\ UNCHANGED held
  /\ UNCHANGED <<file, clock, accepting, operator>>

Reap(l) ==
  /\ supervisor[l] = "wait" /\ pc[l] = "idle"
  /\ Poll(l, "poll")
  /\ UNCHANGED <<file, clock, runners, accepting, operator>>

\* The supervisor dies under its child and the owner recovery daemon starts it
\* again: it polls beside the runner it left behind.
CrashSupervisor(l) ==
  /\ supervisor[l] = "wait" /\ pc[l] # "idle" /\ Room
  /\ Poll(l, "poll")
  /\ UNCHANGED <<file, clock, runners, accepting, operator>>

-----------------------------------------------------------------------------
(* Operator commands.                                                      *)

\* beginAutonomousExecution, after the PRD is sealed.
BeginAutonomousExecution ==
  /\ control = "prd_development" /\ Append1(Ev("prd_sealed", NoLane, leaseGeneration, NoItem))
  /\ control' = "autonomous_execution"
  /\ UNCHANGED <<terminal, lease, leaseGeneration, restarts, clock, runners,
                 deciders, operator>>

\* approvePrdRevision (module PrdSealControl has its two writes).
ApprovePrdRevision ==
  /\ control = "prd_revision_required"
  /\ Append1(Ev("prd_sealed", NoLane, leaseGeneration, NoItem))
  /\ control' = "autonomous_execution"
  /\ UNCHANGED <<terminal, lease, leaseGeneration, restarts, clock, runners,
                 deciders, operator>>

\* A launcher that finds another contract than the sealed one (ensureSessionPrdSeal)
\* asks for a revision and fails.  It takes no operation lock; that nothing but the
\* seal was in the journal it read earlier, as in every pipeline once, so a launcher
\* with that view may stand anywhere later.  A refused request changes nothing.
LauncherRevisesPrd ==
  /\ Room /\ MayRevise
  /\ Revise
  /\ UNCHANGED <<runners, deciders, operator>>

\* cancelLogicalPipelineByOperator needs no lease.
CancelByOperator ==
  /\ Append1(Ev("pipeline_cancelled", lease.owner, leaseGeneration, NoItem))
  /\ terminal' = "cancelled"
  /\ DropLease
  /\ UNCHANGED <<control, leaseGeneration, restarts, handoffOverdue, runners,
                 deciders, operator>>

\* runRuntimeHandoff: requestRuntimeHandoff under the source's fence.  (The bound
\* leaves room for a second handoff right after the first.)
RequestHandoff(r) ==
  /\ operator.pc = "idle" /\ Len(events) <= MaxEvents
  /\ Pending = {} /\ ~Journaled({"runtime_handoff_requested"}, r)
  /\ LeaseLive
  /\ Append1(Ev("runtime_handoff_requested", lease.owner, lease.generation, r))
  /\ handoffOverdue' = FALSE
  /\ operator' = [pc |-> "release", request |-> r, generation |-> lease.generation]
  /\ UNCHANGED <<control, terminal, lease, leaseGeneration, restarts, leaseExpired,
                 runners, deciders>>

OperatorIdle == operator' = [pc |-> "idle", request |-> NoRequest, generation |-> 0]

MayReleaseForHandoff ==
  LeaseLive /\ lease.generation = operator.generation /\ Open(operator.request)

\* releaseRuntimeHandoffLease; a failed fence or a settled request throws.
ReleaseForHandoff ==
  /\ operator.pc = "release"
  /\ IF MayReleaseForHandoff
       THEN /\ Append1(Ev("runtime_handoff_released", lease.owner, lease.generation,
                          operator.request))
            /\ DropLease
            /\ operator' = [operator EXCEPT !.pc = "spawn"]
       ELSE UNCHANGED <<events, lease, leaseExpired>> /\ OperatorIdle
  /\ UNCHANGED <<control, terminal, leaseGeneration, restarts, handoffOverdue,
                 runners, deciders>>

\* A rerun of the command finds its request pending and skips both steps.
ResumeHandoff(r) ==
  /\ operator.pc = "idle" /\ r \in Pending
  /\ operator' = [pc |-> "spawn", request |-> r, generation |-> 0]
  /\ UNCHANGED <<file, clock, runners, deciders>>

SpawnTarget(l) ==
  /\ operator.pc = "spawn"
  /\ supervisor[l] \in {"unused", "stopped"}
  /\ Poll(l, "poll")
  /\ accepting' = [accepting EXCEPT ![l] = operator.request]
  /\ OperatorIdle
  /\ UNCHANGED <<file, clock, runners>>

CrashOperator ==
  /\ operator.pc # "idle"
  /\ OperatorIdle
  /\ UNCHANGED <<file, clock, runners, deciders>>

-----------------------------------------------------------------------------
(* The clock.                                                              *)

ExpireLease ==
  /\ Leased /\ ~leaseExpired
  /\ OwnerAlive => Room
  /\ leaseExpired' = TRUE
  /\ UNCHANGED <<file, handoffOverdue, runners, deciders, operator>>

HandoffTimesOut ==
  /\ Pending # {} /\ ~handoffOverdue
  /\ handoffOverdue' = TRUE
  /\ UNCHANGED <<file, leaseExpired, runners, deciders, operator>>

-----------------------------------------------------------------------------
\* createLogicalPipeline; the launcher starts the first lane's supervisor.
Init ==
  /\ control = "prd_development"
  /\ terminal = "none"
  /\ lease = NoLease
  /\ leaseGeneration = 0
  /\ restarts = 0
  /\ events = <<Ev("pipeline_created", NoLane, 0, NoItem)>>
  /\ leaseExpired = FALSE /\ handoffOverdue = FALSE
  /\ pc = [l \in Lanes |-> "idle"]
  /\ held = [l \in Lanes |-> 0]
  /\ exitReason = [l \in Lanes |-> "none"]
  /\ supervisor = [l \in Lanes |-> IF l = FirstLane THEN "poll" ELSE "unused"]
  /\ accepting = [l \in Lanes |-> NoRequest]
  /\ operator = [pc |-> "idle", request |-> NoRequest, generation |-> 0]

RunnerNext(l) ==
  \/ StartRun(l)
  \/ Acquire(l) \/ Watchdog(l) \/ Accept(l)
  \/ Renew(l) \/ AssertOwned(l)
  \/ \E receipt \in Receipts, payload \in Payloads : RecordCheckpoint(l, receipt, payload)
  \/ \E reason \in Reasons : EndRun(l, reason)
  \/ RequestPrdRevision(l)
  \/ Finish(l) \/ CitadelRefuses(l) \/ ReleaseLease(l)
  \/ \E state \in Terminals : Terminate(l, state)
  \/ CrashRunner(l)

SupervisorNext(l) ==
  \/ SettleAccepting(l) \/ AbortExpiredHandoff(l) \/ Decide(l) \/ Reap(l)
  \/ CrashSupervisor(l)

OperatorNext ==
  \/ BeginAutonomousExecution \/ ApprovePrdRevision \/ LauncherRevisesPrd
  \/ CancelByOperator
  \/ \E r \in Requests : RequestHandoff(r) \/ ResumeHandoff(r)
  \/ ReleaseForHandoff \/ CrashOperator
  \/ \E l \in Lanes : SpawnTarget(l)

Next ==
  \/ \E l \in Lanes : RunnerNext(l) \/ SupervisorNext(l)
  \/ OperatorNext
  \/ ExpireLease \/ HandoffTimesOut

Spec == Init /\ [][Next]_vars

\* What the code schedules: a live process takes its next step, a dead process's
\* supervisor polls, launches and reaps, and the clock advances.
\* A run is finite (max_time, max_iterations), so it ends in success,
\* cancellation or, while the environment still interferes, otherwise.
RunnerProgress(l) ==
  \/ StartRun(l)
  \/ Acquire(l) \/ Watchdog(l) \/ Accept(l)
  \/ AssertOwned(l) \/ Finish(l) \/ ReleaseLease(l)
  \/ \E state \in Terminals : Terminate(l, state)

RunEnds(l) == \E reason \in {"success", "cancelled"} : EndRun(l, reason)

SupervisorProgress(l) ==
  SettleAccepting(l) \/ AbortExpiredHandoff(l) \/ Decide(l) \/ Reap(l)

Fairness ==
  /\ \A l \in Lanes : /\ WF_vars(RunnerProgress(l))
                       /\ SF_vars(RunEnds(l))
                       /\ WF_vars(SupervisorProgress(l))
  /\ WF_vars(ExpireLease) /\ WF_vars(HandoffTimesOut)
  /\ WF_vars(BeginAutonomousExecution) /\ WF_vars(ApprovePrdRevision)

Kill == \E l \in Lanes : CrashRunner(l) \/ CrashSupervisor(l)

\* The host stops killing processes at some point; before it, they die anywhere.
Calm == <>[][~Kill]_vars

FairSpec == Spec /\ Fairness /\ Calm

-----------------------------------------------------------------------------
(* Properties                                                              *)

Event == [kind : Kinds, owner : Lanes \cup {NoLane}, generation : Nat, item : Items]

TypeOK ==
  /\ control \in Controls
  /\ terminal \in Terminals
  /\ lease \in [owner : Lanes \cup {NoLane}, generation : Nat]
  /\ leaseGeneration \in Nat
  /\ restarts \in Nat
  /\ events \in Seq(Event)
  /\ leaseExpired \in BOOLEAN
  /\ handoffOverdue \in BOOLEAN
  /\ pc \in [Lanes -> RunnerPCs]
  /\ held \in [Lanes -> Nat]
  /\ exitReason \in [Lanes -> Reasons]
  /\ supervisor \in [Lanes -> {"unused", "poll", "wait", "stopped", "failed"}]
  /\ accepting \in [Lanes -> Requests \cup {NoRequest}]
  /\ operator \in [pc : {"idle", "release", "spawn"},
                   request : Requests \cup {NoRequest}, generation : Nat]

\* replayJournal: one event folded into the projection.
ReplayEvent(p, e) ==
  [control |-> CASE e.kind = "prd_sealed" -> "autonomous_execution"
                 [] e.kind = "prd_revision_requested" -> "prd_revision_required"
                 [] OTHER -> p.control,
   terminal |-> CASE e.kind = "pipeline_completed" -> "completed"
                  [] e.kind = "pipeline_cancelled" -> "cancelled"
                  [] OTHER -> p.terminal,
   lease |-> IF e.kind \in GrantKinds \cup {"lease_renewed"}
               THEN [owner |-> e.owner, generation |-> e.generation]
               ELSE IF e.kind \in EndKinds \ {"executor_lost"} THEN NoLease ELSE p.lease,
   generation |-> IF e.kind \in GrantKinds \cup {"lease_renewed"}
                    THEN e.generation ELSE p.generation,
   restarts |-> IF e.kind = "executor_lost" THEN p.restarts + 1 ELSE p.restarts]

Created == [control |-> "prd_development", terminal |-> "none", lease |-> NoLease,
            generation |-> 0, restarts |-> 0]

Replay(journal) ==
  LET after[n \in 0 .. Len(journal)] ==
        IF n = 0 THEN Created ELSE ReplayEvent(after[n - 1], journal[n])
  IN  after[Len(journal)]

Projection == [control |-> control, terminal |-> terminal, lease |-> lease,
               generation |-> leaseGeneration, restarts |-> restarts]

\* The journal is authoritative, and every operation of every process leaves a file
\* that the next read accepts: it starts with its creation, nothing follows the end,
\* an ended pipeline holds no lease, the lease is of the generation in force, and
\* replaying the journal yields the persisted projection (otherwise
\* validateLogicalPipelineState refuses the file, and the session with it).
FileValid ==
  /\ \A i \in DOMAIN events : events[i].kind = "pipeline_created" <=> i = 1
  /\ \A i \in DOMAIN events :
       events[i].kind \in TerminalKinds <=> terminal # "none" /\ i = Len(events)
  /\ Leased => terminal = "none" /\ lease.generation = leaseGeneration
  /\ Replay(events) = Projection

\* Nothing is written under a lease after that lease ended: no checkpoint and no
\* renewal of a generation follows the event that took the generation away, so a
\* superseded executor never writes over its successor's resume point.
FencedWrites ==
  \A i, j \in DOMAIN events :
    (i < j /\ events[i].kind \in EndKinds /\ events[j].kind \in WriteKinds)
      => events[i].generation < events[j].generation

\* The checkpoints of the journal, as writes of the lease generation they carry.
Written ==
  {<<events[i].generation, events[i].item[1]>> :
     i \in {k \in DOMAIN events : events[k].kind = "checkpoint_recorded"}}

Authority == INSTANCE FencedOwnership WITH
  Owners <- Lanes, NoOwner <- NoLane, Handoffs <- Requests, NoHandoff <- NoRequest,
  Writes <- Receipts,
  owner <- lease.owner, epoch <- leaseGeneration,
  reserved <- IF Pending = {} THEN NoRequest ELSE CHOOSE r \in Pending : TRUE,
  written <- Written, closed <- (terminal # "none")

\* The journal, its processes and its clock implement fenced ownership: each
\* grant opens a generation, checkpoints are written by the generation in force
\* and once per receipt, a pending handoff reserves the lease for its target,
\* and a terminal pipeline grants and records nothing.
ImplementsFencedOwnership == Authority!Spec

\* A lease held by a live process within its time passes to another owner only
\* through its end (release, handoff, revision, cancellation), never directly.
NoLeaseTheft ==
  [][ (LeaseLive /\ OwnerAlive /\ lease' # NoLease)
        => (lease'.owner = lease.owner /\ lease'.generation = lease.generation) ]_vars

\* The revision of event i still waits for its approval when event j is journaled.
Stands(i, j) ==
  /\ i < j /\ events[i].kind = "prd_revision_requested"
  /\ \A k \in i .. j - 1 : events[k].kind # "prd_sealed"

\* Between a PRD revision and its approval one executor at most takes the pipeline: the
\* target of a handoff that was requested before the revision, whose start had read the
\* control state already (startDurableRuntimeOwnership; acceptRuntimeHandoff does not
\* look at it again).  Nobody acquires or recovers the lease, and no handoff that the
\* revision found unrequested is served.
RevisionAdmitsOneTarget ==
  ExclusiveOperation =>
    \A i, j \in DOMAIN events :
      (Stands(i, j) /\ events[j].kind \in GrantKinds) =>
        /\ events[j].kind = "runtime_handoff_completed"
        /\ \E h \in 1 .. i - 1 : /\ events[h].kind = "runtime_handoff_requested"
                                /\ events[h].item = events[j].item
        /\ \A k \in i .. j - 1 : events[k].kind \notin GrantKinds

\* What the states of the control plane promise, that a lease exists only in autonomous
\* execution.  Not so: a launcher's revision between the start and the acceptance of a
\* handoff target leaves that target owning a pipeline that waits for its PRD.
LeaseOnlyInAutonomy == Leased => control = "autonomous_execution"

\* What the supervisor's decision can die of, wherever anybody else dies: a pipeline that
\* ended while a handoff was pending, once the request is overdue (supervisedRunnerDecision,
\* abortExpiredRuntimeHandoff).  A terminal state and an open request stay.
OnlyOverdueHandoffKills ==
  \A l \in Lanes : supervisor[l] = "failed" =>
    terminal # "none" /\ Pending # {} /\ handoffOverdue

\* A supervisor never dies on a pipeline that has ended; it stops with it.
TerminalStopsSupervisor ==
  \A l \in Lanes : supervisor[l] = "failed" => terminal = "none"

\* No state is a dead end: wherever executors, supervisors and the operator's
\* handoff die, the pipeline regains an owner and ends once the host lets it.
NeverStuck == <>(terminal # "none")

=============================================================================
