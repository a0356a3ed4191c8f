--------------------------- MODULE TicketScheduler ---------------------------
(***************************************************************************)
(* The ticket loop of mux-runner.ts under durable ownership (failure mode  *)
(* "retry", release gate held, circuit breaker enabled): which ticket is   *)
(* attempted next, what a failed attempt leaves behind, when a ticket gets *)
(* a new recovery epoch, and how Citadel reopens tickets.                  *)
(*                                                                         *)
(* One runner at a time executes the loop: LogicalPipeline is the module   *)
(* about the lease.  Its memory, `run', is lost when it dies; everything   *)
(* else is a file.  Each durable write is a step of its own; a write to    *)
(* several files is one step (TicketTransaction), and recordIteration      *)
(* joins the status it follows.  The operator cancels and the time budget  *)
(* runs out at any moment.                                                 *)
(*                                                                         *)
(* The dependency graph is valid, so the repair of dependency contracts is *)
(* not reached, and no ticket is Skipped in this failure mode.             *)
(***************************************************************************)
EXTENDS Naturals, FiniteSets

CONSTANTS
  Tickets,
  DependsOn,          \* [Tickets -> SUBSET Tickets], acyclic
  Position,           \* [Tickets -> Nat], the order of the manifest, each ticket its own
  Failures,           \* failures of an attempt, by what their signatures tell apart
  UnchangedLimit,     \* failures of one lineage that exhaust it
  MaxTicketFailures,  \* MAX_ADAPTIVE_TICKET_FAILURES
  NoTicket,
  TroubleBound        \* bound of the environment: failures, kills, budgets, refusals

Routes == {"contract", "verification", "review", "conformance", "quality",
           "infrastructure", "workspace"}
Kinds == {"worker_failure", "verification_failed", "verification_contract",
          "preflight", "oracle_refusal"}

ASSUME TicketAssumption ==
  /\ DependsOn \in [Tickets -> SUBSET Tickets]
  /\ Position \in [Tickets -> Nat]
  /\ NoTicket \notin Tickets
ASSUME FailureAssumption == Failures \subseteq [kind : Kinds, route : Routes]
ASSUME LimitAssumption ==
  /\ UnchangedLimit \in Nat \ {0} /\ MaxTicketFailures \in Nat \ {0}
  /\ TroubleBound \in Nat

VARIABLES
  status,    \* [Tickets -> status], in the manifest and the ticket files
  window,    \* [Tickets -> failures journaled since the last authorization]
  strategy,  \* [Tickets -> the unresolved strategy epochs: how many, the last one's domain]
  circuit,   \* circuit_breaker.json is OPEN or not
  session,   \* of state.json: activity, cancellation, budget and recovery fields
  reopen,    \* the tickets of a pending Citadel remediation intent
  rechecked, \* history: tickets reopened alone at the gate and not Done since
  terminal,  \* the logical pipeline: open, completed or cancelled
  run,       \* the memory of the runner
  troubles   \* how often the environment has failed, killed, run out or refused

vars == <<status, window, strategy, circuit, session, reopen, rechecked, terminal, run,
          troubles>>

\* Failures of the runner's own repairs and of rollbacks, classified by default.
Broken == [kind |-> "worker_failure", route |-> "infrastructure"]
Lineages == Failures \cup {Broken}
NoFailure == [kind |-> "none", route |-> "infrastructure"]

Statuses == {"todo", "in_progress", "blocked", "done"}
Domains == Routes \ {"workspace"}
Exits == {"success", "cancelled", "rollover", "recovery_required", "circuit_open",
          "recovery_exhausted", "error", "contract_blocked", "citadel_recovery"}
Steps == {"down", "reopen", "consume", "enter", "plan", "select", "attempt", "strategy",
          "authorize", "reset", "start", "diagnose", "work", "progress", "record", "judge",
          "weigh", "verdict", "repair", "rollover", "exit", "gate", "recheck", "finish"}
StrategyCap == 5   \* beyond four unresolved epochs the plan no longer depends on their number

TypeOK ==
  /\ status \in [Tickets -> Statuses]
  /\ window \in [Tickets -> [total : Nat, by : [Lineages -> Nat]]]
  /\ strategy \in [Tickets -> [count : 0..StrategyCap, domain : Domains \cup {"none"}]]
  /\ circuit \in {"CLOSED", "OPEN"}
  /\ session \in [active : BOOLEAN, cancelled : BOOLEAN, reason : Exits \cup {"none"},
                  overBudget : BOOLEAN, rollover : BOOLEAN, recovery : BOOLEAN]
  /\ reopen \subseteq Tickets /\ rechecked \subseteq Tickets
  /\ terminal \in {"open", "completed", "cancelled"}
  /\ run \in [pc : Steps, ticket : Tickets \cup {NoTicket}, pending : SUBSET Tickets,
              repairing : SUBSET Tickets, diagnostic : Tickets \cup {NoTicket},
              domain : Domains \cup {"none"}, route : Routes,
              failure : Lineages \cup {NoFailure}, exhausted : BOOLEAN, repair : BOOLEAN,
              next : {"attempt", "weigh", "verdict", "diagnose"}, exit : Exits]
  /\ troubles \in 0..TroubleBound
  /\ run.pc \in {"attempt", "strategy", "authorize", "reset", "start", "diagnose", "work",
                 "progress", "record", "judge", "weigh", "verdict", "repair", "rollover"} =>
       run.ticket \in Tickets
  /\ run.pc \in {"record", "judge", "verdict", "repair"} => run.failure # NoFailure

-----------------------------------------------------------------------------
(* What the loop reads                                                     *)

Done(t) == status[t] = "done"
Queued(t) == status[t] \in {"todo", "in_progress"}
Satisfied(t) == \A d \in DependsOn[t] : Done(d)
Runnable(t) == Queued(t) /\ Satisfied(t)

Earliest(S) == {t \in S : \A u \in S : Position[t] <= Position[u]}

NoWindow == [total |-> 0, by |-> [l \in Lineages |-> 0]]
LineageExhausted(t) == \E l \in Lineages : window[t].by[l] >= UnchangedLimit
TicketExhausted(t) == window[t].total >= MaxTicketFailures
Exhausted(t) == LineageExhausted(t) \/ TicketExhausted(t)

Domain(route) == IF route = "workspace" THEN "infrastructure" ELSE route
\* nextMaterialRecoveryPlan: three epochs of the failure's own domain, then one of
\* contract repair.
PlannedRoute(route, epochs) == IF epochs = 3 THEN "contract" ELSE route

Contractual(f) == f.kind \in {"preflight", "verification_contract"}
\* The status runTicket leaves when it stops with failure f.
Parked(f) == IF f.kind \in {"preflight", "oracle_refusal"} THEN "todo" ELSE "blocked"
\* The catch branches of contract failures report their own kind whatever was decided.
ExitOf(reason) == IF Contractual(run.failure) THEN "contract_blocked" ELSE reason

\* shouldStop
OutOfBudget == session.active /\ session.overBudget

Idle == [pc |-> "down", ticket |-> NoTicket, pending |-> {}, repairing |-> {},
         diagnostic |-> NoTicket, domain |-> "none", route |-> "infrastructure",
         failure |-> NoFailure, exhausted |-> FALSE, repair |-> FALSE,
         next |-> "attempt", exit |-> "success"]

\* The environment strikes once more.
Trouble == troubles < TroubleBound /\ troubles' = troubles + 1

At(step) == run.pc = step
Goto(step) == run' = [run EXCEPT !.pc = step]
Leave(reason) == run' = [Idle EXCEPT !.pc = "exit", !.exit = reason]
SetStatus(t, s) == status' = [status EXCEPT ![t] = s]

Init ==
  /\ status = [t \in Tickets |-> "todo"]
  /\ window = [t \in Tickets |-> NoWindow]
  /\ strategy = [t \in Tickets |-> [count |-> 0, domain |-> "none"]]
  /\ circuit = "CLOSED"
  /\ session = [active |-> TRUE, cancelled |-> FALSE, reason |-> "none",
                overBudget |-> FALSE, rollover |-> FALSE, recovery |-> FALSE]
  /\ reopen = {} /\ rechecked = {}
  /\ terminal = "open"
  /\ run = Idle
  /\ troubles = 0

-----------------------------------------------------------------------------
(* Start of a run                                                          *)

\* The supervisor starts a runner unless a cancellation is being completed; the
\* runner reads the pending remediation intent.
Launch ==
  /\ At("down") /\ terminal = "open" /\ ~session.cancelled
  /\ run' = [Idle EXCEPT !.pc = "reopen", !.pending = reopen]
  /\ UNCHANGED <<status, window, strategy, circuit, session, reopen, rechecked, terminal, troubles>>

\* reconcileCitadelRemediation, one ticket after the other; the intent is removed last.
ReopenTicket(t) ==
  /\ At("reopen") /\ t \in run.pending
  /\ SetStatus(t, "todo")
  /\ run' = [run EXCEPT !.pending = @ \ {t}]
  /\ UNCHANGED <<window, strategy, circuit, session, reopen, rechecked, terminal, troubles>>

ClearIntent ==
  /\ At("reopen") /\ run.pending = {}
  /\ reopen' = {}
  /\ Goto("consume")
  /\ UNCHANGED <<status, window, strategy, circuit, session, rechecked, terminal, troubles>>

\* consumeAutonomousBudgetRollover
ConsumeRollover ==
  /\ At("consume")
  /\ session' = [session EXCEPT !.rollover = @ /\ (session.cancelled \/ ~session.active)]
  /\ Goto("enter")
  /\ UNCHANGED <<status, window, strategy, circuit, reopen, rechecked, terminal, troubles>>

\* Fault: starting clears the cancellation.
MayEnterAnyway == TRUE

\* The launch is not cancelled.
MayEnter == ~session.cancelled /\ session.reason # "cancelled"

\* enterMuxRunnerPhase
EnterPhase ==
  /\ At("enter")
  /\ IF MayEnter
       THEN /\ session' = [session EXCEPT !.active = TRUE, !.reason = "none",
                                          !.overBudget = FALSE]
            /\ Goto("plan")
       ELSE run' = Idle /\ UNCHANGED session
  /\ UNCHANGED <<status, window, strategy, circuit, reopen, rechecked, terminal, troubles>>

Awaiting == {t \in Tickets : Queued(t)}
ReadyBlocked == {t \in Tickets : status[t] = "blocked" /\ Satisfied(t)}
AllDone == \A t \in Tickets : Done(t)

\* The pending tickets of this run are the queued ones.  When no ticket is runnable
\* and some are not Done, a Blocked one becomes the diagnostic ticket.
PlanTickets ==
  /\ At("plan")
  /\ AllDone \/ \E t \in Tickets : Runnable(t)
  /\ run' = [Idle EXCEPT !.pc = "select", !.pending = Awaiting]
  /\ UNCHANGED <<status, window, strategy, circuit, session, reopen, rechecked, terminal, troubles>>

PlanDiagnostic ==
  /\ At("plan")
  /\ ~AllDone /\ \A t \in Tickets : ~Runnable(t)
  /\ \E d \in Earliest(ReadyBlocked) :
       /\ SetStatus(d, "todo")
       /\ run' = [Idle EXCEPT !.pc = "select", !.pending = Awaiting \cup {d},
                              !.diagnostic = d]
  /\ UNCHANGED <<window, strategy, circuit, session, reopen, rechecked, terminal, troubles>>

-----------------------------------------------------------------------------
(* The next ticket                                                         *)

Candidates == {t \in run.pending : t = run.diagnostic \/ Satisfied(t)}
Preferred == IF Candidates \ run.repairing # {} THEN Candidates \ run.repairing ELSE Candidates

SelectTicket ==
  /\ At("select") /\ Candidates # {}
  /\ \E t \in Earliest(Preferred) :
       run' = [run EXCEPT !.pc = "attempt", !.ticket = t,
                          !.pending = @ \ {t}, !.repairing = @ \ {t},
                          !.domain = strategy[t].domain, !.route = "infrastructure",
                          !.repair = FALSE]
  /\ UNCHANGED <<status, window, strategy, circuit, session, reopen, rechecked, terminal, troubles>>

NoTicketLeft ==
  /\ At("select") /\ Candidates = {}
  /\ Leave(IF run.pending = {} THEN "success" ELSE "error")
  /\ UNCHANGED <<status, window, strategy, circuit, session, reopen, rechecked, terminal, troubles>>

-----------------------------------------------------------------------------
(* The top of the attempt loop                                             *)

\* Fault: only the circuit is asked.
RefusedByCircuit == circuit = "OPEN"

Refused == circuit = "OPEN" \/ Exhausted(run.ticket)

StopAttempting ==
  /\ At("attempt") /\ ~session.active
  /\ Leave(session.reason)
  /\ UNCHANGED <<status, window, strategy, circuit, session, reopen, rechecked, terminal, troubles>>

BudgetCrossed ==
  /\ At("attempt") /\ OutOfBudget
  /\ Goto("rollover")
  /\ UNCHANGED <<status, window, strategy, circuit, session, reopen, rechecked, terminal, troubles>>

CheckAttempt ==
  /\ At("attempt") /\ session.active /\ ~session.overBudget
  /\ run' = IF Refused THEN [run EXCEPT !.pc = "strategy", !.next = "attempt"]
                        ELSE [run EXCEPT !.pc = "start"]
  /\ UNCHANGED <<status, window, strategy, circuit, session, reopen, rechecked, terminal, troubles>>

-----------------------------------------------------------------------------
(* A recovery epoch: strategy, authorization, circuit, in this order       *)

\* beginRecoveryStrategyEpoch
Planned == PlannedRoute(run.route, strategy[run.ticket].count)
Journaled(t, domain) == [strategy EXCEPT ![t] =
  [count |-> IF @.count < StrategyCap THEN @.count + 1 ELSE StrategyCap, domain |-> domain]]
JournalStrategy == strategy' = Journaled(run.ticket, Domain(Planned))

SelectStrategy ==
  /\ At("strategy")
  /\ JournalStrategy
  /\ run' = [run EXCEPT !.pc = IF run.next = "weigh" THEN "weigh" ELSE "authorize",
                        !.domain = Domain(Planned), !.repair = (Planned = "contract")]
  /\ UNCHANGED <<status, window, circuit, session, reopen, rechecked, terminal, troubles>>

\* reconstructWorkspaceFromDurableCheckpoint throws after the strategy is journaled.
ReconstructionFails ==
  /\ At("strategy") /\ Planned = "workspace" /\ Trouble
  /\ JournalStrategy
  /\ session' = [session EXCEPT !.recovery = TRUE]
  /\ Leave(IF run.next = "attempt" /\ circuit = "OPEN" THEN "circuit_open"
           ELSE ExitOf("recovery_required"))
  /\ UNCHANGED <<status, window, circuit, reopen, rechecked, terminal>>

\* authorizeTicketRecoveryEpoch
Authorize ==
  /\ At("authorize")
  /\ window' = [window EXCEPT ![run.ticket] = NoWindow]
  /\ Goto("reset")
  /\ UNCHANGED <<status, strategy, circuit, session, reopen, rechecked, terminal, troubles>>

\* Fault: the epoch leaves the circuit as it is.
ForgetCircuit ==
  /\ At("reset")
  /\ run' = [run EXCEPT !.pc = run.next, !.exhausted = FALSE]
  /\ UNCHANGED <<status, window, strategy, circuit, session, reopen, rechecked, terminal, troubles>>

\* resetCircuitBreaker
ResetCircuit ==
  /\ At("reset")
  /\ circuit' = "CLOSED"
  /\ run' = [run EXCEPT !.pc = run.next, !.exhausted = FALSE]
  /\ UNCHANGED <<status, window, strategy, session, reopen, rechecked, terminal, troubles>>

-----------------------------------------------------------------------------
(* One attempt                                                             *)

\* What the loop does with an error: a cancelled session ends the run.
Catch(f) ==
  /\ Trouble
  /\ IF session.active THEN run' = [run EXCEPT !.pc = "record", !.failure = f]
                       ELSE Leave(session.reason)

\* The pending contract repair succeeds (repairTicketVerificationContract).
RepairContract ==
  /\ At("start") /\ run.repair
  /\ SetStatus(run.ticket, "todo")
  /\ run' = [run EXCEPT !.repair = FALSE]
  /\ UNCHANGED <<window, strategy, circuit, session, reopen, rechecked, terminal, troubles>>

StartDiagnostic ==
  /\ At("start") /\ ~run.repair /\ run.ticket = run.diagnostic
  /\ run' = [run EXCEPT !.pc = "strategy", !.next = "diagnose"]
  /\ UNCHANGED <<status, window, strategy, circuit, session, reopen, rechecked, terminal, troubles>>

Diagnose ==
  /\ At("diagnose")
  /\ run' = [run EXCEPT !.pc = "start", !.diagnostic = NoTicket, !.repair = FALSE]
  /\ UNCHANGED <<status, window, strategy, circuit, session, reopen, rechecked, terminal, troubles>>

FailRepair ==
  /\ At("diagnose") \/ (At("start") /\ run.repair)
  /\ Catch(Broken)
  /\ UNCHANGED <<status, window, strategy, circuit, session, reopen, rechecked, terminal>>

Taking == At("start") /\ ~run.repair /\ run.ticket # run.diagnostic

\* runTicket throws before it has touched the ticket.
FailBeforeWork ==
  /\ Taking
  /\ \E f \in {Broken} \cup {g \in Failures : g.kind = "verification_contract"} : Catch(f)
  /\ UNCHANGED <<status, window, strategy, circuit, session, reopen, rechecked, terminal>>

\* runTicket takes the ticket.
TakeTicket ==
  /\ Taking
  /\ SetStatus(run.ticket, "in_progress")
  /\ Goto("work")
  /\ UNCHANGED <<window, strategy, circuit, session, reopen, rechecked, terminal, troubles>>

\* recordIteration after each phase leaves the circuit open or closed.
Iterate == circuit' \in {"CLOSED", "OPEN"}

\* finalizeSuccess: the ticket's transaction, then the strategy journal.
Complete ==
  /\ At("work")
  /\ SetStatus(run.ticket, "done")
  /\ Iterate
  /\ Goto("progress")
  /\ rechecked' = rechecked \ {run.ticket}
  /\ UNCHANGED <<window, strategy, session, reopen, terminal, troubles>>

RecordProgress ==
  /\ At("progress")
  /\ strategy' = [strategy EXCEPT ![run.ticket] = [count |-> 0, domain |-> "none"]]
  /\ run' = [run EXCEPT !.pc = "select", !.ticket = NoTicket, !.domain = "none",
                        !.route = "infrastructure", !.repair = FALSE]
  /\ UNCHANGED <<status, window, circuit, session, reopen, rechecked, terminal, troubles>>

\* runTicket throws and parks the ticket.
Fail(f) ==
  /\ At("work") /\ f.kind # "oracle_refusal"
  /\ SetStatus(run.ticket, Parked(f))
  /\ Iterate
  /\ Catch(f)
  /\ UNCHANGED <<window, strategy, session, reopen, rechecked, terminal>>

\* finalizeRefusal: runTicket returns, so nothing asks whether the session is active.
Refuse(f) ==
  /\ At("work") /\ f.kind = "oracle_refusal" /\ Trouble
  /\ SetStatus(run.ticket, Parked(f))
  /\ Iterate
  /\ run' = [run EXCEPT !.pc = "record", !.failure = f]
  /\ UNCHANGED <<window, strategy, session, reopen, rechecked, terminal>>

\* The rollback of a failed attempt fails: the ticket stays In Progress.
FailRollback ==
  /\ At("work")
  /\ session' = [session EXCEPT !.recovery = TRUE, !.reason = "recovery_required"]
  /\ IF session.active THEN run' = [run EXCEPT !.pc = "record", !.failure = Broken]
                       ELSE Leave("recovery_required")
  /\ Trouble
  /\ UNCHANGED <<status, window, strategy, circuit, reopen, rechecked, terminal>>

\* CancellationError
AbandonWork ==
  /\ At("work") /\ session.cancelled
  /\ SetStatus(run.ticket, "todo")
  /\ Leave(session.reason)
  /\ UNCHANGED <<window, strategy, circuit, session, reopen, rechecked, terminal, troubles>>

-----------------------------------------------------------------------------
(* decideRecovery                                                          *)

\* recordTicketRecoveryFailure
RecordFailure ==
  /\ At("record")
  /\ window' = [window EXCEPT ![run.ticket].total = @ + 1,
                              ![run.ticket].by[run.failure] = @ + 1]
  /\ run' = [run EXCEPT !.pc = "judge", !.route = run.failure.route, !.exhausted = FALSE]
  /\ UNCHANGED <<status, strategy, circuit, session, reopen, rechecked, terminal, troubles>>

LineageUsedUp == window[run.ticket].by[run.failure] >= UnchangedLimit

\* An exhausted lineage opens the circuit.
JudgeExhausted ==
  /\ At("judge") /\ (LineageUsedUp \/ TicketExhausted(run.ticket))
  /\ circuit' = IF TicketExhausted(run.ticket) THEN circuit ELSE "OPEN"
  /\ run' = [run EXCEPT !.pc = "weigh", !.exhausted = TRUE]
  /\ UNCHANGED <<status, window, strategy, session, reopen, rechecked, terminal, troubles>>

\* A failure of another domain than the active strategy's gets a strategy of its own.
JudgeFailure ==
  /\ At("judge") /\ ~LineageUsedUp /\ ~TicketExhausted(run.ticket)
  /\ run' = IF run.domain # Domain(run.route)
              THEN [run EXCEPT !.pc = "strategy", !.next = "weigh"]
              ELSE [run EXCEPT !.pc = "weigh"]
  /\ UNCHANGED <<status, window, strategy, circuit, session, reopen, rechecked, terminal, troubles>>

\* What state.json says now comes before anything decided so far.
WeighRecovery ==
  /\ At("weigh") /\ session.recovery
  /\ Leave(ExitOf("recovery_required"))
  /\ UNCHANGED <<status, window, strategy, circuit, session, reopen, rechecked, terminal, troubles>>

WeighBudget ==
  /\ At("weigh") /\ ~session.recovery /\ OutOfBudget
  /\ Goto("rollover")
  /\ UNCHANGED <<status, window, strategy, circuit, session, reopen, rechecked, terminal, troubles>>

Weigh ==
  /\ At("weigh") /\ ~session.recovery /\ ~OutOfBudget
  /\ run' = IF session.active /\ run.exhausted
              THEN [run EXCEPT !.pc = "strategy", !.next = "verdict"]
              ELSE [run EXCEPT !.pc = "verdict"]
  /\ UNCHANGED <<status, window, strategy, circuit, session, reopen, rechecked, terminal, troubles>>

\* Another pending ticket is ready: the failed one goes back and waits.
Yields == \E t \in run.pending : Satisfied(t)

\* decideTicketRecovery
Abort ==
  /\ At("verdict") /\ (circuit = "OPEN" \/ run.exhausted)
  /\ Leave(ExitOf(IF circuit = "OPEN" THEN "circuit_open" ELSE "recovery_exhausted"))
  /\ UNCHANGED <<status, window, strategy, circuit, session, reopen, rechecked, terminal, troubles>>

Retries == At("verdict") /\ circuit = "CLOSED" /\ ~run.exhausted

\* Fault: the yielding ticket is dropped.
QueueOthers == run.pending

QueueAgain == run.pending \cup {run.ticket}

YieldTicket ==
  /\ Retries /\ Yields
  /\ run' = [run EXCEPT !.pc = "select", !.ticket = NoTicket, !.failure = NoFailure,
                        !.pending = QueueAgain, !.repairing = @ \cup {run.ticket},
                        !.domain = "none", !.route = "infrastructure", !.repair = FALSE]
  /\ UNCHANGED <<status, window, strategy, circuit, session, reopen, rechecked, terminal, troubles>>

RetryTicket ==
  /\ Retries /\ ~Yields
  /\ run' = IF Contractual(run.failure) THEN [run EXCEPT !.pc = "repair"]
            ELSE [run EXCEPT !.pc = "attempt", !.failure = NoFailure]
  /\ UNCHANGED <<status, window, strategy, circuit, session, reopen, rechecked, terminal, troubles>>

\* The contract is repaired inside the catch block, where nothing catches its errors.
RepairInCatch ==
  /\ At("repair")
  /\ SetStatus(run.ticket, "todo")
  /\ run' = [run EXCEPT !.pc = "attempt", !.failure = NoFailure, !.repair = FALSE]
  /\ UNCHANGED <<window, strategy, circuit, session, reopen, rechecked, terminal, troubles>>

RepairThrows ==
  /\ At("repair") /\ Trouble
  /\ run' = Idle
  /\ UNCHANGED <<status, window, strategy, circuit, session, reopen, rechecked, terminal>>

-----------------------------------------------------------------------------
(* End of a run                                                            *)

\* scheduleAutonomousBudgetRollover: cancellation wins; a second intent is an error
\* that ends the process, unless the decision about a refusal runs into it: that one is
\* made where errors are caught.
ScheduleRollover ==
  /\ At("rollover") /\ session.active /\ ~session.cancelled /\ ~session.rollover
  /\ session' = [session EXCEPT !.rollover = TRUE, !.reason = "rollover",
                                !.overBudget = FALSE]
  /\ Leave(ExitOf("rollover"))
  /\ UNCHANGED <<status, window, strategy, circuit, reopen, rechecked, terminal, troubles>>

RolloverCancelled ==
  /\ At("rollover") /\ (~session.active \/ session.cancelled)
  /\ Leave(ExitOf("cancelled"))
  /\ UNCHANGED <<status, window, strategy, circuit, session, reopen, rechecked, terminal, troubles>>

RolloverThrows ==
  /\ At("rollover") /\ session.active /\ ~session.cancelled /\ session.rollover
  /\ run' = IF run.failure.kind = "oracle_refusal"
              THEN [run EXCEPT !.pc = "record", !.failure = Broken]
              ELSE Idle
  /\ UNCHANGED <<status, window, strategy, circuit, session, reopen, rechecked, terminal, troubles>>

\* recordExitReason
FinalReason(reason) ==
  IF session.reason \notin {"none", "success"} /\ (~session.active \/ reason = "success")
  THEN session.reason ELSE reason
ExitPhase(reason) ==
  session' = [session EXCEPT !.active = FALSE, !.reason = FinalReason(reason)]

Report(reason) == run' = [Idle EXCEPT !.pc = "finish", !.exit = reason]

\* A successful loop holds the session active for the release gate, a rollover for
\* the next runner.
EnterGate ==
  /\ At("exit") /\ run.exit = "success"
  /\ Goto("gate")
  /\ UNCHANGED <<status, window, strategy, circuit, session, reopen, rechecked, terminal, troubles>>

RollOver ==
  /\ At("exit") /\ run.exit = "rollover"
  /\ run' = Idle
  /\ UNCHANGED <<status, window, strategy, circuit, session, reopen, rechecked, terminal, troubles>>

ExitRun ==
  /\ At("exit") /\ run.exit \notin {"success", "rollover"}
  /\ ExitPhase(run.exit)
  /\ Report(FinalReason(run.exit))
  /\ UNCHANGED <<status, window, strategy, circuit, reopen, rechecked, terminal, troubles>>

\* finish: the journal becomes terminal, or the lease is released.
Finish ==
  /\ At("finish")
  /\ terminal' = CASE run.exit = "success" -> "completed"
                   [] run.exit = "cancelled" -> "cancelled"
                   [] OTHER -> terminal
  /\ run' = Idle
  /\ UNCHANGED <<status, window, strategy, circuit, session, reopen, rechecked, troubles>>

-----------------------------------------------------------------------------
(* The release gate                                                        *)

Approve ==
  /\ At("gate")
  /\ ExitPhase("success")
  /\ Report("success")
  /\ UNCHANGED <<status, window, strategy, circuit, reopen, rechecked, terminal, troubles>>

CancelGate ==
  /\ At("gate") /\ session.cancelled
  /\ ExitPhase("cancelled")
  /\ Report("cancelled")
  /\ UNCHANGED <<status, window, strategy, circuit, reopen, rechecked, terminal, troubles>>

ClosedUnderUse(S) == \A t \in Tickets : Done(t) /\ DependsOn[t] \cap S # {} => t \in S
\* Fault: the tickets at fault alone.
AtFault(D) == D

\* dependentTicketIds: the least set with the tickets at fault and every Done ticket
\* that depends on one of its members.
Affected(D) == {t \in Tickets : \A S \in SUBSET Tickets : D \subseteq S /\ ClosedUnderUse(S) => t \in S}

\* enqueueCitadelRemediationResult writes the intent and reconciles it at once.
BlockRelease ==
  /\ At("gate") /\ Trouble
  /\ \E D \in SUBSET Tickets \ {{}} :
       /\ reopen' = Affected(D)
       /\ run' = [Idle EXCEPT !.pc = "reopen", !.pending = Affected(D)]
  /\ UNCHANGED <<status, window, strategy, circuit, session, rechecked, terminal>>

\* A system block: the loop runs again, or the run ends with recovery scheduled.  An
\* error of Citadel ends it too: without an approval there is no completion.
RetryGate ==
  /\ At("gate") /\ Trouble
  /\ run' = [Idle EXCEPT !.pc = "consume"]
  /\ UNCHANGED <<status, window, strategy, circuit, session, reopen, rechecked, terminal>>

StopGate ==
  /\ At("gate") /\ Trouble
  /\ \E reason \in {"citadel_recovery", "error"} : ExitPhase(reason) /\ Report(reason)
  /\ UNCHANGED <<status, window, strategy, circuit, reopen, rechecked, terminal>>

\* A failed check of its own has owners: the verification of each is repaired and the
\* loop runs again, or each gets a recovery task and the run ends.
MapFailedChecks ==
  /\ At("gate") /\ Trouble
  /\ \E owners \in SUBSET Tickets \ {{}}, exit \in {"success", "citadel_recovery"} :
       run' = [Idle EXCEPT !.pc = "recheck", !.pending = owners, !.exit = exit]
  /\ UNCHANGED <<status, window, strategy, circuit, session, reopen, rechecked, terminal>>

\* repairTicketVerificationContract, consumeDeterministicCheckFailure: no intent, and
\* no ticket that depends on the owner.
ReopenOwner(t) ==
  /\ At("recheck") /\ t \in run.pending
  /\ SetStatus(t, "todo")
  /\ rechecked' = rechecked \cup {t}
  /\ strategy' = IF run.exit = "success" THEN Journaled(t, "contract") ELSE strategy
  /\ run' = [run EXCEPT !.pending = @ \ {t}]
  /\ UNCHANGED <<window, circuit, session, reopen, terminal, troubles>>

OwnersReopened ==
  /\ At("recheck") /\ run.pending = {}
  /\ IF run.exit = "success"
       THEN run' = [Idle EXCEPT !.pc = "consume"] /\ UNCHANGED session
       ELSE ExitPhase(run.exit) /\ Report(run.exit)
  /\ UNCHANGED <<status, window, strategy, circuit, reopen, rechecked, terminal, troubles>>

-----------------------------------------------------------------------------
(* The environment                                                         *)

\* cancel.ts writes state.json, and ends the pipeline when no runner is left.
Cancel ==
  /\ terminal = "open" /\ ~session.cancelled
  /\ session' = [session EXCEPT !.active = FALSE, !.cancelled = TRUE, !.reason = "cancelled"]
  /\ UNCHANGED <<status, window, strategy, circuit, reopen, rechecked, terminal, run, troubles>>

FinishCancel ==
  /\ terminal = "open" /\ session.cancelled /\ At("down")
  /\ terminal' = "cancelled"
  /\ UNCHANGED <<status, window, strategy, circuit, session, reopen, rechecked, run, troubles>>

CrossBudget ==
  /\ ~At("down") /\ session.active /\ ~session.overBudget /\ Trouble
  /\ session' = [session EXCEPT !.overBudget = TRUE]
  /\ UNCHANGED <<status, window, strategy, circuit, reopen, rechecked, terminal, run>>

Kill ==
  /\ ~At("down") /\ Trouble
  /\ run' = Idle
  /\ UNCHANGED <<status, window, strategy, circuit, session, reopen, rechecked, terminal>>

-----------------------------------------------------------------------------
StartSteps ==
  \/ Launch \/ (\E t \in Tickets : ReopenTicket(t)) \/ ClearIntent
  \/ ConsumeRollover \/ EnterPhase \/ PlanTickets \/ PlanDiagnostic
LoopSteps ==
  \/ SelectTicket \/ NoTicketLeft \/ StopAttempting \/ BudgetCrossed \/ CheckAttempt
  \/ SelectStrategy \/ ReconstructionFails \/ Authorize \/ ResetCircuit
AttemptSteps ==
  \/ RepairContract \/ StartDiagnostic \/ Diagnose \/ FailRepair \/ FailBeforeWork
  \/ TakeTicket \/ Complete \/ RecordProgress \/ (\E f \in Failures : Fail(f) \/ Refuse(f))
  \/ FailRollback \/ AbandonWork
DecisionSteps ==
  \/ RecordFailure \/ JudgeExhausted \/ JudgeFailure \/ WeighRecovery \/ WeighBudget \/ Weigh
  \/ Abort \/ YieldTicket \/ RetryTicket \/ RepairInCatch \/ RepairThrows
EndSteps ==
  \/ ScheduleRollover \/ RolloverCancelled \/ RolloverThrows \/ EnterGate \/ RollOver \/ ExitRun
  \/ Approve \/ CancelGate \/ BlockRelease \/ RetryGate \/ StopGate \/ MapFailedChecks
  \/ (\E t \in Tickets : ReopenOwner(t)) \/ OwnersReopened \/ Finish

RunnerSteps == StartSteps \/ LoopSteps \/ AttemptSteps \/ DecisionSteps \/ EndSteps
Next == RunnerSteps \/ Cancel \/ FinishCancel \/ CrossBudget \/ Kill

Spec == Init /\ [][Next]_vars
\* A runner makes progress, a supervisor restarts it, a cancellation is completed.
FairSpec == Spec /\ WF_vars(RunnerSteps) /\ WF_vars(FinishCancel)

-----------------------------------------------------------------------------
(* Properties                                                              *)

\* A Done ticket stands on Done tickets, unless the remediation that reopens it is
\* still to be applied: whatever a refusal reopens takes the Done tickets built on it
\* along, also when the runner dies halfway (dependentTicketIds,
\* reconcileCitadelRemediation).  Only the owner of a failed check, until it is Done
\* again, is missing under the tickets built on it.
DoneNeedsDependencies ==
  \A t \in Tickets : Done(t) =>
    t \in reopen \/ \A d \in DependsOn[t] : Done(d) \/ d \in rechecked

\* An attempt is only made with a closed circuit and a window that is not used up,
\* wherever an earlier runner died between journaling a failure and authorizing the
\* next epoch.
AttemptsAreAuthorized == At("work") => circuit = "CLOSED" /\ ~Exhausted(run.ticket)

\* When the loop hands over to Citadel, no ticket waits for an attempt: one that was
\* taken off the pending set and not completed has been put back.
ReleaseSeesNoQueuedTicket ==
  At("gate") => \A t \in Tickets : status[t] \in {"done", "blocked"}

\* No runner that starts or rolls over makes a cancelled session active again
\* (enterMuxRunnerPhase, scheduleAutonomousBudgetRollover).
CancelledStaysInactive ==
  [][session.cancelled => session'.cancelled /\ ~session'.active]_vars

\* Every session ends: failures, refusals, exhausted budgets and kills delay it, but
\* there is always a ticket to attempt, a diagnostic or the release gate.
SessionEnds == <>(terminal # "open")

\* The PRD's completion definition: all accepted tickets are Done.
CompletedMeansDone == terminal = "completed" => AllDone

\* The assertion of scheduleAutonomousBudgetRollover: an intent is consumed before
\* another one is scheduled.
RolloverConsumedFirst ==
  At("rollover") /\ session.active /\ ~session.cancelled => ~session.rollover

\* A Done ticket has only Done dependencies but while a remediation is applied.
DoneStandsOnDone ==
  \A t \in Tickets : Done(t) => t \in reopen \/ \A d \in DependsOn[t] : Done(d)

=============================================================================
