-------------------------- MODULE MicroverseLoop --------------------------
(***************************************************************************)
(* The measured Microverse loop: bin/loop-runner.ts with the experiment    *)
(* ledger (services/experiment-ledger.ts), the metric state                *)
(* (services/metric-convergence.ts), the isolated candidate clones         *)
(* (services/git-utils.ts) and the candidate archives                      *)
(* (services/microverse-experiment-archive.ts).                            *)
(*                                                                         *)
(* One iteration touches five files and two repositories, one write at a   *)
(* time, and the process may be killed between any two of them.  The       *)
(* attempt transaction (microverse-attempt.json) is what the next process  *)
(* recovers from.  Every action below is one durable write, or one read    *)
(* that decides which write comes next; run.pc says which one.             *)
(*                                                                         *)
(* Bounds: MaxExp experiments, MaxUpsets kills, exceptions and failed      *)
(* archives together, MaxEdits visits of the operator to the checkout.     *)
(***************************************************************************)
EXTENDS Naturals, FiniteSets

CONSTANTS
    MaxExp,          \* experiments the ledger may hold
    TargetGain,      \* accepted improvements that satisfy the target
    FailureLimit,    \* loop_config.worker_failure_limit
    MaxUpsets, MaxEdits

ASSUME MicroverseAssumption ==
    /\ MaxExp \in Nat \ {0}
    /\ TargetGain \in Nat \ {0}
    /\ FailureLimit \in Nat \ {0}
    /\ MaxUpsets \in Nat /\ MaxEdits \in Nat

Exps == 1 .. MaxExp

VARIABLES
    ledger,    \* microverse-experiments.json: status of each experiment and the two counters
    metrics,   \* microverse-metric.json: the experiment that holds the best score, gains, stalls
    attempt,   \* microverse-attempt.json: the attempt transaction
    cand,      \* the isolated clone of the attempt: whether its head moved, the work in it
               \* against the base, and the work under its recovery refs
    archives,  \* experiments/<id>.archive.json: the parts of the work each one holds
    live,      \* the operator's checkout: promoted candidates, the operator's commits and edits
    session,   \* state.json: iteration and last_exit_reason
    run,       \* the loop process: program counter and the locals a kill loses
    budget,    \* kills, faults and operator visits left
    measured   \* history: the work the attempt's measurement was taken on

vars == <<ledger, metrics, attempt, cand, archives, live, session, run, budget, measured>>

-----------------------------------------------------------------------------
(* Values. *)

(* What a worker leaves in the clone: changes inside the target paths of   *)
(* its plan and changes outside them.                                      *)
Parts == {"in", "out"}
NoArchive == {"none"}

NoCand == [exp |-> 0, moved |-> FALSE, work |-> {}, anchored |-> {}]

(* An absent transaction has experiment 0. *)
NoAttempt ==
    [exp |-> 0, iteration |-> 0, phase |-> "none", owned |-> FALSE,
     before |-> [best |-> 0, gain |-> 0, stall |-> 0],
     after |-> [best |-> 0, gain |-> 0, stall |-> 0],
     base |-> [has |-> {}, foreign |-> 0, dirty |-> FALSE]]

(* What createMicroverseCandidate remembers of the live checkout, and what *)
(* promotion compares with it: head, branch and working tree fingerprint.  *)
Boundary(l) == [has |-> l.has, foreign |-> l.foreign, dirty |-> l.dirty]

Head(b) == <<b.has, b.foreign>>

Idle == [pc |-> "down", exp |-> 0, pending |-> FALSE, deferred |-> FALSE,
         exit |-> "none", outcome |-> "none", base |-> NoAttempt.base]

Scientific(e) == ledger.status[e] \in {"accepted", "rejected"}

Accepted == {e \in Exps : ledger.status[e] = "accepted"}

(* Fault: only an accepted experiment counts as finished.                  *)
TerminalAccepted == attempt.exp # 0 /\ ledger.status[attempt.exp] = "accepted"

(* readJsonFile of the transaction followed by a lookup in the ledger:     *)
(* microverseAttemptHasTerminalOutcome.                                    *)
TerminalOutcome == attempt.exp # 0 /\ Scientific(attempt.exp)

(* transactionCandidate: the clone the transaction names is still there,   *)
(* with the device and inode it had.                                       *)
CandidateIntact == cand.exp = attempt.exp /\ cand.exp # 0

TargetSatisfied == metrics.gain >= TargetGain

TypeOK ==
    /\ ledger.status \in [Exps -> {"none", "planned", "running", "accepted", "rejected", "invalid"}]
    /\ ledger.failures \in Nat /\ ledger.stalls \in Nat
    /\ metrics \in [best : 0 .. MaxExp, gain : 0 .. MaxExp, stall : 0 .. MaxExp]
    /\ attempt.exp \in 0 .. MaxExp
    /\ attempt.phase \in {"none", "running", "promotion_pending", "promoted", "quarantined"}
    /\ cand.exp \in 0 .. MaxExp /\ cand.moved \in BOOLEAN /\ cand.work \subseteq Parts
    /\ archives \in [Exps -> (SUBSET Parts) \cup {NoArchive}]
    /\ live.has \subseteq Exps /\ live.touched \subseteq live.has
    /\ session.iteration \in 0 .. MaxExp

Init ==
    /\ ledger = [status |-> [e \in Exps |-> "none"], failures |-> 0, stalls |-> 0]
    /\ metrics = [best |-> 0, gain |-> 0, stall |-> 0]
    /\ attempt = NoAttempt
    /\ cand = NoCand
    /\ archives = [e \in Exps |-> NoArchive]
    /\ live = [has |-> {}, touched |-> {}, foreign |-> 0, dirty |-> FALSE]
    /\ session = [iteration |-> 0, exit |-> "none"]
    /\ run = Idle
    /\ budget = [upsets |-> MaxUpsets, edits |-> MaxEdits]
    /\ measured = {}

-----------------------------------------------------------------------------
(* Steps of the process. *)

At(pc) == run.pc = pc
Goto(pc) == run' = [run EXCEPT !.pc = pc]

(* Fault: the exception handler does not look for a promotion on record.   *)
ThrowBlind(archiveFailed) ==
    run' = [run EXCEPT
        !.pc = "rollback",
        !.deferred = run.deferred \/ archiveFailed,
        !.exit = IF session.exit = "cancelled" THEN "cancelled" ELSE "error"]

(* An exception inside the loop's try: catch (2070-2089) and then finally. *)
(* A candidate whose archive failed, or whose promotion is on record       *)
(* without an outcome, is left for the next process.                       *)
Throw(archiveFailed) ==
    run' = [run EXCEPT
        !.pc = "rollback",
        !.deferred = run.deferred \/ archiveFailed
            \/ (attempt.phase \in {"promotion_pending", "promoted"} /\ ~TerminalOutcome),
        !.exit = IF session.exit = "cancelled" THEN "cancelled" ELSE "error"]

(* Leaving the loop with a reason. *)
Break(reason) == run' = [run EXCEPT !.pc = "rollback", !.exit = reason]

(* Math.max of the recorded iteration and the attempt's.                   *)
Iterations(n) == IF session.iteration > n THEN session.iteration ELSE n

(* reconcileRunningExperiments: a running record is planned again when the *)
(* loop resumes and is invalid when it stops; either counts as a failure.  *)
Reconciled(mode) ==
    LET running == {e \in Exps : ledger.status[e] = "running"}
    IN [status |-> [e \in Exps |->
            IF e \notin running THEN ledger.status[e]
            ELSE IF mode = "resume" THEN "planned" ELSE "invalid"],
        failures |-> ledger.failures + Cardinality(running),
        stalls |-> ledger.stalls]

(* completeExperiment with a scientific outcome. *)
Completed(e, status) ==
    [status |-> [ledger.status EXCEPT ![e] = status],
     failures |-> 0,
     stalls |-> IF status = "accepted" THEN 0 ELSE ledger.stalls + 1]

(* recordMetricIteration. *)
Recorded(m, e, improved) ==
    IF improved THEN [best |-> e, gain |-> m.gain + 1, stall |-> 0]
    ELSE [m EXCEPT !.stall = @ + 1]

(* Fault: the live history is only looked at for a pending promotion.      *)
AlreadyPromotedPending(e) == e \in live.has /\ attempt.phase = "promotion_pending"

(* The candidate's commit is in the live history and the paths it changed  *)
(* are as it left them (commitIsAncestorWithPathsUnchanged).               *)
AlreadyPromoted(e) == e \in live.has /\ e \notin live.touched

(* fastForwardFromIsolatedCandidate: refuses a dirty tree and a moved head. *)
FastForward(e) ==
    live' = [live EXCEPT !.has = @ \cup {e}]

CanFastForward == ~live.dirty /\ Head(live) = Head(attempt.base)

-----------------------------------------------------------------------------
(* Startup: runLoopWithLease up to the loop, and recovery of an            *)
(* interrupted attempt.                                                    *)

(* claimLoopRunnerStartup refuses a cancelled session; a session that      *)
(* reached its target or its budget is not started again.                  *)
Start ==
    /\ At("down") /\ session.exit \notin {"cancelled", "success", "max_iterations"}
    /\ session' = [session EXCEPT !.exit = "none"]
    /\ Goto("reset")
    /\ UNCHANGED <<ledger, metrics, attempt, cand, archives, live, budget, measured>>

ResetWorkerFailures ==
    /\ At("reset")
    /\ ledger' = [ledger EXCEPT !.failures = 0]
    /\ Goto("recover")
    /\ UNCHANGED <<metrics, attempt, cand, archives, live, session, budget, measured>>

StopWith(reason) == run' = [run EXCEPT !.pc = "stop", !.exit = reason]

(* The identity check comes before everything else: a transaction whose    *)
(* clone is gone is quarantined, whatever its experiment has become.       *)
RecoverIdentity ==
    /\ At("recover") /\ attempt.exp # 0 /\ ~CandidateIntact
    /\ attempt' = [attempt EXCEPT !.phase = "quarantined"]
    /\ StopWith("error")
    /\ UNCHANGED <<ledger, metrics, cand, archives, live, session, budget, measured>>

(* recoverInterruptedMicroverseAttempt past the identity check: which of   *)
(* its branches the transaction and the ledger select.                     *)
RecoveryBranch ==
    LET e == attempt.exp
    IN IF attempt.phase = "quarantined" THEN "quarantined"
       ELSE IF attempt.phase \in {"promotion_pending", "promoted"} THEN
           IF AlreadyPromoted(e) THEN "rComplete"
           ELSE IF attempt.phase = "promoted" THEN "history_changed"
           ELSE IF Boundary(live) # attempt.base THEN "workspace_changed"
           ELSE "rPromote"
       ELSE IF Scientific(e) THEN "rCount"
       ELSE IF ledger.status[e] = "invalid" THEN "rDiscard"
       ELSE "rArchive"

RecoverDecide ==
    /\ At("recover")
    /\ \/ attempt.exp = 0 /\ Goto("reconcile")
       \/ /\ CandidateIntact
          /\ RecoveryBranch \in {"quarantined", "history_changed"}
          /\ StopWith("error")
       \/ /\ CandidateIntact
          /\ RecoveryBranch = "workspace_changed"
          /\ StopWith("workspace_changed")
       \/ /\ CandidateIntact
          /\ RecoveryBranch \notin {"quarantined", "history_changed", "workspace_changed"}
          /\ Goto(RecoveryBranch)
    /\ UNCHANGED <<ledger, metrics, attempt, cand, archives, live, session, budget, measured>>

(* A candidate whose tree is the base's, although its head may have moved, *)
(* has no changed path: promoteMicroverseCandidate returns before it looks *)
(* at the live checkout or touches it.                                     *)
Diffless == cand.work = {}

(* promoteMicroverseCandidate looks at the live checkout again.            *)
RecoverPromote ==
    /\ At("rPromote")
    /\ \/ Diffless /\ Goto("rMark") /\ UNCHANGED live
       \/ /\ ~Diffless /\ Boundary(live) # attempt.base
          /\ StopWith("workspace_changed") /\ UNCHANGED live
       \/ /\ ~Diffless /\ Boundary(live) = attempt.base /\ CanFastForward
          /\ FastForward(attempt.exp) /\ Goto("rMark")
       \/ /\ ~Diffless /\ Boundary(live) = attempt.base /\ ~CanFastForward
          /\ StopWith("error") /\ UNCHANGED live
    /\ UNCHANGED <<ledger, metrics, attempt, cand, archives, session, budget, measured>>

RecoverMark ==
    /\ At("rMark")
    /\ attempt' = [attempt EXCEPT !.phase = "promoted"]
    /\ Goto("rComplete")
    /\ UNCHANGED <<ledger, metrics, cand, archives, live, session, budget, measured>>

RecoverComplete ==
    /\ At("rComplete")
    /\ ledger' = IF ledger.status[attempt.exp] = "running"
                 THEN Completed(attempt.exp, "accepted") ELSE ledger
    /\ Goto("rMetrics")
    /\ UNCHANGED <<metrics, attempt, cand, archives, live, session, budget, measured>>

RecoverMetrics ==
    /\ At("rMetrics")
    /\ metrics' = attempt.after
    /\ Goto("rCount")
    /\ UNCHANGED <<ledger, attempt, cand, archives, live, session, budget, measured>>

(* An experiment that reached its outcome counts as one iteration, however *)
(* often its completion is replayed.                                       *)
RecoverCount ==
    /\ At("rCount")
    /\ session' = [session EXCEPT !.iteration = Iterations(attempt.iteration)]
    /\ Goto("rDiscard")
    /\ UNCHANGED <<ledger, metrics, attempt, cand, archives, live, budget, measured>>

(* archiveMicroverseCandidate writes the archive of the experiment over    *)
(* the one of an earlier try; when it cannot, the clone is quarantined.    *)
Archive(next) ==
    /\ archives' = [archives EXCEPT ![attempt.exp] = cand.work]
    /\ Goto(next)
    /\ UNCHANGED <<attempt, budget>>

ArchiveFails ==
    /\ budget.upsets > 0
    /\ budget' = [budget EXCEPT !.upsets = @ - 1]
    /\ attempt' = [attempt EXCEPT !.phase = "quarantined"]
    /\ UNCHANGED archives

RecoverArchive ==
    /\ At("rArchive")
    /\ Archive("rRemove") \/ (ArchiveFails /\ StopWith("error"))
    /\ UNCHANGED <<ledger, metrics, cand, live, session, measured>>

RecoverRemove ==
    /\ At("rRemove")
    /\ cand' = NoCand
    /\ Goto("rRestore")
    /\ UNCHANGED <<ledger, metrics, attempt, archives, live, session, budget, measured>>

(* Fault: recovery leaves the metric state of the lost attempt.            *)
RecoverKeepMetrics ==
    /\ At("rRestore")
    /\ Goto("rReconcile")
    /\ UNCHANGED <<ledger, metrics, attempt, cand, archives, live, session, budget, measured>>

RecoverRestore ==
    /\ At("rRestore")
    /\ metrics' = attempt.before
    /\ Goto("rReconcile")
    /\ UNCHANGED <<ledger, attempt, cand, archives, live, session, budget, measured>>

RecoverReconcile ==
    /\ At("rReconcile")
    /\ ledger' = Reconciled("resume")
    /\ Goto("rClear")
    /\ UNCHANGED <<metrics, attempt, cand, archives, live, session, budget, measured>>

RecoverDiscard ==
    /\ At("rDiscard")
    /\ cand' = NoCand
    /\ Goto("rClear")
    /\ UNCHANGED <<ledger, metrics, attempt, archives, live, session, budget, measured>>

RecoverClear ==
    /\ At("rClear")
    /\ attempt' = NoAttempt /\ measured' = {}
    /\ Goto("reconcile")
    /\ UNCHANGED <<ledger, metrics, cand, archives, live, session, budget>>

(* ensureMetricBaseline: the baseline is measured, or that of a resumed    *)
(* session taken, on a clean checkout only.                                *)
NoBaseline == live.dirty

(* A record still running without a transaction, then the baseline, then   *)
(* enterLoopRunnerPhase.                                                   *)
ReconcileRunning ==
    /\ At("reconcile")
    /\ ledger' = Reconciled("resume")
    /\ IF NoBaseline THEN StopWith("error") ELSE Goto("top")
    /\ UNCHANGED <<metrics, attempt, cand, archives, live, session, budget, measured>>

-----------------------------------------------------------------------------
(* One iteration. *)

Pending == {e \in Exps : ledger.status[e] = "planned"}
Fresh == {e \in Exps : ledger.status[e] = "none"}
First(S) == CHOOSE e \in S : \A f \in S : e <= f

(* The head of the loop.  Fresh = {} is where the bound MaxExp stands for  *)
(* max_iterations; a dirty checkout makes the checkpoint throw.            *)
LoopTop ==
    /\ At("top")
    /\ IF session.exit = "cancelled" THEN Break("cancelled")
       ELSE IF TargetSatisfied THEN Break("success")
       ELSE IF Pending = {} /\ Fresh = {} THEN Break("max_iterations")
       ELSE IF live.dirty THEN Throw(FALSE)
       ELSE IF Pending # {}
       THEN run' = [run EXCEPT !.pc = "start", !.exp = First(Pending), !.base = Boundary(live)]
       ELSE run' = [run EXCEPT !.pc = "plan", !.exp = First(Fresh), !.base = Boundary(live)]
    /\ UNCHANGED <<ledger, metrics, attempt, cand, archives, live, session, budget, measured>>

PlanExperiment ==
    /\ At("plan")
    /\ ledger' = [ledger EXCEPT !.status[run.exp] = "planned"]
    /\ Goto("start")
    /\ UNCHANGED <<metrics, attempt, cand, archives, live, session, budget, measured>>

StartExperiment ==
    /\ At("start")
    /\ ledger' = [ledger EXCEPT !.status[run.exp] = "running"]
    /\ Goto("create")
    /\ UNCHANGED <<metrics, attempt, cand, archives, live, session, budget, measured>>

Faulty ==
    /\ budget.upsets > 0
    /\ budget' = [budget EXCEPT !.upsets = @ - 1]

(* createMicroverseCandidate takes the fingerprint of the checkout as it   *)
(* is now, the head from the checkpoint taken before.                      *)
CreateCandidate ==
    /\ At("create")
    /\ \/ /\ cand' = [NoCand EXCEPT !.exp = run.exp]
          /\ run' = [run EXCEPT !.pc = "write", !.base.dirty = live.dirty]
          /\ UNCHANGED budget
       \/ Faulty /\ UNCHANGED cand /\ Throw(FALSE)
    /\ UNCHANGED <<ledger, metrics, attempt, archives, live, session, measured>>

NewAttempt ==
    [exp |-> run.exp, iteration |-> session.iteration + 1, phase |-> "running",
     owned |-> FALSE, before |-> metrics, after |-> metrics, base |-> run.base]

WriteAttempt ==
    /\ At("write")
    /\ attempt' = NewAttempt
    /\ run' = [run EXCEPT !.pc = "work", !.pending = TRUE]
    /\ UNCHANGED <<ledger, metrics, cand, archives, live, session, budget, measured>>

(* The worker, and the classification of how it ended (a timeout counts    *)
(* as an error).                                                           *)
WorkerFailures == {"worker_error", "worker_incomplete", "protected_path_tamper"}

WorkerEnds ==
    /\ At("work")
    /\ \E work \in {{}, {"in"}, Parts}, moved \in BOOLEAN :
          cand' = [cand EXCEPT !.work = work, !.moved = moved]
    /\ \/ session.exit = "cancelled" /\ Break("cancelled")
       \/ /\ session.exit # "cancelled"
          /\ \E o \in WorkerFailures :
                run' = [run EXCEPT !.pc = "fArchive", !.outcome = o]
       \/ session.exit # "cancelled" /\ Goto("adopt")
    /\ UNCHANGED <<ledger, metrics, attempt, archives, live, session, budget, measured>>

(* The plan is adopted and the transaction rewritten with the paths the    *)
(* attempt owns; then the protected paths are compared.                    *)
AdoptPlan ==
    /\ At("adopt")
    /\ attempt' = [attempt EXCEPT !.owned = TRUE, !.phase = "running"]
    /\ \/ Goto("scope")
       \/ run' = [run EXCEPT !.pc = "fArchive", !.outcome = "protected_path_tamper"]
    /\ UNCHANGED <<ledger, metrics, cand, archives, live, session, budget, measured>>

(* enforceMicroverseExperimentScope: changes outside the target paths undo *)
(* the ones inside before the attempt is given up.                         *)
LeavesScope == "out" \in cand.work

Scoped == [cand EXCEPT !.work = {"out"}, !.anchored = @ \cup cand.work]

(* recoverableHardReset throws, with the paths undone or not.              *)
RevertThrows(undone) == Faulty /\ cand' \in {cand, undone} /\ Throw(FALSE)

EnforceScope ==
    /\ At("scope")
    /\ \/ /\ LeavesScope /\ cand' = Scoped
          /\ run' = [run EXCEPT !.pc = "fArchive", !.outcome = "worker_incomplete"]
          /\ UNCHANGED budget
       \/ LeavesScope /\ RevertThrows(Scoped)
       \/ ~LeavesScope /\ Goto("archive") /\ UNCHANGED <<cand, budget>>
    /\ UNCHANGED <<ledger, metrics, attempt, archives, live, session, measured>>

ArchiveCandidate ==
    /\ At("archive")
    /\ Archive("measure") \/ (ArchiveFails /\ Throw(TRUE))
    /\ UNCHANGED <<ledger, metrics, cand, live, session, measured>>

(* measureMetric in the clone.  A better score counts when the head moved  *)
(* or a path is dirty: a commit that leaves the tree as it was is a change. *)
Measure ==
    /\ At("measure")
    /\ measured' = cand.work
    /\ \/ /\ cand.moved \/ cand.work # {}
          /\ run' = [run EXCEPT !.pc = "record", !.outcome = "improved"]
       \/ run' = [run EXCEPT !.pc = "revert", !.outcome = "held"]
       \/ Goto("remeasure")
    /\ UNCHANGED <<ledger, metrics, attempt, cand, archives, live, session, budget>>

(* revertMetricIterationSafely anchors the work under refs of the clone    *)
(* and undoes the owned paths only.                                        *)
Reverted ==
    [cand EXCEPT !.anchored = @ \cup cand.work,
                 !.work = IF attempt.owned THEN @ \ {"in"} ELSE @]

RevertHeld ==
    /\ At("revert")
    /\ \/ cand' = Reverted /\ Goto("record") /\ UNCHANGED budget
       \/ RevertThrows(Reverted)
    /\ UNCHANGED <<ledger, metrics, attempt, archives, live, session, measured>>

(* processMetricIteration ends with the metric state: before promotion.    *)
RecordMetric ==
    /\ At("record")
    /\ metrics' = Recorded(metrics, run.exp, run.outcome = "improved")
    /\ Goto(IF run.outcome = "improved" THEN "pending" ELSE "complete")
    /\ UNCHANGED <<ledger, attempt, cand, archives, live, session, budget, measured>>

(* recoverCandidateInducedMetricFailure: the metric failed on the          *)
(* candidate; the checkpoint must still give the best score.               *)
Remeasure ==
    /\ At("remeasure")
    /\ \/ /\ cand' = Reverted
          /\ run' = [run EXCEPT !.pc = "fDiscard", !.outcome = "worker_incomplete"]
          /\ metrics' = attempt.before /\ UNCHANGED budget
       \/ RevertThrows(Reverted) /\ UNCHANGED metrics
    /\ UNCHANGED <<ledger, attempt, archives, live, session, measured>>

PersistPending ==
    /\ At("pending")
    /\ attempt' = [attempt EXCEPT !.phase = "promotion_pending", !.after = metrics]
    /\ Goto("promote")
    /\ UNCHANGED <<ledger, metrics, cand, archives, live, session, budget, measured>>

Promote ==
    /\ At("promote")
    /\ \/ Diffless /\ Goto("mark") /\ UNCHANGED live
       \/ ~Diffless /\ Boundary(live) # attempt.base /\ Goto("defer") /\ UNCHANGED live
       \/ /\ ~Diffless /\ Boundary(live) = attempt.base /\ CanFastForward
          /\ FastForward(run.exp) /\ Goto("mark")
       \/ /\ ~Diffless /\ Boundary(live) = attempt.base /\ ~CanFastForward
          /\ Throw(FALSE) /\ UNCHANGED live
    /\ UNCHANGED <<ledger, metrics, attempt, cand, archives, session, budget, measured>>

(* A live checkout that moved: the metric state goes back and the          *)
(* candidate waits for the next process.                                   *)
DeferPromotion ==
    /\ At("defer")
    /\ metrics' = attempt.before
    /\ run' = [run EXCEPT !.pc = "rollback", !.exit = "workspace_changed", !.deferred = TRUE]
    /\ UNCHANGED <<ledger, attempt, cand, archives, live, session, budget, measured>>

MarkPromoted ==
    /\ At("mark")
    /\ attempt' = [attempt EXCEPT !.phase = "promoted"]
    /\ \/ Goto("complete") /\ UNCHANGED budget
       \/ Faulty /\ Throw(FALSE)
    /\ UNCHANGED <<ledger, metrics, cand, archives, live, session, measured>>

CompleteExperiment ==
    /\ At("complete")
    /\ ledger' = Completed(run.exp, IF run.outcome = "improved" THEN "accepted" ELSE "rejected")
    /\ Goto("discard")
    /\ UNCHANGED <<metrics, attempt, cand, archives, live, session, budget, measured>>

DiscardCandidate ==
    /\ At("discard")
    /\ \/ /\ cand' = NoCand /\ run' = [run EXCEPT !.pc = "count", !.pending = FALSE]
          /\ UNCHANGED budget
       \/ Faulty /\ UNCHANGED cand /\ Throw(FALSE)
    /\ UNCHANGED <<ledger, metrics, attempt, archives, live, session, measured>>

(* state.json; its lock may be refused.                                    *)
CountIteration ==
    /\ At("count")
    /\ \/ /\ session' = [session EXCEPT !.iteration = @ + 1]
          /\ Goto("clear") /\ UNCHANGED budget
       \/ Faulty /\ UNCHANGED session /\ Throw(FALSE)
    /\ UNCHANGED <<ledger, metrics, attempt, cand, archives, live, measured>>

ClearAttempt ==
    /\ At("clear")
    /\ attempt' = NoAttempt /\ measured' = {}
    /\ IF run.outcome = "stop" THEN Break("worker_failure_limit")
       ELSE run' = [run EXCEPT !.pc = "top", !.exp = 0, !.outcome = "none", !.base = NoAttempt.base]
    /\ UNCHANGED <<ledger, metrics, cand, archives, live, session, budget>>

-----------------------------------------------------------------------------
(* An attempt that gave no scientific outcome. *)

ArchiveFailed ==
    /\ At("fArchive")
    /\ Archive("fRevert") \/ (ArchiveFails /\ Throw(TRUE))
    /\ UNCHANGED <<ledger, metrics, cand, live, session, measured>>

RevertFailed ==
    /\ At("fRevert")
    /\ \/ cand' = Reverted /\ Goto("fDiscard") /\ UNCHANGED budget
       \/ RevertThrows(Reverted)
    /\ UNCHANGED <<ledger, metrics, attempt, archives, live, session, measured>>

DiscardFailed ==
    /\ At("fDiscard")
    /\ cand' = NoCand
    /\ run' = [run EXCEPT !.pc = "fRecord", !.pending = FALSE]
    /\ UNCHANGED <<ledger, metrics, attempt, archives, live, session, budget, measured>>

(* recordWorkerAttemptFailure: the same experiment is planned again.       *)
RecordFailure ==
    /\ At("fRecord")
    /\ ledger' = [ledger EXCEPT !.status[run.exp] = "planned", !.failures = @ + 1]
    /\ Goto("fDecide")
    /\ UNCHANGED <<metrics, attempt, cand, archives, live, session, budget, measured>>

(* recoverMicroverseWorkerFailure: below the limit the experiment is tried *)
(* again; at the limit an incomplete one is abandoned for another, a       *)
(* tampering one is abandoned and stops the loop, and the window restarts. *)
DecideFailure ==
    LET atLimit == ledger.failures >= FailureLimit
        abandon == atLimit /\ run.outcome # "worker_error"
    IN /\ At("fDecide")
       /\ ledger' = IF abandon THEN [ledger EXCEPT !.status[run.exp] = "invalid"] ELSE ledger
       /\ run' = IF atLimit /\ run.outcome = "protected_path_tamper"
                 THEN [run EXCEPT !.pc = "clear", !.outcome = "stop"]
                 ELSE [run EXCEPT !.pc = IF atLimit THEN "fReset" ELSE "clear"]
       /\ UNCHANGED <<metrics, attempt, cand, archives, live, session, budget, measured>>

ResetWindow ==
    /\ At("fReset")
    /\ ledger' = [ledger EXCEPT !.failures = 0]
    /\ Goto("clear")
    /\ UNCHANGED <<metrics, attempt, cand, archives, live, session, budget, measured>>

-----------------------------------------------------------------------------
(* finally: rollback, finalizeMicroverseAttemptOnExit, exitLoopRunnerPhase. *)

RollbackOnExit ==
    /\ At("rollback")
    /\ \/ /\ run.deferred
          /\ Goto("stop") /\ UNCHANGED <<attempt, archives, budget>>
       \/ /\ ~run.deferred /\ (~run.pending \/ TerminalOutcome)
          /\ Goto("finalize") /\ UNCHANGED <<attempt, archives, budget>>
       \/ /\ ~run.deferred /\ run.pending /\ ~TerminalOutcome
          /\ Archive("zRevert") \/ (ArchiveFails /\ StopWith("error"))
    /\ UNCHANGED <<ledger, metrics, cand, live, session, measured>>

(* A rollback that throws quarantines the candidate.                       *)
RevertOnExit ==
    /\ At("zRevert")
    /\ \/ cand' = Reverted /\ Goto("finalize") /\ UNCHANGED <<attempt, archives, budget>>
       \/ cand' \in {cand, Reverted} /\ ArchiveFails /\ StopWith("error")
    /\ UNCHANGED <<ledger, metrics, live, session, measured>>

FinalizeOnExit ==
    /\ At("finalize")
    /\ IF TerminalOutcome THEN Goto("zCount") /\ UNCHANGED metrics
       ELSE /\ Goto("zReconcile")
            /\ metrics' = IF attempt.exp = 0 THEN metrics ELSE attempt.before
    /\ UNCHANGED <<ledger, attempt, cand, archives, live, session, budget, measured>>

CountOnExit ==
    /\ At("zCount")
    /\ session' = [session EXCEPT !.iteration = Iterations(attempt.iteration)]
    /\ Goto("zDiscard")
    /\ UNCHANGED <<ledger, metrics, attempt, cand, archives, live, budget, measured>>

ReconcileOnExit ==
    /\ At("zReconcile")
    /\ ledger' = Reconciled("cancel")
    /\ Goto(IF attempt.exp = 0 THEN "stop" ELSE "zDiscard")
    /\ UNCHANGED <<metrics, attempt, cand, archives, live, session, budget, measured>>

(* transactionCandidate throws when the clone is already gone: the         *)
(* transaction stays.                                                      *)
DiscardOnExit ==
    /\ At("zDiscard")
    /\ IF CandidateIntact THEN cand' = NoCand /\ Goto("zClear")
       ELSE UNCHANGED cand /\ StopWith("error")
    /\ UNCHANGED <<ledger, metrics, attempt, archives, live, session, budget, measured>>

ClearOnExit ==
    /\ At("zClear")
    /\ attempt' = NoAttempt /\ measured' = {}
    /\ Goto("stop")
    /\ UNCHANGED <<ledger, metrics, cand, archives, live, session, budget>>

ExitPhase ==
    /\ At("stop")
    /\ session' = [session EXCEPT !.exit = IF @ = "cancelled" THEN @ ELSE run.exit]
    /\ run' = Idle
    /\ UNCHANGED <<ledger, metrics, attempt, cand, archives, live, budget, measured>>

-----------------------------------------------------------------------------
(* The environment. *)

Kill ==
    /\ ~At("down") /\ budget.upsets > 0
    /\ budget' = [budget EXCEPT !.upsets = @ - 1]
    /\ run' = Idle
    /\ UNCHANGED <<ledger, metrics, attempt, cand, archives, live, session, measured>>

Cancel ==
    /\ session.exit = "none"
    /\ session' = [session EXCEPT !.exit = "cancelled"]
    /\ UNCHANGED <<ledger, metrics, attempt, cand, archives, live, run, budget, measured>>

(* The operator edits the checkout, throws the edit away, or commits,      *)
(* perhaps over the paths of promoted candidates.                          *)
EditLive ==
    /\ budget.edits > 0 /\ ~live.dirty
    /\ budget' = [budget EXCEPT !.edits = @ - 1]
    /\ live' = [live EXCEPT !.dirty = TRUE]
    /\ UNCHANGED <<ledger, metrics, attempt, cand, archives, session, run, measured>>

CleanLive ==
    /\ live.dirty
    /\ live' = [live EXCEPT !.dirty = FALSE]
    /\ UNCHANGED <<ledger, metrics, attempt, cand, archives, session, run, budget, measured>>

CommitLive ==
    /\ live.dirty
    /\ \E S \in SUBSET live.has :
          live' = [live EXCEPT !.dirty = FALSE, !.foreign = @ + 1, !.touched = @ \cup S]
    /\ UNCHANGED <<ledger, metrics, attempt, cand, archives, session, run, budget, measured>>

-----------------------------------------------------------------------------
Startup ==
    \/ ResetWorkerFailures \/ RecoverIdentity \/ RecoverDecide \/ RecoverPromote \/ RecoverMark
    \/ RecoverComplete \/ RecoverMetrics \/ RecoverCount \/ RecoverArchive \/ RecoverRemove
    \/ RecoverRestore \/ RecoverReconcile \/ RecoverDiscard \/ RecoverClear \/ ReconcileRunning

Iteration ==
    \/ LoopTop \/ PlanExperiment \/ StartExperiment \/ CreateCandidate \/ WriteAttempt
    \/ WorkerEnds \/ AdoptPlan \/ EnforceScope \/ ArchiveCandidate \/ Measure \/ RevertHeld
    \/ RecordMetric \/ Remeasure \/ PersistPending \/ Promote \/ DeferPromotion \/ MarkPromoted
    \/ CompleteExperiment \/ DiscardCandidate \/ CountIteration \/ ClearAttempt
    \/ ArchiveFailed \/ RevertFailed \/ DiscardFailed \/ RecordFailure \/ DecideFailure
    \/ ResetWindow

Finally ==
    \/ RollbackOnExit \/ RevertOnExit \/ FinalizeOnExit \/ CountOnExit \/ ReconcileOnExit
    \/ DiscardOnExit \/ ClearOnExit \/ ExitPhase

Process == Startup \/ Iteration \/ Finally

Environment == Kill \/ Cancel \/ EditLive \/ CleanLive \/ CommitLive

Next == Start \/ Process \/ Environment

(* The process runs on, and a stopped session is resumed.                  *)
Spec == Init /\ [][Next]_vars /\ WF_vars(Process) /\ WF_vars(Start)

-----------------------------------------------------------------------------
(* Properties. *)

(* What the ledger accepts is in the live history when it changed          *)
(* anything, and what is in the live history is accepted or still on       *)
(* record as a promotion to settle: persistMicroversePromotion before      *)
(* promoteMicroverseCandidate before completeExperiment, whichever of them *)
(* a kill or an exception follows.                                         *)
PromotionRecorded ==
    /\ \A e \in Accepted : archives[e] # {} => e \in live.has
    /\ \A e \in live.has \ Accepted :
          /\ attempt.exp = e
          /\ attempt.phase \in {"promotion_pending", "promoted"}

(* No attempt is under way. *)
Quiet == attempt.exp = 0 /\ run.pc \in {"down", "top"}

(* The metric file, state.json and the ledger are written apart and agree   *)
(* again whenever no attempt is open: every scientific outcome is one       *)
(* iteration, although a kill can make recovery replay the count, the best  *)
(* is the last accepted experiment, and the two stall counters are equal.   *)
LedgerAgrees ==
    Quiet => /\ session.iteration = Cardinality({e \in Exps : Scientific(e)})
             /\ metrics.gain = Cardinality(Accepted)
             /\ metrics.best = IF Accepted = {} THEN 0
                               ELSE CHOOSE e \in Accepted : \A f \in Accepted : f <= e
             /\ metrics.stall = ledger.stalls

(* "Rejected code may be rolled back, but its hypothesis, diff, and        *)
(* insight must survive" (prds/microverse-research-loop-v2.md): the        *)
(* archive of an experiment that is rejected holds the work that was       *)
(* measured, and nothing overwrites it afterwards.                         *)
RejectedEvidenceKept ==
    [][ \A e \in Exps : ledger'.status[e] = "rejected" =>
            archives'[e] = IF ledger.status[e] = "rejected" THEN archives[e] ELSE measured ]_vars

(* Promoted without a diff: the live history holds no commit of it, and    *)
(* recovery, which looks for one, throws on every start.                   *)
PromotedInVain == attempt.phase = "promoted" /\ Diffless

(* An attempt does not stay half way while the session is resumed: it ends *)
(* in its outcome, or is quarantined, or was promoted without a diff, or   *)
(* waits for a checkout the operator changed: before the attempt took its  *)
(* fingerprint (no fast-forward can ever satisfy that one) or since.       *)
AttemptSettles ==
    attempt.exp # 0 ~>
        \/ attempt.exp = 0
        \/ attempt.phase = "quarantined"
        \/ session.exit = "cancelled"
        \/ PromotedInVain
        \/ /\ ~AlreadyPromoted(attempt.exp)
           /\ live.dirty \/ attempt.base.dirty \/ live.foreign # attempt.base.foreign

(* Every accepted experiment is in the live history.  One whose commits    *)
(* leave the tree as it was is accepted without a fast-forward.            *)
AcceptedIsLive == Accepted \subseteq live.has

(* A promotion on record settles on a checkout nobody touched.  One        *)
(* without a diff that a kill separates from the end of its attempt is     *)
(* looked for in the live history in vain, on every start.                 *)
PromotionSettles ==
    (attempt.phase = "promoted" /\ live.foreign = 0 /\ ~live.dirty)
        ~> \/ attempt.phase # "promoted" \/ session.exit = "cancelled"
           \/ live.foreign # 0 \/ live.dirty

(* README.md: before a destructive operation "the runtime anchors          *)
(* committed work and snapshots dirty/untracked evidence under             *)
(* refs/pickle/recovery/*".  For a candidate those refs are in the clone,  *)
(* so what they hold must be in the archive when the clone is deleted.     *)
EvidenceOutlivesClone ==
    [][ (cand.exp # 0 /\ cand'.exp # cand.exp)
        => cand.work \cup cand.anchored \subseteq archives[cand.exp] ]_vars

(* "candidate retained for quarantine" (bin/loop-runner.ts:909): a         *)
(* transaction is quarantined with its clone.  A kill between the deletion *)
(* of the clone and the removal of the transaction leaves one that is      *)
(* quarantined without it, and the session cannot be resumed any more.     *)
QuarantineKeepsCandidate ==
    [][ (attempt'.phase = "quarantined" /\ attempt.phase # "quarantined")
        => CandidateIntact ]_vars
=============================================================================
