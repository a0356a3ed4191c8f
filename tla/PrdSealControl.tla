--------------------------- MODULE PrdSealControl ---------------------------
(***************************************************************************)
(* The PRD seal (prd.lock.json, prd-seal.ts) and the control state of the  *)
(* pipeline journal (durable-supervisor.ts), two files that                *)
(* session-prd-seal.ts keeps in step: launchers run ensureSessionPrdSeal,  *)
(* the operator approveSessionPrdRevision, refinement changes the accepted *)
(* contract and executors own the pipeline meanwhile.  Any of these        *)
(* processes may die between the two writes.                               *)
(*                                                                         *)
(* A contract stands for the accepted refinement with the PRD, and for the *)
(* semantic hash of its seal: every comparison takes sealed_at from the    *)
(* existing seal.                                                          *)
(***************************************************************************)
EXTENDS Integers

CONSTANTS
  Contracts,  \* accepted refinement contracts
  NoContract, \* no seal, no hash
  Processes,  \* launches and approvals in flight
  NoProcess

ASSUME ContractAssumption == NoContract \notin Contracts
ASSUME ProcessAssumption == NoProcess \notin Processes

VARIABLES
  contract, \* what the session directory holds as accepted refinement
  seal,     \* prd.lock.json
  control,  \* control_state, "absent" before logical-pipeline.json exists
  sealHash, \* prd_seal_hash of the journal
  leased,   \* lease # null
  history,  \* events other than pipeline_created and prd_sealed
  handoff,  \* the pending runtime handoff: "checked" once its target has read
            \* the journal
  lock,     \* who keeps logical-pipeline.json locked over two writes
  pc,       \* [Processes -> where resolveSessionPrdSeal stands]
  mine      \* [Processes -> what the process read]

journal == <<control, sealHash, leased, history, handoff>>
vars == <<contract, seal, journal, lock, pc, mine>>

Controls == {"absent", "prd_development", "autonomous_execution", "prd_revision_required"}
Steps == {"idle", "dead", "create", "observe", "seal", "fresh", "same", "begin", "request",
          "approve", "commit"}

Nothing == [approve |-> FALSE, contract |-> NoContract, control |-> "absent",
            sealHash |-> NoContract, unowned |-> FALSE]

TypeOK ==
  /\ contract \in Contracts
  /\ seal \in Contracts \cup {NoContract}
  /\ control \in Controls
  /\ sealHash \in Contracts \cup {NoContract}
  /\ leased \in BOOLEAN /\ history \in BOOLEAN
  /\ handoff \in {"none", "requested", "checked"}
  /\ lock \in Processes \cup {NoProcess}
  /\ pc \in [Processes -> Steps]
  /\ mine \in [Processes -> [approve : BOOLEAN, contract : Contracts \cup {NoContract},
                             control : Controls, sealHash : Contracts \cup {NoContract},
                             unowned : BOOLEAN]]
  /\ control = "autonomous_execution" => sealHash \in Contracts

-----------------------------------------------------------------------------
(* resolveSessionPrdSeal                                                   *)

Goto(p, step) == pc' = [pc EXCEPT ![p] = step] /\ UNCHANGED mine

\* The command returns or throws.
Leave(p) ==
  /\ pc' = [pc EXCEPT ![p] = "idle"]
  /\ mine' = [mine EXCEPT ![p] = Nothing]

\* The command validates the accepted refinement and builds the seal input.
Start(p, approve) ==
  /\ pc[p] \in {"idle", "dead"}
  /\ mine' = [mine EXCEPT ![p] = [Nothing EXCEPT !.approve = approve, !.contract = contract]]
  /\ pc' = [pc EXCEPT ![p] = IF control = "absent" THEN "create" ELSE "observe"]
  /\ UNCHANGED <<contract, seal, journal, lock>>

\* createLogicalPipeline refuses a journal that another process created.
Create(p) ==
  /\ pc[p] = "create" /\ lock = NoProcess
  /\ IF control = "absent"
       THEN control' = "prd_development" /\ Goto(p, "observe")
       ELSE UNCHANGED control /\ Leave(p)
  /\ UNCHANGED <<contract, seal, sealHash, leased, history, handoff, lock>>

\* readLogicalPipeline, without the lock.
Observe(p) ==
  /\ pc[p] = "observe"
  /\ mine' = [mine EXCEPT ![p] = [@ EXCEPT !.control = control, !.sealHash = sealHash,
                                           !.unowned = ~leased /\ ~history]]
  /\ pc' = [pc EXCEPT ![p] = "seal"]
  /\ UNCHANGED <<contract, seal, journal, lock>>

\* Where a changed contract leads by the control state read before.
Revision(p) ==
  IF mine[p].control = "prd_revision_required" /\ mine[p].approve THEN "approve"
  ELSE IF mine[p].control = "autonomous_execution" /\ mine[p].unowned THEN "request"
  ELSE "idle"

CompareSeal(p) ==
  /\ pc[p] = "seal"
  /\ IF seal = NoContract THEN Goto(p, "fresh")
     ELSE IF seal = mine[p].contract THEN Goto(p, "same")
     ELSE IF Revision(p) = "idle" THEN Leave(p) ELSE Goto(p, Revision(p))
  /\ UNCHANGED <<contract, seal, journal, lock>>

\* Fault: the seal is written over another contract's.
MaySealOver(p) == p \in Processes

\* writePrdSeal, under the seal's own lock, keeps an existing seal of the same
\* contract and refuses another.
MaySeal(p) == seal \in {NoContract, mine[p].contract}

\* Fault: only the process that wrote the seal begins the execution.
BeginsIfFresh(p) == pc[p] = "fresh"

Begins(p) == pc[p] = "fresh" \/ mine[p].control = "prd_development"

\* With a seal that was there, the control state read before must match it.
WriteSeal(p) ==
  /\ pc[p] \in {"fresh", "same"}
  /\ seal' = IF MaySeal(p) THEN mine[p].contract ELSE seal
  /\ IF MaySeal(p) /\ Begins(p) THEN Goto(p, "begin") ELSE Leave(p)
  /\ UNCHANGED <<contract, journal, lock>>

\* beginAutonomousExecution and approvePrdRevision read the seal back.
ReadBack(p) == seal

\* beginAutonomousExecution
Begin(p) ==
  /\ pc[p] = "begin" /\ lock = NoProcess
  /\ IF control = "prd_development"
       THEN control' = "autonomous_execution" /\ sealHash' = ReadBack(p)
       ELSE UNCHANGED <<control, sealHash>>
  /\ Leave(p)
  /\ UNCHANGED <<contract, seal, leased, history, handoff, lock>>

\* requestPrdRevision checks the control state alone: a lease acquired since the
\* journal was read is taken away.  The command then throws and waits for the
\* operator.
RequestRevision(p) ==
  /\ pc[p] = "request" /\ lock = NoProcess
  /\ IF control = "autonomous_execution"
       THEN /\ control' = "prd_revision_required"
            /\ leased' = FALSE /\ history' = TRUE
       ELSE UNCHANGED <<control, leased, history>>
  /\ Leave(p)
  /\ UNCHANGED <<contract, seal, sealHash, handoff, lock>>

\* Fault: a revision is approved in any control state.
MayReplaceAnytime(p) == pc[p] = "approve"

\* approvePrdRevision's guard, read again under the journal's lock.
MayReplace(p) == control = "prd_revision_required"

\* replacePrdSealAfterRevision: the seal is written before the journal.
ReplaceSeal(p) ==
  /\ pc[p] = "approve" /\ lock = NoProcess
  /\ IF MayReplace(p)
       THEN seal' = mine[p].contract /\ lock' = p /\ Goto(p, "commit")
       ELSE UNCHANGED <<seal, lock>> /\ Leave(p)
  /\ UNCHANGED <<contract, journal>>

CommitApproval(p) ==
  /\ pc[p] = "commit"
  /\ control' = "autonomous_execution" /\ sealHash' = ReadBack(p)
  /\ lock' = NoProcess
  /\ Leave(p)
  /\ UNCHANGED <<contract, seal, leased, history, handoff>>

\* The process is killed; a lock it held is stale and the next taker steals it.
Crash(p) ==
  /\ pc[p] \notin {"idle", "dead"}
  /\ pc' = [pc EXCEPT ![p] = "dead"]
  /\ mine' = [mine EXCEPT ![p] = Nothing]
  /\ lock' = IF lock = p THEN NoProcess ELSE lock
  /\ UNCHANGED <<contract, seal, journal>>

-----------------------------------------------------------------------------
(* The session around it                                                   *)

\* A new refinement is accepted.
Refine(c) ==
  /\ contract # c
  /\ contract' = c
  /\ UNCHANGED <<seal, journal, lock, pc, mine>>

\* Executors, as LogicalPipeline describes them: a pending handoff reserves the
\* lease for its target.
AcquireLease ==
  /\ control = "autonomous_execution" /\ ~leased /\ handoff = "none" /\ lock = NoProcess
  /\ leased' = TRUE /\ history' = TRUE
  /\ UNCHANGED <<contract, seal, control, sealHash, handoff, lock, pc, mine>>

ReleaseLease ==
  /\ leased /\ lock = NoProcess
  /\ leased' = FALSE
  /\ UNCHANGED <<contract, seal, control, sealHash, history, handoff, lock, pc, mine>>

ExecutorRequestsRevision ==
  /\ leased /\ control = "autonomous_execution" /\ lock = NoProcess
  /\ control' = "prd_revision_required" /\ leased' = FALSE
  /\ UNCHANGED <<contract, seal, sealHash, history, handoff, lock, pc, mine>>

\* requestRuntimeHandoff under the owner's fence.
RequestHandoff ==
  /\ leased /\ handoff = "none" /\ lock = NoProcess
  /\ handoff' = "requested"
  /\ UNCHANGED <<contract, seal, control, sealHash, leased, history, lock, pc, mine>>

\* startDurableRuntimeOwnership of the target reads the journal without its lock.
CheckRunnable ==
  /\ handoff = "requested" /\ control = "autonomous_execution" /\ ~leased
  /\ handoff' = "checked"
  /\ UNCHANGED <<contract, seal, control, sealHash, leased, history, lock, pc, mine>>

\* acceptRuntimeHandoff looks at the request and the lease, not at control_state.
AcceptHandoff ==
  /\ handoff = "checked" /\ ~leased /\ lock = NoProcess
  /\ handoff' = "none" /\ leased' = TRUE
  /\ UNCHANGED <<contract, seal, control, sealHash, history, lock, pc, mine>>

\* The target dies, or nobody took the lease in time (abortExpiredRuntimeHandoff).
FailHandoff ==
  /\ handoff # "none" /\ lock = NoProcess
  /\ \/ handoff = "checked" /\ handoff' = "requested" /\ UNCHANGED leased
     \/ handoff' = "none" /\ leased' = FALSE
  /\ UNCHANGED <<contract, seal, control, sealHash, history, lock, pc, mine>>

Init ==
  /\ contract \in Contracts
  /\ seal = NoContract /\ sealHash = NoContract
  /\ control = "absent"
  /\ leased = FALSE /\ history = FALSE /\ handoff = "none"
  /\ lock = NoProcess
  /\ pc = [p \in Processes |-> "idle"]
  /\ mine = [p \in Processes |-> Nothing]

Proceed(p) ==
  \/ Create(p) \/ Observe(p) \/ CompareSeal(p) \/ WriteSeal(p) \/ Begin(p)
  \/ RequestRevision(p) \/ ReplaceSeal(p) \/ CommitApproval(p)

Next ==
  \/ \E p \in Processes : Proceed(p) \/ Crash(p) \/ \E approve \in BOOLEAN : Start(p, approve)
  \/ \E c \in Contracts : Refine(c)
  \/ AcquireLease \/ ReleaseLease \/ ExecutorRequestsRevision
  \/ RequestHandoff \/ CheckRunnable \/ AcceptHandoff \/ FailHandoff

Spec == Init /\ [][Next]_vars

\* Commands run to their end and the operator reruns the one that failed; kills
\* and new refinements stop at some point.
FairSpec ==
  /\ Spec
  /\ \A p \in Processes : WF_vars(Proceed(p)) /\ WF_vars(Start(p, TRUE))
  /\ <>[][~\E p \in Processes : Crash(p)]_vars

-----------------------------------------------------------------------------
(* Properties                                                              *)

\* Execution goes by the contract on disk: in autonomous execution the journal
\* names the very seal that prd.lock.json holds, and nobody owns the pipeline
\* before a contract is sealed.
ExecutionUnderItsSeal ==
  /\ control = "autonomous_execution" => seal = sealHash
  /\ leased => seal # NoContract

\* Once sealed, a contract is replaced only during a revision, under the
\* journal's lock: no concurrent launch swaps it under an executor.
SealedContractStands ==
  [][ (seal # NoContract /\ seal' # seal) => control = "prd_revision_required" ]_vars

\* A launch that dies between sealing the PRD and journaling it is made good by
\* the next command on the same contract.
SealedPrdBegins ==
  (control = "prd_development" /\ seal = contract)
    ~> (control = "autonomous_execution" \/ contract # seal)

\* The same for an approved revision: once its seal is written, execution resumes
\* when the operator repeats the approval.
ApprovedRevisionResumes ==
  (control = "prd_revision_required" /\ seal = contract /\ seal # sealHash)
    ~> (control = "autonomous_execution" \/ contract # seal)

\* Nobody owns a pipeline that is not in autonomous execution.
LeaseNeedsAutonomy == leased => control = "autonomous_execution"

=============================================================================
