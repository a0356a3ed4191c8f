------------------------ MODULE OperatorCommandProofs ------------------------
(***************************************************************************)
(* What the two commands guarantee by which an operator steers a running   *)
(* session: the approval of a contract (PrdSealControl), for any number of *)
(* contracts and of commands in flight, and the cancellation               *)
(* (CancellationRecovery), for any number of children, cancellers and      *)
(* kills.                                                                  *)
(***************************************************************************)
EXTENDS PrdSealControl, CancellationRecovery, TLAPS

-----------------------------------------------------------------------------
(* The approval.                                                           *)

\* The two files agree wherever the journal's lock is free: a process between its
\* two writes holds the lock during a revision, and a begun or approved execution
\* finds a seal.
FilesAgree ==
  /\ ExecutionUnderItsSeal
  /\ \A p \in Processes : pc[p] = "commit" => lock = p /\ control = "prd_revision_required"
                                              /\ seal \in Contracts
  /\ \A p \in Processes : pc[p] = "begin" => seal \in Contracts
  /\ handoff # "none" => seal \in Contracts
  /\ \A p \in Processes : pc[p] \notin {"idle", "dead"} => mine[p].contract \in Contracts

Inv == TypeOK /\ FilesAgree

LEMMA NothingTyped ==
  Nothing \in [approve : BOOLEAN, contract : Contracts \cup {NoContract},
               control : Controls, sealHash : Contracts \cup {NoContract},
               unowned : BOOLEAN]
BY DEF Nothing, Controls

LEMMA InitInv ==
  Init => Inv
BY NothingTyped DEF Init, Inv, TypeOK, FilesAgree, ExecutionUnderItsSeal, Controls, Steps

\* Every command step, by what it writes.
LEMMA ProceedInv ==
  ASSUME Inv, NEW p \in Processes, Proceed(p)
  PROVE  Inv'
<1>. USE NothingTyped, ContractAssumption, ProcessAssumption
         DEF Inv, TypeOK, FilesAgree, ExecutionUnderItsSeal, journal, Goto, Leave
<1>1. CASE Create(p)
  BY <1>1 DEF Create, Controls, Steps
<1>2. CASE Observe(p)
  <2>. DEFINE seen == [mine[p] EXCEPT !.control = control, !.sealHash = sealHash,
                                      !.unowned = ~leased /\ ~history]
  <2>1. /\ seen \in [approve : BOOLEAN, contract : Contracts \cup {NoContract},
                     control : Controls, sealHash : Contracts \cup {NoContract},
                     unowned : BOOLEAN]
        /\ seen.contract = mine[p].contract
    OBVIOUS
  <2>2. mine' = [mine EXCEPT ![p] = seen] /\ pc' = [pc EXCEPT ![p] = "seal"]
    BY <1>2 DEF Observe
  <2>. HIDE DEF seen
  <2>. QED  BY <1>2, <2>1, <2>2 DEF Observe, Steps
<1>3. CASE CompareSeal(p)
  BY <1>3 DEF CompareSeal, Revision, Steps
<1>4. CASE WriteSeal(p)
  BY <1>4 DEF WriteSeal, MaySeal, Begins, Steps
<1>5. CASE Begin(p)
  BY <1>5 DEF Begin, ReadBack, Controls, Steps
<1>6. CASE RequestRevision(p)
  BY <1>6 DEF RequestRevision, Controls, Steps
<1>7. CASE ReplaceSeal(p)
  BY <1>7 DEF ReplaceSeal, MayReplace, Steps
<1>8. CASE CommitApproval(p)
  BY <1>8 DEF CommitApproval, ReadBack, Controls, Steps
<1>. QED  BY <1>1, <1>2, <1>3, <1>4, <1>5, <1>6, <1>7, <1>8 DEF Proceed

LEMMA StepInv ==
  Inv /\ [Next]_vars => Inv'
<1>. SUFFICES ASSUME Inv, [Next]_vars PROVE Inv'
  OBVIOUS
<1>. USE NothingTyped, ContractAssumption, ProcessAssumption
         DEF Inv, TypeOK, FilesAgree, ExecutionUnderItsSeal, journal
<1>1. ASSUME NEW p \in Processes, Proceed(p) PROVE Inv'
  BY <1>1, ProceedInv
<1>2. ASSUME NEW p \in Processes, Crash(p) PROVE Inv'
  BY <1>2 DEF Crash, Steps
<1>3. ASSUME NEW p \in Processes, NEW approve \in BOOLEAN, Start(p, approve) PROVE Inv'
  BY <1>3 DEF Start, Nothing, Controls, Steps
<1>4. ASSUME NEW c \in Contracts, Refine(c) PROVE Inv'
  BY <1>4 DEF Refine
<1>5. CASE AcquireLease \/ ReleaseLease \/ ExecutorRequestsRevision
  BY <1>5 DEF AcquireLease, ReleaseLease, ExecutorRequestsRevision, Controls
<1>6. CASE RequestHandoff \/ CheckRunnable \/ AcceptHandoff \/ FailHandoff
  BY <1>6 DEF RequestHandoff, CheckRunnable, AcceptHandoff, FailHandoff
<1>7. CASE UNCHANGED vars
  BY <1>7 DEF vars
<1>. QED  BY <1>1, <1>2, <1>3, <1>4, <1>5, <1>6, <1>7 DEF Next

\* Whoever launches, approves, refines, hands over or crashes: the pipeline executes
\* under the seal that is on disk, and is owned by nobody before there is one.
THEOREM ExecutionSealed ==
  Spec => []ExecutionUnderItsSeal
<1>1. Inv => ExecutionUnderItsSeal
  BY DEF Inv, FilesAgree
<1>. QED  BY InitInv, StepInv, <1>1, PTL DEF Spec

\* The contract under the executors is replaced by no command outside a revision.
THEOREM SealStands ==
  Spec => SealedContractStands
<1>1. ASSUME Inv, Next, seal # NoContract, seal' # seal
      PROVE  control = "prd_revision_required"
  BY <1>1 DEF Next, Proceed, Create, Observe, CompareSeal, WriteSeal, MaySeal, Begin,
              RequestRevision, ReplaceSeal, MayReplace, CommitApproval, Crash, Start, Refine,
              AcquireLease, ReleaseLease, ExecutorRequestsRevision, RequestHandoff,
              CheckRunnable, AcceptHandoff, FailHandoff, journal
<1>2. Inv /\ [Next]_vars =>
        [(seal # NoContract /\ seal' # seal) => control = "prd_revision_required"]_vars
  BY <1>1
<1>. QED  BY InitInv, StepInv, <1>2, PTL DEF Spec, SealedContractStands

-----------------------------------------------------------------------------
(* The cancellation.                                                       *)

(* Whoever clears or replaces the ledger has seen that all on it is gone:  *)
(* the intent is never alone in naming a live child.                       *)
LiveOnLedger == \A i \in Children : child[i] \in {"up", "orphaned"} => i \in ledger

(* What the proof needs of the types.                                      *)
ChildInv == child \in [Children -> {"new", "up", "orphaned", "gone"}]

CRInv == ChildInv /\ LiveOnLedger

\* Every step of the program but those that touch a child or the ledger.
LEMMA LedgerKept ==
  ASSUME CRInv, UNCHANGED <<child, ledger>>
  PROVE  CRInv'
BY DEF CRInv, ChildInv, LiveOnLedger

LEMMA ChildGone ==
  ASSUME CRInv, NEW i \in Children, child' = [child EXCEPT ![i] = "gone"], UNCHANGED ledger
  PROVE  CRInv'
BY DEF CRInv, ChildInv, LiveOnLedger

\* A ledger is cleared when all children on it are absent.
LEMMA LedgerCleared ==
  ASSUME CRInv, ledger' = {}, UNCHANGED child, AllAbsent(ledger)
  PROVE  CRInv'
<1>1. ASSUME NEW i \in Children PROVE child[i] \notin {"up", "orphaned"}
  <2>1. CASE i \in ledger
    BY <2>1 DEF AllAbsent
  <2>2. CASE i \notin ledger
    BY <2>2 DEF CRInv, LiveOnLedger
  <2> QED
    BY <2>1, <2>2
<1> QED
  BY <1>1 DEF CRInv, ChildInv, LiveOnLedger

LEMMA ControllerKeeps ==
  ASSUME CRInv, ControllerStep \/ ChildEnds \/ Orphan
  PROVE  CRInv'
<1> USE DEF stateVars, procVars
<1>1. CASE LookAtState \/ PublishRefused
  BY <1>1, LedgerKept DEF LookAtState, PublishRefused
<1>2. CASE Publish
  <2>1. PICK i \in Children : /\ child[i] = "new" /\ AllAbsent(ledger)
                              /\ child' = [child EXCEPT ![i] = "up"] /\ ledger' = {i}
    BY <1>2 DEF Publish
  <2>2. ASSUME NEW j \in Children, j # i PROVE child'[j] \notin {"up", "orphaned"}
    <3>1. child'[j] = child[j]
      BY <2>1, <2>2 DEF CRInv, ChildInv
    <3>2. CASE j \in ledger
      BY <2>1, <3>1, <3>2 DEF AllAbsent
    <3>3. CASE j \notin ledger
      BY <3>1, <3>3 DEF CRInv, LiveOnLedger
    <3> QED
      BY <3>2, <3>3
  <2>3. ChildInv'
    BY <2>1 DEF CRInv, ChildInv
  <2> QED
    BY <2>1, <2>2, <2>3 DEF CRInv, LiveOnLedger
<1>3. CASE Drain
  <2>1. CASE ledger = job
    BY <1>3, <2>1, LedgerCleared DEF Drain
  <2>2. CASE ledger # job
    BY <1>3, <2>2, LedgerKept DEF Drain
  <2> QED
    BY <2>1, <2>2
<1>4. CASE ChildEnds
  BY <1>4, ChildGone DEF ChildEnds
<1>5. CASE Orphan
  BY <1>5 DEF Orphan, CRInv, ChildInv, LiveOnLedger
<1> QED
  BY <1>1, <1>2, <1>3, <1>4, <1>5 DEF ControllerStep

LEMMA GuardsKeep ==
  ASSUME CRInv,
         \/ WatchdogStep \/ WdExpire \/ DaemonStep
         \/ KillController \/ KillWatchdog \/ KillDaemon
         \/ \E k \in Cancellers : KillCanceller(k)
  PROVE  CRInv'
BY LedgerKept
DEF WatchdogStep, DaemonStep, WdStart, WdWatch, WdExpire, WdLeaves, WdEnd, DmStart, DmTop,
   DmNextPass,
    DmEnd, KillController, KillWatchdog, KillDaemon, KillCanceller, stateVars, procVars

LEMMA ReconcileKeeps ==
  ASSUME CRInv, NEW p \in Recoverers, Reconcile(p)
  PROVE  CRInv'
<1> USE DEF stateVars, procVars, Recovers
<1>1. CASE RecRead(p) \/ RecMerge(p) \/ RecReaped(p) \/ RecFail(p) \/ RecQuiesce(p) \/ RecLook(p) \/ RecLogical(p)
  BY <1>1, LedgerKept DEF RecRead, RecMerge, RecReaped, RecFail, RecQuiesce, RecLook, RecLogical
<1>2. CASE RecReap(p)
  <2>1. PICK i \in rec[p].ids : child[i] = "up" /\ child' = [child EXCEPT ![i] = "gone"]
    BY <1>2 DEF RecReap
  <2>2. UNCHANGED ledger
    BY <1>2 DEF RecReap
  <2>3. CASE i \in Children
    BY <2>1, <2>2, <2>3, ChildGone
  <2>4. CASE i \notin Children
    BY <2>1, <2>2, <2>4 DEF CRInv, ChildInv, LiveOnLedger
  <2> QED
    BY <2>3, <2>4
<1>3. CASE RecFinal(p)
  <2>1. UNCHANGED child
    BY <1>3 DEF RecFinal
  <2>2. CASE ledger' = {} /\ StillQuiet
    <3>1. AllAbsent(ledger)
      BY <2>2 DEF StillQuiet, AllAbsent
    <3> QED
      BY <2>1, <2>2, <3>1, LedgerCleared
  <2>3. CASE UNCHANGED ledger
    BY <2>1, <2>3, LedgerKept
  <2> QED
    BY <1>3, <2>2, <2>3 DEF RecFinal
<1> QED
  BY <1>1, <1>2, <1>3 DEF Reconcile

LEMMA CancellerKeeps ==
  ASSUME CRInv, NEW k \in Cancellers, CcStep(k)
  PROVE  CRInv'
<1> USE DEF stateVars, procVars
<1>1. CASE CcRead(k) \/ CcArm(k) \/ CcEnsure(k) \/ CcReady(k) \/ CcNotReady(k)
  BY <1>1, LedgerKept DEF CcRead, CcArm, CcEnsure, CcReady, CcNotReady
<1>2. CASE CcActivate(k) \/ CcDrain(k) \/ CcPass(k) \/ CcUnsafe(k) \/ CcSettled(k) \/ CcEnsureDaemon(k)
  BY <1>2, LedgerKept DEF CcActivate, CcDrain, CcPass, CcUnsafe, CcSettled, CcEnsureDaemon
<1>3. CASE CcReap(k)
  <2>1. UNCHANGED ledger
    BY <1>3 DEF CcReap
  <2>2. CASE UNCHANGED child
    BY <2>1, <2>2, LedgerKept
  <2>3. CASE \E i \in known[k] : child[i] = "up" /\ child' = [child EXCEPT ![i] = "gone"]
    <3>1. PICK i \in known[k] : child[i] = "up" /\ child' = [child EXCEPT ![i] = "gone"]
      BY <2>3
    <3>2. CASE i \in Children
      BY <2>1, <3>1, <3>2, ChildGone
    <3>3. CASE i \notin Children
      BY <2>1, <3>1, <3>3 DEF CRInv, ChildInv, LiveOnLedger
    <3> QED
      BY <3>2, <3>3
  <2> QED
    BY <1>3, <2>2, <2>3 DEF CcReap
<1>4. CASE CcClear(k)
  <2>1. UNCHANGED child
    BY <1>4 DEF CcClear
  <2>2. CASE ledger' = {} /\ ledger \subseteq known[k] /\ AllAbsent(known[k])
    <3>1. AllAbsent(ledger)
      BY <2>2 DEF AllAbsent
    <3> QED
      BY <2>1, <2>2, <3>1, LedgerCleared
  <2>3. CASE UNCHANGED ledger
    BY <2>1, <2>3, LedgerKept
  <2> QED
    BY <1>4, <2>2, <2>3 DEF CcClear
<1> QED
  BY <1>1, <1>2, <1>3, <1>4 DEF CcStep

(* NothingForgotten for any number of children, cancellers and kills: a    *)
(* live child is on the ledger, which is more than the property asks.      *)
THEOREM NothingIsForgotten == CRSpec => []NothingForgotten
<1>1. CRInit => CRInv
  BY DEF CRInit, CRInv, ChildInv, LiveOnLedger
<1>2. CRInv /\ [CRNext]_crVars => CRInv'
  <2> SUFFICES ASSUME CRInv, [CRNext]_crVars PROVE CRInv'
    OBVIOUS
  <2>1. CASE UNCHANGED crVars
    BY <2>1, LedgerKept DEF crVars, stateVars, procVars
  <2> QED
    BY <2>1, ControllerKeeps, GuardsKeep, ReconcileKeeps, CancellerKeeps DEF CRNext
<1>3. CRInv => NothingForgotten
  BY DEF CRInv, LiveOnLedger, NothingForgotten
<1> QED
  BY <1>1, <1>2, <1>3, PTL DEF CRSpec

=============================================================================
