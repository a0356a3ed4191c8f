---------------------------- MODULE MicroverseLoopProofs ----------------------------
(***************************************************************************)
(* What the files of the Microverse loop agree on, for any number of       *)
(* experiments, kills, exceptions and visits of the operator.              *)
(*                                                                         *)
(* The five files are written one after the other, so what holds between   *)
(* them depends on how far the attempt has come.  DurableInv says it from  *)
(* the files alone (no attempt, an attempt without an outcome, an attempt  *)
(* with one): a kill leaves it as it is, and recovery starts from it.      *)
(* PlacesInv says what each position of the process adds, EvidenceInv      *)
(* which positions may rely on the archive.  None of the three is          *)
(* inductive without the others.                                           *)
(***************************************************************************)
EXTENDS MicroverseLoop, FiniteSetTheorems, WellFoundedInduction, TLAPS

Statuses == {"none", "planned", "running", "accepted", "rejected", "invalid"}
Phases   == {"none", "running", "promotion_pending", "promoted", "quarantined"}
Exits    == {"none", "cancelled", "error", "success", "max_iterations", "workspace_changed",
             "worker_failure_limit"}
Outcomes == {"none", "improved", "held", "stop"} \cup WorkerFailures

StartPlaces  == {"down", "reset", "recover", "rPromote", "rMark", "rComplete", "rMetrics", "rCount",
                 "rArchive", "rRemove", "rRestore", "rReconcile", "rDiscard", "rClear", "reconcile",
                 "top", "plan", "start", "create", "write"}
WorkPlaces   == {"work", "adopt", "scope", "archive", "measure", "revert", "record", "remeasure",
                 "pending", "fArchive", "fRevert", "fDiscard"}
SettlePlaces == {"promote", "defer", "mark", "complete", "discard"}
RecordPlaces == {"count", "clear", "fRecord", "fDecide", "fReset"}
EndPlaces    == {"rollback", "zRevert", "finalize", "zCount", "zReconcile", "zDiscard", "zClear",
                 "stop"}
Places       == StartPlaces \cup WorkPlaces \cup SettlePlaces \cup RecordPlaces \cup EndPlaces

Ledgers    == [status : [Exps -> Statuses], failures : Nat, stalls : Nat]
Metrics    == [best : Nat, gain : Nat, stall : Nat]
Boundaries == [has : SUBSET (0..MaxExp), foreign : Nat, dirty : BOOLEAN]
Attempts   == [exp : 0..MaxExp, iteration : Nat, phase : Phases, owned : BOOLEAN,
               before : Metrics, after : Metrics, base : Boundaries]
Clones     == [exp : 0..MaxExp, moved : BOOLEAN, work : SUBSET Parts, anchored : SUBSET Parts]
Archives   == [Exps -> (SUBSET Parts) \cup {NoArchive}]
Checkouts  == [has : SUBSET (0..MaxExp), touched : SUBSET (0..MaxExp), foreign : Nat, dirty : BOOLEAN]
Sessions   == [iteration : Nat, exit : Exits]
Runs       == [pc : Places, exp : 0..MaxExp, pending : BOOLEAN, deferred : BOOLEAN, exit : Exits,
               outcome : Outcomes, base : Boundaries]

Sci == {e \in Exps : Scientific(e)}

(* What the recovery and the exit rely on: where the metric file stands    *)
(* with the outcomes of the ledger.                                        *)
IsBest(b, A) == (A = {} /\ b = 0) \/ (b \in A /\ \A f \in A : f <= b)
Agrees(m, A, stalls) == m.gain = Cardinality(A) /\ IsBest(m.best, A) /\ m.stall = stalls
MetricsAgree == Agrees(metrics, Accepted, ledger.stalls)

Improved(m, e) == [best |-> e, gain |-> m.gain + 1, stall |-> 0]
Held(m)        == [m EXCEPT !.stall = @ + 1]

ShapeInv ==
  /\ ledger \in Ledgers
  /\ metrics \in Metrics
  /\ attempt \in Attempts
  /\ cand \in Clones
  /\ archives \in Archives
  /\ live \in Checkouts
  /\ session \in Sessions
  /\ run \in Runs

(* Experiments are begun in their order, one after the outcome of another. *)
Ordered ==
  \A e, f \in Exps :
    e < f /\ ledger.status[f] # "none" => ledger.status[e] \in {"accepted", "rejected", "invalid"}

(* Between two attempts everything agrees.                                 *)
ClosedInv ==
  attempt.exp = 0 => /\ attempt.phase = "none"
                     /\ MetricsAgree
                     /\ session.iteration = Cardinality(Sci)
                     /\ live.has \subseteq Accepted

Status == ledger.status[attempt.exp]
Promoting == attempt.phase \in {"promotion_pending", "promoted"}

(* What is promoted is in the live history, unless there was no diff.      *)
Landed == attempt.exp \in live.has \/ archives[attempt.exp] = {}
DeliveredInv == \A e \in Accepted : archives[e] # {} => e \in live.has

(* An attempt that has no outcome yet can be undone and, when its          *)
(* promotion is on record, completed.                                      *)
UndecidedInv ==
  attempt.exp # 0 /\ ~TerminalOutcome =>
    /\ Agrees(attempt.before, Accepted, ledger.stalls)
    /\ session.iteration = Cardinality(Sci)
    /\ attempt.iteration = Cardinality(Sci) + 1
    /\ Promoting => /\ Status = "running"
                    /\ cand.exp = attempt.exp
                    /\ archives[attempt.exp] = cand.work
                    /\ attempt.after = Improved(attempt.before, attempt.exp)
    /\ Status = "invalid" => metrics = attempt.before

(* An attempt with an outcome can be counted once, and its metrics are     *)
(* known.                                                                  *)
DecidedInv ==
  TerminalOutcome =>
    /\ attempt.iteration = Cardinality(Sci)
    /\ session.iteration \in {Cardinality(Sci) - 1, Cardinality(Sci)}
    /\ Status = "accepted" => /\ Agrees(attempt.after, Accepted, ledger.stalls)
                              /\ attempt.phase # "running"
    /\ Status = "rejected" => MetricsAgree /\ ~Promoting

OpenInv ==
  attempt.exp # 0 =>
    /\ attempt.phase # "none"
    /\ \A f \in Exps : ledger.status[f] \in {"planned", "running"} => f = attempt.exp
    /\ live.has \subseteq Accepted \cup {attempt.exp}
    /\ attempt.exp \in live.has => Promoting \/ Status = "accepted"
    /\ attempt.phase = "promoted" => Landed

DurableInv == Ordered /\ DeliveredInv /\ ClosedInv /\ OpenInv /\ UndecidedInv /\ DecidedInv

(* What each position of the process may rely on.                          *)
NoneRunning == \A e \in Exps : ledger.status[e] # "running"
Settled == attempt.exp \in live.has => Status = "accepted"
Ready == attempt.exp # 0 /\ Settled /\ NoneRunning /\ MetricsAgree /\ session.iteration = Cardinality(Sci)

LocalsInv ==
  /\ run.pc \in StartPlaces => ~run.pending /\ ~run.deferred
  /\ run.pc \in WorkPlaces \cup {"promote", "defer", "mark", "complete", "discard"} =>
       run.pending /\ ~run.deferred
  /\ run.pc \in {"count", "clear", "fRecord", "fDecide", "fReset"} => ~run.pending /\ ~run.deferred

RecoverInv ==
  /\ run.pc \in {"rPromote", "rMark"} => attempt.exp # 0 /\ attempt.phase = "promotion_pending"
  /\ run.pc = "rComplete" => attempt.exp # 0 /\ Promoting
  /\ run.pc \in {"rMark", "rComplete"} => Landed
  /\ run.pc = "rMetrics" => attempt.exp # 0 /\ Status = "accepted" /\ attempt.phase # "quarantined"
  /\ run.pc = "rCount" => TerminalOutcome /\ MetricsAgree
  /\ run.pc \in {"rArchive", "rRemove", "rRestore", "rReconcile"} =>
       attempt.exp # 0 /\ attempt.phase = "running" /\ ~TerminalOutcome
  /\ run.pc = "rReconcile" => metrics = attempt.before
  /\ run.pc \in {"rDiscard", "rClear"} => Ready

BeginInv ==
  /\ run.pc \in {"reconcile", "top", "plan", "start", "create", "write"} => attempt.exp = 0
  /\ run.pc \in {"top", "plan", "start"} => NoneRunning
  /\ run.pc \in {"plan", "start", "create", "write"} => run.exp \in Exps
  /\ run.pc = "plan" => /\ ledger.status[run.exp] = "none"
                        /\ \A f \in Exps : /\ ledger.status[f] # "planned"
                                           /\ f < run.exp => ledger.status[f] # "none"
  /\ run.pc = "start" => ledger.status[run.exp] = "planned"
  /\ run.pc \in {"create", "write"} => ledger.status[run.exp] = "running"
  /\ run.pc = "write" => cand.exp = run.exp

AttemptInv ==
  /\ run.pc \in WorkPlaces \cup {"promote", "defer", "mark", "complete"} =>
       /\ run.exp \in Exps /\ attempt.exp = run.exp /\ cand.exp = run.exp
       /\ ledger.status[run.exp] = "running"
  /\ run.pc \in WorkPlaces => attempt.phase = "running"
  /\ run.pc \in WorkPlaces \ {"pending"} => metrics = attempt.before
  /\ run.pc = "pending" => metrics = Improved(attempt.before, run.exp)
  /\ run.pc \in {"pending", "promote", "defer", "mark"} => run.outcome = "improved"
  /\ run.pc \in {"promote", "defer", "mark"} => attempt.phase = "promotion_pending"
  /\ run.pc \in {"promote", "mark"} => metrics = attempt.after
  /\ run.pc = "mark" => Landed
  /\ run.pc = "complete" =>
       IF run.outcome = "improved"
       THEN attempt.phase = "promoted" /\ metrics = attempt.after
       ELSE attempt.phase = "running" /\ metrics = Held(attempt.before)
  /\ run.pc \in {"discard", "count"} =>
       /\ run.exp = attempt.exp /\ TerminalOutcome /\ MetricsAgree /\ attempt.phase # "quarantined"
       /\ session.iteration = Cardinality(Sci) - 1
  /\ run.pc \in {"fRecord", "fDecide", "fReset"} =>
       /\ run.exp \in Exps /\ attempt.exp = run.exp
       /\ attempt.phase = "running" /\ metrics = attempt.before
  /\ run.pc = "fRecord" => Status = "running"
  /\ run.pc = "fDecide" => Status = "planned"
  /\ run.pc = "fReset" => Status \in {"planned", "invalid"}
  /\ run.pc = "clear" => Ready

FinallyInv ==
  /\ run.pc = "rollback" =>
       /\ run.pending => attempt.exp # 0
       /\ run.deferred \/ ((Promoting => TerminalOutcome) /\ attempt.phase # "quarantined")
       /\ TerminalOutcome => MetricsAgree
  /\ run.pc = "zRevert" => attempt.exp # 0 /\ attempt.phase = "running" /\ ~TerminalOutcome
  /\ run.pc = "finalize" => /\ Promoting => TerminalOutcome
                            /\ attempt.phase # "quarantined"
                            /\ TerminalOutcome => MetricsAgree
  /\ run.pc = "zCount" => TerminalOutcome /\ MetricsAgree
  /\ run.pc = "zReconcile" /\ attempt.exp # 0 =>
       attempt.phase = "running" /\ ~TerminalOutcome /\ metrics = attempt.before
  /\ run.pc \in {"zDiscard", "zClear"} => Ready

EvidenceInv ==
  /\ run.pc = "measure" => archives[run.exp] = cand.work
  /\ run.pc = "revert" => run.outcome # "improved"
  /\ run.pc = "pending" \/ (run.pc = "record" /\ run.outcome = "improved") =>
       archives[run.exp] = cand.work
  /\ run.pc \in {"revert", "record"} \/ (run.pc = "complete" /\ run.outcome # "improved") =>
       archives[run.exp] = measured
-----------------------------------------------------------------------------
(* The steps of the program counter.                                       *)

Same(pc) ==
  /\ run' \in Runs /\ run'.pc = pc
  /\ run'.exp = run.exp /\ run'.pending = run.pending /\ run'.outcome = run.outcome
  /\ run'.base = run.base

LEMMA GotoEffect ==
  ASSUME ShapeInv, NEW pc \in Places, Goto(pc)
  PROVE  Same(pc) /\ run'.deferred = run.deferred
BY DEF ShapeInv, Runs, Goto, Same

LEMMA StopEffect ==
  ASSUME ShapeInv, NEW why \in Exits, StopWith(why)
  PROVE  Same("stop") /\ run'.deferred = run.deferred
<1>1. "stop" \in Places
  BY DEF Places, EndPlaces
<1> QED
  BY <1>1 DEF ShapeInv, Runs, StopWith, Same

LEMMA BreakEffect ==
  ASSUME ShapeInv, NEW why \in Exits, Break(why)
  PROVE  Same("rollback") /\ run'.deferred = run.deferred
<1>1. "rollback" \in Places
  BY DEF Places, EndPlaces
<1> QED
  BY <1>1 DEF ShapeInv, Runs, Break, Same

LEMMA ThrowEffect ==
  ASSUME ShapeInv, NEW archiveFailed \in BOOLEAN, Throw(archiveFailed)
  PROVE  /\ Same("rollback")
         /\ run'.deferred <=> run.deferred \/ archiveFailed \/ (Promoting /\ ~TerminalOutcome)
<1>1. "rollback" \in Places
  BY DEF Places, EndPlaces
<1>2. {"cancelled", "error"} \subseteq Exits
  BY DEF Exits
<1> DEFINE why == IF session.exit = "cancelled" THEN "cancelled" ELSE "error"
           defer == run.deferred \/ archiveFailed
                      \/ (attempt.phase \in {"promotion_pending", "promoted"} /\ ~TerminalOutcome)
<1>3. why \in Exits /\ defer \in BOOLEAN
  BY <1>2
<1>4. run' = [run EXCEPT !.pc = "rollback", !.deferred = defer, !.exit = why]
  BY DEF Throw
<1> HIDE DEF why, defer
<1>5. Same("rollback") /\ run'.deferred = defer
  BY <1>1, <1>3, <1>4 DEF ShapeInv, Runs, Same
<1> QED
  BY <1>5 DEF defer, Promoting

LEMMA ExpsFinite ==
  /\ IsFiniteSet(Exps)
  /\ \A S \in SUBSET Exps : IsFiniteSet(S) /\ Cardinality(S) \in Nat
<1>1. 1 \in Int /\ MaxExp \in Int
  BY MicroverseAssumption
<1>2. IsFiniteSet(1 .. MaxExp)
  BY <1>1, FS_Interval
<1>3. ASSUME NEW S \in SUBSET Exps PROVE IsFiniteSet(S)
  BY <1>2, FS_Subset DEF Exps
<1>4. ASSUME NEW S \in SUBSET Exps PROVE Cardinality(S) \in Nat
  BY <1>3, <1>4, FS_CardinalityType
<1> QED
  BY <1>2, <1>3, <1>4 DEF Exps

LEMMA RevertedEffect ==
  ASSUME ShapeInv
  PROVE  Reverted \in Clones /\ Reverted.exp = cand.exp
BY DEF ShapeInv, Clones, Attempts, Reverted

LEMMA ScopedEffect ==
  ASSUME ShapeInv
  PROVE  Scoped \in Clones /\ Scoped.exp = cand.exp
BY DEF ShapeInv, Clones, Parts, Scoped

LEMMA ThrownEffect ==
  ASSUME ShapeInv, NEW undone \in Clones, undone.exp = cand.exp, RevertThrows(undone)
  PROVE  cand' \in Clones /\ cand'.exp = cand.exp /\ Throw(FALSE)
BY DEF ShapeInv, RevertThrows

LEMMA NoCandTyped == NoCand \in Clones /\ NoCand.exp = 0
BY MicroverseAssumption DEF NoCand, Clones

LEMMA ReconciledEffect ==
  ASSUME ShapeInv, NEW mode
  PROVE  /\ Reconciled(mode) \in Ledgers
         /\ Reconciled(mode).stalls = ledger.stalls
         /\ \A e \in Exps : Reconciled(mode).status[e] =
              IF ledger.status[e] # "running" THEN ledger.status[e]
              ELSE IF mode = "resume" THEN "planned" ELSE "invalid"
<1> DEFINE running == {e \in Exps : ledger.status[e] = "running"}
           stat == [e \in Exps |-> IF e \notin running THEN ledger.status[e]
                                   ELSE IF mode = "resume" THEN "planned" ELSE "invalid"]
<1>1. Cardinality(running) \in Nat
  BY ExpsFinite
<1>2. stat \in [Exps -> Statuses]
  BY DEF ShapeInv, Ledgers, Statuses
<1>3. Reconciled(mode) = [status |-> stat, failures |-> ledger.failures + Cardinality(running),
                          stalls |-> ledger.stalls]
  BY DEF Reconciled
<1>4. ledger.failures + Cardinality(running) \in Nat /\ ledger.stalls \in Nat
  BY <1>1 DEF ShapeInv, Ledgers
<1>5. \A e \in Exps : stat[e] = IF ledger.status[e] # "running" THEN ledger.status[e]
                                ELSE IF mode = "resume" THEN "planned" ELSE "invalid"
  OBVIOUS
<1> HIDE DEF stat, running
<1> QED
  BY <1>2, <1>3, <1>4, <1>5 DEF Ledgers

LEMMA CompletedEffect ==
  ASSUME ShapeInv, NEW e, NEW s \in {"accepted", "rejected"}
  PROVE  /\ Completed(e, s) \in Ledgers
         /\ Completed(e, s).status = [ledger.status EXCEPT ![e] = s]
         /\ Completed(e, s).stalls = IF s = "accepted" THEN 0 ELSE ledger.stalls + 1
<1>1. ledger.stalls + 1 \in Nat /\ s \in Statuses
  BY DEF ShapeInv, Ledgers, Statuses
<1> DEFINE stat == [ledger.status EXCEPT ![e] = s]
           n == IF s = "accepted" THEN 0 ELSE ledger.stalls + 1
<1>2. stat \in [Exps -> Statuses] /\ n \in Nat
  BY <1>1 DEF ShapeInv, Ledgers
<1>3. Completed(e, s) = [status |-> stat, failures |-> 0, stalls |-> n]
  BY DEF Completed
<1> HIDE DEF stat
<1>4. Completed(e, s).status = stat /\ Completed(e, s).stalls = n
  BY <1>3
<1> HIDE DEF n
<1>5. Completed(e, s) \in Ledgers
  BY <1>2, <1>3 DEF Ledgers
<1> QED
  BY <1>4, <1>5 DEF stat, n

LEMMA StatusEffect ==
  ASSUME ShapeInv, NEW e, NEW s \in Statuses
  PROVE  [ledger EXCEPT !.status[e] = s] \in Ledgers
BY DEF ShapeInv, Ledgers

LEMMA PhaseEffect ==
  ASSUME ShapeInv, NEW p \in Phases
  PROVE  [attempt EXCEPT !.phase = p] \in Attempts
BY DEF ShapeInv, Attempts

LEMMA PlaceNames ==
  /\ "down" \in Places /\ "reset" \in Places /\ "recover" \in Places
  /\ "rPromote" \in Places /\ "rMark" \in Places /\ "rComplete" \in Places
  /\ "rMetrics" \in Places /\ "rCount" \in Places /\ "rArchive" \in Places
  /\ "rRemove" \in Places /\ "rRestore" \in Places /\ "rReconcile" \in Places
  /\ "rDiscard" \in Places /\ "rClear" \in Places /\ "reconcile" \in Places
  /\ "top" \in Places /\ "plan" \in Places /\ "start" \in Places
  /\ "create" \in Places /\ "write" \in Places /\ "work" \in Places
  /\ "adopt" \in Places /\ "scope" \in Places /\ "archive" \in Places
  /\ "measure" \in Places /\ "revert" \in Places /\ "record" \in Places
  /\ "remeasure" \in Places /\ "pending" \in Places /\ "fArchive" \in Places
  /\ "fRevert" \in Places /\ "fDiscard" \in Places /\ "promote" \in Places
  /\ "defer" \in Places /\ "mark" \in Places /\ "complete" \in Places
  /\ "discard" \in Places /\ "count" \in Places /\ "clear" \in Places
  /\ "fRecord" \in Places /\ "fDecide" \in Places /\ "fReset" \in Places
  /\ "rollback" \in Places /\ "zRevert" \in Places /\ "finalize" \in Places
  /\ "zCount" \in Places /\ "zReconcile" \in Places /\ "zDiscard" \in Places
  /\ "zClear" \in Places /\ "stop" \in Places
BY DEF Places, StartPlaces, WorkPlaces, SettlePlaces, RecordPlaces, EndPlaces

LEMMA OtherNames ==
  /\ "none" \in Exits /\ "cancelled" \in Exits /\ "error" \in Exits /\ "success" \in Exits
  /\ "max_iterations" \in Exits /\ "workspace_changed" \in Exits /\ "worker_failure_limit" \in Exits
  /\ "none" \in Outcomes /\ "improved" \in Outcomes /\ "held" \in Outcomes /\ "stop" \in Outcomes
  /\ "worker_error" \in Outcomes /\ "worker_incomplete" \in Outcomes
  /\ "protected_path_tamper" \in Outcomes /\ WorkerFailures \subseteq Outcomes
BY DEF Exits, Outcomes, WorkerFailures

LEMMA IdleTyped == Idle \in Runs /\ NoAttempt \in Attempts /\ NoAttempt.base \in Boundaries
BY MicroverseAssumption
DEF Idle, Runs, NoAttempt, Boundaries, Attempts, Metrics, Phases, Places, StartPlaces, Exits, Outcomes

LEMMA BoundaryTyped == ASSUME ShapeInv PROVE Boundary(live) \in Boundaries
BY DEF ShapeInv, Boundary, Boundaries, Checkouts

(* A least experiment: the sets of the smaller ones are finite, hence      *)
(* well-founded under inclusion.                                           *)
LEMMA FirstChosen ==
  ASSUME NEW S \in SUBSET Exps, S # {}
  PROVE  First(S) \in S /\ \A f \in S : First(S) <= f
<1> DEFINE Below(e) == {f \in S : f < e}
           R == StrictSubsetOrdering(Exps)
           T == {Below(e) : e \in S}
<1>1. IsWellFoundedOn(R, FiniteSubsetsOf(Exps))
  BY FS_StrictSubsetOrderingWellFounded
<1>2. T \subseteq FiniteSubsetsOf(Exps) /\ T # {}
  BY ExpsFinite DEF FiniteSubsetsOf
<1> HIDE DEF R, T
<1>3. PICK x \in T : \A y \in T : ~(<<y, x>> \in R)
  BY <1>1, <1>2, WFMin
<1> USE DEF R, T
<1>4. PICK e \in S : x = Below(e)
  BY <1>3
<1>5. ASSUME NEW f \in S, f < e PROVE FALSE
  <2>1. Below(f) \subseteq Below(e)
    <3>1. ASSUME NEW g \in S, g < f PROVE g < e
      <4>1. g \in Int /\ f \in Int /\ e \in Int
        BY DEF Exps
      <4> QED
        BY <1>5, <3>1, <4>1
    <3> QED
      BY <3>1
  <2>2. f \in Below(e) /\ f \notin Below(f)
    BY <1>5 DEF Exps
  <2>3. Below(f) \in SUBSET Exps /\ Below(e) \in SUBSET Exps
    OBVIOUS
  <2> HIDE DEF Below
  <2>4. <<Below(f), Below(e)>> \in R
    BY <2>1, <2>2, <2>3 DEF StrictSubsetOrdering
  <2> QED
    BY <1>3, <1>4, <2>4
<1>6. \A f \in S : e <= f
  BY <1>5 DEF Exps
<1> QED
  BY <1>6 DEF First

(* Every file and every local keeps its shape.                             *)
LEMMA ShapeStep ==
  ShapeInv /\ [Next]_vars => ShapeInv'
<1> SUFFICES ASSUME ShapeInv, [Next]_vars PROVE ShapeInv'
  OBVIOUS
<1>1. CASE Start
  <2>1. session' \in Sessions
    BY <1>1, MicroverseAssumption, OtherNames
    DEF ShapeInv, Start, Sessions, Exits, Attempts, Runs
  <2>2. run' \in Runs
    BY <1>1, PlaceNames, OtherNames, GotoEffect DEF ShapeInv, Start, Same, Runs
  <2>3. UNCHANGED <<ledger, metrics, attempt, cand, archives, live>>
    BY <1>1 DEF Start
  <2> QED
    BY <2>1, <2>2, <2>3 DEF ShapeInv
<1>2. CASE ResetWorkerFailures
  <2>1. ledger' \in Ledgers
    BY <1>2, ReconciledEffect, CompletedEffect, StatusEffect
    DEF ResetWorkerFailures, ShapeInv, Ledgers, Statuses
  <2>2. run' \in Runs
    BY <1>2, PlaceNames, OtherNames, GotoEffect DEF ShapeInv, ResetWorkerFailures, Same, Runs
  <2>3. UNCHANGED <<metrics, attempt, cand, archives, live, session>>
    BY <1>2 DEF ResetWorkerFailures
  <2> QED
    BY <2>1, <2>2, <2>3 DEF ShapeInv
<1>3. CASE RecoverIdentity
  <2>1. attempt' \in Attempts
    BY <1>3, PhaseEffect, MicroverseAssumption
    DEF ShapeInv, RecoverIdentity, CandidateIntact, Phases, Attempts, Runs, Metrics, Sessions,
        NoAttempt, Boundaries
  <2>2. run' \in Runs
    BY <1>3, PlaceNames, OtherNames, StopEffect
    DEF ShapeInv, RecoverIdentity, CandidateIntact, Same, Runs
  <2>3. UNCHANGED <<ledger, metrics, cand, archives, live, session>>
    BY <1>3 DEF RecoverIdentity
  <2> QED
    BY <2>1, <2>2, <2>3 DEF ShapeInv
<1>4. CASE RecoverDecide
  <2>1. run' \in Runs
    BY <1>4, PlaceNames, OtherNames, GotoEffect, StopEffect
    DEF ShapeInv, RecoverDecide, RecoveryBranch, AlreadyPromoted, CandidateIntact, Same, Runs
  <2>2. UNCHANGED <<ledger, metrics, attempt, cand, archives, live, session>>
    BY <1>4 DEF RecoverDecide
  <2> QED
    BY <2>1, <2>2 DEF ShapeInv
<1>5. CASE RecoverPromote
  <2>1. live' \in Checkouts
    BY <1>5, MicroverseAssumption, OtherNames
    DEF ShapeInv, RecoverPromote, FastForward, CanFastForward, Head, Boundary, Checkouts,
        Attempts, Runs
  <2>2. run' \in Runs
    BY <1>5, PlaceNames, OtherNames, GotoEffect, StopEffect
    DEF ShapeInv, RecoverPromote, FastForward, CanFastForward, Head, Boundary, Same, Runs
  <2>3. UNCHANGED <<ledger, metrics, attempt, cand, archives, session>>
    BY <1>5 DEF RecoverPromote
  <2> QED
    BY <2>1, <2>2, <2>3 DEF ShapeInv
<1>6. CASE RecoverMark
  <2>1. attempt' \in Attempts
    BY <1>6, PhaseEffect, MicroverseAssumption
    DEF ShapeInv, RecoverMark, Phases, Attempts, Runs, Metrics, Sessions, NoAttempt, Boundaries
  <2>2. run' \in Runs
    BY <1>6, PlaceNames, OtherNames, GotoEffect DEF ShapeInv, RecoverMark, Same, Runs
  <2>3. UNCHANGED <<ledger, metrics, cand, archives, live, session>>
    BY <1>6 DEF RecoverMark
  <2> QED
    BY <2>1, <2>2, <2>3 DEF ShapeInv
<1>7. CASE RecoverComplete
  <2>1. ledger' \in Ledgers
    BY <1>7, ReconciledEffect, CompletedEffect, StatusEffect
    DEF RecoverComplete, ShapeInv, Statuses
  <2>2. run' \in Runs
    BY <1>7, PlaceNames, OtherNames, GotoEffect DEF ShapeInv, RecoverComplete, Same, Runs
  <2>3. UNCHANGED <<metrics, attempt, cand, archives, live, session>>
    BY <1>7 DEF RecoverComplete
  <2> QED
    BY <2>1, <2>2, <2>3 DEF ShapeInv
<1>8. CASE RecoverMetrics
  <2>1. metrics' \in Metrics
    BY <1>8, MicroverseAssumption, OtherNames
    DEF ShapeInv, RecoverMetrics, Attempts, Metrics, Runs
  <2>2. run' \in Runs
    BY <1>8, PlaceNames, OtherNames, GotoEffect DEF ShapeInv, RecoverMetrics, Same, Runs
  <2>3. UNCHANGED <<ledger, attempt, cand, archives, live, session>>
    BY <1>8 DEF RecoverMetrics
  <2> QED
    BY <2>1, <2>2, <2>3 DEF ShapeInv
<1>9. CASE RecoverCount
  <2>1. session' \in Sessions
    BY <1>9, MicroverseAssumption, OtherNames
    DEF ShapeInv, RecoverCount, Iterations, Sessions, Exits, Attempts, Runs
  <2>2. run' \in Runs
    BY <1>9, PlaceNames, OtherNames, GotoEffect
    DEF ShapeInv, RecoverCount, Iterations, Same, Runs
  <2>3. UNCHANGED <<ledger, metrics, attempt, cand, archives, live>>
    BY <1>9 DEF RecoverCount
  <2> QED
    BY <2>1, <2>2, <2>3 DEF ShapeInv
<1>10. CASE RecoverArchive
  <2>1. attempt' \in Attempts
    BY <1>10, PhaseEffect, MicroverseAssumption
    DEF ShapeInv, RecoverArchive, Archive, ArchiveFails, Phases
  <2>2. archives' \in Archives
    BY <1>10, MicroverseAssumption, OtherNames
    DEF ShapeInv, RecoverArchive, Archive, ArchiveFails, Archives, Clones
  <2>3. run' \in Runs
    BY <1>10, PlaceNames, OtherNames, StopEffect, GotoEffect
    DEF ShapeInv, RecoverArchive, Archive, ArchiveFails, Same, Runs
  <2>4. UNCHANGED <<ledger, metrics, cand, live, session>>
    BY <1>10 DEF RecoverArchive
  <2> QED
    BY <2>1, <2>2, <2>3, <2>4 DEF ShapeInv
<1>11. CASE RecoverRemove
  <2>1. cand' \in Clones
    BY <1>11, NoCandTyped, MicroverseAssumption DEF ShapeInv, RecoverRemove, Clones, Runs
  <2>2. run' \in Runs
    BY <1>11, PlaceNames, OtherNames, GotoEffect DEF ShapeInv, RecoverRemove, Same, Runs
  <2>3. UNCHANGED <<ledger, metrics, attempt, archives, live, session>>
    BY <1>11 DEF RecoverRemove
  <2> QED
    BY <2>1, <2>2, <2>3 DEF ShapeInv
<1>12. CASE RecoverRestore
  <2>1. metrics' \in Metrics
    BY <1>12, MicroverseAssumption, OtherNames
    DEF ShapeInv, RecoverRestore, Attempts, Metrics, Runs
  <2>2. run' \in Runs
    BY <1>12, PlaceNames, OtherNames, GotoEffect DEF ShapeInv, RecoverRestore, Same, Runs
  <2>3. UNCHANGED <<ledger, attempt, cand, archives, live, session>>
    BY <1>12 DEF RecoverRestore
  <2> QED
    BY <2>1, <2>2, <2>3 DEF ShapeInv
<1>13. CASE RecoverReconcile
  <2>1. ledger' \in Ledgers
    BY <1>13, ReconciledEffect, CompletedEffect, StatusEffect
    DEF RecoverReconcile, ShapeInv, Statuses
  <2>2. run' \in Runs
    BY <1>13, PlaceNames, OtherNames, GotoEffect DEF ShapeInv, RecoverReconcile, Same, Runs
  <2>3. UNCHANGED <<metrics, attempt, cand, archives, live, session>>
    BY <1>13 DEF RecoverReconcile
  <2> QED
    BY <2>1, <2>2, <2>3 DEF ShapeInv
<1>14. CASE RecoverDiscard
  <2>1. cand' \in Clones
    BY <1>14, NoCandTyped, MicroverseAssumption DEF ShapeInv, RecoverDiscard, Clones, Runs
  <2>2. run' \in Runs
    BY <1>14, PlaceNames, OtherNames, GotoEffect DEF ShapeInv, RecoverDiscard, Same, Runs
  <2>3. UNCHANGED <<ledger, metrics, attempt, archives, live, session>>
    BY <1>14 DEF RecoverDiscard
  <2> QED
    BY <2>1, <2>2, <2>3 DEF ShapeInv
<1>15. CASE RecoverClear
  <2>1. attempt' \in Attempts
    BY <1>15, PhaseEffect, MicroverseAssumption
    DEF ShapeInv, RecoverClear, Phases, Attempts, Runs, Metrics, Sessions, NoAttempt, Boundaries
  <2>2. run' \in Runs
    BY <1>15, PlaceNames, OtherNames, GotoEffect DEF ShapeInv, RecoverClear, Same, Runs
  <2>3. UNCHANGED <<ledger, metrics, cand, archives, live, session>>
    BY <1>15 DEF RecoverClear
  <2> QED
    BY <2>1, <2>2, <2>3 DEF ShapeInv
<1>16. CASE ReconcileRunning
  <2>1. ledger' \in Ledgers
    BY <1>16, ReconciledEffect, CompletedEffect, StatusEffect
    DEF ReconcileRunning, ShapeInv, Statuses
  <2>2. run' \in Runs
    BY <1>16, PlaceNames, OtherNames, GotoEffect, StopEffect
    DEF ShapeInv, ReconcileRunning, Same, Runs
  <2>3. UNCHANGED <<metrics, attempt, cand, archives, live, session>>
    BY <1>16 DEF ReconcileRunning
  <2> QED
    BY <2>1, <2>2, <2>3 DEF ShapeInv
<1>17. CASE LoopTop
  <2>1. run' \in Runs
    <3>1. CASE \E why \in Exits : Break(why)
      BY <3>1, BreakEffect DEF Same
    <3>2. CASE Throw(FALSE)
      BY <3>2, ThrowEffect DEF Same
    <3>3. ASSUME NEW S \in SUBSET Exps, S # {}, NEW pc \in Places,
                 run' = [run EXCEPT !.pc = pc, !.exp = First(S), !.base = Boundary(live)]
          PROVE  run' \in Runs
      <4>1. First(S) \in 0..MaxExp
        BY <3>3, FirstChosen DEF Exps
      <4> QED
        BY <3>3, <4>1, BoundaryTyped DEF ShapeInv, Runs
    <3>4. Pending \in SUBSET Exps /\ Fresh \in SUBSET Exps
      BY DEF Pending, Fresh
    <3>5. \/ \E why \in Exits : Break(why)
          \/ Throw(FALSE)
          \/ Pending # {} /\ run' = [run EXCEPT !.pc = "start", !.exp = First(Pending), !.base = Boundary(live)]
          \/ Fresh # {} /\ run' = [run EXCEPT !.pc = "plan", !.exp = First(Fresh), !.base = Boundary(live)]
      BY <1>17, OtherNames DEF LoopTop
    <3> QED
      BY <3>1, <3>2, <3>3, <3>4, <3>5, PlaceNames
  <2>2. UNCHANGED <<ledger, metrics, attempt, cand, archives, live, session>>
    BY <1>17 DEF LoopTop
  <2> QED
    BY <2>1, <2>2 DEF ShapeInv
<1>18. CASE PlanExperiment
  <2>1. ledger' \in Ledgers
    BY <1>18, ReconciledEffect, CompletedEffect, StatusEffect
    DEF PlanExperiment, ShapeInv, Statuses
  <2>2. run' \in Runs
    BY <1>18, PlaceNames, OtherNames, GotoEffect DEF ShapeInv, PlanExperiment, Same, Runs
  <2>3. UNCHANGED <<metrics, attempt, cand, archives, live, session>>
    BY <1>18 DEF PlanExperiment
  <2> QED
    BY <2>1, <2>2, <2>3 DEF ShapeInv
<1>19. CASE StartExperiment
  <2>1. ledger' \in Ledgers
    BY <1>19, ReconciledEffect, CompletedEffect, StatusEffect
    DEF StartExperiment, ShapeInv, Statuses
  <2>2. run' \in Runs
    BY <1>19, PlaceNames, OtherNames, GotoEffect DEF ShapeInv, StartExperiment, Same, Runs
  <2>3. UNCHANGED <<metrics, attempt, cand, archives, live, session>>
    BY <1>19 DEF StartExperiment
  <2> QED
    BY <2>1, <2>2, <2>3 DEF ShapeInv
<1>20. CASE CreateCandidate
  <2>1. cand' \in Clones
    BY <1>20, NoCandTyped, MicroverseAssumption
    DEF ShapeInv, CreateCandidate, Faulty, Clones, Runs, NoCand
  <2>2. run' \in Runs
    <3>1. CASE run' = [run EXCEPT !.pc = "write", !.base.dirty = live.dirty]
      <4>1. [run.base EXCEPT !.dirty = live.dirty] \in Boundaries
        BY DEF ShapeInv, Runs, Boundaries, Checkouts
      <4> QED
        BY <3>1, <4>1, PlaceNames DEF ShapeInv, Runs
    <3>2. CASE Throw(FALSE)
      BY <3>2, ThrowEffect DEF Same
    <3> QED
      BY <1>20, <3>1, <3>2 DEF CreateCandidate
  <2>3. UNCHANGED <<ledger, metrics, attempt, archives, live, session>>
    BY <1>20 DEF CreateCandidate
  <2> QED
    BY <2>1, <2>2, <2>3 DEF ShapeInv
<1>21. CASE WriteAttempt
  <2>1. attempt' \in Attempts
    BY <1>21, PhaseEffect, MicroverseAssumption
    DEF ShapeInv, WriteAttempt, NewAttempt, Phases, Attempts, Runs, Metrics, Sessions,
        NoAttempt, Boundaries
  <2>2. run' \in Runs
    BY <1>21, PlaceNames, OtherNames DEF ShapeInv, WriteAttempt, NewAttempt, Same, Runs
  <2>3. UNCHANGED <<ledger, metrics, cand, archives, live, session>>
    BY <1>21 DEF WriteAttempt
  <2> QED
    BY <2>1, <2>2, <2>3 DEF ShapeInv
<1>22. CASE WorkerEnds
  <2>1. cand' \in Clones
    <3>1. PICK work \in {{}, {"in"}, Parts}, moved \in BOOLEAN :
            cand' = [cand EXCEPT !.work = work, !.moved = moved]
      BY <1>22 DEF WorkerEnds
    <3>2. work \in SUBSET Parts
      BY DEF Parts
    <3> QED
      BY <3>1, <3>2 DEF ShapeInv, Clones
  <2>2. run' \in Runs
    BY <1>22, PlaceNames, OtherNames, GotoEffect, BreakEffect
    DEF ShapeInv, WorkerEnds, Same, Runs
  <2>3. UNCHANGED <<ledger, metrics, attempt, archives, live, session>>
    BY <1>22 DEF WorkerEnds
  <2> QED
    BY <2>1, <2>2, <2>3 DEF ShapeInv
<1>23. CASE AdoptPlan
  <2>1. attempt' \in Attempts
    BY <1>23, PhaseEffect, MicroverseAssumption
    DEF ShapeInv, AdoptPlan, Phases, Attempts, Runs, Metrics, Sessions, NoAttempt, Boundaries
  <2>2. run' \in Runs
    BY <1>23, PlaceNames, OtherNames, GotoEffect DEF ShapeInv, AdoptPlan, Same, Runs
  <2>3. UNCHANGED <<ledger, metrics, cand, archives, live, session>>
    BY <1>23 DEF AdoptPlan
  <2> QED
    BY <2>1, <2>2, <2>3 DEF ShapeInv
<1>24. CASE EnforceScope
  <2>1. cand' \in Clones
    BY <1>24, ScopedEffect, ThrownEffect DEF EnforceScope, ShapeInv
  <2>2. run' \in Runs
    BY <1>24, PlaceNames, OtherNames, GotoEffect, ThrowEffect
    DEF ShapeInv, EnforceScope, RevertThrows, Same, Runs
  <2>3. UNCHANGED <<ledger, metrics, attempt, archives, live, session>>
    BY <1>24 DEF EnforceScope
  <2> QED
    BY <2>1, <2>2, <2>3 DEF ShapeInv
<1>25. CASE ArchiveCandidate
  <2>1. attempt' \in Attempts
    BY <1>25, PhaseEffect, MicroverseAssumption
    DEF ShapeInv, ArchiveCandidate, Archive, ArchiveFails, Phases
  <2>2. archives' \in Archives
    BY <1>25, MicroverseAssumption, OtherNames
    DEF ShapeInv, ArchiveCandidate, Archive, ArchiveFails, Archives, Clones
  <2>3. run' \in Runs
    BY <1>25, PlaceNames, OtherNames, ThrowEffect, GotoEffect
    DEF ShapeInv, ArchiveCandidate, Archive, ArchiveFails, Same, Runs
  <2>4. UNCHANGED <<ledger, metrics, cand, live, session>>
    BY <1>25 DEF ArchiveCandidate
  <2> QED
    BY <2>1, <2>2, <2>3, <2>4 DEF ShapeInv
<1>26. CASE Measure
  <2>1. run' \in Runs
    BY <1>26, PlaceNames, OtherNames, GotoEffect DEF ShapeInv, Measure, Same, Runs
  <2>2. UNCHANGED <<ledger, metrics, attempt, cand, archives, live, session>>
    BY <1>26 DEF Measure
  <2> QED
    BY <2>1, <2>2 DEF ShapeInv
<1>27. CASE RevertHeld
  <2>1. cand' \in Clones
    BY <1>27, RevertedEffect, ThrownEffect DEF RevertHeld, ShapeInv
  <2>2. run' \in Runs
    BY <1>27, PlaceNames, OtherNames, GotoEffect, ThrowEffect
    DEF ShapeInv, RevertHeld, RevertThrows, Same, Runs
  <2>3. UNCHANGED <<ledger, metrics, attempt, archives, live, session>>
    BY <1>27 DEF RevertHeld
  <2> QED
    BY <2>1, <2>2, <2>3 DEF ShapeInv
<1>28. CASE RecordMetric
  <2>1. metrics' \in Metrics
    BY <1>28, MicroverseAssumption, OtherNames
    DEF ShapeInv, RecordMetric, Recorded, Attempts, Metrics, Runs
  <2>2. run' \in Runs
    BY <1>28, PlaceNames, OtherNames, GotoEffect
    DEF ShapeInv, RecordMetric, Recorded, Same, Runs
  <2>3. UNCHANGED <<ledger, attempt, cand, archives, live, session>>
    BY <1>28 DEF RecordMetric
  <2> QED
    BY <2>1, <2>2, <2>3 DEF ShapeInv
<1>29. CASE Remeasure
  <2>1. metrics' \in Metrics
    BY <1>29, MicroverseAssumption, OtherNames
    DEF ShapeInv, Remeasure, Attempts, Metrics, Runs
  <2>2. cand' \in Clones
    BY <1>29, RevertedEffect, ThrownEffect
    DEF ShapeInv, Remeasure
  <2>3. run' \in Runs
    BY <1>29, PlaceNames, OtherNames, ThrowEffect DEF ShapeInv, Remeasure, RevertThrows, Same, Runs
  <2>4. UNCHANGED <<ledger, attempt, archives, live, session>>
    BY <1>29 DEF Remeasure
  <2> QED
    BY <2>1, <2>2, <2>3, <2>4 DEF ShapeInv
<1>30. CASE PersistPending
  <2>1. attempt' \in Attempts
    BY <1>30, PhaseEffect, MicroverseAssumption
    DEF ShapeInv, PersistPending, Phases, Attempts, Runs, Metrics, Sessions, NoAttempt,
        Boundaries
  <2>2. run' \in Runs
    BY <1>30, PlaceNames, OtherNames, GotoEffect DEF ShapeInv, PersistPending, Same, Runs
  <2>3. UNCHANGED <<ledger, metrics, cand, archives, live, session>>
    BY <1>30 DEF PersistPending
  <2> QED
    BY <2>1, <2>2, <2>3 DEF ShapeInv
<1>31. CASE Promote
  <2>1. live' \in Checkouts
    <3>1. live' = live \/ live' = [live EXCEPT !.has = @ \cup {run.exp}]
      BY <1>31 DEF Promote, FastForward
    <3>2. live.has \cup {run.exp} \in SUBSET (0..MaxExp)
      BY DEF ShapeInv, Checkouts, Runs
    <3> QED
      BY <3>1, <3>2 DEF ShapeInv, Checkouts
  <2>2. run' \in Runs
    BY <1>31, PlaceNames, OtherNames, GotoEffect, ThrowEffect
    DEF ShapeInv, Promote, FastForward, CanFastForward, Head, Boundary, Same, Runs
  <2>3. UNCHANGED <<ledger, metrics, attempt, cand, archives, session>>
    BY <1>31 DEF Promote
  <2> QED
    BY <2>1, <2>2, <2>3 DEF ShapeInv
<1>32. CASE DeferPromotion
  <2>1. metrics' \in Metrics
    BY <1>32, MicroverseAssumption, OtherNames
    DEF ShapeInv, DeferPromotion, Attempts, Metrics, Runs
  <2>2. run' \in Runs
    BY <1>32, PlaceNames, OtherNames DEF ShapeInv, DeferPromotion, Same, Runs
  <2>3. UNCHANGED <<ledger, attempt, cand, archives, live, session>>
    BY <1>32 DEF DeferPromotion
  <2> QED
    BY <2>1, <2>2, <2>3 DEF ShapeInv
<1>33. CASE MarkPromoted
  <2>1. attempt' \in Attempts
    BY <1>33, PhaseEffect, MicroverseAssumption
    DEF ShapeInv, MarkPromoted, Faulty, Phases, Attempts, Runs, Metrics, Sessions, NoAttempt,
        Boundaries
  <2>2. run' \in Runs
    BY <1>33, PlaceNames, OtherNames, GotoEffect, ThrowEffect
    DEF ShapeInv, MarkPromoted, Faulty, Same, Runs
  <2>3. UNCHANGED <<ledger, metrics, cand, archives, live, session>>
    BY <1>33 DEF MarkPromoted
  <2> QED
    BY <2>1, <2>2, <2>3 DEF ShapeInv
<1>34. CASE CompleteExperiment
  <2>1. ledger' \in Ledgers
    BY <1>34, ReconciledEffect, CompletedEffect, StatusEffect
    DEF CompleteExperiment, ShapeInv, Statuses
  <2>2. run' \in Runs
    BY <1>34, PlaceNames, OtherNames, GotoEffect DEF ShapeInv, CompleteExperiment, Same, Runs
  <2>3. UNCHANGED <<metrics, attempt, cand, archives, live, session>>
    BY <1>34 DEF CompleteExperiment
  <2> QED
    BY <2>1, <2>2, <2>3 DEF ShapeInv
<1>35. CASE DiscardCandidate
  <2>1. cand' \in Clones
    BY <1>35, NoCandTyped, MicroverseAssumption
    DEF ShapeInv, DiscardCandidate, Faulty, Clones, Runs
  <2>2. run' \in Runs
    BY <1>35, PlaceNames, OtherNames, ThrowEffect
    DEF ShapeInv, DiscardCandidate, Faulty, Same, Runs
  <2>3. UNCHANGED <<ledger, metrics, attempt, archives, live, session>>
    BY <1>35 DEF DiscardCandidate
  <2> QED
    BY <2>1, <2>2, <2>3 DEF ShapeInv
<1>36. CASE CountIteration
  <2>1. session' \in Sessions
    <3>1. session.iteration + 1 \in Nat
      BY DEF ShapeInv, Sessions
    <3> QED
      BY <1>36, <3>1 DEF ShapeInv, CountIteration, Sessions
  <2>2. run' \in Runs
    BY <1>36, PlaceNames, OtherNames, GotoEffect, ThrowEffect
    DEF ShapeInv, CountIteration, Faulty, Same, Runs
  <2>3. UNCHANGED <<ledger, metrics, attempt, cand, archives, live>>
    BY <1>36 DEF CountIteration
  <2> QED
    BY <2>1, <2>2, <2>3 DEF ShapeInv
<1>37. CASE ClearAttempt
  <2>1. attempt' \in Attempts
    BY <1>37, PhaseEffect, MicroverseAssumption
    DEF ShapeInv, ClearAttempt, Phases, Attempts, Runs, Metrics, Sessions, NoAttempt, Boundaries
  <2>2. run' \in Runs
    <3>1. CASE run.outcome = "stop"
      BY <1>37, <3>1, BreakEffect, OtherNames DEF ClearAttempt, Same
    <3>2. CASE run.outcome # "stop"
      <4>1. run' = [run EXCEPT !.pc = "top", !.exp = 0, !.outcome = "none", !.base = NoAttempt.base]
        BY <1>37, <3>2 DEF ClearAttempt
      <4>2. 0 \in 0..MaxExp
        BY MicroverseAssumption
      <4> QED
        BY <4>1, <4>2, IdleTyped, PlaceNames, OtherNames DEF ShapeInv, Runs
    <3> QED
      BY <3>1, <3>2
  <2>3. UNCHANGED <<ledger, metrics, cand, archives, live, session>>
    BY <1>37 DEF ClearAttempt
  <2> QED
    BY <2>1, <2>2, <2>3 DEF ShapeInv
<1>38. CASE ArchiveFailed
  <2>1. attempt' \in Attempts
    BY <1>38, PhaseEffect, MicroverseAssumption
    DEF ShapeInv, ArchiveFailed, Archive, ArchiveFails, Phases
  <2>2. archives' \in Archives
    BY <1>38, MicroverseAssumption, OtherNames
    DEF ShapeInv, ArchiveFailed, Archive, ArchiveFails, Archives, Clones
  <2>3. run' \in Runs
    BY <1>38, PlaceNames, OtherNames, ThrowEffect, GotoEffect
    DEF ShapeInv, ArchiveFailed, Archive, ArchiveFails, Same, Runs
  <2>4. UNCHANGED <<ledger, metrics, cand, live, session>>
    BY <1>38 DEF ArchiveFailed
  <2> QED
    BY <2>1, <2>2, <2>3, <2>4 DEF ShapeInv
<1>39. CASE RevertFailed
  <2>1. cand' \in Clones
    BY <1>39, RevertedEffect, ThrownEffect DEF RevertFailed, ShapeInv
  <2>2. run' \in Runs
    BY <1>39, PlaceNames, OtherNames, GotoEffect, ThrowEffect
    DEF ShapeInv, RevertFailed, RevertThrows, Same, Runs
  <2>3. UNCHANGED <<ledger, metrics, attempt, archives, live, session>>
    BY <1>39 DEF RevertFailed
  <2> QED
    BY <2>1, <2>2, <2>3 DEF ShapeInv
<1>40. CASE DiscardFailed
  <2>1. cand' \in Clones
    BY <1>40, NoCandTyped, MicroverseAssumption DEF ShapeInv, DiscardFailed, Clones, Runs
  <2>2. run' \in Runs
    BY <1>40, PlaceNames, OtherNames DEF ShapeInv, DiscardFailed, Same, Runs
  <2>3. UNCHANGED <<ledger, metrics, attempt, archives, live, session>>
    BY <1>40 DEF DiscardFailed
  <2> QED
    BY <2>1, <2>2, <2>3 DEF ShapeInv
<1>41. CASE RecordFailure
  <2>1. ledger' \in Ledgers
    <3>1. ledger' = [ledger EXCEPT !.status[run.exp] = "planned", !.failures = @ + 1]
      BY <1>41 DEF RecordFailure
    <3>2. ledger.failures + 1 \in Nat /\ "planned" \in Statuses
      BY DEF ShapeInv, Ledgers, Statuses
    <3> QED
      BY <3>1, <3>2 DEF ShapeInv, Ledgers
  <2>2. run' \in Runs
    BY <1>41, PlaceNames, OtherNames, GotoEffect DEF ShapeInv, RecordFailure, Same, Runs
  <2>3. UNCHANGED <<metrics, attempt, cand, archives, live, session>>
    BY <1>41 DEF RecordFailure
  <2> QED
    BY <2>1, <2>2, <2>3 DEF ShapeInv
<1>42. CASE DecideFailure
  <2>1. ledger' \in Ledgers
    BY <1>42, ReconciledEffect, CompletedEffect, StatusEffect
    DEF DecideFailure, ShapeInv, Ledgers, Statuses
  <2>2. run' \in Runs
    BY <1>42, PlaceNames, OtherNames DEF ShapeInv, DecideFailure, Same, Runs
  <2>3. UNCHANGED <<metrics, attempt, cand, archives, live, session>>
    BY <1>42 DEF DecideFailure
  <2> QED
    BY <2>1, <2>2, <2>3 DEF ShapeInv
<1>43. CASE ResetWindow
  <2>1. ledger' \in Ledgers
    BY <1>43, ReconciledEffect, CompletedEffect, StatusEffect
    DEF ResetWindow, ShapeInv, Ledgers, Statuses
  <2>2. run' \in Runs
    BY <1>43, PlaceNames, OtherNames, GotoEffect DEF ShapeInv, ResetWindow, Same, Runs
  <2>3. UNCHANGED <<metrics, attempt, cand, archives, live, session>>
    BY <1>43 DEF ResetWindow
  <2> QED
    BY <2>1, <2>2, <2>3 DEF ShapeInv
<1>44. CASE RollbackOnExit
  <2>1. attempt' \in Attempts
    BY <1>44, PhaseEffect, MicroverseAssumption
    DEF ShapeInv, RollbackOnExit, Archive, ArchiveFails, Phases
  <2>2. archives' \in Archives
    BY <1>44, MicroverseAssumption, OtherNames
    DEF ShapeInv, RollbackOnExit, Archive, ArchiveFails, Archives, Clones
  <2>3. run' \in Runs
    BY <1>44, PlaceNames, OtherNames, GotoEffect, StopEffect
    DEF ShapeInv, RollbackOnExit, Archive, ArchiveFails, Same, Runs
  <2>4. UNCHANGED <<ledger, metrics, cand, live, session>>
    BY <1>44 DEF RollbackOnExit
  <2> QED
    BY <2>1, <2>2, <2>3, <2>4 DEF ShapeInv
<1>45. CASE RevertOnExit
  <2>1. cand' \in Clones
    BY <1>45, RevertedEffect DEF ShapeInv, RevertOnExit
  <2>2. run' \in Runs
    BY <1>45, PlaceNames, OtherNames, GotoEffect, StopEffect DEF ShapeInv, RevertOnExit, Same, Runs
  <2>3. attempt' \in Attempts
    BY <1>45 DEF ShapeInv, RevertOnExit, ArchiveFails, Attempts, Phases
  <2>4. UNCHANGED <<ledger, metrics, archives, live, session>>
    BY <1>45 DEF RevertOnExit, ArchiveFails
  <2> QED
    BY <2>1, <2>2, <2>3, <2>4 DEF ShapeInv
<1>46. CASE FinalizeOnExit
  <2>1. metrics' \in Metrics
    BY <1>46, MicroverseAssumption, OtherNames
    DEF ShapeInv, FinalizeOnExit, Attempts, Metrics, Runs
  <2>2. run' \in Runs
    BY <1>46, PlaceNames, OtherNames, GotoEffect DEF ShapeInv, FinalizeOnExit, Same, Runs
  <2>3. UNCHANGED <<ledger, attempt, cand, archives, live, session>>
    BY <1>46 DEF FinalizeOnExit
  <2> QED
    BY <2>1, <2>2, <2>3 DEF ShapeInv
<1>47. CASE CountOnExit
  <2>1. session' \in Sessions
    BY <1>47, MicroverseAssumption, OtherNames
    DEF ShapeInv, CountOnExit, Iterations, Sessions, Exits, Attempts, Runs
  <2>2. run' \in Runs
    BY <1>47, PlaceNames, OtherNames, GotoEffect
    DEF ShapeInv, CountOnExit, Iterations, Same, Runs
  <2>3. UNCHANGED <<ledger, metrics, attempt, cand, archives, live>>
    BY <1>47 DEF CountOnExit
  <2> QED
    BY <2>1, <2>2, <2>3 DEF ShapeInv
<1>48. CASE ReconcileOnExit
  <2>1. ledger' \in Ledgers
    BY <1>48, ReconciledEffect, CompletedEffect, StatusEffect
    DEF ReconcileOnExit, ShapeInv, Statuses
  <2>2. run' \in Runs
    BY <1>48, PlaceNames, OtherNames, GotoEffect DEF ShapeInv, ReconcileOnExit, Same, Runs
  <2>3. UNCHANGED <<metrics, attempt, cand, archives, live, session>>
    BY <1>48 DEF ReconcileOnExit
  <2> QED
    BY <2>1, <2>2, <2>3 DEF ShapeInv
<1>49. CASE DiscardOnExit
  <2>1. cand' \in Clones
    BY <1>49, NoCandTyped, MicroverseAssumption
    DEF ShapeInv, DiscardOnExit, CandidateIntact, Clones, Runs
  <2>2. run' \in Runs
    BY <1>49, PlaceNames, OtherNames, GotoEffect, StopEffect
    DEF ShapeInv, DiscardOnExit, CandidateIntact, Same, Runs
  <2>3. UNCHANGED <<ledger, metrics, attempt, archives, live, session>>
    BY <1>49 DEF DiscardOnExit
  <2> QED
    BY <2>1, <2>2, <2>3 DEF ShapeInv
<1>50. CASE ClearOnExit
  <2>1. attempt' \in Attempts
    BY <1>50, PhaseEffect, MicroverseAssumption
    DEF ShapeInv, ClearOnExit, Phases, Attempts, Runs, Metrics, Sessions, NoAttempt, Boundaries
  <2>2. run' \in Runs
    BY <1>50, PlaceNames, OtherNames, GotoEffect DEF ShapeInv, ClearOnExit, Same, Runs
  <2>3. UNCHANGED <<ledger, metrics, cand, archives, live, session>>
    BY <1>50 DEF ClearOnExit
  <2> QED
    BY <2>1, <2>2, <2>3 DEF ShapeInv
<1>51. CASE ExitPhase
  <2>1. session' \in Sessions
    BY <1>51, MicroverseAssumption, OtherNames
    DEF ShapeInv, ExitPhase, Sessions, Exits, Attempts, Runs
  <2>2. run' \in Runs
    BY <1>51, IdleTyped DEF ExitPhase
  <2>3. UNCHANGED <<ledger, metrics, attempt, cand, archives, live>>
    BY <1>51 DEF ExitPhase
  <2> QED
    BY <2>1, <2>2, <2>3 DEF ShapeInv
<1>52. CASE Kill
  <2>1. run' \in Runs
    BY <1>52, IdleTyped DEF Kill
  <2>2. UNCHANGED <<ledger, metrics, attempt, cand, archives, live, session>>
    BY <1>52 DEF Kill
  <2> QED
    BY <2>1, <2>2 DEF ShapeInv
<1>53. CASE Cancel
  <2>1. session' \in Sessions
    BY <1>53, MicroverseAssumption, OtherNames
    DEF ShapeInv, Cancel, Sessions, Exits, Attempts, Runs
  <2>2. UNCHANGED <<ledger, metrics, attempt, cand, archives, live, run>>
    BY <1>53 DEF Cancel
  <2> QED
    BY <2>1, <2>2 DEF ShapeInv
<1>54. CASE EditLive
  <2>1. live' \in Checkouts
    BY <1>54, MicroverseAssumption, OtherNames DEF ShapeInv, EditLive, Checkouts, Attempts, Runs
  <2>2. UNCHANGED <<ledger, metrics, attempt, cand, archives, session, run>>
    BY <1>54 DEF EditLive
  <2> QED
    BY <2>1, <2>2 DEF ShapeInv
<1>55. CASE CleanLive
  <2>1. live' \in Checkouts
    BY <1>55, MicroverseAssumption, OtherNames
    DEF ShapeInv, CleanLive, Checkouts, Attempts, Runs
  <2>2. UNCHANGED <<ledger, metrics, attempt, cand, archives, session, run>>
    BY <1>55 DEF CleanLive
  <2> QED
    BY <2>1, <2>2 DEF ShapeInv
<1>56. CASE CommitLive
  <2>1. live' \in Checkouts
    <3>1. PICK S \in SUBSET live.has :
            live' = [live EXCEPT !.dirty = FALSE, !.foreign = @ + 1, !.touched = @ \cup S]
      BY <1>56 DEF CommitLive
    <3>2. live.foreign + 1 \in Nat /\ live.touched \cup S \in SUBSET (0..MaxExp)
      BY <3>1 DEF ShapeInv, Checkouts
    <3> QED
      BY <3>1, <3>2 DEF ShapeInv, Checkouts
  <2>2. UNCHANGED <<ledger, metrics, attempt, cand, archives, session, run>>
    BY <1>56 DEF CommitLive
  <2> QED
    BY <2>1, <2>2 DEF ShapeInv
<1>57. CASE UNCHANGED vars
  BY <1>57 DEF vars, ShapeInv
<1> QED
  BY <1>1, <1>2, <1>3, <1>4, <1>5, <1>6, <1>7, <1>8, <1>9, <1>10, <1>11, <1>12, <1>13, <1>14,
     <1>15, <1>16, <1>17, <1>18, <1>19, <1>20, <1>21, <1>22, <1>23, <1>24, <1>25, <1>26, <1>27,
     <1>28, <1>29, <1>30, <1>31, <1>32, <1>33, <1>34, <1>35, <1>36, <1>37, <1>38, <1>39, <1>40,
     <1>41, <1>42, <1>43, <1>44, <1>45, <1>46, <1>47, <1>48, <1>49, <1>50, <1>51, <1>52, <1>53,
     <1>54, <1>55, <1>56, <1>57 DEF Next, Process, Startup, Iteration, Finally, Environment
-----------------------------------------------------------------------------
(* What a step may do to the files, and what they keep agreeing on.        *)

Finished == {"accepted", "rejected", "invalid"}

LEMMA OutcomesKept ==
  ASSUME \A e \in Exps : \/ ledger'.status[e] = ledger.status[e]
                         \/ {ledger.status[e], ledger'.status[e]} \cap {"accepted", "rejected"} = {}
  PROVE  Accepted' = Accepted /\ Sci' = Sci
BY DEF Accepted, Sci, Scientific

LEMMA OrderedKept ==
  ASSUME Ordered,
         \A e \in Exps : /\ ledger.status[e] \in Finished => ledger'.status[e] \in Finished
                         /\ ledger.status[e] = "none" => ledger'.status[e] = "none"
  PROVE  Ordered'
BY DEF Ordered, Finished

LEMMA SciFinite ==
  /\ IsFiniteSet(Sci) /\ Cardinality(Sci) \in Nat
  /\ IsFiniteSet(Accepted) /\ Cardinality(Accepted) \in Nat
<1>1. Sci \in SUBSET Exps /\ Accepted \in SUBSET Exps
  BY DEF Sci, Accepted
<1> QED
  BY <1>1, ExpsFinite

(* An outcome is one more experiment, and an accepted one the best.        *)
LEMMA OutcomeAdded ==
  ASSUME ShapeInv, Ordered, NEW e \in Exps, ledger.status[e] = "running",
         NEW s \in {"accepted", "rejected"}, ledger' = Completed(e, s)
  PROVE  /\ Sci' = Sci \cup {e} /\ Cardinality(Sci') = Cardinality(Sci) + 1
         /\ ledger'.status = [ledger.status EXCEPT ![e] = s]
         /\ Ordered'
         /\ s = "accepted" =>
              /\ Accepted' = Accepted \cup {e}
              /\ \A m \in Metrics : Agrees(m, Accepted, ledger.stalls)
                   => Agrees(Improved(m, e), Accepted', ledger'.stalls)
         /\ s = "rejected" =>
              /\ Accepted' = Accepted
              /\ \A m \in Metrics : Agrees(m, Accepted, ledger.stalls)
                   => Agrees(Held(m), Accepted', ledger'.stalls)
<1>1. /\ ledger'.status = [ledger.status EXCEPT ![e] = s]
      /\ ledger'.stalls = IF s = "accepted" THEN 0 ELSE ledger.stalls + 1
  BY CompletedEffect
<1>2. ledger.status \in [Exps -> Statuses]
  BY DEF ShapeInv, Ledgers
<1>3. ledger'.status[e] = s /\ \A f \in Exps \ {e} : ledger'.status[f] = ledger.status[f]
  BY <1>1, <1>2
<1>4. Sci' = Sci \cup {e} /\ e \notin Sci
  BY <1>3 DEF Sci, Scientific
<1>5. Cardinality(Sci') = Cardinality(Sci) + 1
  BY <1>4, SciFinite, FS_AddElement
<1>6. Ordered'
  BY <1>3, OrderedKept DEF Finished
<1>7. ASSUME s = "accepted"
      PROVE  /\ Accepted' = Accepted \cup {e}
             /\ \A m \in Metrics : Agrees(m, Accepted, ledger.stalls)
                  => Agrees(Improved(m, e), Accepted', ledger'.stalls)
  <2>1. Accepted' = Accepted \cup {e} /\ e \notin Accepted
    BY <1>3, <1>7 DEF Accepted
  <2>2. Cardinality(Accepted') = Cardinality(Accepted) + 1
    BY <2>1, SciFinite, FS_AddElement
  <2>3. ASSUME NEW f \in Accepted PROVE f <= e
    <3>1. f \in Exps /\ ledger.status[f] = "accepted"
      BY DEF Accepted
    <3>2. ~(e < f)
      BY <3>1 DEF Ordered
    <3> QED
      BY <3>1, <3>2 DEF Exps
  <2>4. e <= e
    BY DEF Exps
  <2>5. ASSUME NEW m \in Metrics, Agrees(m, Accepted, ledger.stalls)
        PROVE  Agrees(Improved(m, e), Accepted', ledger'.stalls)
    <3>1. IsBest(e, Accepted')
      BY <2>1, <2>3, <2>4 DEF IsBest
    <3>2. m.gain = Cardinality(Accepted)
      BY <2>5 DEF Agrees
    <3>3. /\ Improved(m, e).best = e /\ Improved(m, e).gain = m.gain + 1
          /\ Improved(m, e).stall = 0
      BY DEF Improved
    <3>4. ledger'.stalls = 0
      BY <1>1, <1>7
    <3> QED
      BY <2>2, <3>1, <3>2, <3>3, <3>4 DEF Agrees
  <2> QED
    BY <2>1, <2>5
<1>8. ASSUME s = "rejected"
      PROVE  /\ Accepted' = Accepted
             /\ \A m \in Metrics : Agrees(m, Accepted, ledger.stalls)
                  => Agrees(Held(m), Accepted', ledger'.stalls)
  <2>1. Accepted' = Accepted
    BY <1>3, <1>8 DEF Accepted
  <2>2. ledger'.stalls = ledger.stalls + 1
    BY <1>1, <1>8
  <2>3. \A m \in Metrics : /\ Held(m).best = m.best /\ Held(m).gain = m.gain
                           /\ Held(m).stall = m.stall + 1
    BY DEF Metrics, Held
  <2> QED
    BY <2>1, <2>2, <2>3 DEF Agrees
<1> QED
  BY <1>1, <1>4, <1>5, <1>6, <1>7, <1>8

(* The parts of the files that DurableInv speaks of.                       *)
LEMMA FilesKept ==
  ASSUME DurableInv, UNCHANGED <<ledger.status, ledger.stalls, metrics, attempt, cand, archives,
                                 live.has, session.iteration>>
  PROVE  DurableInv'
<1>1. Accepted' = Accepted /\ Sci' = Sci
  BY DEF Accepted, Sci, Scientific
<1> QED
  BY <1>1 DEF DurableInv, Ordered, DeliveredInv, Landed, ClosedInv, OpenInv, UndecidedInv, DecidedInv,
     MetricsAgree, TerminalOutcome, Scientific, Status, Promoting

(* Before its promotion is on record the work of an attempt may change,    *)
(* and be archived.                                                        *)
LEMMA WorkChanged ==
  ASSUME ShapeInv, DurableInv, attempt.exp # 0, attempt.phase = "running", cand'.exp = cand.exp,
         \A f \in Exps \ {attempt.exp} : archives'[f] = archives[f],
         UNCHANGED <<ledger.status, ledger.stalls, metrics, attempt, live.has, session.iteration>>
  PROVE  DurableInv'
<1>1. Accepted' = Accepted /\ Sci' = Sci
  BY DEF Accepted, Sci, Scientific
<1>2. ~Promoting /\ ~Promoting' /\ attempt.phase # "promoted"
  BY DEF Promoting
<1>3. attempt.exp \notin Accepted
  BY DEF DurableInv, DecidedInv, TerminalOutcome, Scientific, Status, Accepted
<1>4. DeliveredInv'
  BY <1>1, <1>3 DEF DurableInv, DeliveredInv, Accepted
<1> QED
  BY <1>1, <1>2, <1>4 DEF DurableInv, Ordered, DeliveredInv, ClosedInv, OpenInv, UndecidedInv, DecidedInv,
     MetricsAgree, TerminalOutcome, Scientific, Status

LEMMA Quarantined ==
  ASSUME ShapeInv, DurableInv, attempt' = [attempt EXCEPT !.phase = "quarantined"], attempt.exp # 0,
         attempt.phase = "running" \/ ~CandidateIntact,
         UNCHANGED <<ledger.status, ledger.stalls, metrics, cand.exp, archives, live.has,
                     session.iteration>>
  PROVE  DurableInv'
<1>1. Accepted' = Accepted /\ Sci' = Sci
  BY DEF Accepted, Sci, Scientific
<1>2. /\ attempt'.phase = "quarantined" /\ attempt'.exp = attempt.exp
      /\ attempt'.before = attempt.before /\ attempt'.after = attempt.after
      /\ attempt'.iteration = attempt.iteration
  BY DEF ShapeInv, Attempts
<1>3. Ordered' /\ DeliveredInv' /\ ClosedInv'
  BY <1>1, <1>2 DEF DurableInv, Ordered, DeliveredInv, ClosedInv
<1>4. Status' = Status /\ TerminalOutcome' = TerminalOutcome /\ MetricsAgree' = MetricsAgree /\ ~Promoting'
  BY <1>1, <1>2 DEF Status, TerminalOutcome, Scientific, MetricsAgree, Promoting
<1>5. attempt.exp \in live.has => Status = "accepted"
  BY
  DEF DurableInv, OpenInv, UndecidedInv, DecidedInv, CandidateIntact, TerminalOutcome,
      Scientific,
     Status, Promoting
<1>6. UndecidedInv'
  BY <1>1, <1>2, <1>4 DEF DurableInv, UndecidedInv
<1>7. DecidedInv'
  BY <1>1, <1>2, <1>4 DEF DurableInv, DecidedInv
<1>8. OpenInv'
  BY <1>1, <1>2, <1>4, <1>5 DEF DurableInv, OpenInv, Landed
<1> QED
  BY <1>3, <1>6, <1>7, <1>8 DEF DurableInv

LEMMA CloneReplaced ==
  ASSUME DurableInv, ~Promoting \/ TerminalOutcome \/ attempt.exp = 0,
         UNCHANGED <<ledger.status, ledger.stalls, metrics, attempt, archives, live.has,
                     session.iteration>>
  PROVE  DurableInv'
<1>1. Accepted' = Accepted /\ Sci' = Sci
  BY DEF Accepted, Sci, Scientific
<1> QED
  BY <1>1 DEF DurableInv, Ordered, DeliveredInv, Landed, ClosedInv, OpenInv, UndecidedInv, DecidedInv,
     MetricsAgree, TerminalOutcome, Scientific, Status, Promoting

LEMMA Delivered ==
  ASSUME DurableInv, Promoting, attempt.exp # 0, live'.has = live.has \cup {attempt.exp},
         UNCHANGED <<ledger, metrics, attempt, cand, archives, session>>
  PROVE  DurableInv'
<1>1. Accepted' = Accepted /\ Sci' = Sci
  BY DEF Accepted, Sci, Scientific
<1> QED
  BY <1>1 DEF DurableInv, Ordered, DeliveredInv, Landed, ClosedInv, OpenInv, UndecidedInv, DecidedInv,
     MetricsAgree, TerminalOutcome, Scientific, Status, Promoting

LEMMA Marked ==
  ASSUME ShapeInv, DurableInv, attempt' = [attempt EXCEPT !.phase = "promoted"],
         attempt.exp # 0, attempt.phase = "promotion_pending", Landed,
         UNCHANGED <<ledger, metrics, cand, archives, live, session>>
  PROVE  DurableInv'
<1>1. Accepted' = Accepted /\ Sci' = Sci
  BY DEF Accepted, Sci, Scientific
<1>2. /\ attempt'.phase = "promoted" /\ attempt'.exp = attempt.exp
      /\ attempt'.before = attempt.before /\ attempt'.after = attempt.after
      /\ attempt'.iteration = attempt.iteration
  BY DEF ShapeInv, Attempts
<1>3. Status' = Status /\ TerminalOutcome' = TerminalOutcome /\ MetricsAgree' = MetricsAgree
      /\ Promoting' /\ Promoting
  BY <1>1, <1>2 DEF Status, TerminalOutcome, Scientific, MetricsAgree, Promoting
<1>4. Ordered' /\ DeliveredInv' /\ ClosedInv'
  BY <1>1, <1>2 DEF DurableInv, Ordered, DeliveredInv, ClosedInv
<1>5. OpenInv'
  BY <1>1, <1>2, <1>3 DEF DurableInv, OpenInv, Landed
<1>6. UndecidedInv' /\ DecidedInv'
  BY <1>1, <1>2, <1>3 DEF DurableInv, UndecidedInv, DecidedInv
<1> QED
  BY <1>4, <1>5, <1>6 DEF DurableInv

(* The attempt gets its outcome.                                           *)
LEMMA Decided ==
  ASSUME ShapeInv, DurableInv, attempt.exp \in Exps, Status = "running",
         NEW s \in {"accepted", "rejected"}, ledger' = Completed(attempt.exp, s),
         s = "accepted" => Promoting /\ Landed,
         s = "rejected" => attempt.phase = "running" /\ metrics = Held(attempt.before),
         UNCHANGED <<metrics, attempt, cand, archives, live, session>>
  PROVE  /\ DurableInv'
         /\ TerminalOutcome' /\ Status' = s
         /\ session'.iteration = Cardinality(Sci') - 1
         /\ s = "accepted" => Agrees(attempt'.after, Accepted', ledger'.stalls)
         /\ s = "rejected" => MetricsAgree'
<1>0. attempt.exp # 0 /\ ~TerminalOutcome
  BY DEF Exps, TerminalOutcome, Scientific, Status
<1>1. /\ Sci' = Sci \cup {attempt.exp} /\ Cardinality(Sci') = Cardinality(Sci) + 1
      /\ ledger'.status = [ledger.status EXCEPT ![attempt.exp] = s]
      /\ Ordered'
  BY OutcomeAdded DEF Status, DurableInv
<1>2. ledger.status \in [Exps -> Statuses] /\ attempt.before \in Metrics
  BY DEF ShapeInv, Ledgers, Attempts
<1>3. Status' = s /\ \A f \in Exps \ {attempt.exp} : ledger'.status[f] = ledger.status[f]
  BY <1>1, <1>2 DEF Status
<1>4. TerminalOutcome'
  BY <1>0, <1>3 DEF TerminalOutcome, Scientific, Status
<1>5. /\ Agrees(attempt.before, Accepted, ledger.stalls)
      /\ session.iteration = Cardinality(Sci) /\ attempt.iteration = Cardinality(Sci) + 1
      /\ Promoting => attempt.after = Improved(attempt.before, attempt.exp)
  BY <1>0 DEF DurableInv, UndecidedInv
<1>6. ASSUME s = "accepted"
      PROVE  /\ Accepted' = Accepted \cup {attempt.exp}
             /\ Agrees(attempt.after, Accepted', ledger'.stalls)
  <2>1. ledger.status[attempt.exp] = "running" /\ Ordered
    BY DEF Status, DurableInv
  <2>2. Accepted' = Accepted \cup {attempt.exp}
    BY <1>6, <2>1, OutcomeAdded
  <2>3. Agrees(Improved(attempt.before, attempt.exp), Accepted', ledger'.stalls)
    BY <1>2, <1>5, <1>6, <2>1, OutcomeAdded
  <2> QED
    BY <1>5, <1>6, <2>2, <2>3
<1>7. ASSUME s = "rejected"
      PROVE  Accepted' = Accepted /\ Agrees(metrics, Accepted', ledger'.stalls)
  <2>1. ledger.status[attempt.exp] = "running" /\ Ordered
    BY DEF Status, DurableInv
  <2>2. Accepted' = Accepted
    BY <1>7, <2>1, OutcomeAdded
  <2>3. Agrees(Held(attempt.before), Accepted', ledger'.stalls)
    BY <1>2, <1>5, <1>7, <2>1, OutcomeAdded
  <2> QED
    BY <1>7, <2>2, <2>3
<1>8. DeliveredInv'
  BY <1>6, <1>7 DEF DurableInv, DeliveredInv, Landed
<1>9. ClosedInv' /\ UndecidedInv'
  BY <1>0, <1>4 DEF ClosedInv, UndecidedInv
<1>10. Cardinality(Sci) \in Nat
  BY SciFinite
<1>11. DecidedInv'
  BY <1>1, <1>3, <1>5, <1>6, <1>7, <1>10 DEF DecidedInv, MetricsAgree, Promoting
<1>12. OpenInv'
  BY <1>0, <1>3, <1>6, <1>7 DEF DurableInv, OpenInv, Landed, Promoting, Status
<1> QED
  BY <1>1, <1>3, <1>4, <1>5, <1>6, <1>7, <1>8, <1>9, <1>10, <1>11, <1>12
  DEF DurableInv, MetricsAgree

LEMMA MetricsWritten ==
  ASSUME DurableInv, attempt.exp # 0,
         \/ Status = "accepted"
         \/ ~TerminalOutcome /\ (Status # "invalid" \/ metrics' = attempt.before),
         UNCHANGED <<ledger, attempt, cand, archives, live, session>>
  PROVE  DurableInv'
<1>1. Accepted' = Accepted /\ Sci' = Sci
  BY DEF Accepted, Sci, Scientific
<1> QED
  BY <1>1 DEF DurableInv, Ordered, DeliveredInv, Landed, ClosedInv, OpenInv, UndecidedInv, DecidedInv,
     MetricsAgree, TerminalOutcome, Scientific, Status, Promoting

LEMMA Counted ==
  ASSUME DurableInv, TerminalOutcome, session'.iteration = Cardinality(Sci),
         UNCHANGED <<ledger, metrics, attempt, cand, archives, live>>
  PROVE  DurableInv'
<1>1. Accepted' = Accepted /\ Sci' = Sci
  BY DEF Accepted, Sci, Scientific
<1> QED
  BY <1>1 DEF DurableInv, Ordered, DeliveredInv, Landed, ClosedInv, OpenInv, UndecidedInv, DecidedInv,
     MetricsAgree, TerminalOutcome, Scientific, Status, Promoting

(* An experiment changes its status without an outcome.                    *)
LEMMA Rescheduled ==
  ASSUME DurableInv, Ordered',
         \A e \in Exps : \/ ledger'.status[e] = ledger.status[e]
                         \/ {ledger.status[e], ledger'.status[e]} \cap {"accepted", "rejected"} = {},
         attempt.exp # 0 =>
           \A f \in Exps : ledger'.status[f] \in {"planned", "running"} => f = attempt.exp,
         attempt.exp \in Exps /\ ledger'.status[attempt.exp] # Status =>
           ~Promoting /\ metrics = attempt.before,
         attempt.exp \in 0..MaxExp, ledger'.stalls = ledger.stalls,
         UNCHANGED <<metrics, attempt, cand, archives, live, session>>
  PROVE  DurableInv'
<1>1. Accepted' = Accepted /\ Sci' = Sci
  BY OutcomesKept
<1>2. Promoting' = Promoting /\ MetricsAgree' = MetricsAgree
  BY <1>1 DEF Promoting, MetricsAgree
<1>3. CASE attempt.exp = 0
  BY <1>1, <1>2, <1>3
  DEF DurableInv, DeliveredInv, ClosedInv, OpenInv, UndecidedInv, DecidedInv, TerminalOutcome
<1>4. CASE attempt.exp # 0
  <2>1. attempt.exp \in Exps
    BY <1>4 DEF Exps
  <2>2. Status' = ledger'.status[attempt.exp]
    BY DEF Status
  <2>3. TerminalOutcome' = TerminalOutcome
    BY <2>1 DEF TerminalOutcome, Scientific
  <2>4. TerminalOutcome => Status' = Status
    BY <2>1, <2>2 DEF TerminalOutcome, Scientific, Status
  <2>5. Status = "accepted" <=> Status' = "accepted"
    BY <2>1, <2>2 DEF Status
  <2>6. ClosedInv'
    BY <1>4 DEF ClosedInv
  <2>7. OpenInv'
    BY <1>1, <1>2, <1>4, <2>5 DEF DurableInv, OpenInv, Landed
  <2>8. DecidedInv'
    BY <1>1, <1>2, <2>3, <2>4 DEF DurableInv, DecidedInv
  <2>9. UndecidedInv'
    BY <1>1, <1>2, <1>4, <2>1, <2>2, <2>3 DEF DurableInv, UndecidedInv
  <2>10. DeliveredInv'
    BY <1>1 DEF DurableInv, DeliveredInv
  <2> QED
    BY <2>6, <2>7, <2>8, <2>9, <2>10 DEF DurableInv
<1> QED
  BY <1>3, <1>4

LEMMA Cleared ==
  ASSUME ShapeInv, DurableInv, Ready, attempt' = NoAttempt,
         UNCHANGED <<ledger, metrics, cand, archives, live, session>>
  PROVE  DurableInv' /\ attempt'.exp = 0 /\ NoneRunning'
<1>1. Accepted' = Accepted /\ Sci' = Sci
  BY DEF Accepted, Sci, Scientific
<1>2. attempt'.exp = 0 /\ attempt'.phase = "none"
  BY DEF NoAttempt
<1>0. attempt.exp \in Exps
  BY DEF ShapeInv, Attempts, Ready, Exps
<1>3. attempt.exp \in live.has => attempt.exp \in Accepted
  BY <1>0 DEF Ready, Settled, Accepted, DurableInv, OpenInv, Status
<1> QED
  BY <1>1, <1>2, <1>3
  DEF DurableInv, Ordered, DeliveredInv, Landed, ClosedInv, OpenInv, UndecidedInv, DecidedInv,
     MetricsAgree, TerminalOutcome, Ready, NoneRunning
LEMMA AttemptBegun ==
  ASSUME ShapeInv, DurableInv, attempt.exp = 0, run.exp \in Exps,
         ledger.status[run.exp] = "running", cand.exp = run.exp, attempt' = NewAttempt,
         UNCHANGED <<ledger, metrics, cand, archives, live, session>>
  PROVE  DurableInv'
<1>1. Accepted' = Accepted /\ Sci' = Sci
  BY DEF Accepted, Sci, Scientific
<1>2. /\ attempt'.exp = run.exp /\ attempt'.phase = "running" /\ attempt'.before = metrics
      /\ attempt'.iteration = session.iteration + 1
  BY DEF NewAttempt
<1>3. Ordered' /\ DeliveredInv'
  BY <1>1 DEF DurableInv, Ordered, DeliveredInv
<1>4. run.exp # 0 /\ Status' = "running" /\ ~TerminalOutcome' /\ ~Promoting'
  BY <1>2 DEF Exps, Status, TerminalOutcome, Scientific, Promoting
<1>5. ClosedInv' /\ DecidedInv'
  BY <1>2, <1>4 DEF ClosedInv, DecidedInv
<1>6. MetricsAgree /\ session.iteration = Cardinality(Sci) /\ live.has \subseteq Accepted
  BY DEF DurableInv, ClosedInv
<1>7. UndecidedInv'
  BY <1>1, <1>2, <1>4, <1>6 DEF UndecidedInv, MetricsAgree
<1>8. ASSUME NEW f \in Exps, ledger.status[f] \in {"planned", "running"} PROVE f = run.exp
  <2>1. ~(f < run.exp) /\ ~(run.exp < f)
    BY <1>8 DEF DurableInv, Ordered
  <2> QED
    BY <2>1 DEF Exps
<1>9. run.exp \notin Accepted
  BY DEF Accepted
<1>10. OpenInv'
  BY <1>1, <1>2, <1>4, <1>6, <1>8, <1>9 DEF OpenInv, Landed
<1> QED
  BY <1>3, <1>5, <1>7, <1>10 DEF DurableInv

(* A rewritten transaction of an attempt without outcome.                  *)
LEMMA Rewritten ==
  ASSUME ShapeInv, DurableInv, attempt.exp \in Exps, Status = "running", attempt.phase = "running",
         cand.exp = attempt.exp, attempt' \in Attempts,
         UNCHANGED <<attempt.exp, attempt.iteration, attempt.before>>,
         \/ attempt'.phase = "running"
         \/ /\ attempt'.phase = "promotion_pending"
            /\ attempt'.after = Improved(attempt.before, attempt.exp)
            /\ archives[attempt.exp] = cand.work,
         UNCHANGED <<ledger, metrics, cand, archives, live, session>>
  PROVE  DurableInv'
<1>1. Accepted' = Accepted /\ Sci' = Sci
  BY DEF Accepted, Sci, Scientific
<1>2. attempt.exp # 0 /\ ~TerminalOutcome /\ ~Promoting
  BY DEF Exps, TerminalOutcome, Scientific, Status, Promoting
<1>3. Status' = Status /\ ~TerminalOutcome'
  BY <1>2 DEF Status, TerminalOutcome, Scientific
<1>4. Ordered' /\ DeliveredInv' /\ ClosedInv' /\ DecidedInv'
  BY <1>1, <1>2, <1>3 DEF DurableInv, Ordered, DeliveredInv, ClosedInv, DecidedInv
<1>5. UndecidedInv'
  BY <1>1, <1>2, <1>3 DEF DurableInv, UndecidedInv, Promoting
<1>6. attempt.exp \notin live.has
  BY <1>2 DEF DurableInv, OpenInv, Status
<1>7. OpenInv'
  BY <1>1, <1>2, <1>3, <1>6 DEF DurableInv, OpenInv, Landed, Promoting
<1> QED
  BY <1>4, <1>5, <1>7 DEF DurableInv

(* Whoever finds a running record without an attempt, or gives up the      *)
(* attempt of one, leaves none running.                                    *)
LEMMA NoneLeftRunning ==
  ASSUME ShapeInv, DurableInv, NEW mode \in {"resume", "cancel"}, ledger' = Reconciled(mode),
         attempt.exp # 0 => attempt.phase = "running" /\ metrics = attempt.before,
         UNCHANGED <<metrics, attempt, cand, archives, live, session>>
  PROVE  /\ DurableInv' /\ NoneRunning'
         /\ attempt.exp # 0 /\ ~TerminalOutcome => Ready'
<1>1. /\ ledger'.stalls = ledger.stalls
      /\ \A e \in Exps : ledger'.status[e] =
           IF ledger.status[e] # "running" THEN ledger.status[e]
           ELSE IF mode = "resume" THEN "planned" ELSE "invalid"
  BY ReconciledEffect
<1>2. Ordered'
  BY <1>1, OrderedKept DEF DurableInv, Finished
<1>3. \A e \in Exps : \/ ledger'.status[e] = ledger.status[e]
                      \/ {ledger.status[e], ledger'.status[e]} \cap {"accepted", "rejected"} = {}
  BY <1>1
<1>4. attempt.exp \in 0..MaxExp
  BY DEF ShapeInv, Attempts
<1>5. attempt.exp # 0 =>
        \A f \in Exps : ledger'.status[f] \in {"planned", "running"} => f = attempt.exp
  BY <1>1 DEF DurableInv, OpenInv, Landed
<1>6. attempt.exp \in Exps => attempt.exp # 0
  BY DEF Exps
<1>7. attempt.exp # 0 => ~Promoting
  BY DEF Promoting
<1>8. DurableInv'
  BY <1>1, <1>2, <1>3, <1>4, <1>5, <1>6, <1>7, Rescheduled
<1>9. NoneRunning'
  BY <1>1 DEF NoneRunning
<1>10. Accepted' = Accepted /\ Sci' = Sci
  BY <1>3, OutcomesKept
<1>11. ASSUME attempt.exp # 0, ~TerminalOutcome PROVE Ready'
  <2>1. attempt.exp \in Exps
    BY <1>4, <1>11 DEF Exps
  <2>2. attempt.exp \notin live.has
    BY <1>7, <1>11, <2>1 DEF DurableInv, OpenInv, TerminalOutcome, Scientific, Status
  <2>3. MetricsAgree' /\ session'.iteration = Cardinality(Sci')
    BY <1>1, <1>10, <1>11 DEF DurableInv, UndecidedInv, MetricsAgree
  <2> QED
    BY <1>9, <1>11, <2>2, <2>3 DEF Ready, Settled
<1> QED
  BY <1>8, <1>9, <1>11

(* All of it.                                                              *)
PlacesInv == LocalsInv /\ RecoverInv /\ BeginInv /\ AttemptInv /\ FinallyInv

LEMMA ReadyUndone ==
  ASSUME ShapeInv, DurableInv, Ready
  PROVE  ~Promoting \/ TerminalOutcome
<1>1. attempt.exp \in Exps
  BY DEF ShapeInv, Attempts, Ready, Exps
<1> QED
  BY <1>1 DEF Ready, NoneRunning, DurableInv, UndecidedInv, Status

LEMMA PhaseNames ==
  ASSUME ShapeInv
  PROVE  /\ attempt.phase \in {"none", "running", "promotion_pending", "promoted", "quarantined"}
         /\ attempt.exp \in 0..MaxExp
BY DEF ShapeInv, Attempts, Phases

(* What the files agree on survives every step.                            *)
LEMMA DurableStep ==
  ShapeInv /\ DurableInv /\ PlacesInv /\ EvidenceInv /\ [Next]_vars => DurableInv'
<1> SUFFICES ASSUME ShapeInv, DurableInv, PlacesInv, EvidenceInv, [Next]_vars PROVE DurableInv'
  OBVIOUS
<1>1. CASE Start
  <2>1. UNCHANGED <<ledger.status, ledger.stalls, metrics, attempt, cand, archives,
                  live.has, session.iteration>>
    BY <1>1 DEF Start, ShapeInv, Sessions
  <2> QED
    BY <2>1, FilesKept
<1>2. CASE ResetWorkerFailures
  <2>1. UNCHANGED <<ledger.status, ledger.stalls, metrics, attempt, cand, archives,
                  live.has, session.iteration>>
    BY <1>2 DEF ResetWorkerFailures, ShapeInv, Ledgers
  <2> QED
    BY <2>1, FilesKept
<1>3. CASE RecoverIdentity
  BY <1>3, Quarantined DEF RecoverIdentity
<1>4. CASE RecoverDecide
  <2>1. UNCHANGED <<ledger.status, ledger.stalls, metrics, attempt, cand, archives,
                  live.has, session.iteration>>
    BY <1>4 DEF RecoverDecide, ShapeInv
  <2> QED
    BY <2>1, FilesKept
<1>5. CASE RecoverPromote
  <2>1. attempt.exp # 0 /\ Promoting
    BY <1>5 DEF RecoverPromote, At, PlacesInv, RecoverInv, Promoting
  <2>2. UNCHANGED <<ledger, metrics, attempt, cand, archives, session>>
    BY <1>5 DEF RecoverPromote
  <2>3. CASE live' = live
    BY <2>2, <2>3, FilesKept
  <2>4. CASE live' = [live EXCEPT !.has = @ \cup {attempt.exp}]
    <3>1. live'.has = live.has \cup {attempt.exp}
      BY <2>4 DEF ShapeInv, Checkouts
    <3> QED
      BY <2>1, <2>2, <3>1, Delivered
  <2> QED
    BY <1>5, <2>3, <2>4 DEF RecoverPromote, FastForward
<1>6. CASE RecoverMark
  BY <1>6, Marked DEF RecoverMark, At, PlacesInv, RecoverInv
<1>7. CASE RecoverComplete
  <2>1. attempt.exp \in Exps /\ Promoting /\ Landed
    BY <1>7 DEF RecoverComplete, At, PlacesInv, RecoverInv, ShapeInv, Attempts, Exps
  <2>2. UNCHANGED <<metrics, attempt, cand, archives, live, session>>
    BY <1>7 DEF RecoverComplete
  <2>3. CASE Status = "running"
    <3>1. ledger' = Completed(attempt.exp, "accepted")
      BY <1>7, <2>3 DEF RecoverComplete, Status
    <3> QED
      BY <2>1, <2>2, <2>3, <3>1, Decided
  <2>4. CASE Status # "running"
    BY <1>7, <2>2, <2>4, FilesKept DEF RecoverComplete, Status
  <2> QED
    BY <2>3, <2>4
<1>8. CASE RecoverMetrics
  BY <1>8, MetricsWritten DEF RecoverMetrics, At, PlacesInv, RecoverInv
<1>9. CASE RecoverCount
  <2>1. TerminalOutcome
    BY <1>9 DEF RecoverCount, At, PlacesInv, RecoverInv
  <2>2. session'.iteration = Iterations(attempt.iteration)
    BY <1>9 DEF RecoverCount, ShapeInv, Sessions
  <2>3. Iterations(attempt.iteration) = Cardinality(Sci)
    BY <2>1, SciFinite DEF DurableInv, DecidedInv, Iterations
  <2> QED
    BY <1>9, <2>1, <2>2, <2>3, Counted DEF RecoverCount
<1>10. CASE RecoverArchive
  <2>1. attempt.exp # 0 /\ attempt.phase = "running"
    BY <1>10 DEF RecoverArchive, At, PlacesInv, RecoverInv
  <2>2. UNCHANGED <<ledger, metrics, cand, live, session>>
    BY <1>10 DEF RecoverArchive
  <2>3. CASE attempt' = attempt /\ archives' = [archives EXCEPT ![attempt.exp] = cand.work]
    BY <2>1, <2>2, <2>3, WorkChanged DEF ShapeInv, Archives
  <2>4. CASE attempt' = [attempt EXCEPT !.phase = "quarantined"] /\ archives' = archives
    BY <2>1, <2>2, <2>4, Quarantined
  <2> QED
    BY <1>10, <2>3, <2>4 DEF RecoverArchive, Archive, ArchiveFails
<1>11. CASE RecoverRemove
  BY <1>11, CloneReplaced DEF RecoverRemove, At, PlacesInv, RecoverInv, Promoting
<1>12. CASE RecoverRestore
  <2>1. attempt.exp # 0 /\ ~TerminalOutcome
    BY <1>12 DEF RecoverRestore, At, PlacesInv, RecoverInv
  <2> QED
    BY <1>12, <2>1, MetricsWritten DEF RecoverRestore
<1>13. CASE RecoverReconcile
  BY <1>13, NoneLeftRunning DEF RecoverReconcile, At, PlacesInv, RecoverInv
<1>14. CASE RecoverDiscard
  <2>1. Ready
    BY <1>14 DEF RecoverDiscard, At, PlacesInv, RecoverInv
  <2>2. ~Promoting \/ TerminalOutcome
    BY <2>1, ReadyUndone
  <2> QED
    BY <1>14, <2>2, CloneReplaced DEF RecoverDiscard
<1>15. CASE RecoverClear
  BY <1>15, Cleared DEF RecoverClear, At, PlacesInv, RecoverInv
<1>16. CASE ReconcileRunning
  BY <1>16, NoneLeftRunning DEF ReconcileRunning, At, PlacesInv, BeginInv
<1>17. CASE LoopTop
  <2>1. UNCHANGED <<ledger.status, ledger.stalls, metrics, attempt, cand, archives,
                  live.has, session.iteration>>
    BY <1>17 DEF LoopTop, ShapeInv
  <2> QED
    BY <2>1, FilesKept
<1>18. CASE PlanExperiment
  <2>1. /\ attempt.exp = 0 /\ NoneRunning /\ run.exp \in Exps /\ ledger.status[run.exp] = "none"
        /\ \A f \in Exps : ledger.status[f] # "planned" /\ (f < run.exp => ledger.status[f] # "none")
    BY <1>18 DEF PlanExperiment, At, PlacesInv, BeginInv
  <2>2. /\ ledger'.status[run.exp] = "planned" /\ ledger'.stalls = ledger.stalls
        /\ \A f \in Exps \ {run.exp} : ledger'.status[f] = ledger.status[f]
    BY <1>18, <2>1 DEF PlanExperiment, ShapeInv, Ledgers
  <2>3. ASSUME NEW e \in Exps, NEW f \in Exps, e < f, ledger'.status[f] # "none"
        PROVE  ledger'.status[e] \in Finished
    <3>1. ASSUME e = run.exp PROVE FALSE
      BY <2>1, <2>2, <2>3, <3>1 DEF DurableInv, Ordered, Exps
    <3>2. ASSUME f = run.exp PROVE ledger.status[e] \in Finished
      <4>1. ledger.status[e] \in Statuses /\ ledger.status[e] \notin {"none", "planned", "running"}
        BY <2>1, <2>3, <3>2 DEF NoneRunning, ShapeInv, Ledgers
      <4> QED
        BY <4>1 DEF Statuses, Finished
    <3>3. ASSUME f # run.exp PROVE ledger.status[e] \in Finished
      BY <2>2, <2>3, <3>3 DEF DurableInv, Ordered, Finished
    <3> QED
      BY <2>2, <3>1, <3>2, <3>3
  <2>4. Ordered'
    BY <2>3 DEF Ordered, Finished
  <2>5. \A e \in Exps : \/ ledger'.status[e] = ledger.status[e]
                       \/ {ledger.status[e], ledger'.status[e]} \cap {"accepted", "rejected"} = {}
    BY <2>1, <2>2
  <2>6. 0 \notin Exps /\ attempt.exp \in 0..MaxExp
    BY DEF Exps, ShapeInv, Attempts
  <2>7. UNCHANGED <<metrics, attempt, cand, archives, live, session>>
    BY <1>18 DEF PlanExperiment
  <2> QED
    BY <2>1, <2>2, <2>4, <2>5, <2>6, <2>7, Rescheduled
<1>19. CASE StartExperiment
  <2>1. attempt.exp = 0 /\ run.exp \in Exps /\ ledger.status[run.exp] = "planned"
    BY <1>19 DEF StartExperiment, At, PlacesInv, BeginInv, Status
  <2>2. /\ ledger'.status[run.exp] = "running" /\ ledger'.stalls = ledger.stalls
        /\ \A f \in Exps \ {run.exp} : ledger'.status[f] = ledger.status[f]
    BY <1>19, <2>1 DEF StartExperiment, ShapeInv, Ledgers
  <2>3. Ordered'
    BY <2>1, <2>2, OrderedKept DEF DurableInv, Finished
  <2>4. \A e \in Exps : \/ ledger'.status[e] = ledger.status[e]
                       \/ {ledger.status[e], ledger'.status[e]} \cap {"accepted", "rejected"} = {}
    BY <2>1, <2>2
  <2>5. attempt.exp \in 0..MaxExp /\ 0 \notin Exps
    BY DEF ShapeInv, Attempts, Exps
  <2>6. UNCHANGED <<metrics, attempt, cand, archives, live, session>>
    BY <1>19 DEF StartExperiment
  <2> QED
    BY <2>1, <2>2, <2>3, <2>4, <2>5, <2>6, Rescheduled
<1>20. CASE CreateCandidate
  BY <1>20, CloneReplaced DEF CreateCandidate, At, PlacesInv, BeginInv
<1>21. CASE WriteAttempt
  BY <1>21, AttemptBegun DEF WriteAttempt, At, PlacesInv, BeginInv
<1>22. CASE WorkerEnds
  <2>0. run.pc = "work"
    BY <1>22 DEF WorkerEnds, At
  <2>1. attempt.exp # 0 /\ attempt.phase = "running"
    BY <2>0 DEF PlacesInv, AttemptInv, WorkPlaces, Exps
  <2>2. cand'.exp = cand.exp
    BY <1>22 DEF WorkerEnds, ShapeInv, Clones
  <2>3. UNCHANGED <<ledger, metrics, attempt, archives, live, session>>
    BY <1>22 DEF WorkerEnds
  <2> QED
    BY <2>1, <2>2, <2>3, WorkChanged
<1>23. CASE AdoptPlan
  <2>1. /\ attempt.exp \in Exps /\ Status = "running" /\ attempt.phase = "running"
        /\ cand.exp = attempt.exp
    BY <1>23 DEF AdoptPlan, At, PlacesInv, AttemptInv, WorkPlaces, Status
  <2>2. /\ attempt' \in Attempts /\ attempt'.phase = "running"
        /\ UNCHANGED <<attempt.exp, attempt.iteration, attempt.before>>
    BY <1>23 DEF AdoptPlan, ShapeInv, Attempts, Phases
  <2> QED
    BY <1>23, <2>1, <2>2, Rewritten DEF AdoptPlan
<1>24. CASE EnforceScope
  <2>1. attempt.exp # 0 /\ attempt.phase = "running"
    BY <1>24 DEF EnforceScope, At, PlacesInv, AttemptInv, WorkPlaces, Exps
  <2>2. cand'.exp = cand.exp
    BY <1>24, ScopedEffect, ThrownEffect DEF EnforceScope, ShapeInv, Clones
  <2>3. UNCHANGED <<ledger, metrics, attempt, archives, live, session>>
    BY <1>24 DEF EnforceScope
  <2> QED
    BY <2>1, <2>2, <2>3, WorkChanged
<1>25. CASE ArchiveCandidate
  <2>1. attempt.exp # 0 /\ attempt.phase = "running"
    BY <1>25 DEF ArchiveCandidate, At, PlacesInv, AttemptInv, WorkPlaces, Exps
  <2>2. UNCHANGED <<ledger, metrics, cand, live, session>>
    BY <1>25 DEF ArchiveCandidate
  <2>3. CASE attempt' = attempt /\ archives' = [archives EXCEPT ![attempt.exp] = cand.work]
    BY <2>1, <2>2, <2>3, WorkChanged DEF ShapeInv, Archives
  <2>4. CASE attempt' = [attempt EXCEPT !.phase = "quarantined"] /\ archives' = archives
    BY <2>1, <2>2, <2>4, Quarantined
  <2> QED
    BY <1>25, <2>3, <2>4 DEF ArchiveCandidate, Archive, ArchiveFails
<1>26. CASE Measure
  <2>1. UNCHANGED <<ledger.status, ledger.stalls, metrics, attempt, cand, archives,
                  live.has, session.iteration>>
    BY <1>26 DEF Measure, ShapeInv
  <2> QED
    BY <2>1, FilesKept
<1>27. CASE RevertHeld
  <2>1. attempt.exp # 0 /\ attempt.phase = "running"
    BY <1>27 DEF RevertHeld, At, PlacesInv, AttemptInv, WorkPlaces, Exps
  <2>2. cand'.exp = cand.exp
    BY <1>27, RevertedEffect, ThrownEffect DEF RevertHeld, ShapeInv, Clones
  <2>3. UNCHANGED <<ledger, metrics, attempt, archives, live, session>>
    BY <1>27 DEF RevertHeld
  <2> QED
    BY <2>1, <2>2, <2>3, WorkChanged
<1>28. CASE RecordMetric
  <2>1. attempt.exp # 0 /\ ~TerminalOutcome /\ Status # "invalid"
    BY <1>28
    DEF RecordMetric, At, PlacesInv, AttemptInv, WorkPlaces, Status, TerminalOutcome,
        Scientific, Exps
  <2> QED
    BY <1>28, <2>1, MetricsWritten DEF RecordMetric
<1>29. CASE Remeasure
  <2>1. attempt.exp # 0 /\ attempt.phase = "running" /\ metrics = attempt.before
    BY <1>29 DEF Remeasure, At, PlacesInv, AttemptInv, WorkPlaces, Exps
  <2>2. cand'.exp = cand.exp
    BY <1>29, RevertedEffect, ThrownEffect DEF Remeasure, ShapeInv, Clones
  <2>3. UNCHANGED <<ledger, metrics, attempt, archives, live, session>>
    BY <1>29, <2>1 DEF Remeasure
  <2> QED
    BY <2>1, <2>2, <2>3, WorkChanged
<1>30. CASE PersistPending
  <2>1. /\ attempt.exp \in Exps /\ Status = "running" /\ attempt.phase = "running"
        /\ cand.exp = attempt.exp /\ metrics = Improved(attempt.before, attempt.exp)
        /\ archives[attempt.exp] = cand.work
    BY <1>30 DEF PersistPending, At, PlacesInv, AttemptInv, EvidenceInv, WorkPlaces, Status
  <2>2. /\ attempt' \in Attempts /\ attempt'.phase = "promotion_pending" /\ attempt'.after = metrics
        /\ UNCHANGED <<attempt.exp, attempt.iteration, attempt.before>>
    BY <1>30 DEF PersistPending, ShapeInv, Attempts, Phases
  <2> QED
    BY <1>30, <2>1, <2>2, Rewritten DEF PersistPending
<1>31. CASE Promote
  <2>1. attempt.exp # 0 /\ Promoting /\ attempt.exp = run.exp
    BY <1>31 DEF Promote, At, PlacesInv, AttemptInv, Promoting, Exps
  <2>2. UNCHANGED <<ledger, metrics, attempt, cand, archives, session>>
    BY <1>31 DEF Promote
  <2>3. CASE live' = live
    BY <2>2, <2>3, FilesKept
  <2>4. CASE live' = [live EXCEPT !.has = @ \cup {attempt.exp}]
    <3>1. live'.has = live.has \cup {attempt.exp}
      BY <2>4 DEF ShapeInv, Checkouts
    <3> QED
      BY <2>1, <2>2, <3>1, Delivered
  <2> QED
    BY <1>31, <2>1, <2>3, <2>4 DEF Promote, FastForward
<1>32. CASE DeferPromotion
  <2>1. attempt.exp # 0 /\ ~TerminalOutcome /\ Status # "invalid"
    BY <1>32
    DEF DeferPromotion, At, PlacesInv, AttemptInv, WorkPlaces, Status, TerminalOutcome,
        Scientific, Exps
  <2> QED
    BY <1>32, <2>1, MetricsWritten DEF DeferPromotion
<1>33. CASE MarkPromoted
  BY <1>33, Marked DEF MarkPromoted, At, PlacesInv, AttemptInv, Exps
<1>34. CASE CompleteExperiment
  <2>1. /\ attempt.exp \in Exps /\ Status = "running" /\ run.exp = attempt.exp
        /\ run.outcome = "improved" => attempt.phase = "promoted"
        /\ run.outcome # "improved" => attempt.phase = "running" /\ metrics = Held(attempt.before)
    BY <1>34 DEF CompleteExperiment, At, PlacesInv, AttemptInv, Status
  <2>2. UNCHANGED <<metrics, attempt, cand, archives, live, session>>
    BY <1>34 DEF CompleteExperiment
  <2>3. CASE run.outcome = "improved"
    <3>1. Promoting /\ Landed
      BY <2>1, <2>3 DEF Promoting, DurableInv, OpenInv, Exps
    <3>2. ledger' = Completed(attempt.exp, "accepted")
      BY <1>34, <2>1, <2>3 DEF CompleteExperiment
    <3> QED
      BY <2>1, <2>2, <3>1, <3>2, Decided
  <2>4. CASE run.outcome # "improved"
    <3>1. ledger' = Completed(attempt.exp, "rejected")
      BY <1>34, <2>1, <2>4 DEF CompleteExperiment
    <3> QED
      BY <2>1, <2>2, <2>4, <3>1, Decided
  <2> QED
    BY <2>3, <2>4
<1>35. CASE DiscardCandidate
  BY <1>35, CloneReplaced DEF DiscardCandidate, At, PlacesInv, AttemptInv
<1>36. CASE CountIteration
  <2>1. TerminalOutcome /\ session.iteration = Cardinality(Sci) - 1
    BY <1>36 DEF CountIteration, At, PlacesInv, AttemptInv
  <2>2. CASE session' = session
    BY <1>36, <2>2, FilesKept DEF CountIteration
  <2>3. CASE session' = [session EXCEPT !.iteration = @ + 1]
    <3>1. session'.iteration = Cardinality(Sci)
      BY <2>1, <2>3, SciFinite DEF ShapeInv, Sessions
    <3> QED
      BY <1>36, <2>1, <3>1, Counted DEF CountIteration
  <2> QED
    BY <1>36, <2>2, <2>3 DEF CountIteration
<1>37. CASE ClearAttempt
  BY <1>37, Cleared DEF ClearAttempt, At, PlacesInv, AttemptInv
<1>38. CASE ArchiveFailed
  <2>1. attempt.exp # 0 /\ attempt.phase = "running"
    BY <1>38 DEF ArchiveFailed, At, PlacesInv, AttemptInv, WorkPlaces, Exps
  <2>2. UNCHANGED <<ledger, metrics, cand, live, session>>
    BY <1>38 DEF ArchiveFailed
  <2>3. CASE attempt' = attempt /\ archives' = [archives EXCEPT ![attempt.exp] = cand.work]
    BY <2>1, <2>2, <2>3, WorkChanged DEF ShapeInv, Archives
  <2>4. CASE attempt' = [attempt EXCEPT !.phase = "quarantined"] /\ archives' = archives
    BY <2>1, <2>2, <2>4, Quarantined
  <2> QED
    BY <1>38, <2>3, <2>4 DEF ArchiveFailed, Archive, ArchiveFails
<1>39. CASE RevertFailed
  <2>1. attempt.exp # 0 /\ attempt.phase = "running"
    BY <1>39 DEF RevertFailed, At, PlacesInv, AttemptInv, WorkPlaces, Exps
  <2>2. cand'.exp = cand.exp
    BY <1>39, RevertedEffect, ThrownEffect DEF RevertFailed, ShapeInv, Clones
  <2>3. UNCHANGED <<ledger, metrics, attempt, archives, live, session>>
    BY <1>39 DEF RevertFailed
  <2> QED
    BY <2>1, <2>2, <2>3, WorkChanged
<1>40. CASE DiscardFailed
  <2>1. ~Promoting
    BY <1>40 DEF DiscardFailed, At, PlacesInv, AttemptInv, WorkPlaces, Promoting
  <2> QED
    BY <1>40, <2>1, CloneReplaced DEF DiscardFailed
<1>41. CASE RecordFailure
  <2>1. run.exp \in Exps /\ attempt.exp = run.exp /\ ledger.status[run.exp] = "running"
        /\ attempt.phase = "running" /\ metrics = attempt.before
    BY <1>41 DEF RecordFailure, At, PlacesInv, AttemptInv, Status
  <2>2. /\ ledger'.status[run.exp] = "planned" /\ ledger'.stalls = ledger.stalls
        /\ \A f \in Exps \ {run.exp} : ledger'.status[f] = ledger.status[f]
    BY <1>41, <2>1 DEF RecordFailure, ShapeInv, Ledgers
  <2>3. Ordered'
    BY <2>1, <2>2, OrderedKept DEF DurableInv, Finished
  <2>4. \A e \in Exps : \/ ledger'.status[e] = ledger.status[e]
                       \/ {ledger.status[e], ledger'.status[e]} \cap {"accepted", "rejected"} = {}
    BY <2>1, <2>2
  <2>5. attempt.exp \in 0..MaxExp /\ 0 \notin Exps
    BY DEF ShapeInv, Attempts, Exps
  <2>6. UNCHANGED <<metrics, attempt, cand, archives, live, session>>
    BY <1>41 DEF RecordFailure
  <2>7. \A f \in Exps : ledger'.status[f] \in {"planned", "running"} => f = attempt.exp
    BY <2>1, <2>2, <2>5 DEF DurableInv, OpenInv, Landed
  <2>8. ~Promoting
    BY <2>1 DEF Promoting
  <2> QED
    BY <2>1, <2>2, <2>3, <2>4, <2>5, <2>6, <2>7, <2>8, Rescheduled
<1>42. CASE DecideFailure
  <2>1. CASE ledger' = ledger
    BY <1>42, <2>1, FilesKept DEF DecideFailure
  <2>2. CASE ledger' = [ledger EXCEPT !.status[run.exp] = "invalid"]
    <3>1. run.exp \in Exps /\ attempt.exp = run.exp /\ ledger.status[run.exp] = "planned"
          /\ attempt.phase = "running" /\ metrics = attempt.before
      BY <1>42 DEF DecideFailure, At, PlacesInv, AttemptInv, Status
    <3>2. /\ ledger'.status[run.exp] = "invalid" /\ ledger'.stalls = ledger.stalls
          /\ \A f \in Exps \ {run.exp} : ledger'.status[f] = ledger.status[f]
      BY <3>1, <2>2 DEF ShapeInv, Ledgers
    <3>3. Ordered'
      BY <3>1, <3>2, OrderedKept DEF DurableInv, Finished
    <3>4. \A e \in Exps : \/ ledger'.status[e] = ledger.status[e]
                         \/ {ledger.status[e], ledger'.status[e]} \cap {"accepted", "rejected"} = {}
      BY <3>1, <3>2
    <3>5. attempt.exp \in 0..MaxExp /\ 0 \notin Exps
      BY DEF ShapeInv, Attempts, Exps
    <3>6. UNCHANGED <<metrics, attempt, cand, archives, live, session>>
      BY <1>42 DEF DecideFailure
    <3>7. \A f \in Exps : ledger'.status[f] \in {"planned", "running"} => f = attempt.exp
      BY <3>1, <3>2, <3>5 DEF DurableInv, OpenInv, Landed
    <3>8. ~Promoting
      BY <3>1 DEF Promoting
    <3> QED
      BY <3>1, <3>2, <3>3, <3>4, <3>5, <3>6, <3>7, <3>8, Rescheduled
  <2> QED
    BY <1>42, <2>1, <2>2 DEF DecideFailure
<1>43. CASE ResetWindow
  <2>1. UNCHANGED <<ledger.status, ledger.stalls, metrics, attempt, cand, archives,
                  live.has, session.iteration>>
    BY <1>43 DEF ResetWindow, ShapeInv, Ledgers
  <2> QED
    BY <2>1, FilesKept
<1>44. CASE RollbackOnExit
  <2>1. UNCHANGED <<ledger, metrics, cand, live, session>>
    BY <1>44 DEF RollbackOnExit
  <2>2. CASE UNCHANGED <<attempt, archives>>
    BY <2>1, <2>2, FilesKept
  <2>3. CASE ~run.deferred /\ run.pending /\ ~TerminalOutcome
    <3>1. attempt.exp # 0 /\ attempt.phase = "running"
      BY <1>44, <2>3, PhaseNames
      DEF RollbackOnExit, At, PlacesInv, FinallyInv, Promoting, DurableInv, OpenInv
    <3>2. CASE attempt' = attempt /\ archives' = [archives EXCEPT ![attempt.exp] = cand.work]
      BY <2>1, <3>1, <3>2, WorkChanged DEF ShapeInv, Archives
    <3>3. CASE attempt' = [attempt EXCEPT !.phase = "quarantined"] /\ archives' = archives
      BY <2>1, <3>1, <3>3, Quarantined
    <3> QED
      BY <1>44, <2>3, <3>2, <3>3 DEF RollbackOnExit, Archive, ArchiveFails
  <2> QED
    BY <1>44, <2>2, <2>3 DEF RollbackOnExit
<1>45. CASE RevertOnExit
  <2>1. attempt.exp # 0 /\ attempt.phase = "running"
    BY <1>45 DEF RevertOnExit, At, PlacesInv, FinallyInv
  <2>2. UNCHANGED <<ledger, metrics, archives, live, session>> /\ cand'.exp = cand.exp
    BY <1>45, RevertedEffect DEF RevertOnExit, ArchiveFails
  <2>3. CASE attempt' = attempt
    BY <2>1, <2>2, <2>3, WorkChanged
  <2>4. CASE attempt' = [attempt EXCEPT !.phase = "quarantined"]
    BY <2>1, <2>2, <2>4, Quarantined
  <2> QED
    BY <1>45, <2>3, <2>4 DEF RevertOnExit, ArchiveFails
<1>46. CASE FinalizeOnExit
  <2>1. CASE metrics' = metrics
    BY <1>46, <2>1, FilesKept DEF FinalizeOnExit
  <2>2. CASE ~TerminalOutcome /\ attempt.exp # 0 /\ metrics' = attempt.before
    BY <1>46, <2>2, MetricsWritten DEF FinalizeOnExit
  <2> QED
    BY <1>46, <2>1, <2>2 DEF FinalizeOnExit
<1>47. CASE CountOnExit
  <2>1. TerminalOutcome
    BY <1>47 DEF CountOnExit, At, PlacesInv, FinallyInv
  <2>2. session'.iteration = Iterations(attempt.iteration)
    BY <1>47 DEF CountOnExit, ShapeInv, Sessions
  <2>3. Iterations(attempt.iteration) = Cardinality(Sci)
    BY <2>1, SciFinite DEF DurableInv, DecidedInv, Iterations
  <2> QED
    BY <1>47, <2>1, <2>2, <2>3, Counted DEF CountOnExit
<1>48. CASE ReconcileOnExit
  BY <1>48, NoneLeftRunning DEF ReconcileOnExit, At, PlacesInv, FinallyInv
<1>49. CASE DiscardOnExit
  <2>1. Ready
    BY <1>49 DEF DiscardOnExit, At, PlacesInv, FinallyInv
  <2>2. ~Promoting \/ TerminalOutcome
    BY <2>1, ReadyUndone
  <2> QED
    BY <1>49, <2>2, CloneReplaced DEF DiscardOnExit
<1>50. CASE ClearOnExit
  BY <1>50, Cleared DEF ClearOnExit, At, PlacesInv, FinallyInv
<1>51. CASE ExitPhase
  <2>1. UNCHANGED <<ledger.status, ledger.stalls, metrics, attempt, cand, archives,
                  live.has, session.iteration>>
    BY <1>51 DEF ExitPhase, ShapeInv, Sessions
  <2> QED
    BY <2>1, FilesKept
<1>52. CASE Kill
  <2>1. UNCHANGED <<ledger.status, ledger.stalls, metrics, attempt, cand, archives,
                  live.has, session.iteration>>
    BY <1>52 DEF Kill, ShapeInv
  <2> QED
    BY <2>1, FilesKept
<1>53. CASE Cancel
  <2>1. UNCHANGED <<ledger.status, ledger.stalls, metrics, attempt, cand, archives,
                  live.has, session.iteration>>
    BY <1>53 DEF Cancel, ShapeInv, Sessions
  <2> QED
    BY <2>1, FilesKept
<1>54. CASE EditLive
  <2>1. UNCHANGED <<ledger.status, ledger.stalls, metrics, attempt, cand, archives,
                  live.has, session.iteration>>
    BY <1>54 DEF EditLive, ShapeInv, Checkouts
  <2> QED
    BY <2>1, FilesKept
<1>55. CASE CleanLive
  <2>1. UNCHANGED <<ledger.status, ledger.stalls, metrics, attempt, cand, archives,
                  live.has, session.iteration>>
    BY <1>55 DEF CleanLive, ShapeInv, Checkouts
  <2> QED
    BY <2>1, FilesKept
<1>56. CASE CommitLive
  <2>1. UNCHANGED <<ledger.status, ledger.stalls, metrics, attempt, cand, archives,
                  live.has, session.iteration>>
    BY <1>56 DEF CommitLive, ShapeInv, Checkouts
  <2> QED
    BY <2>1, FilesKept
<1>57. CASE UNCHANGED vars
  BY <1>57, FilesKept DEF vars
<1> QED
  BY <1>1, <1>2, <1>3, <1>4, <1>5, <1>6, <1>7, <1>8, <1>9, <1>10, <1>11, <1>12, <1>13, <1>14,
     <1>15, <1>16, <1>17, <1>18, <1>19, <1>20, <1>21, <1>22, <1>23, <1>24, <1>25, <1>26, <1>27,
     <1>28, <1>29, <1>30, <1>31, <1>32, <1>33, <1>34, <1>35, <1>36, <1>37, <1>38, <1>39, <1>40,
     <1>41, <1>42, <1>43, <1>44, <1>45, <1>46, <1>47, <1>48, <1>49, <1>50, <1>51, <1>52, <1>53,
     <1>54, <1>55, <1>56, <1>57 DEF Next, Process, Startup, Iteration, Finally, Environment
(* Where a step of the process arrives.                                    *)
RecoverPlaces == {"rPromote", "rMark", "rComplete", "rMetrics", "rCount", "rArchive", "rRemove",
                  "rRestore", "rReconcile", "rDiscard", "rClear"}
BeginPlaces   == {"reconcile", "top", "plan", "start", "create", "write"}
AttemptPlaces == WorkPlaces \cup SettlePlaces \cup RecordPlaces
ExitPlaces    == {"rollback", "zRevert", "finalize", "zCount", "zReconcile", "zDiscard", "zClear"}

LEMMA Arrived ==
  ASSUME LocalsInv', run'.pc \in Places,
         run'.pc \in RecoverPlaces => RecoverInv', run'.pc \in BeginPlaces => BeginInv',
         run'.pc \in AttemptPlaces => AttemptInv', run'.pc \in ExitPlaces => FinallyInv'
  PROVE  PlacesInv'
<1>1. ASSUME run'.pc \notin RecoverPlaces PROVE RecoverInv'
  BY <1>1 DEF RecoverPlaces, RecoverInv
<1>2. ASSUME run'.pc \notin BeginPlaces PROVE BeginInv'
  BY <1>2 DEF BeginPlaces, BeginInv
<1>3. ASSUME run'.pc \notin AttemptPlaces PROVE AttemptInv'
  BY <1>3 DEF AttemptPlaces, AttemptInv, WorkPlaces, SettlePlaces, RecordPlaces
<1>4. ASSUME run'.pc \notin ExitPlaces PROVE FinallyInv'
  BY <1>4 DEF ExitPlaces, FinallyInv
<1> QED
  BY <1>1, <1>2, <1>3, <1>4 DEF PlacesInv

LEMMA StopArrived ==
  ASSUME ShapeInv, NEW why \in Exits, StopWith(why)
  PROVE  PlacesInv'
<1>1. run'.pc = "stop"
  BY StopEffect DEF Same
<1> QED
  BY <1>1, PlaceNames, Arrived
  DEF LocalsInv, StartPlaces, WorkPlaces, SettlePlaces, RecordPlaces, RecoverPlaces, BeginPlaces,
      AttemptPlaces, ExitPlaces

(* What the exit relies on, by the deferral the step has chosen.           *)
LEMMA RollbackArrived ==
  ASSUME run'.pc = "rollback", run'.pending => attempt'.exp # 0,
         \/ run'.deferred
         \/ (Promoting' => TerminalOutcome') /\ attempt'.phase # "quarantined",
         TerminalOutcome' => MetricsAgree'
  PROVE  PlacesInv'
<1>1. FinallyInv'
  BY DEF FinallyInv
<1> QED
  BY <1>1, PlaceNames, Arrived
  DEF LocalsInv, StartPlaces, WorkPlaces, SettlePlaces, RecordPlaces, RecoverPlaces, BeginPlaces,
      AttemptPlaces

LEMMA BreakArrived ==
  ASSUME ShapeInv, NEW why \in Exits, Break(why), run.pending => attempt'.exp # 0,
         (Promoting' => TerminalOutcome') /\ attempt'.phase # "quarantined",
         TerminalOutcome' => MetricsAgree'
  PROVE  PlacesInv'
BY BreakEffect, RollbackArrived DEF Same

LEMMA ThrowArrived ==
  ASSUME ShapeInv, NEW failed \in BOOLEAN, Throw(failed), run.pending => attempt'.exp # 0,
         \/ failed
         \/ Promoting /\ ~TerminalOutcome
         \/ (Promoting' => TerminalOutcome') /\ attempt'.phase # "quarantined",
         TerminalOutcome' => MetricsAgree'
  PROVE  PlacesInv'
<1>1. /\ run'.pc = "rollback" /\ run'.pending = run.pending
      /\ run'.deferred <=> run.deferred \/ failed \/ (Promoting /\ ~TerminalOutcome)
  BY ThrowEffect DEF Same
<1>2. run'.deferred \/ ((Promoting' => TerminalOutcome') /\ attempt'.phase # "quarantined")
  BY <1>1
<1>3. run'.pending => attempt'.exp # 0
  BY <1>1
<1> QED
  BY <1>1, <1>2, <1>3, RollbackArrived

LEMMA PlacesKept ==
  ASSUME PlacesInv, UNCHANGED <<run, ledger, metrics, attempt, cand, archives, live.has,
                    session.iteration>>
  PROVE  PlacesInv'
<1>1. Accepted' = Accepted /\ Sci' = Sci
  BY DEF Accepted, Sci, Scientific
<1>2. /\ MetricsAgree' = MetricsAgree /\ TerminalOutcome' = TerminalOutcome /\ Status' = Status
      /\ Promoting' = Promoting /\ NoneRunning' = NoneRunning
  BY <1>1 DEF MetricsAgree, TerminalOutcome, Scientific, Status, Promoting, NoneRunning
<1>3. Ready' = Ready
  BY <1>1, <1>2 DEF Ready, Settled
<1>4. LocalsInv' /\ RecoverInv'
  BY <1>1, <1>2, <1>3 DEF PlacesInv, LocalsInv, RecoverInv, Landed
<1>5. BeginInv'
  BY <1>1, <1>2, <1>3 DEF PlacesInv, BeginInv
<1>6. AttemptInv'
  BY <1>1, <1>2, <1>3 DEF PlacesInv, AttemptInv, Landed
<1>7. FinallyInv'
  BY <1>1, <1>2, <1>3 DEF PlacesInv, FinallyInv
<1> QED
  BY <1>4, <1>5, <1>6, <1>7 DEF PlacesInv


LEMMA IdleArrived ==
  ASSUME run' = Idle
  PROVE  PlacesInv'
<1>1. run'.pc = "down" /\ ~run'.pending /\ ~run'.deferred
  BY DEF Idle
<1>2. LocalsInv'
  BY <1>1 DEF LocalsInv, StartPlaces, WorkPlaces, SettlePlaces, RecordPlaces
<1> QED
  BY <1>1, <1>2, PlaceNames, Arrived
  DEF RecoverPlaces, BeginPlaces, AttemptPlaces, ExitPlaces, WorkPlaces, SettlePlaces, RecordPlaces

(* An attempt with an outcome and right metrics only has to be counted.    *)
LEMMA OutcomeSettles ==
  ASSUME ShapeInv, DurableInv, TerminalOutcome, MetricsAgree
  PROVE  attempt.exp # 0 /\ Settled /\ NoneRunning /\ MetricsAgree
<1>1. attempt.exp # 0 /\ Status \in {"accepted", "rejected"}
  BY DEF TerminalOutcome, Scientific, Status
<1>2. Settled
  BY <1>1 DEF Settled, DurableInv, OpenInv, DecidedInv
<1>3. NoneRunning
  BY <1>1 DEF NoneRunning, DurableInv, OpenInv, Status
<1> QED
  BY <1>1, <1>2, <1>3

(* So has one that is given up.                                            *)
LEMMA GivenUp ==
  ASSUME ShapeInv, DurableInv, attempt.exp \in Exps, Status \in {"planned", "invalid"},
         attempt.phase = "running", metrics = attempt.before
  PROVE  Ready
<1>1. attempt.exp # 0 /\ ~TerminalOutcome /\ ~Promoting
  BY DEF Exps, TerminalOutcome, Scientific, Status, Promoting
<1>2. Settled
  BY <1>1 DEF Settled, DurableInv, OpenInv, Status
<1>3. NoneRunning
  BY <1>1 DEF NoneRunning, DurableInv, OpenInv, Status
<1>4. MetricsAgree /\ session.iteration = Cardinality(Sci)
  BY <1>1 DEF MetricsAgree, DurableInv, UndecidedInv
<1> QED
  BY <1>1, <1>2, <1>3, <1>4 DEF Ready

(* A candidate without a diff has an empty archive when it is promoted.    *)
LEMMA DifflessLanded ==
  ASSUME ShapeInv, DurableInv, attempt.exp # 0, Promoting, Diffless
  PROVE  Landed
<1>1. attempt.exp \in Exps
  BY DEF ShapeInv, Attempts, Exps
<1>2. CASE TerminalOutcome
  <2>1. Status = "accepted"
    BY <1>1, <1>2 DEF DurableInv, DecidedInv, TerminalOutcome, Scientific, Status
  <2> QED
    BY <1>1, <2>1 DEF DurableInv, DeliveredInv, Landed, Accepted, Status
<1>3. CASE ~TerminalOutcome
  BY <1>3 DEF DurableInv, UndecidedInv, Diffless, Landed
<1> QED
  BY <1>2, <1>3

(* What each position relies on is so when the process gets there.         *)
LEMMA PlacesStep ==
  ShapeInv /\ DurableInv /\ PlacesInv /\ [Next]_vars => PlacesInv'
<1> SUFFICES ASSUME ShapeInv, DurableInv, PlacesInv, [Next]_vars PROVE PlacesInv'
  OBVIOUS
<1> USE DEF RecoverPlaces, BeginPlaces, AttemptPlaces, ExitPlaces, StartPlaces, WorkPlaces,
            SettlePlaces, RecordPlaces
<1>1. CASE Start
  <2>1. CASE Goto("reset")
    <3>1. run'.pc = "reset" /\ run'.exp = run.exp /\ run'.pending = run.pending
          /\ run'.deferred = run.deferred /\ run'.outcome = run.outcome
      BY <2>1, PlaceNames, GotoEffect DEF Same
    <3>2. LocalsInv'
      BY <1>1, <3>1 DEF Start, At, PlacesInv, LocalsInv
    <3> QED
      BY <3>1, <3>2, PlaceNames, Arrived
  <2> QED
    BY <1>1, <2>1 DEF Start
<1>2. CASE ResetWorkerFailures
  <2>1. CASE Goto("recover")
    <3>1. run'.pc = "recover" /\ run'.exp = run.exp /\ run'.pending = run.pending
          /\ run'.deferred = run.deferred /\ run'.outcome = run.outcome
      BY <2>1, PlaceNames, GotoEffect DEF Same
    <3>2. LocalsInv'
      BY <1>2, <3>1 DEF ResetWorkerFailures, At, PlacesInv, LocalsInv
    <3> QED
      BY <3>1, <3>2, PlaceNames, Arrived
  <2> QED
    BY <1>2, <2>1 DEF ResetWorkerFailures
<1>3. CASE RecoverIdentity
  BY <1>3, StopArrived, OtherNames DEF RecoverIdentity
<1>4. CASE RecoverDecide
  <2>1. CASE attempt.exp = 0 /\ Goto("reconcile")
    <3>1. run'.pc = "reconcile" /\ run'.pending = run.pending /\ run'.deferred = run.deferred
      BY <2>1, PlaceNames, GotoEffect DEF Same
    <3>2. LocalsInv'
      BY <1>4, <3>1 DEF RecoverDecide, At, PlacesInv, LocalsInv
    <3>3. attempt'.exp = 0
      BY <1>4, <2>1 DEF RecoverDecide
    <3> QED
      BY <3>1, <3>2, <3>3, PlaceNames, Arrived DEF BeginInv
  <2>2. CASE \E why \in Exits : StopWith(why)
    BY <2>2, StopArrived
  <2>3. CASE CandidateIntact /\ RecoveryBranch \in {"rComplete", "rPromote", "rCount", "rDiscard", "rArchive"}
             /\ Goto(RecoveryBranch)
    <3>0. attempt.exp \in Exps
      BY <2>3, PhaseNames DEF CandidateIntact, Exps
    <3>1. run'.pc = RecoveryBranch /\ run'.pending = run.pending /\ run'.deferred = run.deferred
      BY <2>3, PlaceNames, GotoEffect DEF Same
    <3>2. LocalsInv'
      BY <1>4, <2>3, <3>1 DEF RecoverDecide, At, PlacesInv, LocalsInv
    <3>3. UNCHANGED <<ledger, metrics, attempt, cand, archives, live, session>>
      BY <1>4 DEF RecoverDecide
    <3>4. CASE RecoveryBranch = "rComplete"
      <4>1. attempt.exp # 0 /\ Promoting /\ Landed
        BY <3>0, <3>4 DEF RecoveryBranch, AlreadyPromoted, Landed, Promoting, Exps
      <4>2. RecoverInv'
        BY <3>1, <3>3, <3>4, <4>1 DEF RecoverInv, Landed, Promoting
      <4> QED
        BY <3>1, <3>2, <3>4, <4>2, PlaceNames, Arrived
    <3>5. CASE RecoveryBranch = "rPromote"
      <4>1. attempt.exp # 0 /\ attempt.phase = "promotion_pending"
        BY <3>0, <3>5 DEF RecoveryBranch, Exps
      <4>2. RecoverInv'
        BY <3>1, <3>3, <3>5, <4>1 DEF RecoverInv
      <4> QED
        BY <3>1, <3>2, <3>5, <4>2, PlaceNames, Arrived
    <3>6. CASE RecoveryBranch = "rCount"
      <4>1. ~Promoting /\ Scientific(attempt.exp) /\ attempt.phase # "quarantined"
        BY <3>6 DEF RecoveryBranch, Promoting
      <4>2. attempt.phase = "running" /\ TerminalOutcome
        BY <3>0, <4>1, PhaseNames DEF Promoting, TerminalOutcome, DurableInv, OpenInv, Exps
      <4>3. MetricsAgree
        BY <4>2 DEF DurableInv, DecidedInv, TerminalOutcome, Scientific, Status
      <4>4. TerminalOutcome' /\ MetricsAgree'
        BY <3>3, <4>2, <4>3 DEF TerminalOutcome, Scientific, MetricsAgree, Accepted
      <4>5. RecoverInv'
        BY <3>1, <3>6, <4>4 DEF RecoverInv
      <4> QED
        BY <3>1, <3>2, <3>6, <4>5, PlaceNames, Arrived
    <3>7. CASE RecoveryBranch \in {"rDiscard", "rArchive"}
      <4>1. ~Promoting /\ ~Scientific(attempt.exp) /\ attempt.phase # "quarantined"
        BY <3>7 DEF RecoveryBranch, Promoting
      <4>2. attempt.exp # 0 /\ attempt.phase = "running" /\ ~TerminalOutcome
        BY <3>0, <4>1, PhaseNames DEF Promoting, TerminalOutcome, DurableInv, OpenInv, Exps
      <4>3. attempt'.exp # 0 /\ attempt'.phase = "running" /\ ~TerminalOutcome'
        BY <3>3, <4>2 DEF TerminalOutcome, Scientific
      <4>4. ASSUME RecoveryBranch = "rDiscard" PROVE Ready'
        <5>1. Status = "invalid"
          BY <4>1, <4>4 DEF RecoveryBranch, Status
        <5>2. attempt.exp \notin live.has
          BY <4>1, <4>2, <5>1 DEF DurableInv, OpenInv
        <5>3. MetricsAgree /\ session.iteration = Cardinality(Sci)
          BY <4>2, <5>1 DEF DurableInv, UndecidedInv, MetricsAgree
        <5>4. NoneRunning
          BY <4>2, <5>1 DEF DurableInv, OpenInv, Status, NoneRunning
        <5> QED
          BY <3>3, <4>2, <5>2, <5>3, <5>4
          DEF Ready, Settled, NoneRunning, MetricsAgree, Accepted, Sci, Scientific
      <4>5. RecoverInv'
        BY <3>1, <3>7, <4>3, <4>4 DEF RecoverInv
      <4> QED
        BY <3>1, <3>2, <3>7, <4>5, PlaceNames, Arrived
    <3> QED
      BY <2>3, <3>4, <3>5, <3>6, <3>7
  <2>4. RecoveryBranch \in {"quarantined", "history_changed", "workspace_changed", "rComplete", "rPromote",
                           "rCount", "rDiscard", "rArchive"}
    BY DEF RecoveryBranch
  <2> QED
    BY <1>4, <2>1, <2>2, <2>3, <2>4, OtherNames DEF RecoverDecide
<1>5. CASE RecoverPromote
  <2>0. attempt.exp # 0 /\ attempt.phase = "promotion_pending"
    BY <1>5, PhaseNames DEF RecoverPromote, At, PlacesInv, RecoverInv, Status
  <2>1. CASE \E why \in Exits : StopWith(why)
    BY <2>1, StopArrived
  <2>2. CASE Goto("rMark") /\ (FastForward(attempt.exp) \/ (Diffless /\ UNCHANGED live))
    <3>1. run'.pc = "rMark" /\ run'.exp = run.exp /\ run'.pending = run.pending
          /\ run'.deferred = run.deferred /\ run'.outcome = run.outcome
      BY <2>2, PlaceNames, GotoEffect DEF Same
    <3>2. LocalsInv'
      BY <1>5, <3>1 DEF RecoverPromote, At, PlacesInv, LocalsInv
    <3>3. Landed'
      <4>1. CASE FastForward(attempt.exp)
        BY <1>5, <4>1 DEF RecoverPromote, Landed, FastForward, ShapeInv, Checkouts
      <4>2. CASE Diffless /\ UNCHANGED live
        <5>1. Landed
          BY <2>0, <4>2, DifflessLanded DEF Promoting
        <5> QED
          BY <1>5, <4>2, <5>1 DEF RecoverPromote, Landed
      <4> QED
        BY <2>2, <4>1, <4>2
    <3>4. attempt'.exp # 0 /\ attempt'.phase = "promotion_pending"
      BY <1>5, <2>0 DEF RecoverPromote
    <3> QED
      BY <3>1, <3>2, <3>3, <3>4, PlaceNames, Arrived DEF RecoverInv
  <2> QED
    BY <1>5, <2>1, <2>2, OtherNames DEF RecoverPromote
<1>6. CASE RecoverMark
  <2>0. attempt.exp # 0 /\ attempt.phase = "promotion_pending" /\ Landed
    BY <1>6, PhaseNames DEF RecoverMark, At, PlacesInv, RecoverInv, Status
  <2>1. CASE Goto("rComplete")
    <3>1. run'.pc = "rComplete" /\ run'.exp = run.exp /\ run'.pending = run.pending
          /\ run'.deferred = run.deferred /\ run'.outcome = run.outcome
      BY <2>1, PlaceNames, GotoEffect DEF Same
    <3>2. LocalsInv'
      BY <1>6, <3>1 DEF RecoverMark, At, PlacesInv, LocalsInv
    <3>3. (attempt.exp # 0 /\ Promoting /\ Landed)'
      BY <1>6, <2>0, <2>1, <3>1
      DEF RecoverMark, Status, Promoting, TerminalOutcome, Scientific, MetricsAgree, Accepted,
          Sci, Ready, Settled, NoneRunning, Landed, ShapeInv, Attempts
    <3> QED
      BY <3>1, <3>2, <3>3, PlaceNames, Arrived DEF RecoverInv
  <2> QED
    BY <1>6, <2>1 DEF RecoverMark
<1>7. CASE RecoverComplete
  <2>0. attempt.exp # 0 /\ Promoting /\ Landed
    BY <1>7, PhaseNames DEF RecoverComplete, At, PlacesInv, RecoverInv, Status
  <2>1. CASE Goto("rMetrics")
    <3>1. run'.pc = "rMetrics" /\ run'.exp = run.exp /\ run'.pending = run.pending
          /\ run'.deferred = run.deferred /\ run'.outcome = run.outcome
      BY <2>1, PlaceNames, GotoEffect DEF Same
    <3>2. LocalsInv'
      BY <1>7, <3>1 DEF RecoverComplete, At, PlacesInv, LocalsInv
    <3>3. (attempt.exp # 0 /\ Status = "accepted" /\ attempt.phase # "quarantined")'
      <4>1. attempt.exp \in Exps /\ Status \in {"running", "accepted"}
        BY <2>0, PhaseNames
        DEF DurableInv, UndecidedInv, DecidedInv, TerminalOutcome, Scientific, Status, Exps
      <4>2. ledger'.status[attempt.exp] = "accepted"
        <5>1. CASE Status = "running"
          <6>1. ledger' = Completed(attempt.exp, "accepted")
            BY <1>7, <5>1 DEF RecoverComplete, Status
          <6>2. ledger'.status = [ledger.status EXCEPT ![attempt.exp] = "accepted"]
            BY <6>1, CompletedEffect
          <6> QED
            BY <4>1, <6>2 DEF ShapeInv, Ledgers
        <5>2. CASE Status = "accepted"
          BY <1>7, <5>2 DEF RecoverComplete, Status
        <5> QED
          BY <4>1, <5>1, <5>2
      <4> QED
        BY <1>7, <2>0, <4>2 DEF RecoverComplete, Status, Promoting
    <3> QED
      BY <3>1, <3>2, <3>3, PlaceNames, Arrived DEF RecoverInv
  <2> QED
    BY <1>7, <2>1 DEF RecoverComplete
<1>8. CASE RecoverMetrics
  <2>0. attempt.exp # 0 /\ Status = "accepted" /\ attempt.phase # "quarantined"
    BY <1>8, PhaseNames DEF RecoverMetrics, At, PlacesInv, RecoverInv, Status
  <2>1. CASE Goto("rCount")
    <3>1. run'.pc = "rCount" /\ run'.exp = run.exp /\ run'.pending = run.pending
          /\ run'.deferred = run.deferred /\ run'.outcome = run.outcome
      BY <2>1, PlaceNames, GotoEffect DEF Same
    <3>2. LocalsInv'
      BY <1>8, <3>1 DEF RecoverMetrics, At, PlacesInv, LocalsInv
    <3>3. (TerminalOutcome /\ MetricsAgree)'
      <4>1. TerminalOutcome /\ Agrees(attempt.after, Accepted, ledger.stalls)
        BY <2>0 DEF DurableInv, DecidedInv, TerminalOutcome, Scientific, Status
      <4> QED
        BY <1>8, <4>1 DEF RecoverMetrics, TerminalOutcome, Scientific, MetricsAgree, Accepted
    <3> QED
      BY <3>1, <3>2, <3>3, PlaceNames, Arrived DEF RecoverInv
  <2> QED
    BY <1>8, <2>1 DEF RecoverMetrics
<1>9. CASE RecoverCount
  <2>0. TerminalOutcome /\ MetricsAgree
    BY <1>9, PhaseNames DEF RecoverCount, At, PlacesInv, RecoverInv, Status
  <2>1. CASE Goto("rDiscard")
    <3>1. run'.pc = "rDiscard" /\ run'.exp = run.exp /\ run'.pending = run.pending
          /\ run'.deferred = run.deferred /\ run'.outcome = run.outcome
      BY <2>1, PlaceNames, GotoEffect DEF Same
    <3>2. LocalsInv'
      BY <1>9, <3>1 DEF RecoverCount, At, PlacesInv, LocalsInv
    <3>3. (Ready)'
      <4>1. session'.iteration = Iterations(attempt.iteration)
        BY <1>9 DEF RecoverCount, ShapeInv, Sessions
      <4>2. Iterations(attempt.iteration) = Cardinality(Sci)
        BY <2>0, SciFinite DEF DurableInv, DecidedInv, Iterations
      <4>3. attempt.exp # 0 /\ Settled /\ NoneRunning /\ MetricsAgree
        BY <2>0, OutcomeSettles
      <4> QED
        BY <1>9, <4>1, <4>2, <4>3
        DEF RecoverCount, Ready, Settled, NoneRunning, MetricsAgree, Accepted, Sci, Scientific,
            Status
    <3> QED
      BY <3>1, <3>2, <3>3, PlaceNames, Arrived DEF RecoverInv
  <2> QED
    BY <1>9, <2>1 DEF RecoverCount
<1>10. CASE RecoverArchive
  <2>0. attempt.exp # 0 /\ attempt.phase = "running" /\ ~TerminalOutcome
    BY <1>10, PhaseNames DEF RecoverArchive, At, PlacesInv, RecoverInv, Status
  <2>1. CASE \E why \in Exits : StopWith(why)
    BY <2>1, StopArrived
  <2>2. CASE Archive("rRemove")
    <3>1. run'.pc = "rRemove" /\ run'.exp = run.exp /\ run'.pending = run.pending
          /\ run'.deferred = run.deferred /\ run'.outcome = run.outcome
      BY <2>2, PlaceNames, GotoEffect DEF Same, Archive
    <3>2. LocalsInv'
      BY <1>10, <3>1 DEF RecoverArchive, At, PlacesInv, LocalsInv
    <3>3. (attempt.exp # 0 /\ attempt.phase = "running" /\ ~TerminalOutcome)'
      BY <1>10, <2>0, <2>2, <3>1
      DEF RecoverArchive, Status, Promoting, TerminalOutcome, Scientific, MetricsAgree,
          Accepted, Sci, Ready, Settled, NoneRunning, Archive
    <3> QED
      BY <3>1, <3>2, <3>3, PlaceNames, Arrived DEF RecoverInv
  <2> QED
    BY <1>10, <2>1, <2>2, OtherNames DEF RecoverArchive
<1>11. CASE RecoverRemove
  <2>0. attempt.exp # 0 /\ attempt.phase = "running" /\ ~TerminalOutcome
    BY <1>11, PhaseNames DEF RecoverRemove, At, PlacesInv, RecoverInv, Status
  <2>1. CASE Goto("rRestore")
    <3>1. run'.pc = "rRestore" /\ run'.exp = run.exp /\ run'.pending = run.pending
          /\ run'.deferred = run.deferred /\ run'.outcome = run.outcome
      BY <2>1, PlaceNames, GotoEffect DEF Same
    <3>2. LocalsInv'
      BY <1>11, <3>1 DEF RecoverRemove, At, PlacesInv, LocalsInv
    <3>3. (attempt.exp # 0 /\ attempt.phase = "running" /\ ~TerminalOutcome)'
      BY <1>11, <2>0, <2>1, <3>1
      DEF RecoverRemove, Status, Promoting, TerminalOutcome, Scientific, MetricsAgree, Accepted,
          Sci, Ready, Settled, NoneRunning
    <3> QED
      BY <3>1, <3>2, <3>3, PlaceNames, Arrived DEF RecoverInv
  <2> QED
    BY <1>11, <2>1 DEF RecoverRemove
<1>12. CASE RecoverRestore
  <2>0. attempt.exp # 0 /\ attempt.phase = "running" /\ ~TerminalOutcome
    BY <1>12, PhaseNames DEF RecoverRestore, At, PlacesInv, RecoverInv, Status
  <2>1. CASE Goto("rReconcile")
    <3>1. run'.pc = "rReconcile" /\ run'.exp = run.exp /\ run'.pending = run.pending
          /\ run'.deferred = run.deferred /\ run'.outcome = run.outcome
      BY <2>1, PlaceNames, GotoEffect DEF Same
    <3>2. LocalsInv'
      BY <1>12, <3>1 DEF RecoverRestore, At, PlacesInv, LocalsInv
    <3>3. (attempt.exp # 0 /\ attempt.phase = "running" /\ ~TerminalOutcome /\ metrics = attempt.before)'
      BY <1>12, <2>0, <2>1, <3>1
      DEF RecoverRestore, Status, Promoting, TerminalOutcome, Scientific, MetricsAgree,
          Accepted, Sci, Ready, Settled, NoneRunning
    <3> QED
      BY <3>1, <3>2, <3>3, PlaceNames, Arrived DEF RecoverInv
  <2> QED
    BY <1>12, <2>1 DEF RecoverRestore
<1>13. CASE RecoverReconcile
  <2>0. attempt.exp # 0 /\ attempt.phase = "running" /\ ~TerminalOutcome /\ metrics = attempt.before
    BY <1>13, PhaseNames DEF RecoverReconcile, At, PlacesInv, RecoverInv, Status
  <2>1. CASE Goto("rClear")
    <3>1. run'.pc = "rClear" /\ run'.exp = run.exp /\ run'.pending = run.pending
          /\ run'.deferred = run.deferred /\ run'.outcome = run.outcome
      BY <2>1, PlaceNames, GotoEffect DEF Same
    <3>2. LocalsInv'
      BY <1>13, <3>1 DEF RecoverReconcile, At, PlacesInv, LocalsInv
    <3>3. (Ready)'
      BY <1>13, <2>0, NoneLeftRunning DEF RecoverReconcile
    <3> QED
      BY <3>1, <3>2, <3>3, PlaceNames, Arrived DEF RecoverInv
  <2> QED
    BY <1>13, <2>1 DEF RecoverReconcile
<1>14. CASE RecoverDiscard
  <2>0. Ready
    BY <1>14, PhaseNames DEF RecoverDiscard, At, PlacesInv, RecoverInv, Status
  <2>1. CASE Goto("rClear")
    <3>1. run'.pc = "rClear" /\ run'.exp = run.exp /\ run'.pending = run.pending
          /\ run'.deferred = run.deferred /\ run'.outcome = run.outcome
      BY <2>1, PlaceNames, GotoEffect DEF Same
    <3>2. LocalsInv'
      BY <1>14, <3>1 DEF RecoverDiscard, At, PlacesInv, LocalsInv
    <3>3. (Ready)'
      BY <1>14, <2>0, <2>1, <3>1
      DEF RecoverDiscard, Status, Promoting, TerminalOutcome, Scientific, MetricsAgree,
          Accepted, Sci, Ready, Settled, NoneRunning
    <3> QED
      BY <3>1, <3>2, <3>3, PlaceNames, Arrived DEF RecoverInv
  <2> QED
    BY <1>14, <2>1 DEF RecoverDiscard
<1>15. CASE RecoverClear
  <2>0. Ready
    BY <1>15, PhaseNames DEF RecoverClear, At, PlacesInv, RecoverInv, Status
  <2>1. CASE Goto("reconcile")
    <3>1. run'.pc = "reconcile" /\ run'.exp = run.exp /\ run'.pending = run.pending
          /\ run'.deferred = run.deferred /\ run'.outcome = run.outcome
      BY <2>1, PlaceNames, GotoEffect DEF Same
    <3>2. LocalsInv'
      BY <1>15, <3>1 DEF RecoverClear, At, PlacesInv, LocalsInv
    <3>3. (attempt.exp = 0)'
      BY <1>15, <2>0, Cleared DEF RecoverClear
    <3> QED
      BY <3>1, <3>2, <3>3, PlaceNames, Arrived DEF BeginInv
  <2> QED
    BY <1>15, <2>1 DEF RecoverClear
<1>16. CASE ReconcileRunning
  <2>0. attempt.exp = 0
    BY <1>16, PhaseNames DEF ReconcileRunning, At, PlacesInv, BeginInv, Status
  <2>1. CASE \E why \in Exits : StopWith(why)
    BY <2>1, StopArrived
  <2>2. CASE Goto("top")
    <3>1. run'.pc = "top" /\ run'.exp = run.exp /\ run'.pending = run.pending
          /\ run'.deferred = run.deferred /\ run'.outcome = run.outcome
      BY <2>2, PlaceNames, GotoEffect DEF Same
    <3>2. LocalsInv'
      BY <1>16, <3>1 DEF ReconcileRunning, At, PlacesInv, LocalsInv
    <3>3. (attempt.exp = 0 /\ NoneRunning)'
      BY <1>16, <2>0, NoneLeftRunning DEF ReconcileRunning
    <3> QED
      BY <3>1, <3>2, <3>3, PlaceNames, Arrived DEF BeginInv
  <2> QED
    BY <1>16, <2>1, <2>2, OtherNames DEF ReconcileRunning
<1>17. CASE LoopTop
  <2>0. attempt.exp = 0 /\ NoneRunning
    BY <1>17, PhaseNames DEF LoopTop, At, PlacesInv, BeginInv, Status
  <2>1. /\ ~Promoting' /\ ~TerminalOutcome' /\ attempt'.phase # "quarantined"
        /\ UNCHANGED <<ledger, metrics, attempt, cand, archives, live, session>> /\ ~run.pending /\ ~run.deferred
    BY <1>17, <2>0
    DEF LoopTop, At, PlacesInv, LocalsInv, DurableInv, ClosedInv, Promoting, TerminalOutcome
  <2>2. CASE \E why \in Exits : Break(why)
    BY <2>1, <2>2, BreakArrived
  <2>3. CASE Throw(FALSE)
    BY <2>1, <2>3, ThrowArrived
  <2>4. CASE Pending # {} /\ run' = [run EXCEPT !.pc = "start", !.exp = First(Pending), !.base = Boundary(live)]
    <3>1. run'.pc = "start" /\ run'.exp = First(Pending) /\ run'.pending = run.pending /\ run'.deferred = run.deferred
      BY <2>4 DEF ShapeInv, Runs
    <3>2. First(Pending) \in Pending
      BY <2>4, FirstChosen DEF Pending
    <3>3. run'.exp \in Exps /\ ledger.status[run'.exp] = "planned"
      BY <3>1, <3>2 DEF Pending
    <3>4. LocalsInv'
      BY <2>1, <3>1 DEF LocalsInv
    <3>5. BeginInv'
      BY <2>0, <2>1, <3>1, <3>3 DEF BeginInv, NoneRunning
    <3> QED
      BY <3>1, <3>4, <3>5, PlaceNames, Arrived
  <2>5. CASE Pending = {} /\ Fresh # {} /\ run' = [run EXCEPT !.pc = "plan", !.exp = First(Fresh), !.base = Boundary(live)]
    <3>1. run'.pc = "plan" /\ run'.exp = First(Fresh) /\ run'.pending = run.pending /\ run'.deferred = run.deferred
      BY <2>5 DEF ShapeInv, Runs
    <3>2. First(Fresh) \in Fresh /\ \A f \in Fresh : First(Fresh) <= f
      BY <2>5, FirstChosen DEF Fresh
    <3>3. run'.exp \in Exps /\ ledger.status[run'.exp] = "none"
      BY <3>1, <3>2 DEF Fresh
    <3>4. ASSUME NEW f \in Exps PROVE ledger.status[f] # "planned" /\ (f < run'.exp => ledger.status[f] # "none")
      <4>1. ledger.status[f] # "planned"
        BY <2>5 DEF Pending
      <4>2. ledger.status[f] = "none" => run'.exp <= f
        BY <3>1, <3>2 DEF Fresh
      <4> QED
        BY <3>3, <4>1, <4>2 DEF Exps
    <3>5. LocalsInv'
      BY <2>1, <3>1 DEF LocalsInv
    <3>6. BeginInv'
      BY <2>0, <2>1, <3>1, <3>3, <3>4 DEF BeginInv, NoneRunning
    <3> QED
      BY <3>1, <3>5, <3>6, PlaceNames, Arrived
  <2> QED
    BY <1>17, <2>2, <2>3, <2>4, <2>5, OtherNames DEF LoopTop
<1>18. CASE PlanExperiment
  <2>0. attempt.exp = 0 /\ NoneRunning /\ run.exp \in Exps /\ ledger.status[run.exp] = "none"
        /\ \A f \in Exps : ledger.status[f] # "planned" /\ (f < run.exp => ledger.status[f] # "none")
    BY <1>18, PhaseNames DEF PlanExperiment, At, PlacesInv, BeginInv, Status
  <2>1. CASE Goto("start")
    <3>1. run'.pc = "start" /\ run'.exp = run.exp /\ run'.pending = run.pending
          /\ run'.deferred = run.deferred /\ run'.outcome = run.outcome
      BY <2>1, PlaceNames, GotoEffect DEF Same
    <3>2. LocalsInv'
      BY <1>18, <3>1 DEF PlanExperiment, At, PlacesInv, LocalsInv
    <3>3. (attempt.exp = 0 /\ NoneRunning /\ run.exp \in Exps /\ ledger.status[run.exp] = "planned")'
      <4>1. ledger'.status[run.exp] = "planned" /\ \A f \in Exps \ {run.exp} : ledger'.status[f] = ledger.status[f]
        BY <1>18, <2>0 DEF PlanExperiment, ShapeInv, Ledgers
      <4> QED
        BY <1>18, <2>0, <3>1, <4>1 DEF PlanExperiment, NoneRunning
    <3> QED
      BY <3>1, <3>2, <3>3, PlaceNames, Arrived DEF BeginInv
  <2> QED
    BY <1>18, <2>1 DEF PlanExperiment
<1>19. CASE StartExperiment
  <2>0. attempt.exp = 0 /\ NoneRunning /\ run.exp \in Exps /\ ledger.status[run.exp] = "planned"
    BY <1>19, PhaseNames DEF StartExperiment, At, PlacesInv, BeginInv, Status
  <2>1. CASE Goto("create")
    <3>1. run'.pc = "create" /\ run'.exp = run.exp /\ run'.pending = run.pending
          /\ run'.deferred = run.deferred /\ run'.outcome = run.outcome
      BY <2>1, PlaceNames, GotoEffect DEF Same
    <3>2. LocalsInv'
      BY <1>19, <3>1 DEF StartExperiment, At, PlacesInv, LocalsInv
    <3>3. (attempt.exp = 0 /\ run.exp \in Exps /\ ledger.status[run.exp] = "running")'
      <4>1. ledger'.status[run.exp] = "running"
        BY <1>19, <2>0 DEF StartExperiment, ShapeInv, Ledgers
      <4> QED
        BY <1>19, <2>0, <3>1, <4>1 DEF StartExperiment
    <3> QED
      BY <3>1, <3>2, <3>3, PlaceNames, Arrived DEF BeginInv
  <2> QED
    BY <1>19, <2>1 DEF StartExperiment
<1>20. CASE CreateCandidate
  <2>0. attempt.exp = 0 /\ run.exp \in Exps /\ ledger.status[run.exp] = "running"
    BY <1>20, PhaseNames DEF CreateCandidate, At, PlacesInv, BeginInv, Status
  <2>9. ~Promoting' /\ ~TerminalOutcome' /\ attempt'.phase # "quarantined" /\ ~run.pending
    BY <1>20, <2>0
    DEF CreateCandidate, At, PlacesInv, LocalsInv, DurableInv, ClosedInv, Promoting,
        TerminalOutcome
  <2>1. CASE cand' = [NoCand EXCEPT !.exp = run.exp] /\ run' = [run EXCEPT !.pc = "write", !.base.dirty = live.dirty]
    <3>1. run'.pc = "write" /\ run'.exp = run.exp /\ run'.pending = run.pending
          /\ run'.deferred = run.deferred /\ run'.outcome = run.outcome
      BY <2>1 DEF ShapeInv, Runs
    <3>2. LocalsInv'
      BY <1>20, <3>1 DEF CreateCandidate, At, PlacesInv, LocalsInv
    <3>3. (attempt.exp = 0 /\ run.exp \in Exps /\ ledger.status[run.exp] = "running" /\ cand.exp = run.exp)'
      BY <1>20, <2>0, <2>1, <3>1
      DEF CreateCandidate, Status, Promoting, TerminalOutcome, Scientific, MetricsAgree,
          Accepted, Sci, Ready, Settled, NoneRunning, NoCand
    <3> QED
      BY <3>1, <3>2, <3>3, PlaceNames, Arrived DEF BeginInv
  <2>2. CASE Throw(FALSE)
    BY <2>2, <2>9, ThrowArrived
  <2> QED
    BY <1>20, <2>1, <2>2 DEF CreateCandidate
<1>21. CASE WriteAttempt
  <2>0. attempt.exp = 0 /\ run.exp \in Exps /\ ledger.status[run.exp] = "running" /\ cand.exp = run.exp
    BY <1>21, PhaseNames DEF WriteAttempt, At, PlacesInv, BeginInv, Status
  <2>1. CASE run' = [run EXCEPT !.pc = "work", !.pending = TRUE]
    <3>1. run'.pc = "work" /\ run'.exp = run.exp /\ run'.pending /\ run'.deferred = run.deferred
      BY <2>1 DEF ShapeInv, Runs
    <3>2. LocalsInv'
      BY <1>21, <3>1 DEF WriteAttempt, At, PlacesInv, LocalsInv
    <3>3. (run.exp \in Exps /\ attempt.exp = run.exp /\ cand.exp = run.exp /\ Status = "running" /\ attempt.phase = "running" /\ metrics = attempt.before)'
      BY <1>21, <2>0, <2>1, <3>1
      DEF WriteAttempt, Status, Promoting, TerminalOutcome, Scientific, MetricsAgree, Accepted,
          Sci, Ready, Settled, NoneRunning, NewAttempt
    <3> QED
      BY <3>1, <3>2, <3>3, PlaceNames, Arrived DEF AttemptInv, Status
  <2> QED
    BY <1>21, <2>1 DEF WriteAttempt
<1>22. CASE WorkerEnds
  <2>0. run.exp \in Exps /\ attempt.exp = run.exp /\ cand.exp = run.exp /\ Status = "running" /\ attempt.phase = "running" /\ metrics = attempt.before
    BY <1>22, PhaseNames DEF WorkerEnds, At, PlacesInv, AttemptInv, Status
  <2>7. run.pending /\ UNCHANGED <<ledger, attempt, live>>
    BY <1>22 DEF WorkerEnds, At, PlacesInv, LocalsInv
  <2>9. /\ attempt'.exp # 0 /\ ~Promoting' /\ ~TerminalOutcome' /\ attempt'.phase = "running"
        /\ run.pending
    BY <2>0, <2>7 DEF Promoting, TerminalOutcome, Scientific, Status, Exps
  <2>8. cand'.exp = cand.exp
    BY <1>22 DEF WorkerEnds, ShapeInv, Clones
  <2>1. CASE \E why \in Exits : Break(why)
    BY <2>1, <2>9, BreakArrived
  <2>2. CASE \E o \in WorkerFailures : run' = [run EXCEPT !.pc = "fArchive", !.outcome = o]
    <3>1. run'.pc = "fArchive" /\ run'.exp = run.exp /\ run'.pending = run.pending /\ run'.deferred = run.deferred
      BY <2>2 DEF ShapeInv, Runs
    <3>2. LocalsInv'
      BY <1>22, <3>1 DEF WorkerEnds, At, PlacesInv, LocalsInv
    <3>3. (run.exp \in Exps /\ attempt.exp = run.exp /\ cand.exp = run.exp /\ Status = "running" /\ attempt.phase = "running" /\ metrics = attempt.before)'
      BY <1>22, <2>0, <2>2, <3>1, <2>8
      DEF WorkerEnds, Status, Promoting, TerminalOutcome, Scientific, MetricsAgree, Accepted,
          Sci, Ready, Settled, NoneRunning
    <3> QED
      BY <3>1, <3>2, <3>3, PlaceNames, Arrived DEF AttemptInv, Status
  <2>3. CASE Goto("adopt")
    <3>1. run'.pc = "adopt" /\ run'.exp = run.exp /\ run'.pending = run.pending
          /\ run'.deferred = run.deferred /\ run'.outcome = run.outcome
      BY <2>3, PlaceNames, GotoEffect DEF Same
    <3>2. LocalsInv'
      BY <1>22, <3>1 DEF WorkerEnds, At, PlacesInv, LocalsInv
    <3>3. (run.exp \in Exps /\ attempt.exp = run.exp /\ cand.exp = run.exp /\ Status = "running" /\ attempt.phase = "running" /\ metrics = attempt.before)'
      BY <1>22, <2>0, <2>3, <3>1, <2>8
      DEF WorkerEnds, Status, Promoting, TerminalOutcome, Scientific, MetricsAgree, Accepted,
          Sci, Ready, Settled, NoneRunning
    <3> QED
      BY <3>1, <3>2, <3>3, PlaceNames, Arrived DEF AttemptInv, Status
  <2> QED
    BY <1>22, <2>1, <2>2, <2>3, OtherNames DEF WorkerEnds
<1>23. CASE AdoptPlan
  <2>0. run.exp \in Exps /\ attempt.exp = run.exp /\ cand.exp = run.exp /\ Status = "running" /\ attempt.phase = "running" /\ metrics = attempt.before
    BY <1>23, PhaseNames DEF AdoptPlan, At, PlacesInv, AttemptInv, Status
  <2>1. CASE run' = [run EXCEPT !.pc = "fArchive", !.outcome = "protected_path_tamper"]
    <3>1. run'.pc = "fArchive" /\ run'.exp = run.exp /\ run'.pending = run.pending /\ run'.deferred = run.deferred
      BY <2>1 DEF ShapeInv, Runs
    <3>2. LocalsInv'
      BY <1>23, <3>1 DEF AdoptPlan, At, PlacesInv, LocalsInv
    <3>3. (run.exp \in Exps /\ attempt.exp = run.exp /\ cand.exp = run.exp /\ Status = "running" /\ attempt.phase = "running" /\ metrics = attempt.before)'
      BY <1>23, <2>0, <2>1, <3>1
      DEF AdoptPlan, Status, Promoting, TerminalOutcome, Scientific, MetricsAgree, Accepted,
          Sci, Ready, Settled, NoneRunning, ShapeInv, Attempts
    <3> QED
      BY <3>1, <3>2, <3>3, PlaceNames, Arrived DEF AttemptInv, Status
  <2>2. CASE Goto("scope")
    <3>1. run'.pc = "scope" /\ run'.exp = run.exp /\ run'.pending = run.pending
          /\ run'.deferred = run.deferred /\ run'.outcome = run.outcome
      BY <2>2, PlaceNames, GotoEffect DEF Same
    <3>2. LocalsInv'
      BY <1>23, <3>1 DEF AdoptPlan, At, PlacesInv, LocalsInv
    <3>3. (run.exp \in Exps /\ attempt.exp = run.exp /\ cand.exp = run.exp /\ Status = "running" /\ attempt.phase = "running" /\ metrics = attempt.before)'
      BY <1>23, <2>0, <2>2, <3>1
      DEF AdoptPlan, Status, Promoting, TerminalOutcome, Scientific, MetricsAgree, Accepted,
          Sci, Ready, Settled, NoneRunning, ShapeInv, Attempts
    <3> QED
      BY <3>1, <3>2, <3>3, PlaceNames, Arrived DEF AttemptInv, Status
  <2> QED
    BY <1>23, <2>1, <2>2 DEF AdoptPlan
<1>24. CASE EnforceScope
  <2>0. run.exp \in Exps /\ attempt.exp = run.exp /\ cand.exp = run.exp /\ Status = "running" /\ attempt.phase = "running" /\ metrics = attempt.before
    BY <1>24, PhaseNames DEF EnforceScope, At, PlacesInv, AttemptInv, Status
  <2>8. cand'.exp = cand.exp
    BY <1>24, ScopedEffect, ThrownEffect DEF EnforceScope, ShapeInv, Clones
  <2>7. run.pending /\ UNCHANGED <<ledger, attempt, live>>
    BY <1>24 DEF EnforceScope, At, PlacesInv, LocalsInv
  <2>9. /\ attempt'.exp # 0 /\ ~Promoting' /\ ~TerminalOutcome' /\ attempt'.phase = "running"
        /\ run.pending
    BY <2>0, <2>7 DEF Promoting, TerminalOutcome, Scientific, Status, Exps
  <2>1. CASE run' = [run EXCEPT !.pc = "fArchive", !.outcome = "worker_incomplete"]
    <3>1. run'.pc = "fArchive" /\ run'.exp = run.exp /\ run'.pending = run.pending /\ run'.deferred = run.deferred
      BY <2>1 DEF ShapeInv, Runs
    <3>2. LocalsInv'
      BY <1>24, <3>1 DEF EnforceScope, At, PlacesInv, LocalsInv
    <3>3. (run.exp \in Exps /\ attempt.exp = run.exp /\ cand.exp = run.exp /\ Status = "running" /\ attempt.phase = "running" /\ metrics = attempt.before)'
      BY <1>24, <2>0, <2>1, <3>1, <2>8
      DEF EnforceScope, Status, Promoting, TerminalOutcome, Scientific, MetricsAgree, Accepted,
          Sci, Ready, Settled, NoneRunning
    <3> QED
      BY <3>1, <3>2, <3>3, PlaceNames, Arrived DEF AttemptInv, Status
  <2>2. CASE Goto("archive")
    <3>1. run'.pc = "archive" /\ run'.exp = run.exp /\ run'.pending = run.pending
          /\ run'.deferred = run.deferred /\ run'.outcome = run.outcome
      BY <2>2, PlaceNames, GotoEffect DEF Same
    <3>2. LocalsInv'
      BY <1>24, <3>1 DEF EnforceScope, At, PlacesInv, LocalsInv
    <3>3. (run.exp \in Exps /\ attempt.exp = run.exp /\ cand.exp = run.exp /\ Status = "running" /\ attempt.phase = "running" /\ metrics = attempt.before)'
      BY <1>24, <2>0, <2>2, <3>1, <2>8
      DEF EnforceScope, Status, Promoting, TerminalOutcome, Scientific, MetricsAgree, Accepted,
          Sci, Ready, Settled, NoneRunning
    <3> QED
      BY <3>1, <3>2, <3>3, PlaceNames, Arrived DEF AttemptInv, Status
  <2>10. CASE RevertThrows(Scoped)
    BY <2>9, <2>10, ScopedEffect, ThrownEffect, ThrowArrived
  <2> QED
    BY <1>24, <2>1, <2>2, <2>10 DEF EnforceScope
<1>25. CASE ArchiveCandidate
  <2>0. run.exp \in Exps /\ attempt.exp = run.exp /\ cand.exp = run.exp /\ Status = "running" /\ attempt.phase = "running" /\ metrics = attempt.before
    BY <1>25, PhaseNames DEF ArchiveCandidate, At, PlacesInv, AttemptInv, Status
  <2>9. run.pending /\ UNCHANGED <<ledger, attempt.exp>>
    BY <1>25
    DEF ArchiveCandidate, Archive, ArchiveFails, At, PlacesInv, LocalsInv, ShapeInv, Attempts
  <2>1. attempt'.exp # 0 /\ ~TerminalOutcome' /\ run.pending
    BY <2>0, <2>9 DEF TerminalOutcome, Scientific, Status, Exps
  <2>2. CASE Archive("measure")
    <3>1. run'.pc = "measure" /\ run'.exp = run.exp /\ run'.pending = run.pending
          /\ run'.deferred = run.deferred /\ run'.outcome = run.outcome
      BY <2>2, PlaceNames, GotoEffect DEF Same, Archive
    <3>2. LocalsInv'
      BY <1>25, <3>1 DEF ArchiveCandidate, At, PlacesInv, LocalsInv
    <3>3. (run.exp \in Exps /\ attempt.exp = run.exp /\ cand.exp = run.exp /\ Status = "running" /\ attempt.phase = "running" /\ metrics = attempt.before)'
      BY <1>25, <2>0, <2>2, <3>1
      DEF ArchiveCandidate, Status, Promoting, TerminalOutcome, Scientific, MetricsAgree,
          Accepted, Sci, Ready, Settled, NoneRunning, Archive
    <3> QED
      BY <3>1, <3>2, <3>3, PlaceNames, Arrived DEF AttemptInv, Status
  <2>3. CASE Throw(TRUE)
    BY <2>1, <2>3, ThrowArrived
  <2> QED
    BY <1>25, <2>2, <2>3 DEF ArchiveCandidate
<1>26. CASE Measure
  <2>0. run.exp \in Exps /\ attempt.exp = run.exp /\ cand.exp = run.exp /\ Status = "running" /\ attempt.phase = "running" /\ metrics = attempt.before
    BY <1>26, PhaseNames DEF Measure, At, PlacesInv, AttemptInv, Status
  <2>1. CASE run' = [run EXCEPT !.pc = "record", !.outcome = "improved"]
    <3>1. run'.pc = "record" /\ run'.exp = run.exp /\ run'.pending = run.pending /\ run'.deferred = run.deferred
      BY <2>1 DEF ShapeInv, Runs
    <3>2. LocalsInv'
      BY <1>26, <3>1 DEF Measure, At, PlacesInv, LocalsInv
    <3>3. (run.exp \in Exps /\ attempt.exp = run.exp /\ cand.exp = run.exp /\ Status = "running" /\ attempt.phase = "running" /\ metrics = attempt.before)'
      BY <1>26, <2>0, <2>1, <3>1
      DEF Measure, Status, Promoting, TerminalOutcome, Scientific, MetricsAgree, Accepted, Sci,
          Ready, Settled, NoneRunning
    <3> QED
      BY <3>1, <3>2, <3>3, PlaceNames, Arrived DEF AttemptInv, Status
  <2>2. CASE run' = [run EXCEPT !.pc = "revert", !.outcome = "held"]
    <3>1. run'.pc = "revert" /\ run'.exp = run.exp /\ run'.pending = run.pending /\ run'.deferred = run.deferred
      BY <2>2 DEF ShapeInv, Runs
    <3>2. LocalsInv'
      BY <1>26, <3>1 DEF Measure, At, PlacesInv, LocalsInv
    <3>3. (run.exp \in Exps /\ attempt.exp = run.exp /\ cand.exp = run.exp /\ Status = "running" /\ attempt.phase = "running" /\ metrics = attempt.before)'
      BY <1>26, <2>0, <2>2, <3>1
      DEF Measure, Status, Promoting, TerminalOutcome, Scientific, MetricsAgree, Accepted, Sci,
          Ready, Settled, NoneRunning
    <3> QED
      BY <3>1, <3>2, <3>3, PlaceNames, Arrived DEF AttemptInv, Status
  <2>3. CASE Goto("remeasure")
    <3>1. run'.pc = "remeasure" /\ run'.exp = run.exp /\ run'.pending = run.pending
          /\ run'.deferred = run.deferred /\ run'.outcome = run.outcome
      BY <2>3, PlaceNames, GotoEffect DEF Same
    <3>2. LocalsInv'
      BY <1>26, <3>1 DEF Measure, At, PlacesInv, LocalsInv
    <3>3. (run.exp \in Exps /\ attempt.exp = run.exp /\ cand.exp = run.exp /\ Status = "running" /\ attempt.phase = "running" /\ metrics = attempt.before)'
      BY <1>26, <2>0, <2>3, <3>1
      DEF Measure, Status, Promoting, TerminalOutcome, Scientific, MetricsAgree, Accepted, Sci,
          Ready, Settled, NoneRunning
    <3> QED
      BY <3>1, <3>2, <3>3, PlaceNames, Arrived DEF AttemptInv, Status
  <2> QED
    BY <1>26, <2>1, <2>2, <2>3 DEF Measure
<1>27. CASE RevertHeld
  <2>0. run.exp \in Exps /\ attempt.exp = run.exp /\ cand.exp = run.exp /\ Status = "running" /\ attempt.phase = "running" /\ metrics = attempt.before
    BY <1>27, PhaseNames DEF RevertHeld, At, PlacesInv, AttemptInv, Status
  <2>7. run.pending /\ UNCHANGED <<ledger, attempt, live>>
    BY <1>27 DEF RevertHeld, At, PlacesInv, LocalsInv
  <2>9. /\ attempt'.exp # 0 /\ ~Promoting' /\ ~TerminalOutcome' /\ attempt'.phase = "running"
        /\ run.pending
    BY <2>0, <2>7 DEF Promoting, TerminalOutcome, Scientific, Status, Exps
  <2>1. CASE Goto("record")
    <3>1. run'.pc = "record" /\ run'.exp = run.exp /\ run'.pending = run.pending
          /\ run'.deferred = run.deferred /\ run'.outcome = run.outcome
      BY <2>1, PlaceNames, GotoEffect DEF Same
    <3>2. LocalsInv'
      BY <1>27, <3>1 DEF RevertHeld, At, PlacesInv, LocalsInv
    <3>3. (run.exp \in Exps /\ attempt.exp = run.exp /\ cand.exp = run.exp /\ Status = "running" /\ attempt.phase = "running" /\ metrics = attempt.before)'
      BY <1>27, <2>0, <2>1, <3>1, RevertedEffect, ThrownEffect
      DEF RevertHeld, Status, Promoting, TerminalOutcome, Scientific, MetricsAgree, Accepted,
          Sci, Ready, Settled, NoneRunning
    <3> QED
      BY <3>1, <3>2, <3>3, PlaceNames, Arrived DEF AttemptInv, Status
  <2>10. CASE RevertThrows(Reverted)
    BY <2>9, <2>10, RevertedEffect, ThrownEffect, ThrowArrived
  <2> QED
    BY <1>27, <2>1, <2>10 DEF RevertHeld
<1>28. CASE RecordMetric
  <2>0. run.exp \in Exps /\ attempt.exp = run.exp /\ cand.exp = run.exp /\ Status = "running" /\ attempt.phase = "running" /\ metrics = attempt.before
    BY <1>28, PhaseNames DEF RecordMetric, At, PlacesInv, AttemptInv, Status
  <2>1. CASE run.outcome = "improved" /\ Goto("pending")
    <3>1. run'.pc = "pending" /\ run'.exp = run.exp /\ run'.pending = run.pending
          /\ run'.deferred = run.deferred /\ run'.outcome = run.outcome
      BY <2>1, PlaceNames, GotoEffect DEF Same
    <3>2. LocalsInv'
      BY <1>28, <3>1 DEF RecordMetric, At, PlacesInv, LocalsInv
    <3>3. (run.exp \in Exps /\ attempt.exp = run.exp /\ cand.exp = run.exp /\ Status = "running" /\ attempt.phase = "running" /\ run.outcome = "improved" /\ metrics = Improved(attempt.before, run.exp))'
      BY <1>28, <2>0, <2>1, <3>1
      DEF RecordMetric, Status, Promoting, TerminalOutcome, Scientific, MetricsAgree, Accepted,
          Sci, Ready, Settled, NoneRunning, Recorded, Improved
    <3> QED
      BY <3>1, <3>2, <3>3, PlaceNames, Arrived DEF AttemptInv, Status
  <2>2. CASE run.outcome # "improved" /\ Goto("complete")
    <3>1. run'.pc = "complete" /\ run'.exp = run.exp /\ run'.pending = run.pending
          /\ run'.deferred = run.deferred /\ run'.outcome = run.outcome
      BY <2>2, PlaceNames, GotoEffect DEF Same
    <3>2. LocalsInv'
      BY <1>28, <3>1 DEF RecordMetric, At, PlacesInv, LocalsInv
    <3>3. (run.exp \in Exps /\ attempt.exp = run.exp /\ cand.exp = run.exp /\ Status = "running"
        /\ IF run.outcome = "improved"
           THEN attempt.phase = "promoted" /\ metrics = attempt.after
           ELSE attempt.phase = "running" /\ metrics = Held(attempt.before))'
      BY <1>28, <2>0, <2>2, <3>1
      DEF RecordMetric, Status, Promoting, TerminalOutcome, Scientific, MetricsAgree, Accepted,
          Sci, Ready, Settled, NoneRunning, Recorded, Held
    <3> QED
      BY <3>1, <3>2, <3>3, PlaceNames, Arrived DEF AttemptInv, Status
  <2> QED
    BY <1>28, <2>1, <2>2 DEF RecordMetric
<1>29. CASE Remeasure
  <2>0. run.exp \in Exps /\ attempt.exp = run.exp /\ cand.exp = run.exp /\ Status = "running" /\ attempt.phase = "running" /\ metrics = attempt.before
    BY <1>29, PhaseNames DEF Remeasure, At, PlacesInv, AttemptInv, Status
  <2>7. run.pending /\ UNCHANGED <<ledger, attempt, live>>
    BY <1>29 DEF Remeasure, At, PlacesInv, LocalsInv
  <2>9. /\ attempt'.exp # 0 /\ ~Promoting' /\ ~TerminalOutcome' /\ attempt'.phase = "running"
        /\ run.pending
    BY <2>0, <2>7 DEF Promoting, TerminalOutcome, Scientific, Status, Exps
  <2>1. CASE metrics' = attempt.before /\ run' = [run EXCEPT !.pc = "fDiscard", !.outcome = "worker_incomplete"]
    <3>1. run'.pc = "fDiscard" /\ run'.exp = run.exp /\ run'.pending = run.pending /\ run'.deferred = run.deferred
      BY <2>1 DEF ShapeInv, Runs
    <3>2. LocalsInv'
      BY <1>29, <3>1 DEF Remeasure, At, PlacesInv, LocalsInv
    <3>3. (run.exp \in Exps /\ attempt.exp = run.exp /\ cand.exp = run.exp /\ Status = "running" /\ attempt.phase = "running" /\ metrics = attempt.before)'
      BY <1>29, <2>0, <2>1, <3>1, RevertedEffect, ThrownEffect
      DEF Remeasure, Status, Promoting, TerminalOutcome, Scientific, MetricsAgree, Accepted,
          Sci, Ready, Settled, NoneRunning
    <3> QED
      BY <3>1, <3>2, <3>3, PlaceNames, Arrived DEF AttemptInv, Status
  <2>2. CASE RevertThrows(Reverted)
    BY <2>2, <2>9, RevertedEffect, ThrownEffect, ThrowArrived
  <2> QED
    BY <1>29, <2>1, <2>2 DEF Remeasure
<1>30. CASE PersistPending
  <2>0. run.exp \in Exps /\ attempt.exp = run.exp /\ cand.exp = run.exp /\ Status = "running" /\ attempt.phase = "running" /\ run.outcome = "improved" /\ metrics = Improved(attempt.before, run.exp)
    BY <1>30, PhaseNames DEF PersistPending, At, PlacesInv, AttemptInv, Status
  <2>1. CASE Goto("promote")
    <3>1. run'.pc = "promote" /\ run'.exp = run.exp /\ run'.pending = run.pending
          /\ run'.deferred = run.deferred /\ run'.outcome = run.outcome
      BY <2>1, PlaceNames, GotoEffect DEF Same
    <3>2. LocalsInv'
      BY <1>30, <3>1 DEF PersistPending, At, PlacesInv, LocalsInv
    <3>3. (run.exp \in Exps /\ attempt.exp = run.exp /\ cand.exp = run.exp /\ Status = "running" /\ run.outcome = "improved" /\ attempt.phase = "promotion_pending" /\ metrics = attempt.after)'
      BY <1>30, <2>0, <2>1, <3>1
      DEF PersistPending, Status, Promoting, TerminalOutcome, Scientific, MetricsAgree,
          Accepted, Sci, Ready, Settled, NoneRunning, ShapeInv, Attempts
    <3> QED
      BY <3>1, <3>2, <3>3, PlaceNames, Arrived DEF AttemptInv, Status
  <2> QED
    BY <1>30, <2>1 DEF PersistPending
<1>31. CASE Promote
  <2>0. run.exp \in Exps /\ attempt.exp = run.exp /\ cand.exp = run.exp /\ Status = "running" /\ run.outcome = "improved" /\ attempt.phase = "promotion_pending" /\ metrics = attempt.after
    BY <1>31, PhaseNames DEF Promote, At, PlacesInv, AttemptInv, Status
  <2>9. run.pending /\ attempt'.exp # 0 /\ Promoting /\ ~TerminalOutcome /\ ~TerminalOutcome'
    BY <1>31, <2>0
    DEF Promote, At, PlacesInv, LocalsInv, Promoting, TerminalOutcome, Scientific, Status, Exps
  <2>1. CASE Goto("defer") /\ UNCHANGED live
    <3>1. run'.pc = "defer" /\ run'.exp = run.exp /\ run'.pending = run.pending
          /\ run'.deferred = run.deferred /\ run'.outcome = run.outcome
      BY <2>1, PlaceNames, GotoEffect DEF Same
    <3>2. LocalsInv'
      BY <1>31, <3>1 DEF Promote, At, PlacesInv, LocalsInv
    <3>3. (run.exp \in Exps /\ attempt.exp = run.exp /\ cand.exp = run.exp /\ Status = "running" /\ run.outcome = "improved" /\ attempt.phase = "promotion_pending")'
      BY <1>31, <2>0, <2>1, <3>1
      DEF Promote, Status, Promoting, TerminalOutcome, Scientific, MetricsAgree, Accepted, Sci,
          Ready, Settled, NoneRunning
    <3> QED
      BY <3>1, <3>2, <3>3, PlaceNames, Arrived DEF AttemptInv, Status
  <2>2. CASE Goto("mark") /\ (FastForward(run.exp) \/ (Diffless /\ UNCHANGED live))
    <3>1. run'.pc = "mark" /\ run'.exp = run.exp /\ run'.pending = run.pending
          /\ run'.deferred = run.deferred /\ run'.outcome = run.outcome
      BY <2>2, PlaceNames, GotoEffect DEF Same
    <3>2. LocalsInv'
      BY <1>31, <3>1 DEF Promote, At, PlacesInv, LocalsInv
    <3>3. Landed'
      <4>1. CASE FastForward(run.exp)
        BY <1>31, <2>0, <4>1 DEF Promote, Landed, FastForward, ShapeInv, Checkouts
      <4>2. CASE Diffless /\ UNCHANGED live
        <5>1. Landed
          BY <2>0, <2>9, <4>2, DifflessLanded DEF Exps
        <5> QED
          BY <1>31, <4>2, <5>1 DEF Promote, Landed
      <4> QED
        BY <2>2, <4>1, <4>2
    <3>4. (run.exp \in Exps /\ attempt.exp = run.exp /\ cand.exp = run.exp /\ Status = "running" /\ run.outcome = "improved" /\ attempt.phase = "promotion_pending" /\ metrics = attempt.after)'
      BY <1>31, <2>0, <3>1 DEF Promote, Status
    <3> QED
      BY <3>1, <3>2, <3>3, <3>4, PlaceNames, Arrived DEF AttemptInv, Status
  <2>3. CASE Throw(FALSE)
    BY <2>3, <2>9, ThrowArrived
  <2> QED
    BY <1>31, <2>1, <2>2, <2>3 DEF Promote
<1>32. CASE DeferPromotion
  <2>0. run.exp \in Exps /\ attempt.exp = run.exp /\ cand.exp = run.exp /\ Status = "running" /\ run.outcome = "improved" /\ attempt.phase = "promotion_pending"
    BY <1>32, PhaseNames DEF DeferPromotion, At, PlacesInv, AttemptInv, Status
  <2>1. run'.pc = "rollback" /\ run'.deferred
    BY <1>32 DEF DeferPromotion, ShapeInv, Runs
  <2>2. attempt'.exp # 0 /\ ~TerminalOutcome'
    BY <1>32, <2>0 DEF DeferPromotion, TerminalOutcome, Scientific, Status, Exps
  <2> QED
    BY <2>1, <2>2, RollbackArrived
<1>33. CASE MarkPromoted
  <2>0. run.exp \in Exps /\ attempt.exp = run.exp /\ cand.exp = run.exp /\ Status = "running" /\ run.outcome = "improved" /\ attempt.phase = "promotion_pending" /\ metrics = attempt.after /\ Landed
    BY <1>33, PhaseNames DEF MarkPromoted, At, PlacesInv, AttemptInv, Status
  <2>9. run.pending /\ attempt'.exp # 0 /\ Promoting /\ ~TerminalOutcome /\ ~TerminalOutcome'
    BY <1>33, <2>0
    DEF MarkPromoted, At, PlacesInv, LocalsInv, Promoting, TerminalOutcome, Scientific, Status,
        Exps, ShapeInv, Attempts
  <2>1. CASE Goto("complete")
    <3>1. run'.pc = "complete" /\ run'.exp = run.exp /\ run'.pending = run.pending
          /\ run'.deferred = run.deferred /\ run'.outcome = run.outcome
      BY <2>1, PlaceNames, GotoEffect DEF Same
    <3>2. LocalsInv'
      BY <1>33, <3>1 DEF MarkPromoted, At, PlacesInv, LocalsInv
    <3>3. (run.exp \in Exps /\ attempt.exp = run.exp /\ cand.exp = run.exp /\ Status = "running"
        /\ IF run.outcome = "improved"
           THEN attempt.phase = "promoted" /\ metrics = attempt.after
           ELSE attempt.phase = "running" /\ metrics = Held(attempt.before))'
      <4>1. run.outcome = "improved"
        BY <2>0
      <4> QED
        BY <1>33, <2>0, <3>1, <4>1 DEF MarkPromoted, ShapeInv, Attempts, Status
    <3> QED
      BY <3>1, <3>2, <3>3, PlaceNames, Arrived DEF AttemptInv, Status
  <2>2. CASE Throw(FALSE)
    BY <2>2, <2>9, ThrowArrived
  <2> QED
    BY <1>33, <2>1, <2>2 DEF MarkPromoted
<1>34. CASE CompleteExperiment
  <2>0. run.exp \in Exps /\ attempt.exp = run.exp /\ cand.exp = run.exp /\ Status = "running"
        /\ IF run.outcome = "improved"
           THEN attempt.phase = "promoted" /\ metrics = attempt.after
           ELSE attempt.phase = "running" /\ metrics = Held(attempt.before)
    BY <1>34, PhaseNames DEF CompleteExperiment, At, PlacesInv, AttemptInv, Status
  <2>1. CASE Goto("discard")
    <3>1. run'.pc = "discard" /\ run'.exp = run.exp /\ run'.pending = run.pending
          /\ run'.deferred = run.deferred /\ run'.outcome = run.outcome
      BY <2>1, PlaceNames, GotoEffect DEF Same
    <3>2. LocalsInv'
      BY <1>34, <3>1 DEF CompleteExperiment, At, PlacesInv, LocalsInv
    <3>3. (run.exp = attempt.exp /\ TerminalOutcome /\ MetricsAgree /\ attempt.phase # "quarantined"
        /\ session.iteration = Cardinality(Sci) - 1)'
      <4>1. attempt.exp \in Exps /\ Status = "running"
        BY <2>0 DEF Status
      <4>2. CASE run.outcome = "improved"
        <5>1. /\ ledger' = Completed(attempt.exp, "accepted")
              /\ UNCHANGED <<metrics, attempt, cand, archives, live, session>>
          BY <1>34, <2>0, <4>2 DEF CompleteExperiment
        <5>2. Promoting /\ Landed /\ metrics = attempt.after /\ attempt.phase = "promoted"
          BY <2>0, <4>1, <4>2 DEF Promoting, DurableInv, OpenInv, Exps
        <5>3. /\ TerminalOutcome' /\ session'.iteration = Cardinality(Sci') - 1
              /\ Agrees(attempt'.after, Accepted', ledger'.stalls)
          BY <4>1, <5>1, <5>2, Decided
        <5>4. MetricsAgree'
          BY <5>1, <5>2, <5>3 DEF MetricsAgree
        <5> QED
          BY <2>0, <3>1, <5>1, <5>2, <5>3, <5>4
      <4>3. CASE run.outcome # "improved"
        <5>1. /\ ledger' = Completed(attempt.exp, "rejected")
              /\ UNCHANGED <<metrics, attempt, cand, archives, live, session>>
          BY <1>34, <2>0, <4>3 DEF CompleteExperiment
        <5>2. attempt.phase = "running" /\ metrics = Held(attempt.before)
          BY <2>0, <4>3
        <5>3. TerminalOutcome' /\ session'.iteration = Cardinality(Sci') - 1 /\ MetricsAgree'
          BY <4>1, <5>1, <5>2, Decided
        <5> QED
          BY <2>0, <3>1, <5>1, <5>2, <5>3
      <4> QED
        BY <4>2, <4>3
    <3> QED
      BY <3>1, <3>2, <3>3, PlaceNames, Arrived DEF AttemptInv, Status
  <2> QED
    BY <1>34, <2>1 DEF CompleteExperiment
<1>35. CASE DiscardCandidate
  <2>0. run.exp = attempt.exp /\ TerminalOutcome /\ MetricsAgree /\ attempt.phase # "quarantined"
        /\ session.iteration = Cardinality(Sci) - 1
    BY <1>35, PhaseNames DEF DiscardCandidate, At, PlacesInv, AttemptInv, Status
  <2>9. /\ TerminalOutcome' /\ MetricsAgree' /\ attempt'.phase # "quarantined" /\ attempt'.exp # 0
    BY <1>35, <2>0 DEF DiscardCandidate, TerminalOutcome, Scientific, MetricsAgree, Accepted
  <2>1. CASE run' = [run EXCEPT !.pc = "count", !.pending = FALSE]
    <3>1. run'.pc = "count" /\ run'.exp = run.exp /\ ~run'.pending /\ run'.deferred = run.deferred
      BY <2>1 DEF ShapeInv, Runs
    <3>2. LocalsInv'
      BY <1>35, <3>1 DEF DiscardCandidate, At, PlacesInv, LocalsInv
    <3>3. (run.exp = attempt.exp /\ TerminalOutcome /\ MetricsAgree /\ attempt.phase # "quarantined"
        /\ session.iteration = Cardinality(Sci) - 1)'
      BY <1>35, <2>0, <2>1, <3>1
      DEF DiscardCandidate, Status, Promoting, TerminalOutcome, Scientific, MetricsAgree,
          Accepted, Sci, Ready, Settled, NoneRunning
    <3> QED
      BY <3>1, <3>2, <3>3, PlaceNames, Arrived DEF AttemptInv, Status
  <2>2. CASE Throw(FALSE)
    BY <2>2, <2>9, ThrowArrived
  <2> QED
    BY <1>35, <2>1, <2>2 DEF DiscardCandidate
<1>36. CASE CountIteration
  <2>0. run.exp = attempt.exp /\ TerminalOutcome /\ MetricsAgree /\ attempt.phase # "quarantined"
        /\ session.iteration = Cardinality(Sci) - 1
    BY <1>36, PhaseNames DEF CountIteration, At, PlacesInv, AttemptInv, Status
  <2>9. /\ TerminalOutcome' /\ MetricsAgree' /\ attempt'.phase # "quarantined" /\ attempt'.exp # 0
    BY <1>36, <2>0 DEF CountIteration, TerminalOutcome, Scientific, MetricsAgree, Accepted
  <2>1. CASE session' = [session EXCEPT !.iteration = @ + 1] /\ Goto("clear")
    <3>1. run'.pc = "clear" /\ run'.exp = run.exp /\ run'.pending = run.pending
          /\ run'.deferred = run.deferred /\ run'.outcome = run.outcome
      BY <2>1, PlaceNames, GotoEffect DEF Same
    <3>2. LocalsInv'
      BY <1>36, <3>1 DEF CountIteration, At, PlacesInv, LocalsInv
    <3>3. (Ready)'
      <4>1. session'.iteration = session.iteration + 1
        BY <2>1 DEF ShapeInv, Sessions
      <4>2. session'.iteration = Cardinality(Sci)
        BY <2>0, <4>1, SciFinite
      <4>3. attempt.exp # 0 /\ Settled /\ NoneRunning /\ MetricsAgree
        BY <2>0, OutcomeSettles
      <4> QED
        BY <1>36, <4>2, <4>3
        DEF CountIteration, Ready, Settled, NoneRunning, MetricsAgree, Accepted, Sci,
            Scientific, Status
    <3> QED
      BY <3>1, <3>2, <3>3, PlaceNames, Arrived DEF AttemptInv, Status
  <2>2. CASE Throw(FALSE)
    BY <2>2, <2>9, ThrowArrived
  <2> QED
    BY <1>36, <2>1, <2>2 DEF CountIteration
<1>37. CASE ClearAttempt
  <2>0. Ready
    BY <1>37, PhaseNames DEF ClearAttempt, At, PlacesInv, AttemptInv, Status
  <2>1. attempt'.exp = 0 /\ NoneRunning'
    BY <1>37, <2>0, Cleared DEF ClearAttempt
  <2>2. ~run.pending /\ ~run.deferred /\ ~Promoting' /\ ~TerminalOutcome' /\ attempt'.phase # "quarantined"
    BY <1>37, <2>1
    DEF ClearAttempt, At, PlacesInv, LocalsInv, NoAttempt, Promoting, TerminalOutcome
  <2>3. CASE Break("worker_failure_limit")
    BY <2>2, <2>3, BreakArrived, OtherNames
  <2>4. CASE run' = [run EXCEPT !.pc = "top", !.exp = 0, !.outcome = "none", !.base = NoAttempt.base]
    <3>1. run'.pc = "top" /\ ~run'.pending /\ ~run'.deferred
      BY <2>2, <2>4 DEF ShapeInv, Runs
    <3>2. LocalsInv'
      BY <3>1 DEF LocalsInv
    <3>3. BeginInv'
      BY <2>1, <3>1 DEF BeginInv
    <3> QED
      BY <3>1, <3>2, <3>3, PlaceNames, Arrived
  <2> QED
    BY <1>37, <2>3, <2>4 DEF ClearAttempt
<1>38. CASE ArchiveFailed
  <2>0. run.exp \in Exps /\ attempt.exp = run.exp /\ cand.exp = run.exp /\ Status = "running" /\ attempt.phase = "running" /\ metrics = attempt.before
    BY <1>38, PhaseNames DEF ArchiveFailed, At, PlacesInv, AttemptInv, Status
  <2>9. run.pending /\ UNCHANGED <<ledger, attempt.exp>>
    BY <1>38
    DEF ArchiveFailed, Archive, ArchiveFails, At, PlacesInv, LocalsInv, ShapeInv, Attempts
  <2>1. attempt'.exp # 0 /\ ~TerminalOutcome' /\ run.pending
    BY <2>0, <2>9 DEF TerminalOutcome, Scientific, Status, Exps
  <2>2. CASE Archive("fRevert")
    <3>1. run'.pc = "fRevert" /\ run'.exp = run.exp /\ run'.pending = run.pending
          /\ run'.deferred = run.deferred /\ run'.outcome = run.outcome
      BY <2>2, PlaceNames, GotoEffect DEF Same, Archive
    <3>2. LocalsInv'
      BY <1>38, <3>1 DEF ArchiveFailed, At, PlacesInv, LocalsInv
    <3>3. (run.exp \in Exps /\ attempt.exp = run.exp /\ cand.exp = run.exp /\ Status = "running" /\ attempt.phase = "running" /\ metrics = attempt.before)'
      BY <1>38, <2>0, <2>2, <3>1
      DEF ArchiveFailed, Status, Promoting, TerminalOutcome, Scientific, MetricsAgree, Accepted,
          Sci, Ready, Settled, NoneRunning, Archive
    <3> QED
      BY <3>1, <3>2, <3>3, PlaceNames, Arrived DEF AttemptInv, Status
  <2>3. CASE Throw(TRUE)
    BY <2>1, <2>3, ThrowArrived
  <2> QED
    BY <1>38, <2>2, <2>3 DEF ArchiveFailed
<1>39. CASE RevertFailed
  <2>0. run.exp \in Exps /\ attempt.exp = run.exp /\ cand.exp = run.exp /\ Status = "running" /\ attempt.phase = "running" /\ metrics = attempt.before
    BY <1>39, PhaseNames DEF RevertFailed, At, PlacesInv, AttemptInv, Status
  <2>7. run.pending /\ UNCHANGED <<ledger, attempt, live>>
    BY <1>39 DEF RevertFailed, At, PlacesInv, LocalsInv
  <2>9. /\ attempt'.exp # 0 /\ ~Promoting' /\ ~TerminalOutcome' /\ attempt'.phase = "running"
        /\ run.pending
    BY <2>0, <2>7 DEF Promoting, TerminalOutcome, Scientific, Status, Exps
  <2>1. CASE Goto("fDiscard")
    <3>1. run'.pc = "fDiscard" /\ run'.exp = run.exp /\ run'.pending = run.pending
          /\ run'.deferred = run.deferred /\ run'.outcome = run.outcome
      BY <2>1, PlaceNames, GotoEffect DEF Same
    <3>2. LocalsInv'
      BY <1>39, <3>1 DEF RevertFailed, At, PlacesInv, LocalsInv
    <3>3. (run.exp \in Exps /\ attempt.exp = run.exp /\ cand.exp = run.exp /\ Status = "running" /\ attempt.phase = "running" /\ metrics = attempt.before)'
      BY <1>39, <2>0, <2>1, <3>1, RevertedEffect, ThrownEffect
      DEF RevertFailed, Status, Promoting, TerminalOutcome, Scientific, MetricsAgree, Accepted,
          Sci, Ready, Settled, NoneRunning
    <3> QED
      BY <3>1, <3>2, <3>3, PlaceNames, Arrived DEF AttemptInv, Status
  <2>10. CASE RevertThrows(Reverted)
    BY <2>9, <2>10, RevertedEffect, ThrownEffect, ThrowArrived
  <2> QED
    BY <1>39, <2>1, <2>10 DEF RevertFailed
<1>40. CASE DiscardFailed
  <2>0. run.exp \in Exps /\ attempt.exp = run.exp /\ cand.exp = run.exp /\ Status = "running" /\ attempt.phase = "running" /\ metrics = attempt.before
    BY <1>40, PhaseNames DEF DiscardFailed, At, PlacesInv, AttemptInv, Status
  <2>1. CASE run' = [run EXCEPT !.pc = "fRecord", !.pending = FALSE]
    <3>1. run'.pc = "fRecord" /\ run'.exp = run.exp /\ ~run'.pending /\ run'.deferred = run.deferred
      BY <2>1 DEF ShapeInv, Runs
    <3>2. LocalsInv'
      BY <1>40, <3>1 DEF DiscardFailed, At, PlacesInv, LocalsInv
    <3>3. (run.exp \in Exps /\ attempt.exp = run.exp /\ attempt.phase = "running" /\ metrics = attempt.before /\ Status = "running")'
      BY <1>40, <2>0, <2>1, <3>1
      DEF DiscardFailed, Status, Promoting, TerminalOutcome, Scientific, MetricsAgree, Accepted,
          Sci, Ready, Settled, NoneRunning
    <3> QED
      BY <3>1, <3>2, <3>3, PlaceNames, Arrived DEF AttemptInv, Status
  <2> QED
    BY <1>40, <2>1 DEF DiscardFailed
<1>41. CASE RecordFailure
  <2>0. run.exp \in Exps /\ attempt.exp = run.exp /\ attempt.phase = "running" /\ metrics = attempt.before /\ Status = "running"
    BY <1>41, PhaseNames DEF RecordFailure, At, PlacesInv, AttemptInv, Status
  <2>1. CASE Goto("fDecide")
    <3>1. run'.pc = "fDecide" /\ run'.exp = run.exp /\ run'.pending = run.pending
          /\ run'.deferred = run.deferred /\ run'.outcome = run.outcome
      BY <2>1, PlaceNames, GotoEffect DEF Same
    <3>2. LocalsInv'
      BY <1>41, <3>1 DEF RecordFailure, At, PlacesInv, LocalsInv
    <3>3. (run.exp \in Exps /\ attempt.exp = run.exp /\ attempt.phase = "running" /\ metrics = attempt.before /\ Status = "planned")'
      <4>1. ledger'.status[run.exp] = "planned"
        BY <1>41, <2>0 DEF RecordFailure, ShapeInv, Ledgers
      <4> QED
        BY <1>41, <2>0, <3>1, <4>1 DEF RecordFailure, Status
    <3> QED
      BY <3>1, <3>2, <3>3, PlaceNames, Arrived DEF AttemptInv, Status
  <2> QED
    BY <1>41, <2>1 DEF RecordFailure
<1>42. CASE DecideFailure
  <2>0. run.exp \in Exps /\ attempt.exp = run.exp /\ attempt.phase = "running" /\ metrics = attempt.before /\ Status = "planned"
    BY <1>42, PhaseNames DEF DecideFailure, At, PlacesInv, AttemptInv, Status
  <2>8. attempt.exp \in Exps /\ Status = "planned" /\ Ready
    BY <2>0, GivenUp
  <2>9. \/ ledger' = ledger
        \/ /\ ledger'.status[run.exp] = "invalid" /\ ledger'.stalls = ledger.stalls
           /\ \A f \in Exps \ {run.exp} : ledger'.status[f] = ledger.status[f]
    BY <1>42, <2>0 DEF DecideFailure, ShapeInv, Ledgers
  <2>10. Accepted' = Accepted /\ Sci' = Sci
    BY <2>0, <2>8, <2>9, OutcomesKept DEF Status
  <2>11. Ready' /\ Status' \in {"planned", "invalid"}
    BY <1>42, <2>0, <2>8, <2>9, <2>10
    DEF DecideFailure, Ready, Settled, NoneRunning, MetricsAgree, Status
  <2>1. CASE run' = [run EXCEPT !.pc = "clear", !.outcome = "stop"]
    <3>1. run'.pc = "clear" /\ run'.exp = run.exp /\ run'.pending = run.pending /\ run'.deferred = run.deferred
      BY <2>1 DEF ShapeInv, Runs
    <3>2. LocalsInv'
      BY <1>42, <3>1 DEF DecideFailure, At, PlacesInv, LocalsInv
    <3>3. (Ready)'
      BY <2>11
    <3> QED
      BY <3>1, <3>2, <3>3, PlaceNames, Arrived DEF AttemptInv, Status
  <2>2. CASE run' = [run EXCEPT !.pc = "clear"]
    <3>1. run'.pc = "clear" /\ run'.exp = run.exp /\ run'.pending = run.pending /\ run'.deferred = run.deferred
      BY <2>2 DEF ShapeInv, Runs
    <3>2. LocalsInv'
      BY <1>42, <3>1 DEF DecideFailure, At, PlacesInv, LocalsInv
    <3>3. (Ready)'
      BY <2>11
    <3> QED
      BY <3>1, <3>2, <3>3, PlaceNames, Arrived DEF AttemptInv, Status
  <2>3. CASE run' = [run EXCEPT !.pc = "fReset"]
    <3>1. run'.pc = "fReset" /\ run'.exp = run.exp /\ run'.pending = run.pending /\ run'.deferred = run.deferred
      BY <2>3 DEF ShapeInv, Runs
    <3>2. LocalsInv'
      BY <1>42, <3>1 DEF DecideFailure, At, PlacesInv, LocalsInv
    <3>3. (run.exp \in Exps /\ attempt.exp = run.exp /\ attempt.phase = "running" /\ metrics = attempt.before /\ Status \in {"planned", "invalid"})'
      BY <1>42, <2>0, <2>3, <3>1, <2>11
      DEF DecideFailure, Status, Promoting, TerminalOutcome, Scientific, MetricsAgree, Accepted,
          Sci, Ready, Settled, NoneRunning
    <3> QED
      BY <3>1, <3>2, <3>3, PlaceNames, Arrived DEF AttemptInv, Status
  <2> QED
    BY <1>42, <2>1, <2>2, <2>3 DEF DecideFailure
<1>43. CASE ResetWindow
  <2>0. run.exp \in Exps /\ attempt.exp = run.exp /\ attempt.phase = "running" /\ metrics = attempt.before /\ Status \in {"planned", "invalid"}
    BY <1>43, PhaseNames DEF ResetWindow, At, PlacesInv, AttemptInv, Status
  <2>1. CASE Goto("clear")
    <3>1. run'.pc = "clear" /\ run'.exp = run.exp /\ run'.pending = run.pending
          /\ run'.deferred = run.deferred /\ run'.outcome = run.outcome
      BY <2>1, PlaceNames, GotoEffect DEF Same
    <3>2. LocalsInv'
      BY <1>43, <3>1 DEF ResetWindow, At, PlacesInv, LocalsInv
    <3>3. (Ready)'
      <4>1. Ready
        BY <2>0, GivenUp
      <4>2. ledger'.status = ledger.status /\ ledger'.stalls = ledger.stalls
        BY <1>43 DEF ResetWindow, ShapeInv, Ledgers
      <4> QED
        BY <1>43, <4>1, <4>2
        DEF ResetWindow, Ready, Settled, NoneRunning, MetricsAgree, Accepted, Sci, Scientific,
            Status
    <3> QED
      BY <3>1, <3>2, <3>3, PlaceNames, Arrived DEF AttemptInv, Status
  <2> QED
    BY <1>43, <2>1 DEF ResetWindow
<1>44. CASE RollbackOnExit
  <2>0. (run.pending => attempt.exp # 0) /\ (run.deferred \/ ((Promoting => TerminalOutcome) /\ attempt.phase # "quarantined"))
        /\ (TerminalOutcome => MetricsAgree)
    BY <1>44, PhaseNames DEF RollbackOnExit, At, PlacesInv, FinallyInv, Status
  <2>1. CASE run.deferred /\ Goto("stop")
    <3>1. run'.pc = "stop" /\ run'.exp = run.exp /\ run'.pending = run.pending
          /\ run'.deferred = run.deferred /\ run'.outcome = run.outcome
      BY <2>1, PlaceNames, GotoEffect DEF Same
    <3>2. LocalsInv'
      BY <1>44, <3>1 DEF RollbackOnExit, At, PlacesInv, LocalsInv
    <3> QED
      BY <3>1, <3>2, PlaceNames, Arrived
  <2>2. CASE ~run.deferred /\ Goto("finalize") /\ UNCHANGED attempt
    <3>1. run'.pc = "finalize" /\ run'.exp = run.exp /\ run'.pending = run.pending
          /\ run'.deferred = run.deferred /\ run'.outcome = run.outcome
      BY <2>2, PlaceNames, GotoEffect DEF Same
    <3>2. LocalsInv'
      BY <1>44, <3>1 DEF RollbackOnExit, At, PlacesInv, LocalsInv
    <3>3. ((Promoting => TerminalOutcome) /\ attempt.phase # "quarantined" /\ (TerminalOutcome => MetricsAgree))'
      BY <1>44, <2>0, <2>2, <3>1
      DEF RollbackOnExit, Status, Promoting, TerminalOutcome, Scientific, MetricsAgree,
          Accepted, Sci, Ready, Settled, NoneRunning
    <3> QED
      BY <3>1, <3>2, <3>3, PlaceNames, Arrived DEF FinallyInv
  <2>3. CASE ~run.deferred /\ run.pending /\ ~TerminalOutcome /\ Archive("zRevert")
    <3>1. run'.pc = "zRevert" /\ run'.exp = run.exp /\ run'.pending = run.pending
          /\ run'.deferred = run.deferred /\ run'.outcome = run.outcome
      BY <2>3, PlaceNames, GotoEffect DEF Same, Archive
    <3>2. LocalsInv'
      BY <1>44, <3>1 DEF RollbackOnExit, At, PlacesInv, LocalsInv
    <3>3. (attempt.exp # 0 /\ attempt.phase = "running" /\ ~TerminalOutcome)'
      <4>1. attempt.exp # 0 /\ attempt.phase = "running"
        BY <2>0, <2>3, PhaseNames DEF Promoting, DurableInv, OpenInv
      <4> QED
        BY <1>44, <2>3, <4>1 DEF RollbackOnExit, Archive, TerminalOutcome, Scientific
    <3> QED
      BY <3>1, <3>2, <3>3, PlaceNames, Arrived DEF FinallyInv
  <2>4. CASE \E why \in Exits : StopWith(why)
    BY <2>4, StopArrived
  <2> QED
    BY <1>44, <2>1, <2>2, <2>3, <2>4, OtherNames DEF RollbackOnExit
<1>45. CASE RevertOnExit
  <2>0. attempt.exp # 0 /\ attempt.phase = "running" /\ ~TerminalOutcome
    BY <1>45, PhaseNames DEF RevertOnExit, At, PlacesInv, FinallyInv, Status
  <2>1. CASE Goto("finalize")
    <3>1. run'.pc = "finalize" /\ run'.exp = run.exp /\ run'.pending = run.pending
          /\ run'.deferred = run.deferred /\ run'.outcome = run.outcome
      BY <2>1, PlaceNames, GotoEffect DEF Same
    <3>2. LocalsInv'
      BY <1>45, <3>1 DEF RevertOnExit, At, PlacesInv, LocalsInv
    <3>4. UNCHANGED attempt
      BY <1>45, <3>1 DEF RevertOnExit, StopWith, ShapeInv, Runs
    <3>3. ((Promoting => TerminalOutcome) /\ attempt.phase # "quarantined" /\ (TerminalOutcome => MetricsAgree))'
      BY <1>45, <2>0, <3>4
      DEF RevertOnExit, Status, Promoting, TerminalOutcome, Scientific, MetricsAgree, Accepted,
          Sci, Ready, Settled, NoneRunning
    <3> QED
      BY <3>1, <3>2, <3>3, PlaceNames, Arrived DEF FinallyInv
  <2>2. CASE StopWith("error")
    BY <2>2, OtherNames, StopArrived
  <2> QED
    BY <1>45, <2>1, <2>2 DEF RevertOnExit
<1>46. CASE FinalizeOnExit
  <2>0. (Promoting => TerminalOutcome) /\ attempt.phase # "quarantined" /\ (TerminalOutcome => MetricsAgree)
    BY <1>46, PhaseNames DEF FinalizeOnExit, At, PlacesInv, FinallyInv, Status
  <2>1. CASE TerminalOutcome /\ Goto("zCount") /\ UNCHANGED metrics
    <3>1. run'.pc = "zCount" /\ run'.exp = run.exp /\ run'.pending = run.pending
          /\ run'.deferred = run.deferred /\ run'.outcome = run.outcome
      BY <2>1, PlaceNames, GotoEffect DEF Same
    <3>2. LocalsInv'
      BY <1>46, <3>1 DEF FinalizeOnExit, At, PlacesInv, LocalsInv
    <3>3. (TerminalOutcome /\ MetricsAgree)'
      BY <1>46, <2>0, <2>1, <3>1
      DEF FinalizeOnExit, Status, Promoting, TerminalOutcome, Scientific, MetricsAgree,
          Accepted, Sci, Ready, Settled, NoneRunning
    <3> QED
      BY <3>1, <3>2, <3>3, PlaceNames, Arrived DEF FinallyInv
  <2>2. CASE ~TerminalOutcome /\ Goto("zReconcile")
    <3>1. run'.pc = "zReconcile" /\ run'.exp = run.exp /\ run'.pending = run.pending
          /\ run'.deferred = run.deferred /\ run'.outcome = run.outcome
      BY <2>2, PlaceNames, GotoEffect DEF Same
    <3>2. LocalsInv'
      BY <1>46, <3>1 DEF FinalizeOnExit, At, PlacesInv, LocalsInv
    <3>3. (attempt.exp # 0 =>
        attempt.phase = "running" /\ ~TerminalOutcome /\ metrics = attempt.before)'
      <4>1. attempt.exp # 0 => attempt.phase = "running"
        BY <2>0, <2>2, PhaseNames DEF Promoting, DurableInv, OpenInv
      <4> QED
        BY <1>46, <2>2, <4>1 DEF FinalizeOnExit, TerminalOutcome, Scientific
    <3> QED
      BY <3>1, <3>2, <3>3, PlaceNames, Arrived DEF FinallyInv
  <2> QED
    BY <1>46, <2>1, <2>2 DEF FinalizeOnExit
<1>47. CASE CountOnExit
  <2>0. TerminalOutcome /\ MetricsAgree
    BY <1>47, PhaseNames DEF CountOnExit, At, PlacesInv, FinallyInv, Status
  <2>1. CASE Goto("zDiscard")
    <3>1. run'.pc = "zDiscard" /\ run'.exp = run.exp /\ run'.pending = run.pending
          /\ run'.deferred = run.deferred /\ run'.outcome = run.outcome
      BY <2>1, PlaceNames, GotoEffect DEF Same
    <3>2. LocalsInv'
      BY <1>47, <3>1 DEF CountOnExit, At, PlacesInv, LocalsInv
    <3>3. (Ready)'
      <4>1. session'.iteration = Iterations(attempt.iteration)
        BY <1>47 DEF CountOnExit, ShapeInv, Sessions
      <4>2. Iterations(attempt.iteration) = Cardinality(Sci)
        BY <2>0, SciFinite DEF DurableInv, DecidedInv, Iterations
      <4>3. attempt.exp # 0 /\ Settled /\ NoneRunning /\ MetricsAgree
        BY <2>0, OutcomeSettles
      <4> QED
        BY <1>47, <4>1, <4>2, <4>3
        DEF CountOnExit, Ready, Settled, NoneRunning, MetricsAgree, Accepted, Sci, Scientific,
            Status
    <3> QED
      BY <3>1, <3>2, <3>3, PlaceNames, Arrived DEF FinallyInv
  <2> QED
    BY <1>47, <2>1 DEF CountOnExit
<1>48. CASE ReconcileOnExit
  <2>0. attempt.exp # 0 =>
        attempt.phase = "running" /\ ~TerminalOutcome /\ metrics = attempt.before
    BY <1>48, PhaseNames DEF ReconcileOnExit, At, PlacesInv, FinallyInv, Status
  <2>1. CASE attempt.exp = 0 /\ Goto("stop")
    <3>1. run'.pc = "stop" /\ run'.exp = run.exp /\ run'.pending = run.pending
          /\ run'.deferred = run.deferred /\ run'.outcome = run.outcome
      BY <2>1, PlaceNames, GotoEffect DEF Same
    <3>2. LocalsInv'
      BY <1>48, <3>1 DEF ReconcileOnExit, At, PlacesInv, LocalsInv
    <3> QED
      BY <3>1, <3>2, PlaceNames, Arrived
  <2>2. CASE attempt.exp # 0 /\ Goto("zDiscard")
    <3>1. run'.pc = "zDiscard" /\ run'.exp = run.exp /\ run'.pending = run.pending
          /\ run'.deferred = run.deferred /\ run'.outcome = run.outcome
      BY <2>2, PlaceNames, GotoEffect DEF Same
    <3>2. LocalsInv'
      BY <1>48, <3>1 DEF ReconcileOnExit, At, PlacesInv, LocalsInv
    <3>3. (Ready)'
      BY <1>48, <2>0, <2>2, NoneLeftRunning DEF ReconcileOnExit
    <3> QED
      BY <3>1, <3>2, <3>3, PlaceNames, Arrived DEF FinallyInv
  <2> QED
    BY <1>48, <2>1, <2>2 DEF ReconcileOnExit
<1>49. CASE DiscardOnExit
  <2>0. Ready
    BY <1>49, PhaseNames DEF DiscardOnExit, At, PlacesInv, FinallyInv, Status
  <2>1. CASE \E why \in Exits : StopWith(why)
    BY <2>1, StopArrived
  <2>2. CASE Goto("zClear")
    <3>1. run'.pc = "zClear" /\ run'.exp = run.exp /\ run'.pending = run.pending
          /\ run'.deferred = run.deferred /\ run'.outcome = run.outcome
      BY <2>2, PlaceNames, GotoEffect DEF Same
    <3>2. LocalsInv'
      BY <1>49, <3>1 DEF DiscardOnExit, At, PlacesInv, LocalsInv
    <3>3. (Ready)'
      BY <1>49, <2>0, <2>2, <3>1
      DEF DiscardOnExit, Status, Promoting, TerminalOutcome, Scientific, MetricsAgree, Accepted,
          Sci, Ready, Settled, NoneRunning
    <3> QED
      BY <3>1, <3>2, <3>3, PlaceNames, Arrived DEF FinallyInv
  <2> QED
    BY <1>49, <2>1, <2>2, OtherNames DEF DiscardOnExit
<1>50. CASE ClearOnExit
  <2>0. Ready
    BY <1>50, PhaseNames DEF ClearOnExit, At, PlacesInv, FinallyInv, Status
  <2>1. CASE Goto("stop")
    <3>1. run'.pc = "stop" /\ run'.exp = run.exp /\ run'.pending = run.pending
          /\ run'.deferred = run.deferred /\ run'.outcome = run.outcome
      BY <2>1, PlaceNames, GotoEffect DEF Same
    <3>2. LocalsInv'
      BY <1>50, <3>1 DEF ClearOnExit, At, PlacesInv, LocalsInv
    <3> QED
      BY <3>1, <3>2, PlaceNames, Arrived
  <2> QED
    BY <1>50, <2>1 DEF ClearOnExit
<1>51. CASE ExitPhase
  BY <1>51, IdleArrived DEF ExitPhase
<1>52. CASE Kill
  BY <1>52, IdleArrived DEF Kill
<1>53. CASE Cancel
  <2>1. UNCHANGED <<run, ledger, metrics, attempt, cand, archives, live.has,
                    session.iteration>>
    BY <1>53 DEF Cancel, ShapeInv, Sessions
  <2> QED
    BY <2>1, PlacesKept
<1>54. CASE EditLive
  <2>1. UNCHANGED <<run, ledger, metrics, attempt, cand, archives, live.has,
                    session.iteration>>
    BY <1>54 DEF EditLive, ShapeInv, Checkouts
  <2> QED
    BY <2>1, PlacesKept
<1>55. CASE CleanLive
  <2>1. UNCHANGED <<run, ledger, metrics, attempt, cand, archives, live.has,
                    session.iteration>>
    BY <1>55 DEF CleanLive, ShapeInv, Checkouts
  <2> QED
    BY <2>1, PlacesKept
<1>56. CASE CommitLive
  <2>1. UNCHANGED <<run, ledger, metrics, attempt, cand, archives, live.has,
                    session.iteration>>
    BY <1>56 DEF CommitLive, ShapeInv, Checkouts
  <2> QED
    BY <2>1, PlacesKept
<1>57. CASE UNCHANGED vars
  BY <1>57, PlacesKept DEF vars
<1> QED
  BY <1>1, <1>2, <1>3, <1>4, <1>5, <1>6, <1>7, <1>8, <1>9, <1>10, <1>11, <1>12, <1>13, <1>14,
     <1>15, <1>16, <1>17, <1>18, <1>19, <1>20, <1>21, <1>22, <1>23, <1>24, <1>25, <1>26, <1>27,
     <1>28, <1>29, <1>30, <1>31, <1>32, <1>33, <1>34, <1>35, <1>36, <1>37, <1>38, <1>39, <1>40,
     <1>41, <1>42, <1>43, <1>44, <1>45, <1>46, <1>47, <1>48, <1>49, <1>50, <1>51, <1>52, <1>53,
     <1>54, <1>55, <1>56, <1>57 DEF Next, Process, Startup, Iteration, Finally, Environment

-----------------------------------------------------------------------------
(* The evidence of an attempt.                                             *)

(* The positions that rely on evidence are reached along one path.         *)
LEMMA EvidenceReached ==
  ASSUME ShapeInv, [Next]_vars, run'.pc \in {"measure", "revert", "record", "pending", "complete"}
  PROVE  \/ ArchiveCandidate \/ Measure \/ RevertHeld \/ RecordMetric \/ MarkPromoted
         \/ UNCHANGED <<run, cand, archives, measured>>
<1>1. CASE Start
  BY <1>1, GotoEffect, PlaceNames DEF Start, Same, ShapeInv, Runs
<1>2. CASE ResetWorkerFailures
  BY <1>2, GotoEffect, PlaceNames DEF ResetWorkerFailures, Same, ShapeInv, Runs
<1>3. CASE RecoverIdentity
  BY <1>3, StopEffect, PlaceNames, OtherNames DEF RecoverIdentity, Same, ShapeInv, Runs
<1>4. CASE RecoverDecide
  BY <1>4, GotoEffect, StopEffect, PlaceNames, OtherNames
  DEF RecoverDecide, RecoveryBranch, Same, ShapeInv, Runs
<1>5. CASE RecoverPromote
  BY <1>5, GotoEffect, StopEffect, PlaceNames, OtherNames
  DEF RecoverPromote, Same, ShapeInv, Runs
<1>6. CASE RecoverMark
  BY <1>6, GotoEffect, PlaceNames DEF RecoverMark, Same, ShapeInv, Runs
<1>7. CASE RecoverComplete
  BY <1>7, GotoEffect, PlaceNames DEF RecoverComplete, Same, ShapeInv, Runs
<1>8. CASE RecoverMetrics
  BY <1>8, GotoEffect, PlaceNames DEF RecoverMetrics, Same, ShapeInv, Runs
<1>9. CASE RecoverCount
  BY <1>9, GotoEffect, PlaceNames DEF RecoverCount, Same, ShapeInv, Runs
<1>10. CASE RecoverArchive
  BY <1>10, StopEffect, GotoEffect, PlaceNames, OtherNames
  DEF RecoverArchive, Archive, Same, ShapeInv, Runs
<1>11. CASE RecoverRemove
  BY <1>11, GotoEffect, PlaceNames DEF RecoverRemove, Same, ShapeInv, Runs
<1>12. CASE RecoverRestore
  BY <1>12, GotoEffect, PlaceNames DEF RecoverRestore, Same, ShapeInv, Runs
<1>13. CASE RecoverReconcile
  BY <1>13, GotoEffect, PlaceNames DEF RecoverReconcile, Same, ShapeInv, Runs
<1>14. CASE RecoverDiscard
  BY <1>14, GotoEffect, PlaceNames DEF RecoverDiscard, Same, ShapeInv, Runs
<1>15. CASE RecoverClear
  BY <1>15, GotoEffect, PlaceNames DEF RecoverClear, Same, ShapeInv, Runs
<1>16. CASE ReconcileRunning
  BY <1>16, GotoEffect, StopEffect, PlaceNames, OtherNames
  DEF ReconcileRunning, Same, ShapeInv, Runs
<1>17. CASE LoopTop
  BY <1>17, BreakEffect, ThrowEffect, PlaceNames, OtherNames DEF LoopTop, Same, ShapeInv, Runs
<1>18. CASE PlanExperiment
  BY <1>18, GotoEffect, PlaceNames DEF PlanExperiment, Same, ShapeInv, Runs
<1>19. CASE StartExperiment
  BY <1>19, GotoEffect, PlaceNames DEF StartExperiment, Same, ShapeInv, Runs
<1>20. CASE CreateCandidate
  BY <1>20, ThrowEffect, PlaceNames, OtherNames DEF CreateCandidate, Same, ShapeInv, Runs
<1>21. CASE WriteAttempt
  BY <1>21 DEF WriteAttempt, ShapeInv, Runs
<1>22. CASE WorkerEnds
  BY <1>22, GotoEffect, BreakEffect, PlaceNames, OtherNames DEF WorkerEnds, Same, ShapeInv, Runs
<1>23. CASE AdoptPlan
  BY <1>23, GotoEffect, PlaceNames DEF AdoptPlan, Same, ShapeInv, Runs
<1>24. CASE EnforceScope
  BY <1>24, GotoEffect, ThrowEffect, PlaceNames, OtherNames
  DEF EnforceScope, RevertThrows, Same, ShapeInv, Runs
<1>25. CASE Remeasure
  BY <1>25, ThrowEffect, PlaceNames, OtherNames
  DEF Remeasure, RevertThrows, Same, ShapeInv, Runs
<1>26. CASE PersistPending
  BY <1>26, GotoEffect, PlaceNames DEF PersistPending, Same, ShapeInv, Runs
<1>27. CASE Promote
  BY <1>27, GotoEffect, ThrowEffect, PlaceNames, OtherNames DEF Promote, Same, ShapeInv, Runs
<1>28. CASE DeferPromotion
  BY <1>28 DEF DeferPromotion, ShapeInv, Runs
<1>29. CASE CompleteExperiment
  BY <1>29, GotoEffect, PlaceNames DEF CompleteExperiment, Same, ShapeInv, Runs
<1>30. CASE DiscardCandidate
  BY <1>30, ThrowEffect, PlaceNames, OtherNames DEF DiscardCandidate, Same, ShapeInv, Runs
<1>31. CASE CountIteration
  BY <1>31, GotoEffect, ThrowEffect, PlaceNames, OtherNames
  DEF CountIteration, Same, ShapeInv, Runs
<1>32. CASE ClearAttempt
  BY <1>32, BreakEffect, PlaceNames, OtherNames DEF ClearAttempt, Same, ShapeInv, Runs
<1>33. CASE ArchiveFailed
  BY <1>33, ThrowEffect, GotoEffect, PlaceNames, OtherNames
  DEF ArchiveFailed, Archive, Same, ShapeInv, Runs
<1>34. CASE RevertFailed
  BY <1>34, GotoEffect, ThrowEffect, PlaceNames, OtherNames
  DEF RevertFailed, RevertThrows, Same, ShapeInv, Runs
<1>35. CASE DiscardFailed
  BY <1>35 DEF DiscardFailed, ShapeInv, Runs
<1>36. CASE RecordFailure
  BY <1>36, GotoEffect, PlaceNames DEF RecordFailure, Same, ShapeInv, Runs
<1>37. CASE DecideFailure
  BY <1>37 DEF DecideFailure, ShapeInv, Runs
<1>38. CASE ResetWindow
  BY <1>38, GotoEffect, PlaceNames DEF ResetWindow, Same, ShapeInv, Runs
<1>39. CASE RollbackOnExit
  BY <1>39, GotoEffect, StopEffect, PlaceNames, OtherNames
  DEF RollbackOnExit, Archive, Same, ShapeInv, Runs
<1>40. CASE RevertOnExit
  BY <1>40, GotoEffect, StopEffect, PlaceNames, OtherNames
  DEF RevertOnExit, Same, ShapeInv, Runs
<1>41. CASE FinalizeOnExit
  BY <1>41, GotoEffect, PlaceNames DEF FinalizeOnExit, Same, ShapeInv, Runs
<1>42. CASE CountOnExit
  BY <1>42, GotoEffect, PlaceNames DEF CountOnExit, Same, ShapeInv, Runs
<1>43. CASE ReconcileOnExit
  BY <1>43, GotoEffect, PlaceNames DEF ReconcileOnExit, Same, ShapeInv, Runs
<1>44. CASE DiscardOnExit
  BY <1>44, GotoEffect, StopEffect, PlaceNames, OtherNames
  DEF DiscardOnExit, Same, ShapeInv, Runs
<1>45. CASE ClearOnExit
  BY <1>45, GotoEffect, PlaceNames DEF ClearOnExit, Same, ShapeInv, Runs
<1>46. CASE ExitPhase
  BY <1>46 DEF ExitPhase, Idle
<1>47. CASE Kill
  BY <1>47 DEF Kill, Idle
<1>48. CASE Cancel \/ EditLive \/ CleanLive \/ CommitLive \/ UNCHANGED vars
  BY <1>48 DEF Cancel, EditLive, CleanLive, CommitLive, vars
<1> QED
  BY <1>1, <1>2, <1>3, <1>4, <1>5, <1>6, <1>7, <1>8, <1>9, <1>10, <1>11, <1>12, <1>13, <1>14,
     <1>15, <1>16, <1>17, <1>18, <1>19, <1>20, <1>21, <1>22, <1>23, <1>24, <1>25, <1>26, <1>27,
     <1>28, <1>29, <1>30, <1>31, <1>32, <1>33, <1>34, <1>35, <1>36, <1>37, <1>38, <1>39, <1>40,
     <1>41, <1>42, <1>43, <1>44, <1>45, <1>46, <1>47, <1>48
  DEF Next, Process, Startup, Iteration, Finally, Environment

LEMMA EvidenceStep ==
  ShapeInv /\ PlacesInv /\ EvidenceInv /\ [Next]_vars => EvidenceInv'
<1> SUFFICES ASSUME ShapeInv, PlacesInv, EvidenceInv, [Next]_vars,
                    run'.pc \in {"measure", "revert", "record", "pending", "complete"}
             PROVE  EvidenceInv'
  BY DEF EvidenceInv
<1>1. CASE ArchiveCandidate
  <2>1. attempt.exp = run.exp /\ run.exp \in Exps
    BY <1>1 DEF ArchiveCandidate, At, PlacesInv, AttemptInv, WorkPlaces
  <2>2. CASE Archive("measure")
    <3>1. run'.pc = "measure" /\ run'.exp = run.exp
      BY <2>2, GotoEffect, PlaceNames DEF Archive, Same
    <3>2. archives'[run.exp] = cand.work /\ cand' = cand
      BY <1>1, <2>1, <2>2 DEF ArchiveCandidate, Archive, ShapeInv, Archives
    <3> QED
      BY <3>1, <3>2 DEF EvidenceInv
  <2>3. CASE Throw(TRUE)
    BY <2>3, ThrowEffect DEF Same
  <2> QED
    BY <1>1, <2>2, <2>3 DEF ArchiveCandidate
<1>2. CASE Measure
  <2>1. archives[run.exp] = cand.work /\ archives' = archives /\ measured' = cand.work /\ cand' = cand
    BY <1>2 DEF Measure, At, EvidenceInv
  <2>2. run'.exp = run.exp /\ run'.pc \notin {"measure", "pending"}
        /\ (run'.pc = "revert" => run'.outcome # "improved")
    BY <1>2 DEF Measure, Goto, ShapeInv, Runs
  <2> QED
    BY <2>1, <2>2 DEF EvidenceInv
<1>3. CASE RevertHeld
  <2>1. run'.pc = "record" /\ run'.exp = run.exp /\ run'.outcome = run.outcome
    BY <1>3, GotoEffect, ThrowEffect, PlaceNames DEF RevertHeld, RevertThrows, Same
  <2> QED
    BY <1>3, <2>1 DEF RevertHeld, At, EvidenceInv
<1>4. CASE RecordMetric
  <2>1. /\ run'.exp = run.exp /\ run'.outcome = run.outcome
        /\ run'.pc = IF run.outcome = "improved" THEN "pending" ELSE "complete"
    BY <1>4, GotoEffect, PlaceNames DEF RecordMetric, Same
  <2> QED
    BY <1>4, <2>1 DEF RecordMetric, At, EvidenceInv
<1>5. CASE MarkPromoted
  <2>1. run.outcome = "improved"
    BY <1>5 DEF MarkPromoted, At, PlacesInv, AttemptInv
  <2>2. run'.outcome = "improved" /\ run'.pc \in {"complete", "rollback"}
    BY <1>5, <2>1, GotoEffect, ThrowEffect, PlaceNames DEF MarkPromoted, Same
  <2> QED
    BY <2>2 DEF EvidenceInv
<1>6. CASE UNCHANGED <<run, cand, archives, measured>>
  BY <1>6 DEF EvidenceInv
<1> QED
  BY <1>1, <1>2, <1>3, <1>4, <1>5, <1>6, EvidenceReached

-----------------------------------------------------------------------------
(* The theorems.                                                           *)

Inv == ShapeInv /\ DurableInv /\ PlacesInv /\ EvidenceInv

LEMMA InitInv == Init => Inv
<1> SUFFICES ASSUME Init PROVE Inv
  OBVIOUS
<1>1. ShapeInv
  <2>1. ledger \in Ledgers
    BY DEF Init, Ledgers, Statuses
  <2>2. archives \in Archives
    <3>1. NoArchive \in (SUBSET Parts) \cup {NoArchive}
      OBVIOUS
    <3> QED
      BY <3>1 DEF Init, Archives
  <2>3. metrics \in Metrics /\ live \in Checkouts /\ session \in Sessions
    BY DEF Init, Metrics, Checkouts, Sessions, Exits
  <2> QED
    BY <2>1, <2>2, <2>3, IdleTyped, NoCandTyped DEF Init, ShapeInv
<1>2. Accepted = {} /\ Sci = {} /\ \A e \in Exps : ledger.status[e] = "none"
  BY DEF Init, Accepted, Sci, Scientific
<1>3. Cardinality({}) = 0
  BY FS_EmptySet
<1>4. attempt.exp = 0 /\ attempt.phase = "none" /\ ~TerminalOutcome
  BY DEF Init, NoAttempt, TerminalOutcome
<1>5. MetricsAgree /\ session.iteration = Cardinality(Sci) /\ live.has \subseteq Accepted
  BY <1>2, <1>3 DEF Init, MetricsAgree, Agrees, IsBest
<1>6. DurableInv
  BY <1>2, <1>4, <1>5 DEF DurableInv, Ordered, DeliveredInv, ClosedInv, OpenInv, UndecidedInv, DecidedInv
<1>7. run.pc = "down" /\ ~run.pending /\ ~run.deferred
  BY DEF Init, Idle
<1>8. LocalsInv /\ EvidenceInv
  BY <1>7 DEF LocalsInv, EvidenceInv, WorkPlaces
<1>9. RecoverInv /\ BeginInv /\ FinallyInv
  BY <1>7 DEF RecoverInv, BeginInv, FinallyInv
<1>10. AttemptInv
  BY <1>7 DEF AttemptInv, WorkPlaces
<1> QED
  BY <1>1, <1>6, <1>8, <1>9, <1>10 DEF Inv, PlacesInv

LEMMA InvHolds == Spec => []Inv
<1>1. Inv /\ [Next]_vars => Inv'
  BY ShapeStep, DurableStep, PlacesStep, EvidenceStep DEF Inv
<1> QED
  BY <1>1, InitInv, PTL DEF Spec

(* Every file and every local keeps its shape, whatever is killed, thrown  *)
(* or edited.                                                              *)
THEOREM ShapeKept == Spec => []ShapeInv
<1>1. Inv => ShapeInv
  BY DEF Inv
<1> QED
  BY <1>1, InvHolds, PTL

(* persistMicroversePromotion, promoteMicroverseCandidate and              *)
(* completeExperiment write three places in this order: what the ledger    *)
(* accepts with a diff is in the operator's history, and what is in the    *)
(* history is accepted or a promotion on record.                           *)
THEOREM PromotionIsRecorded == Spec => []PromotionRecorded
<1>1. Inv => PromotionRecorded
  <2> SUFFICES ASSUME Inv, NEW e \in live.has \ Accepted
               PROVE  attempt.exp = e /\ Promoting
    BY DEF PromotionRecorded, Promoting, Inv, DurableInv, DeliveredInv
  <2>1. attempt.exp # 0
    BY DEF Inv, DurableInv, ClosedInv
  <2>2. attempt.exp = e /\ (Promoting \/ Status = "accepted")
    BY <2>1 DEF Inv, DurableInv, OpenInv
  <2>3. attempt.exp \in Exps
    BY <2>1 DEF Inv, ShapeInv, Attempts, Exps
  <2> QED
    BY <2>2, <2>3 DEF Accepted, Status
<1> QED
  BY <1>1, InvHolds, PTL

LEMMA BestChosen ==
  ASSUME NEW A \in SUBSET Exps, NEW b, IsBest(b, A)
  PROVE  b = IF A = {} THEN 0 ELSE CHOOSE e \in A : \A f \in A : f <= e
<1>1. CASE A = {}
  BY <1>1 DEF IsBest
<1>2. CASE A # {}
  <2> DEFINE c == CHOOSE e \in A : \A f \in A : f <= e
  <2>1. b \in A /\ \A f \in A : f <= b
    BY <1>2 DEF IsBest
  <2>2. c \in A /\ \A f \in A : f <= c
    BY <2>1
  <2> HIDE DEF c
  <2>3. b <= c /\ c <= b
    BY <2>1, <2>2
  <2>4. b \in Int /\ c \in Int
    BY <2>1, <2>2 DEF Exps
  <2>5. b = c
    BY <2>3, <2>4
  <2> QED
    BY <1>2, <2>5 DEF c
<1> QED
  BY <1>1, <1>2

(* finalizeMicroverseAttemptOnExit and recoverInterruptedMicroverseAttempt *)
(* write the metric file, state.json and the ledger apart: they agree      *)
(* whenever no attempt is open.                                            *)
THEOREM LedgersAgree == Spec => []LedgerAgrees
<1>1. Inv => LedgerAgrees
  <2> SUFFICES ASSUME Inv, Quiet PROVE LedgerAgrees
    BY DEF LedgerAgrees
  <2>1. MetricsAgree /\ session.iteration = Cardinality(Sci)
    BY DEF Inv, DurableInv, ClosedInv, Quiet
  <2>2. /\ metrics.gain = Cardinality(Accepted) /\ metrics.stall = ledger.stalls
        /\ IsBest(metrics.best, Accepted)
    BY <2>1 DEF MetricsAgree, Agrees
  <2>3. Accepted \in SUBSET Exps
    BY DEF Accepted
  <2>4. metrics.best = IF Accepted = {} THEN 0
                       ELSE CHOOSE e \in Accepted : \A f \in Accepted : f <= e
    BY <2>2, <2>3, BestChosen
  <2> QED
    BY <2>1, <2>2, <2>4 DEF LedgerAgrees, Sci
<1> QED
  BY <1>1, InvHolds, PTL

(* Who writes the ledger, and who writes an archive.                       *)
LEMMA LedgerWriters ==
  ASSUME [Next]_vars
  PROVE  \/ ledger' = ledger
         \/ ResetWorkerFailures \/ RecoverComplete \/ RecoverReconcile
         \/ ReconcileRunning \/ PlanExperiment \/ StartExperiment
         \/ CompleteExperiment \/ RecordFailure \/ DecideFailure \/ ResetWindow
         \/ ReconcileOnExit
<1>1. CASE Start \/ RecoverIdentity \/ RecoverDecide \/ RecoverPromote \/ RecoverMark
         \/ RecoverMetrics
  BY <1>1 DEF Start, RecoverIdentity, RecoverDecide, RecoverPromote, RecoverMark, RecoverMetrics
<1>2. CASE RecoverCount \/ RecoverArchive \/ RecoverRemove \/ RecoverRestore
         \/ RecoverDiscard \/ RecoverClear
  BY <1>2
  DEF RecoverCount, RecoverArchive, RecoverRemove, RecoverRestore, RecoverDiscard, RecoverClear
<1>3. CASE LoopTop \/ CreateCandidate \/ WriteAttempt \/ WorkerEnds \/ AdoptPlan
         \/ EnforceScope
  BY <1>3 DEF LoopTop, CreateCandidate, WriteAttempt, WorkerEnds, AdoptPlan, EnforceScope
<1>4. CASE ArchiveCandidate \/ Measure \/ RevertHeld \/ RecordMetric \/ Remeasure
         \/ PersistPending
  BY <1>4 DEF ArchiveCandidate, Measure, RevertHeld, RecordMetric, Remeasure, PersistPending
<1>5. CASE Promote \/ DeferPromotion \/ MarkPromoted \/ DiscardCandidate
         \/ CountIteration \/ ClearAttempt
  BY <1>5
  DEF Promote, DeferPromotion, MarkPromoted, DiscardCandidate, CountIteration, ClearAttempt
<1>6. CASE ArchiveFailed \/ RevertFailed \/ DiscardFailed \/ RollbackOnExit
         \/ RevertOnExit \/ FinalizeOnExit
  BY <1>6
  DEF ArchiveFailed, RevertFailed, DiscardFailed, RollbackOnExit, RevertOnExit, FinalizeOnExit
<1>7. CASE CountOnExit \/ DiscardOnExit \/ ClearOnExit \/ ExitPhase \/ Kill \/ Cancel
  BY <1>7 DEF CountOnExit, DiscardOnExit, ClearOnExit, ExitPhase, Kill, Cancel
<1>8. CASE EditLive \/ CleanLive \/ CommitLive
  BY <1>8 DEF EditLive, CleanLive, CommitLive
<1>9. CASE UNCHANGED vars
  BY <1>9 DEF vars
<1> QED
  BY <1>1, <1>2, <1>3, <1>4, <1>5, <1>6, <1>7, <1>8, <1>9
  DEF Next, Process, Startup, Iteration, Finally, Environment

LEMMA ArchiveWriters ==
  ASSUME [Next]_vars
  PROVE  \/ archives' = archives
         \/ RecoverArchive \/ ArchiveCandidate \/ ArchiveFailed \/ RollbackOnExit
<1>1. CASE Start \/ ResetWorkerFailures \/ RecoverIdentity \/ RecoverDecide
         \/ RecoverPromote \/ RecoverMark
  BY <1>1
  DEF Start, ResetWorkerFailures, RecoverIdentity, RecoverDecide, RecoverPromote, RecoverMark
<1>2. CASE RecoverComplete \/ RecoverMetrics \/ RecoverCount \/ RecoverRemove
         \/ RecoverRestore \/ RecoverReconcile
  BY <1>2
  DEF RecoverComplete, RecoverMetrics, RecoverCount, RecoverRemove, RecoverRestore,
      RecoverReconcile
<1>3. CASE RecoverDiscard \/ RecoverClear \/ ReconcileRunning \/ LoopTop
         \/ PlanExperiment \/ StartExperiment
  BY <1>3
  DEF RecoverDiscard, RecoverClear, ReconcileRunning, LoopTop, PlanExperiment, StartExperiment
<1>4. CASE CreateCandidate \/ WriteAttempt \/ WorkerEnds \/ AdoptPlan \/ EnforceScope
         \/ Measure
  BY <1>4 DEF CreateCandidate, WriteAttempt, WorkerEnds, AdoptPlan, EnforceScope, Measure
<1>5. CASE RevertHeld \/ RecordMetric \/ Remeasure \/ PersistPending \/ Promote
         \/ DeferPromotion
  BY <1>5 DEF RevertHeld, RecordMetric, Remeasure, PersistPending, Promote, DeferPromotion
<1>6. CASE MarkPromoted \/ CompleteExperiment \/ DiscardCandidate \/ CountIteration
         \/ ClearAttempt \/ RevertFailed
  BY <1>6
  DEF MarkPromoted, CompleteExperiment, DiscardCandidate, CountIteration, ClearAttempt,
      RevertFailed
<1>7. CASE DiscardFailed \/ RecordFailure \/ DecideFailure \/ ResetWindow
         \/ RevertOnExit \/ FinalizeOnExit
  BY <1>7
  DEF DiscardFailed, RecordFailure, DecideFailure, ResetWindow, RevertOnExit, ArchiveFails,
      FinalizeOnExit
<1>8. CASE CountOnExit \/ ReconcileOnExit \/ DiscardOnExit \/ ClearOnExit \/ ExitPhase
         \/ Kill
  BY <1>8 DEF CountOnExit, ReconcileOnExit, DiscardOnExit, ClearOnExit, ExitPhase, Kill
<1>9. CASE Cancel \/ EditLive \/ CleanLive \/ CommitLive
  BY <1>9 DEF Cancel, EditLive, CleanLive, CommitLive
<1>10. CASE UNCHANGED vars
  BY <1>10 DEF vars
<1> QED
  BY <1>1, <1>2, <1>3, <1>4, <1>5, <1>6, <1>7, <1>8, <1>9, <1>10
  DEF Next, Process, Startup, Iteration, Finally, Environment

(* A rejected experiment was rejected on the measurement of what its       *)
(* archive holds.                                                          *)
LEMMA RejectedOnEvidence ==
  ASSUME Inv, [Next]_vars, NEW e \in Exps, ledger'.status[e] = "rejected",
         ledger.status[e] # "rejected"
  PROVE  archives'[e] = measured
<1> USE DEF Inv
<1>1. CASE CompleteExperiment
  <2>1. run.exp \in Exps /\ archives' = archives
    BY <1>1 DEF CompleteExperiment, At, PlacesInv, AttemptInv
  <2>2. CASE run.outcome = "improved"
    <3>1. ledger'.status = [ledger.status EXCEPT ![run.exp] = "accepted"]
      BY <1>1, <2>2, CompletedEffect DEF CompleteExperiment
    <3> QED
      BY <2>1, <3>1 DEF ShapeInv, Ledgers
  <2>3. CASE run.outcome # "improved"
    <3>1. ledger'.status = [ledger.status EXCEPT ![run.exp] = "rejected"]
      BY <1>1, <2>3, CompletedEffect DEF CompleteExperiment
    <3>2. e = run.exp
      BY <2>1, <3>1 DEF ShapeInv, Ledgers
    <3> QED
      BY <1>1, <2>1, <2>3, <3>2 DEF CompleteExperiment, At, EvidenceInv
  <2> QED
    BY <2>2, <2>3
<1>2. CASE RecoverComplete
  <2>1. CASE ledger' = ledger
    BY <2>1
  <2>2. CASE ledger' = Completed(attempt.exp, "accepted")
    <3>1. ledger'.status = [ledger.status EXCEPT ![attempt.exp] = "accepted"]
      BY <2>2, CompletedEffect
    <3> QED
      BY <3>1 DEF ShapeInv, Ledgers
  <2> QED
    BY <1>2, <2>1, <2>2 DEF RecoverComplete
<1>3. CASE RecoverReconcile \/ ReconcileRunning \/ ReconcileOnExit
  <2>1. PICK mode \in {"resume", "cancel"} : ledger' = Reconciled(mode)
    BY <1>3 DEF RecoverReconcile, ReconcileRunning, ReconcileOnExit
  <2> QED
    BY <2>1, ReconciledEffect
<1>4. CASE PlanExperiment \/ StartExperiment \/ RecordFailure \/ DecideFailure
  <2>1. \/ ledger'.status = ledger.status
        \/ \E s \in {"planned", "running", "invalid"} :
              ledger'.status = [ledger.status EXCEPT ![run.exp] = s]
    BY <1>4 DEF PlanExperiment, StartExperiment, RecordFailure, DecideFailure, ShapeInv, Ledgers
  <2> QED
    BY <2>1 DEF ShapeInv, Ledgers
<1>5. CASE ResetWorkerFailures \/ ResetWindow
  BY <1>5 DEF ResetWorkerFailures, ResetWindow, ShapeInv, Ledgers
<1>6. CASE ledger' = ledger
  BY <1>6
<1> QED
  BY <1>1, <1>2, <1>3, <1>4, <1>5, <1>6, LedgerWriters

(* Nobody archives over it.                                                *)
LEMMA ArchiveStands ==
  ASSUME Inv, [Next]_vars, NEW e \in Exps, ledger.status[e] = "rejected"
  PROVE  archives'[e] = archives[e]
<1>1. CASE archives' = archives
  BY <1>1
<1>2. CASE archives' = [archives EXCEPT ![attempt.exp] = cand.work] /\ ~TerminalOutcome
  <2>1. attempt.exp # e
    BY <1>2 DEF TerminalOutcome, Scientific, Exps
  <2> QED
    BY <1>2, <2>1 DEF Inv, ShapeInv, Archives
<1>3. CASE RecoverArchive
  BY <1>1, <1>2, <1>3 DEF RecoverArchive, Archive, ArchiveFails, At, Inv, PlacesInv, RecoverInv
<1>4. CASE ArchiveCandidate
  <2>1. ~TerminalOutcome
    BY <1>4
    DEF ArchiveCandidate, At, Inv, PlacesInv, AttemptInv, WorkPlaces, TerminalOutcome,
        Scientific
  <2> QED
    BY <1>1, <1>2, <1>4, <2>1 DEF ArchiveCandidate, Archive, ArchiveFails
<1>5. CASE ArchiveFailed
  <2>1. ~TerminalOutcome
    BY <1>5
    DEF ArchiveFailed, At, Inv, PlacesInv, AttemptInv, WorkPlaces, TerminalOutcome, Scientific
  <2> QED
    BY <1>1, <1>2, <1>5, <2>1 DEF ArchiveFailed, Archive, ArchiveFails
<1>6. CASE RollbackOnExit
  BY <1>1, <1>2, <1>6 DEF RollbackOnExit, Archive, ArchiveFails
<1> QED
  BY <1>1, <1>3, <1>4, <1>5, <1>6, ArchiveWriters

(* "Rejected code may be rolled back, but its hypothesis, diff, and        *)
(* insight must survive": archiveMicroverseCandidate precedes              *)
(* measureMetric, and no later attempt archives a finished experiment.     *)
THEOREM EvidenceIsKept == Spec => RejectedEvidenceKept
<1>1. ASSUME Inv, [Next]_vars, NEW e \in Exps, ledger'.status[e] = "rejected"
      PROVE  archives'[e] = IF ledger.status[e] = "rejected" THEN archives[e] ELSE measured
  BY <1>1, RejectedOnEvidence, ArchiveStands
<1>2. Inv /\ [Next]_vars =>
        [ \A e \in Exps : ledger'.status[e] = "rejected" =>
            archives'[e] = IF ledger.status[e] = "rejected" THEN archives[e] ELSE measured ]_vars
  BY <1>1
<1> QED
  BY <1>2, InvHolds, PTL DEF Spec, RejectedEvidenceKept

=============================================================================
