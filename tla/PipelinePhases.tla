--------------------------- MODULE PipelinePhases ---------------------------
(***************************************************************************)
(* The phases of a pipeline and what becomes of a refusal                  *)
(* (bin/pipeline-runner.ts, services/pipeline-state.ts,                    *)
(* services/citadel-remediation.ts,                                        *)
(* services/citadel-deterministic-recovery.ts).                            *)
(*                                                                         *)
(* The pipeline runner works off the phases in order: the tickets, a loop  *)
(* that polishes, and the citadel.  A report that refuses the release is   *)
(* turned into tickets to do again: at once when each finding belongs to   *)
(* one ticket, or after a model has attributed it.  A system block selects *)
(* a repair: the verifiers of tickets, the reviewer's contract, the owner  *)
(* of a failing check, or a revision of the PRD.  After either all phases  *)
(* begin anew.  The runner may be killed at any point; a supervisor starts *)
(* it again, and the files say where it was.  The user may commit to the   *)
(* repository, and cancel.                                                 *)
(***************************************************************************)
EXTENDS ReviewerContract

CONSTANTS Needs,          \* Needs[t]: the tickets that ticket t depends on
          CheckStrategies \* strategies against a failing check (5 in the code)

ASSUME PipelineBounds ==
  /\ Needs \in [Tickets -> SUBSET Tickets]
  /\ CheckStrategies \in Nat

VARIABLES
  todo,     \* tickets whose status in the manifest is Todo
  ps,       \* pipeline-state.json: the status of each phase
  txn,      \* a transaction over both state files: pipeline-state.json is
            \* written, state.json is not yet
  pending,  \* citadel-remediation-pending.json: tickets to reopen
  blocked,  \* the attribution repair: candidate tickets and attempts
  det,      \* the journal of failing checks: owners, strategies, diagnosis
  logical,  \* the logical pipeline: "open", "revision", "completed", "cancelled"
  asked     \* the command to cancel is at work

pipelineVars == <<todo, ps, txn, pending, blocked, det, logical, asked>>
intents      == <<pending, blocked, det>>
vars         == <<repo, st, evidence, ctl, upsets, pipelineVars>>

Order  == <<"pickle", "polish", "citadel">>
Phases == {Order[i] : i \in DOMAIN Order}

\* resolveNextPipelinePhase
Unfinished == {i \in DOMAIN Order : ps[Order[i]] # "done"}
NextPhase  == Order[CHOOSE i \in Unfinished : \A j \in Unfinished : i <= j]

NoTxn     == [on |-> FALSE, active |-> FALSE, exit |-> "none", cancel |-> FALSE]
NoBlocked == [cands |-> {}, tries |-> 0]
NoDet     == [owners |-> {}, n |-> 0, diag |-> FALSE]

PPInit ==
  /\ head = 1 /\ contract \in {"ok", "scope", "noGate"} /\ broken \in SUBSET Tickets
  /\ env = 1
  /\ st = [active |-> TRUE, exit |-> "none", cancel |-> FALSE]
  /\ gate = NoGate /\ review = [NewReview EXCEPT !.bound = FALSE]
  /\ report = NoReport /\ approval = 0 /\ block = NoBlock /\ cj = NoJournal
  /\ refused = {} /\ ctl = Step("down") /\ upsets = 0
  /\ todo = Tickets /\ ps = [p \in Phases |-> "todo"] /\ txn = NoTxn
  /\ pending = {} /\ blocked = NoBlocked /\ det = NoDet
  /\ logical = "open" /\ asked = FALSE

\* The controller goes on when no transaction is under way.
Now(x) == At(x) /\ ~txn.on

(* StateManager.transaction over both files, in the order of their names.  *)
Transact(ps2, active, exit, cancel) ==
  /\ ps' = ps2
  /\ txn' = [on |-> TRUE, active |-> active, exit |-> exit, cancel |-> cancel]

CommitTransaction ==
  /\ txn.on /\ txn' = NoTxn
  /\ st' = [active |-> txn.active, exit |-> txn.exit, cancel |-> txn.cancel]
  /\ UNCHANGED <<repo, evidence, ctl, upsets, todo, ps, intents, logical, asked>>

\* recordExitReason
Recorded(r) == IF st.exit \notin {"none", "success"} /\ (~st.active \/ r = "success")
               THEN st.exit ELSE r
\* resetPipelineForAutonomousRemediation: the cancellation mark stays.
Reset == Transact([p \in Phases |-> "todo"], TRUE, "none", st.cancel)
\* finishPipelinePhase
Finish(status, r) == Transact([ps EXCEPT ![NextPhase] = status], FALSE, Recorded(r), st.cancel)

rest == <<repo, st, evidence, upsets, logical, asked>>

-----------------------------------------------------------------------------
(* The start of a run: what the last one left is settled first.            *)

(* supervisedRunnerDecision.  A runner that is started from another shell, *)
(* or in a new session of tmux, has another environment.                   *)
StartRun ==
  /\ At("down") /\ logical = "open" /\ ~asked
  /\ ctl' = Step("boot")
  /\ UNCHANGED <<env, upsets>> \/ (Upset /\ env' \in 1..Environments)
  /\ UNCHANGED <<head, contract, broken, st, evidence, logical, asked, todo, ps, txn, intents>>

RepairedAlready == block.owners \subseteq todo /\ block.owners \cap broken = {}

BootAfterVerifiers ==
  /\ Now("boot") /\ block.code = "verifier"
  /\ Reset
  /\ ctl' = IF RepairedAlready THEN Step("boot-pending")
            ELSE [Step("verifiers") EXCEPT !.left = block.owners, !.back = "boot"]
  /\ UNCHANGED <<rest, todo, intents>>

BootOnward ==
  /\ Now("boot") /\ block.code # "verifier"
  /\ ctl' = IF block.code = "reviewer" THEN [Step("contract") EXCEPT !.back = "boot"]
            ELSE Step("boot-pending")
  /\ UNCHANGED <<rest, todo, ps, txn, intents>>

\* A fault: only the intent is looked for.
BootIntentOnly ==
  /\ Now("boot-pending")
  /\ ctl' = IF pending # {} THEN [Step("reopen") EXCEPT !.left = pending, !.back = "boot"]
            ELSE Step("dispatch")
  /\ UNCHANGED <<rest, todo, ps, txn, intents>>

\* reconcileCitadelAttributionRepair
AttributionPending == blocked.cands # {}

BootPending ==
  /\ Now("boot-pending")
  /\ ctl' = IF pending # {} THEN [Step("reopen") EXCEPT !.left = pending, !.back = "boot"]
            ELSE IF AttributionPending THEN [Step("attribute") EXCEPT !.back = "boot"]
            ELSE Step("dispatch")
  /\ UNCHANGED <<rest, todo, ps, txn, intents>>

(* repairTicketVerificationContract, one ticket after the other; a new     *)
(* verifier changes what the checks are bound to.                          *)
Repaired(t) ==
  /\ broken' = broken \ {t} /\ todo' = todo \cup {t}
  /\ gate' = [gate EXCEPT !.head = 0]

RepairVerifier(t) ==
  /\ Now("verifiers") /\ t \in ctl.left /\ Repaired(t)
  /\ ctl' = [ctl EXCEPT !.left = @ \ {t}]
  /\ refused' = {}
  /\ UNCHANGED <<head, contract, env, st, review, report, approval, block, cj, upsets,
                 ps, txn, intents, logical, asked>>

VerifiersRepaired ==
  /\ Now("verifiers") /\ ctl.left = {} /\ GoBack
  /\ UNCHANGED <<rest, todo, ps, txn, intents>>

-----------------------------------------------------------------------------
(* The phases.                                                             *)

AllDone ==
  /\ Now("dispatch") /\ Unfinished = {} /\ Leave("success")
  /\ UNCHANGED <<rest, todo, ps, txn, intents>>

\* beginPipelinePhase
BeginPhase ==
  /\ Now("dispatch") /\ Unfinished # {} /\ ~st.cancel
  /\ Transact([ps EXCEPT ![NextPhase] = "running"], TRUE, "none", FALSE)
  /\ ctl' = Step(NextPhase)
  /\ UNCHANGED <<rest, todo, intents>>

PhaseRefused ==
  /\ Now("dispatch") /\ Unfinished # {} /\ st.cancel /\ Unwind
  /\ UNCHANGED <<rest, todo, ps, txn, intents>>

(* runSequential: the tickets, each after those it depends on; most of     *)
(* them end in a commit.                                                   *)
FinishTicket(t) ==
  /\ Now("pickle") /\ t \in todo /\ Needs[t] \cap todo = {}
  /\ todo' = todo \ {t}
  /\ head' \in {head} \cup (IF head < MaxHead THEN {head + 1} ELSE {})
  /\ UNCHANGED <<contract, broken, env, st, evidence, ctl, upsets, ps, txn, intents, logical, asked>>

Polish ==
  /\ Now("polish")
  /\ head' \in {head} \cup (IF head < MaxHead THEN {head + 1} ELSE {})
  /\ Return("success")
  /\ UNCHANGED <<contract, broken, env, st, evidence, upsets, todo, ps, txn, intents, logical, asked>>

WorkEnds ==
  /\ \/ Now("pickle") /\ todo = {} /\ Return("success") /\ UNCHANGED upsets
     \/ Now("pickle") /\ Cancelled /\ Return("cancelled") /\ UNCHANGED upsets
     \/ Now("polish") /\ Cancelled /\ Return("cancelled") /\ UNCHANGED upsets
     \/ (Now("pickle") \/ Now("polish")) /\ Upset /\ \E r \in {"failed", "error"} : Return(r)
  /\ UNCHANGED <<repo, st, evidence, logical, asked, todo, ps, txn, intents>>

CitadelPhase == ~txn.on /\ RunCitadel /\ UNCHANGED pipelineVars
ContractRepair == ~txn.on /\ RepairContract /\ UNCHANGED pipelineVars

(* The end of runPipelinePhase.  A phase that was cancelled is marked so,  *)
(* by cancelPipelineSession.                                               *)
PhaseCancelled ==
  /\ Now("returned")
  /\ \/ ctl.ret = "cancelled" /\ Leave("cancelled")
     \/ ctl.ret = "error" /\ st.exit = "cancelled" /\ Unwind
  /\ Transact([ps EXCEPT ![NextPhase] = "cancelled"], FALSE, Recorded("cancelled"), TRUE)
  /\ UNCHANGED <<rest, todo, intents>>

\* What the loop over the phases does next.
GoesOn ==
  \/ ctl.ret = "success" /\ ctl' = Step("dispatch")
  \/ ctl.ret = "blocked" /\ ctl' = [Step("enqueue") EXCEPT !.back = "loop"]
  \/ ctl.ret = "system"  /\ ctl' = Step("system")
  \/ ctl.ret = "failed"  /\ Leave("failed")
  \/ ctl.ret = "error"   /\ Unwind

PhaseEnds ==
  /\ Now("returned") /\ ctl.ret # "cancelled"
  /\ ctl.ret = "error" => st.exit # "cancelled"
  /\ IF ctl.ret = "success" THEN Finish("done", "success") ELSE Finish("failed", "other")
  /\ GoesOn
  /\ UNCHANGED <<rest, todo, intents>>

-----------------------------------------------------------------------------
(* A refusal becomes tickets to do again                                   *)
(* (enqueueCitadelRemediationResult, repairCitadelAttribution).            *)

\* dependentTicketIds: the tickets and those done that depend on them.
Closed(d) == \A t \in Tickets \ todo : Needs[t] \cap d # {} => t \in d
WithDependents(ts) ==
  CHOOSE d \in SUBSET Tickets :
    /\ ts \subseteq d /\ Closed(d)
    /\ \A e \in SUBSET Tickets : ts \subseteq e /\ Closed(e) => d \subseteq e

(* candidateFindingAttribution: the candidates are narrowed to the tickets *)
(* whose criteria and paths the findings name.                             *)
Narrowed == SUBSET report.owners \ {{}}

\* A finding of the report may belong to several tickets.
ScheduleAttribution ==
  /\ Now("enqueue") /\ Cardinality(report.owners) > 1
  /\ \E c \in Narrowed : blocked' = [cands |-> c, tries |-> 0]
  /\ Goto("attribute")
  /\ UNCHANGED <<rest, todo, ps, txn, pending, det>>

(* Each finding belongs to one ticket, or names several itself.  The       *)
(* repair of an attribution is removed before the intent is written.       *)
DropAttribution ==
  /\ Now("enqueue")
  /\ blocked' = NoBlocked /\ Goto("intend")
  /\ UNCHANGED <<rest, todo, ps, txn, pending, det>>

WriteIntent ==
  /\ Now("intend") /\ pending' = WithDependents(report.owners)
  /\ ctl' = [ctl EXCEPT !.at = "reopen", !.left = pending']
  /\ UNCHANGED <<rest, todo, ps, txn, blocked, det>>

\* reconcileCitadelRemediation: each ticket, the phases, then the intent.
ReopenTicket(t) ==
  /\ Now("reopen") /\ t \in ctl.left
  /\ todo' = todo \cup {t} /\ ctl' = [ctl EXCEPT !.left = @ \ {t}]
  /\ UNCHANGED <<rest, ps, txn, intents>>
ResetAfterRefusal ==
  /\ Now("reopen") /\ ctl.left = {} /\ Reset /\ Goto("applied")
  /\ UNCHANGED <<rest, todo, intents>>
\* A fault: only a start clears it.
ClearAtBoot ==
  /\ Now("applied") /\ pending' = IF ctl.back = "boot" THEN {} ELSE pending
  /\ ctl' = Step(IF ctl.back = "boot" THEN "boot-pending" ELSE "dispatch")
  /\ UNCHANGED <<rest, todo, ps, txn, blocked, det>>
ClearIntent ==
  /\ Now("applied") /\ pending' = {}
  /\ ctl' = Step(IF ctl.back = "boot" THEN "boot-pending" ELSE "dispatch")
  /\ UNCHANGED <<rest, todo, ps, txn, blocked, det>>

(* One candidate needs no model.  Otherwise the attempt is recorded before *)
(* the model is asked, the report is rewritten with its answer and turned  *)
(* into an intent like any other.                                          *)
NextTry == blocked' = [blocked EXCEPT !.tries = IF @ < 2 THEN @ + 1 ELSE @]
Attribute ==
  /\ Now("attribute")
  /\ IF Cardinality(blocked.cands) = 1
     THEN ctl' = [ctl EXCEPT !.at = "attributed", !.left = blocked.cands] /\ UNCHANGED blocked
     ELSE NextTry /\ Goto("attributing")
  /\ UNCHANGED <<rest, todo, ps, txn, pending, det>>
AttributionFound(t) ==
  /\ Now("attributing") /\ t \in blocked.cands
  /\ ctl' = [ctl EXCEPT !.at = "attributed", !.left = {t}]
  /\ UNCHANGED <<rest, todo, ps, txn, intents>>
RewriteReport ==
  /\ Now("attributed") /\ report' = [report EXCEPT !.owners = ctl.left]
  /\ ctl' = [ctl EXCEPT !.at = "enqueue", !.left = {}]
  /\ UNCHANGED <<repo, st, gate, review, approval, block, cj, refused, upsets,
                 pipelineVars>>

\* recordAttributionRepairWakeup: the run ends, the repair stays.
AttributionFails ==
  /\ Now("attributing") /\ Leave("scheduled")
  /\ Transact([ps EXCEPT !["citadel"] = "failed"], FALSE, "other", st.cancel)
  /\ UNCHANGED <<rest, todo, intents>>

-----------------------------------------------------------------------------
(* A system block selects a repair.                                        *)

\* requestPrdRevision
RequestRevision ==
  /\ Now("system") /\ block.code \in {"scope", "noGate"}
  /\ logical' = "revision" /\ Leave("revision")
  /\ UNCHANGED <<repo, st, evidence, upsets, asked, todo, ps, txn, intents>>

BlockRepaired ==
  /\ Now("system") /\ block.code \in {"verifier", "reviewer"}
  /\ IF block.code = "reviewer"
     THEN UNCHANGED <<ps, txn>> /\ ctl' = [Step("contract") EXCEPT !.back = "loop"]
     ELSE Reset /\ ctl' = [Step("verifiers") EXCEPT !.left = block.owners, !.back = "loop"]
  /\ UNCHANGED <<rest, todo, intents>>

\* The first of two attempts runs the phase again.
RetryPhase ==
  /\ Now("system") /\ block.code = "checks" /\ block.odd /\ ctl' = Step("dispatch")
  /\ UNCHANGED <<rest, todo, ps, txn, intents>>

(* consumeDeterministicCheckFailure: the owner of the failing check is     *)
(* reopened, then the strategy recorded, then the phases are reset.        *)
Journal == IF det.owners = block.owners THEN det ELSE [NoDet EXCEPT !.owners = block.owners]
Direct  == Cardinality(block.owners) = 1 /\ Journal.n < CheckStrategies
RepairCheck ==
  /\ Now("system") /\ block.code = "checks" /\ ~block.odd
  /\ IF Direct
     THEN todo' = todo \cup block.owners /\ UNCHANGED det /\ Goto("strategy")
     ELSE /\ det' = [Journal EXCEPT !.diag = TRUE]
          /\ ctl' = [ctl EXCEPT !.at = "diagnose", !.ret = "first"] /\ UNCHANGED todo
  /\ UNCHANGED <<rest, ps, txn, pending, blocked>>
RecordStrategy ==
  /\ Now("strategy") /\ Goto("reset")
  /\ det' = [Journal EXCEPT !.n = @ + 1, !.diag = FALSE]
  /\ UNCHANGED <<rest, todo, ps, txn, pending, blocked>>
ResetForCheck ==
  /\ Now("reset") /\ Reset /\ Leave("scheduled")
  /\ UNCHANGED <<rest, todo, intents>>

(* runDeterministicRecoveryDiagnostic: a model maps the failure to tickets,*)
(* in two attempts.  They are reopened one after the other; an error among *)
(* them ends the attempt.                                                  *)
DiagnosisMaps ==
  /\ \E t \in Tickets : /\ Now("diagnose") \/ (Now("mapped") /\ t \notin todo)
                        /\ todo' = todo \cup {t}
  /\ Goto("mapped")
  /\ UNCHANGED <<rest, ps, txn, intents>>
RecordDiagnosis ==
  /\ Now("mapped") /\ det' = [det EXCEPT !.diag = FALSE] /\ Goto("reset")
  /\ UNCHANGED <<rest, todo, ps, txn, pending, blocked>>
DiagnosisRejected ==
  /\ (Now("diagnose") /\ UNCHANGED upsets) \/ (Now("mapped") /\ Upset)
  /\ IF ctl.ret = "first"
     THEN ctl' = [ctl EXCEPT !.at = "diagnose", !.ret = "second"] ELSE Leave("scheduled")
  /\ UNCHANGED <<repo, st, evidence, logical, asked, todo, ps, txn, intents>>

-----------------------------------------------------------------------------
(* The end of a run.                                                       *)

\* The catch of runPipelineWithLease writes state.json alone.
EndWithError ==
  /\ Now("unwind")
  /\ st' = [st EXCEPT !.active = FALSE,
                      !.exit = IF @ = "cancelled" THEN @ ELSE Recorded("other")]
  /\ Leave("error")
  /\ UNCHANGED <<repo, evidence, upsets, pipelineVars>>

(* ownership.finish: success ends the logical pipeline, when the citadel's *)
(* approval is that of the commit; otherwise this is an error.             *)
EndRun ==
  /\ Now("leave") /\ ctl' = Step("down")
  /\ logical' = IF logical = "cancelled" THEN logical
                ELSE IF ctl.ret = "success" /\ ReleaseApproved THEN "completed"
                ELSE IF ctl.ret = "cancelled" THEN "cancelled" ELSE logical
  /\ UNCHANGED <<repo, st, evidence, upsets, asked, todo, ps, txn, intents>>

Kill ==
  /\ ~At("down") /\ Upset /\ ctl' = Step("down") /\ txn' = NoTxn
  /\ UNCHANGED <<repo, st, evidence, logical, asked, todo, ps, intents>>

\* Any other error of a step outside runPipelinePhase.
RunThrows ==
  /\ ~txn.on /\ Upset /\ Unwind
  /\ ctl.at \in ContractSteps \cup
       {"boot", "boot-pending", "verifiers", "reopen", "applied", "dispatch",
        "enqueue", "intend", "attribute", "attributing", "attributed", "system",
        "strategy", "reset", "diagnose", "mapped"}
  /\ UNCHANGED <<repo, st, evidence, logical, asked, todo, ps, txn, intents>>

-----------------------------------------------------------------------------
(* The operator.                                                           *)

(* bin/cancel.ts: the mark first; when no run is left, the journal and     *)
(* cancelPipelineSession.                                                  *)
Cancel ==
  /\ logical = "open" /\ ~asked /\ ~txn.on /\ Upset
  /\ asked' = TRUE /\ st' = [active |-> FALSE, exit |-> "cancelled", cancel |-> TRUE]
  /\ UNCHANGED <<repo, evidence, ctl, logical, todo, ps, txn, intents>>
CancelReaps ==
  /\ asked /\ ~At("down") /\ ctl' = Step("down") /\ txn' = NoTxn
  /\ UNCHANGED <<rest, todo, ps, intents>>
CancelSettles ==
  /\ asked /\ At("down") /\ asked' = FALSE
  /\ IF logical \in {"open", "revision"}
     THEN /\ logical' = "cancelled"
          /\ st' = [active |-> FALSE, exit |-> Recorded("cancelled"), cancel |-> TRUE]
          /\ ps' = IF Unfinished = {} THEN ps ELSE [ps EXCEPT ![NextPhase] = "cancelled"]
     ELSE UNCHANGED <<logical, st, ps>>
  /\ UNCHANGED <<repo, evidence, ctl, upsets, todo, txn, intents>>

\* The revised PRD binds the checks anew.
ApproveRevision ==
  /\ At("down") /\ logical = "revision" /\ ~asked
  /\ contract' = "ok" /\ gate' = [gate EXCEPT !.head = 0] /\ logical' = "open"
  /\ refused' = {}
  /\ UNCHANGED <<head, broken, env, st, review, report, approval, block, cj, ctl,
                 upsets, todo, ps, txn, intents, asked>>

OperatorCommits == UserCommits /\ logical # "completed" /\ UNCHANGED pipelineVars

Settled == At("down") /\ ~asked /\ logical \in {"completed", "cancelled"}
Done    == Settled /\ UNCHANGED vars

-----------------------------------------------------------------------------
Controller ==
  \/ CommitTransaction \/ StartRun
  \/ BootAfterVerifiers \/ BootOnward \/ BootPending
  \/ (\E t \in Tickets : RepairVerifier(t)) \/ VerifiersRepaired
  \/ AllDone \/ BeginPhase \/ PhaseRefused
  \/ (\E t \in Tickets : FinishTicket(t)) \/ Polish \/ WorkEnds
  \/ CitadelPhase \/ ContractRepair \/ PhaseCancelled \/ PhaseEnds
  \/ ScheduleAttribution \/ DropAttribution \/ WriteIntent
  \/ (\E t \in Tickets : ReopenTicket(t)) \/ ResetAfterRefusal \/ ClearIntent
  \/ Attribute \/ (\E t \in Tickets : AttributionFound(t)) \/ RewriteReport \/ AttributionFails
  \/ RequestRevision \/ BlockRepaired \/ RetryPhase
  \/ RepairCheck \/ RecordStrategy \/ ResetForCheck
  \/ DiagnosisMaps \/ RecordDiagnosis \/ DiagnosisRejected
  \/ EndWithError \/ EndRun \/ RunThrows

Operator ==
  Kill \/ Cancel \/ CancelReaps \/ CancelSettles \/ ApproveRevision \/ OperatorCommits

PPNext == Controller \/ Operator \/ Done

PPSafety == PPInit /\ [][PPNext]_vars
(* A run goes on, the supervisor starts the next, and a command to cancel  *)
(* is carried through.                                                     *)
PPSpec == PPSafety /\ WF_vars(Controller) /\ WF_vars(CancelReaps) /\ WF_vars(CancelSettles)

PPTypeOK ==
  /\ head \in 1..MaxHead /\ broken \subseteq Tickets /\ todo \subseteq Tickets
  /\ ps \in [Phases -> {"todo", "running", "done", "failed", "cancelled"}]
  /\ st \in [active : BOOLEAN, exit : {"none", "success", "other", "cancelled"}, cancel : BOOLEAN]
  /\ env \in 1..Environments
  /\ gate \in [head : 0..MaxHead, env : 0..Environments, owners : SUBSET Tickets,
               result : {"none", "running", "interrupted", "unsaved", "passed", "failed"}]
  /\ approval \in 0..MaxHead /\ refused \subseteq 1..MaxHead
  /\ pending \subseteq Tickets /\ blocked.cands \subseteq Tickets
  /\ logical \in {"open", "revision", "completed", "cancelled"}

-----------------------------------------------------------------------------
(* Properties.                                                             *)

(* What is released was reviewed: when the logical pipeline is completed,  *)
(* the commit is the one whose checks passed and which an accepted review  *)
(* approved, whatever was killed, repaired or committed on the way.        *)
CompletedMeansReviewed ==
  logical = "completed" =>
    /\ ReleaseApproved /\ ChecksPassed /\ ReviewFits /\ report.head = head
    /\ \A p \in Phases : ps[p] = "done"

(* A commit that a review refused gets no approval by asking again: not    *)
(* after a kill, nor when the tickets were redone without a commit.  It is *)
(* judged anew only with a changed verifier, a revised PRD, checks that    *)
(* are run in another environment, or when the refusal itself cannot be    *)
(* read again.                                                             *)
RefusedHeadStaysRefused == approval \notin refused

(* No phase works while a refusal is not yet turned into tickets: what a   *)
(* killed run left of it is settled before the phases go on.               *)
RefusalsFirst ==
  pending # {} \/ AttributionPending =>
    ctl.at \notin CitadelSteps \cup {"pickle", "polish"}

(* The verdict of a validated candidate is kept until the checks are run   *)
(* anew: a run that was killed before the report does not ask again.  Only *)
(* an error with the candidate itself gives it up, and none after it was   *)
(* reported: what one verdict released or reopened is not judged again.    *)
Judged(r)      == r.bound /\ r.last \in {"validated", "accepted"}
CandidateLost  == At("report") /\ review'.last = "none" /\ report = NoReport /\ approval = 0
VerdictKept ==
  [][Judged(review) /\ ~Projected /\ review'.bound
       => CandidateLost \/ (Judged(review') /\ review'.verdict = review.verdict)]_vars

(* A refusal that was written down is worked off, unless the session ends. *)
RefusalWorkedOff == (pending # {}) ~> (pending = {} \/ logical # "open")

(* Not so: the ticket of a failing check is reopened before the phases are *)
(* reset; after a kill between the two the citadel may approve the commit, *)
(* with the ticket still to do.                                            *)
ReleasedMeansDone == logical = "completed" => todo = {}

(* Not so after a repair of the contract: its block is still there when a  *)
(* run is killed between the candidate and the report, and the next run    *)
(* repairs again when another candidate of the epoch had failed, which     *)
(* discards the verdict and uses up a mechanism.                           *)
VerdictKeptAfterRepair ==
  [][Judged(review) /\ review'.bound => CandidateLost \/ Judged(review')]_vars

(* Not so: a restart from another shell runs the checks again, which opens *)
(* a new review of the commit that the last one refused.                   *)
RefusalIsFinal ==
  [][At("gate") /\ ctl.head \in refused /\ ChecksPassed => UNCHANGED refused]_vars

(* Not so: a journal that was resolved for an earlier review refuses every *)
(* later block of the reviewer's contract, at each start of a run.         *)
ContractRepairable == At("contract") => Authenticated # "stale"
=============================================================================
