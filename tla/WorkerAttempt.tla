--------------------------- MODULE WorkerAttempt ---------------------------
(***************************************************************************)
(* One ticket over a git repository (bin/spawn-morty.ts runTicket), from   *)
(* the durable start boundary to Done or to the rollback of a rejected     *)
(* attempt, and the reconciliation of an interrupted attempt by the next   *)
(* bootstrap (services/refinement-artifacts.ts, recoverable-git.ts,        *)
(* candidate-recovery.ts, ticket-completion-evidence.ts).                  *)
(*                                                                         *)
(* A change is one path with the content a worker gives it.  Up to the     *)
(* verdict of the gate changes are only added and committed; the hooks of  *)
(* a commit and the user may also overwrite them after it.  A              *)
(* commit has the tree it leaves and the ticket its trailer names; the     *)
(* work tree is the set of changes it holds and is dirty when it differs   *)
(* from the tree of HEAD.  Commits that were made stay readable by their   *)
(* name.  The scope contract is the set of changes that lie inside it.     *)
(***************************************************************************)
EXTENDS Naturals, Sequences, FiniteSets

CONSTANTS Changes,       \* what can be changed
          InScope,       \* the changes the ticket's scope allows
          MaxAttempts, MaxInterrupts, MaxSelfCommits, MaxOthers, MaxLate   \* bounds

ASSUME ScopeAssumption  == InScope \subseteq Changes
ASSUME BoundsAssumption == {MaxAttempts, MaxInterrupts, MaxSelfCommits, MaxOthers, MaxLate} \subseteq Nat

VARIABLES
  tmux,        \* detached: changes are committed for the worker
  log, files,  \* commits above the session's start, and the work tree
  objects,     \* commits ever made
  refs,        \* contents anchored under refs/pickle since the attempt began
  accepted,    \* repository identity of the acceptance receipt
  status, stamp,   \* the ticket: status and completion_commit
  advance,     \* refinement-repository-advance.json
  cand,        \* the rejected candidate's checkpoint
  context,     \* head of the content-addressed context checkpoint, or NoHead
  sup,         \* last worker_phase checkpoint of the supervisor
  active, recovery,   \* state.json: active, recovery_required
  owned,       \* the durable lease is still this executor's
  ctl, phase, tries, touched, boundary, cause,   \* the attempt in progress
  made, approved, late, interrupted,   \* history: what this attempt made, what its gate
                               \* saw, what was changed after the gate's verdict
  attempts, interrupts, selfCommits, others

repoVars == <<log, files, objects, refs>>
ticket   == <<status, stamp, advance>>
session  == <<accepted, cand, context, sup, active, recovery, owned>>
local    == <<phase, tries, touched, boundary, cause>>
history  == <<made, approved, late, interrupted>>
counters == <<tmux, attempts, interrupts, selfCommits, others>>
waVars   == <<repoVars, ticket, session, ctl, local, history, counters>>

NoHead == 99
NoAdvance == [phase |-> "none", base |-> <<>>, vlog |-> <<>>, vfiles |-> {}, paths |-> {}]
NoCand    == [head |-> NoHead, ids |-> {}]

(* WORKER_LIFECYCLE_PHASES by number: research, research_review, plan,     *)
(* plan_review, implement, review, simplify, conformance.                  *)
LastPhase == 8
ContextPhases == 1..4
Implement == 5
Simplify  == 7
ReadOnly  == (1..LastPhase) \ {Implement, Simplify}
Reviews   == {2, 4, 6, 8}
\* Fault: the first attempt is not counted.
AttemptsAfterFirst(p) == IF p \in ReadOnly THEN 3 ELSE 2
MaxPhaseAttempts(p) == IF p \in ReadOnly THEN 2 ELSE 1

TreeOf(l) == IF l = <<>> THEN {} ELSE l[Len(l)].tree
HeadOf(l) == IF l = <<>> THEN 0 ELSE l[Len(l)].id
Dirty     == files # TreeOf(log)
\* refinementRepositoryIdentity, repositoryMutationFingerprint
Identity  == <<log, files>>
At(l)     == <<l, TreeOf(l)>>
Commit(tree, by) == Append(log, [tree |-> tree, by |-> by, id |-> objects + 1])
\* The tree of HEAD with some paths staged from the work tree.
Staged(paths) == (TreeOf(log) \ paths) \cup (paths \cap files)

\* What the process of an attempt knew is gone with it.
Forget == phase' = 0 /\ tries' = 0 /\ touched' = FALSE /\ boundary' = <<>> /\ cause' = "none"

WAInit ==
  /\ tmux \in BOOLEAN
  /\ log = <<>> /\ files = {} /\ objects = 0 /\ refs = {}
  /\ accepted = At(<<>>)
  /\ status = "Todo" /\ stamp = 0 /\ advance = NoAdvance
  /\ cand = NoCand /\ context = NoHead /\ sup = [n |-> 0, head |-> NoHead]
  /\ active = TRUE /\ recovery = FALSE /\ owned = TRUE
  /\ ctl = "idle" /\ phase = 0 /\ tries = 0 /\ touched = FALSE /\ boundary = <<>> /\ cause = "none"
  /\ made = {} /\ approved = {} /\ late = {} /\ interrupted = FALSE
  /\ attempts = 0 /\ interrupts = 0 /\ selfCommits = 0 /\ others = 0

-----------------------------------------------------------------------------
(* The start of an attempt.                                                *)

MayStart == ctl = "idle" /\ active /\ status # "Done" /\ attempts < MaxAttempts

(* updateTicketAndClearAdvance with a preflight failure, before there is a *)
(* boundary: the environment is not ready, or the tree is not clean.       *)
Preflight ==
  /\ MayStart
  /\ attempts' = attempts + 1
  /\ \/ status' = "Todo"
     \/ Dirty /\ status' = "Blocked"
  /\ advance' = NoAdvance
  /\ UNCHANGED <<repoVars, stamp, session, ctl, local, history, tmux, interrupts, selfCommits, others>>

(* beginRefinementRepositoryAdvance, in one transaction with the status:   *)
(* only from the accepted repository; otherwise the attempt is Blocked.    *)
Begin ==
  /\ MayStart /\ ~Dirty
  /\ attempts' = attempts + 1
  /\ boundary' = log
  /\ IF Identity = accepted
     THEN /\ status' = "In Progress"
          /\ advance' = [NoAdvance EXCEPT !.phase = "started", !.base = log]
          /\ made' = {} /\ approved' = {} /\ late' = {} /\ interrupted' = FALSE /\ refs' = {}
          /\ ctl' = "baseline" /\ UNCHANGED cause
     ELSE /\ ctl' = "failing" /\ cause' = "failed"
          /\ UNCHANGED <<status, advance, history, refs>>
  /\ phase' = 0 /\ tries' = 0 /\ touched' = FALSE
  /\ UNCHANGED <<log, files, objects, stamp, session, tmux, interrupts, selfCommits, others>>

(* A supervisor checkpoint that still describes the repository and the     *)
(* started boundary continues the interrupted attempt.                     *)
Resume ==
  /\ MayStart /\ ~Dirty
  /\ sup.n > 0 /\ sup.head = HeadOf(log)
  /\ advance.phase = "started" /\ advance.base = log
  /\ attempts' = attempts + 1
  /\ boundary' = log
  /\ phase' = sup.n /\ tries' = 0 /\ touched' = FALSE
  /\ ctl' = "baseline"
  /\ UNCHANGED <<repoVars, ticket, session, cause, history, tmux, interrupts, selfCommits, others>>

Fail(why) == ctl' = "failing" /\ cause' = why

(* The quality baseline is fresh, or captured by commands that must leave  *)
(* the repository alone.                                                   *)
Baseline ==
  /\ ctl = "baseline" /\ owned
  /\ \/ ~touched /\ ctl' = "restore" /\ UNCHANGED cause
     \/ Fail("failed")
  /\ UNCHANGED <<repoVars, ticket, session, phase, tries, touched, boundary, history, counters>>

CandidateInScope == cand.ids \subseteq InScope
\* The context checkpoint of the same base is reused.
ResumedPhases == IF phase = 0 /\ context = HeadOf(boundary) THEN {0, 4} ELSE {phase}

(* restoreRejectedCandidateCheckpoint: the candidate of the same base is   *)
(* applied when all of it lies in scope.                                   *)
RestoreCandidate ==
  /\ ctl = "restore"
  /\ LET same == cand # NoCand /\ cand.head = HeadOf(boundary)
     IN IF same /\ ~CandidateInScope
        THEN Fail("candidate") /\ UNCHANGED <<files, made, phase>>
        ELSE /\ files' = IF same THEN files \cup cand.ids ELSE files
             /\ made'  = IF same THEN made \cup cand.ids ELSE made
             /\ phase' \in ResumedPhases
             /\ ctl' = "phases" /\ UNCHANGED cause
  /\ UNCHANGED <<log, objects, refs, ticket, session, tries, touched, boundary,
                 approved, late, interrupted, counters>>

-----------------------------------------------------------------------------
(* The lifecycle phases.                                                   *)

SkipSimplify ==
  /\ ctl = "phases" /\ phase = Simplify - 1 /\ owned
  /\ phase' = Simplify
  /\ UNCHANGED <<repoVars, ticket, session, ctl, tries, touched, boundary, cause, history, counters>>

CallModel ==
  /\ ctl = "phases" /\ phase < LastPhase /\ owned /\ active
  /\ ctl' = "call" /\ tries' = 1 /\ touched' = FALSE
  /\ UNCHANGED <<repoVars, ticket, session, phase, boundary, cause, history, counters>>

(* A worker, a verification command or a quality command changes a path.   *)
Edit ==
  /\ ctl \in {"baseline", "call", "verify", "gate"}
  /\ \E c \in Changes \ files : files' = files \cup {c} /\ made' = made \cup {c}
  /\ touched' = TRUE
  /\ UNCHANGED <<log, objects, refs, ticket, session, ctl, phase, tries, boundary, cause,
                 approved, late, interrupted, counters>>

(* After the verdict the hooks of a commit, or the user, change a path or  *)
(* overwrite a change: nobody compares the tree with the gate's again.     *)
LateEdit ==
  /\ ctl \in {"record", "commit", "trailer", "evidence", "finalize", "recommit", "amend", "closing"}
  /\ Cardinality(late) < MaxLate
  /\ \E c \in Changes \ late :
       /\ late' = late \cup {c}
       /\ IF c \in files THEN files' = files \ {c} /\ made' = made \ {c}
                         ELSE files' = files \cup {c} /\ made' = made \cup {c}
  /\ UNCHANGED <<log, objects, refs, ticket, session, ctl, local, approved, interrupted, counters>>

SelfCommit ==
  /\ ctl = "call" /\ Dirty /\ selfCommits < MaxSelfCommits
  /\ \E by \in {"none", "own"} : log' = Commit(files, by)
  /\ objects' = objects + 1 /\ selfCommits' = selfCommits + 1
  /\ touched' = TRUE
  /\ UNCHANGED <<files, refs, ticket, session, ctl, phase, tries, boundary, cause, history,
                 tmux, attempts, interrupts, others>>

(* The artifact is accepted: a read-only phase must have left the          *)
(* repository as it was.  Approved context is stored by its base, and      *)
(* every context phase is a supervisor checkpoint.                         *)
PhaseAccepted ==
  /\ ctl = "call" /\ owned /\ active
  /\ phase + 1 \in ReadOnly => ~touched
  /\ phase' = phase + 1
  /\ ctl' = IF phase' = Implement THEN "verify" ELSE "phases"
  /\ context' = IF phase' = 4 THEN HeadOf(boundary) ELSE context
  /\ sup' = IF phase' \in ContextPhases THEN [n |-> phase', head |-> HeadOf(boundary)] ELSE sup
  /\ UNCHANGED <<repoVars, ticket, accepted, cand, active, recovery, owned,
                 tries, touched, boundary, cause, history, counters>>

PhaseRetried ==
  /\ ctl = "call" /\ owned /\ active
  /\ ~touched /\ tries < MaxPhaseAttempts(phase + 1)
  /\ tries' = tries + 1
  /\ UNCHANGED <<repoVars, ticket, session, ctl, phase, touched, boundary, cause, history, counters>>

PhaseFails ==
  /\ ctl = "call" /\ owned
  /\ \/ ~active /\ Fail("cancelled")
     \/ active /\ Fail("failed")
     \/ active /\ phase + 1 \in Reviews /\ ~touched /\ Fail("refused")
  /\ UNCHANGED <<repoVars, ticket, session, phase, tries, touched, boundary, history, counters>>

(* runDeterministicVerification, right after the implementation.           *)
Verify ==
  /\ ctl = "verify" /\ owned
  /\ \/ active /\ ctl' = "phases" /\ UNCHANGED cause
     \/ ~active /\ Fail("cancelled")
     \/ active /\ Fail("failed")
  /\ UNCHANGED <<repoVars, ticket, session, phase, tries, touched, boundary, history, counters>>

CancelledBetween ==
  /\ ctl = "phases" /\ owned /\ ~active
  /\ Fail("cancelled")
  /\ UNCHANGED <<repoVars, ticket, session, phase, tries, touched, boundary, history, counters>>

-----------------------------------------------------------------------------
(* Scope, quality gate and the verified boundary.                          *)

ChangedSince(l) == files \ TreeOf(l)
ScopeHolds      == ChangedSince(boundary) \subseteq InScope

ScopeCheck ==
  /\ ctl = "phases" /\ phase = LastPhase /\ owned /\ active
  /\ IF ScopeHolds THEN ctl' = "gate" /\ UNCHANGED cause ELSE Fail("failed")
  /\ UNCHANGED <<repoVars, ticket, session, phase, tries, touched, boundary, history, counters>>

(* The gate's commands have run: the delta is taken and its scope is       *)
(* evaluated again, and the verdict is read.                               *)
Gate ==
  /\ ctl = "gate" /\ owned
  /\ \/ /\ active /\ ScopeHolds /\ advance.phase = "started"
        /\ approved' = files /\ late' = {}
        /\ ctl' = "record" /\ UNCHANGED cause
     \/ active /\ Fail("failed") /\ UNCHANGED <<approved, late>>
     \/ ~active /\ Fail("cancelled") /\ UNCHANGED <<approved, late>>
  /\ UNCHANGED <<repoVars, ticket, session, phase, tries, touched, boundary,
                 made, interrupted, counters>>

(* markRefinementRepositoryAdvanceVerified: the delta the gate saw, and    *)
(* the repository as it is by now.                                         *)
Record ==
  /\ ctl = "record" /\ ctl' = "commit"
  /\ advance' = [phase |-> "verified", base |-> advance.base, vlog |-> log, vfiles |-> files,
                 paths |-> approved \ TreeOf(boundary)]
  /\ UNCHANGED <<repoVars, status, stamp, session, local, history, counters>>

(* autoCommitDetachedTicketChanges: the paths of the delta, and what the   *)
(* hooks of the commit stage.  Git refuses an empty commit.                *)
AutoCommit ==
  /\ ctl = "commit" /\ owned
  /\ \/ /\ tmux /\ Dirty
        /\ \E swept \in SUBSET late :
             LET tree == Staged(advance.paths \cup swept)
             IN tree # TreeOf(log) /\ log' = Commit(tree, "own")
        /\ objects' = objects + 1
        /\ ctl' = "trailer" /\ UNCHANGED cause
     \/ tmux /\ Dirty /\ Fail("failed") /\ UNCHANGED <<log, objects>>
     \/ ~(tmux /\ Dirty) /\ ctl' = "trailer" /\ UNCHANGED <<log, objects, cause>>
  /\ UNCHANGED <<files, refs, ticket, session, phase, tries, touched, boundary, history, counters>>

Window(base) == Len(log) - Len(base)
Amended(tree) == [log EXCEPT ![Len(log)] = [tree |-> tree, by |-> "own", id |-> objects + 1]]

(* resolveCompletionCommitSha: a single commit of the worker's own without *)
(* the trailer is amended, with what the hooks stage; git may refuse.      *)
Trailer ==
  /\ ctl = "trailer"
  /\ ctl' = "evidence"
  /\ \/ /\ Window(boundary) = 1 /\ log[Len(log)].by # "own"
        /\ \E swept \in SUBSET late : log' = Amended(Staged(swept))
        /\ objects' = objects + 1
     \/ UNCHANGED <<log, objects>>
  /\ UNCHANGED <<files, refs, ticket, session, local, history, counters>>

OwnCommits == {k \in DOMAIN log : log[k].by = "own"}

\* Without evidence only an attempt whose gate saw no change is done.
EvidenceRefused == stamp = 0 /\ OwnCommits = {} /\ advance.paths # {}

(* evaluateCompletionEvidence: a stamp that is already there is kept, as   *)
(* its commit is readable; otherwise the newest commit of HEAD's history   *)
(* that names the ticket is stamped.                                       *)
Evidence ==
  /\ ctl = "evidence" /\ owned
  /\ \/ /\ stamp # 0 \/ OwnCommits # {}
        /\ stamp' = IF stamp # 0 THEN stamp
                    ELSE log[CHOOSE k \in OwnCommits : \A j \in OwnCommits : j <= k].id
        /\ ctl' = "finalize" /\ UNCHANGED cause
     \/ /\ stamp = 0 /\ OwnCommits = {}
        /\ IF EvidenceRefused THEN Fail("no evidence")
           ELSE ctl' = "finalize" /\ UNCHANGED cause
        /\ UNCHANGED stamp
  /\ UNCHANGED <<repoVars, status, advance, session, phase, tries, touched, boundary, history, counters>>

(* finalizeSuccess: one transaction over ticket, acceptance and advance.   *)
Finalize ==
  /\ ctl = "finalize" /\ owned
  /\ status' = "Done" /\ accepted' = Identity /\ advance' = NoAdvance
  /\ ctl' = "clear"
  /\ UNCHANGED <<repoVars, stamp, cand, context, sup, active, recovery, owned, local, history, counters>>

FinalizeFails ==
  /\ ctl = "finalize" /\ Fail("failed")
  /\ UNCHANGED <<repoVars, ticket, session, phase, tries, touched, boundary, history, counters>>

ClearCandidate ==
  /\ ctl = "clear" /\ ctl' = "idle" /\ cand' = NoCand /\ Forget
  /\ UNCHANGED <<repoVars, ticket, accepted, context, sup, active, recovery, owned, history, counters>>

-----------------------------------------------------------------------------
(* Rollback: recoverableHardReset, for a rejected attempt and for one that *)
(* a bootstrap finds interrupted ("reset").                                *)

Resetting == ctl \in {"reset", "reset move", "reset files", "reset done"}
Target    == IF Resetting THEN advance.base ELSE boundary

(* The rejected worker started behind a clean boundary: all that changed   *)
(* is its own.  A reset owns what the verified delta or the scope names.   *)
OwnedPaths ==
  IF ~Resetting THEN Changes
  ELSE IF advance.paths # {} THEN advance.paths ELSE InScope

\* Fault: commits are anchored, the dirty tree is not.
AnchoredHead == IF log # Target THEN TreeOf(log) ELSE {}

\* Fault: a clean tree counts as rolled back.
CleanTree(base) == ~Dirty

\* The repository is at the boundary: same head, same fingerprint.
Restored(base) == Identity = At(base)

(* archiveRecoverableGitState: HEAD under its recovery ref when it moved,  *)
(* a snapshot of the tree when it is dirty.                                *)
Anchored == (IF log # Target THEN TreeOf(log) ELSE {}) \cup (IF Dirty THEN files ELSE {})

Archive ==
  /\ \/ ctl = "failing" /\ ~Restored(boundary) /\ ctl' = "move"
     \/ ctl = "reset" /\ ~Restored(advance.base) /\ ctl' = "reset move"
  /\ refs' = refs \cup Anchored
  /\ UNCHANGED <<log, files, objects, ticket, session, local, history, counters>>

(* HEAD goes back to the boundary; commits that also hold paths of others  *)
(* stay, under a commit that takes the owned paths back.                   *)
MoveHead ==
  /\ ctl \in {"move", "reset move"}
  /\ ctl' = IF ctl = "move" THEN "files" ELSE "reset files"
  /\ IF log = Target THEN UNCHANGED <<log, objects>>
     ELSE IF TreeOf(log) \ TreeOf(Target) \subseteq OwnedPaths
     THEN log' = Target /\ UNCHANGED objects
     ELSE IF (TreeOf(log) \ TreeOf(Target)) \cap OwnedPaths = {} THEN UNCHANGED <<log, objects>>
     ELSE log' = Commit(TreeOf(log) \ (OwnedPaths \ TreeOf(Target)), "none") /\ objects' = objects + 1
  /\ UNCHANGED <<files, refs, ticket, session, local, history, counters>>

Differ(s, t) == (s \ t) \cup (t \ s)
Misplaced    == Differ(files, TreeOf(log)) \cap OwnedPaths

RestorePath ==
  /\ ctl \in {"files", "reset files"}
  /\ \E c \in Misplaced : files' = Differ(files, {c})
  /\ UNCHANGED <<log, objects, refs, ticket, session, ctl, local, history, counters>>

(* The rejected candidate is kept for the next attempt of the same base.   *)
PersistCandidate ==
  /\ ctl = "files" /\ Misplaced = {} /\ Restored(boundary)
  /\ cand' = [head |-> HeadOf(boundary), ids |-> made]
  /\ ctl' = "park"
  /\ UNCHANGED <<repoVars, ticket, accepted, context, sup, active, recovery, owned,
                 local, history, counters>>

NothingToRollBack ==
  /\ ctl = "failing" /\ Restored(boundary)
  /\ ctl' = "park"
  /\ UNCHANGED <<repoVars, ticket, session, local, history, counters>>

(* The archive or the restore fails: nobody may go on before a recovery.   *)
RollbackFails ==
  /\ \/ ctl \in {"failing", "move"}
     \/ ctl = "files" /\ (Misplaced # {} \/ ~Restored(boundary))
  /\ recovery' = TRUE /\ ctl' = "idle" /\ Forget
  /\ UNCHANGED <<repoVars, ticket, accepted, cand, context, sup, active, owned, history, counters>>

(* updateTicketAndClearAdvance, fenced: a lost lease leaves it to others.  *)
Park ==
  /\ ctl = "park"
  /\ IF owned
     THEN /\ status' = IF cause \in {"cancelled", "no evidence"} THEN "Todo" ELSE "Blocked"
          /\ advance' = NoAdvance
          /\ ctl' = "idle"
     ELSE ctl' = "down" /\ UNCHANGED <<status, advance>>
  /\ Forget
  /\ UNCHANGED <<repoVars, stamp, session, history, counters>>

-----------------------------------------------------------------------------
(* Cancellation, loss of the lease, crash.                                 *)

Reconciling == ctl \in {"recommit", "amend", "closing"}
Running     == ctl \notin {"idle", "down"} /\ ~Resetting /\ ~Reconciling

Cancel ==
  /\ active /\ Running /\ active' = FALSE
  /\ UNCHANGED <<repoVars, ticket, accepted, cand, context, sup, recovery, owned, ctl, local, history, counters>>

LoseLease ==
  /\ Running /\ owned /\ interrupts < MaxInterrupts
  /\ owned' = FALSE /\ interrupted' = TRUE /\ interrupts' = interrupts + 1
  /\ UNCHANGED <<repoVars, ticket, accepted, cand, context, sup, active, recovery, ctl, local,
                 made, approved, late, tmux, attempts, selfCommits, others>>

(* A cancel poll that finds the lease lost drains the attempt as it is;    *)
(* any other fence throws into the rollback.                               *)
Drain ==
  /\ ~owned
  /\ \/ ctl \in {"baseline", "call", "verify", "gate"} /\ ctl' = "down" /\ Forget
     \/ /\ ctl \in {"baseline", "phases", "call", "verify", "gate", "commit", "evidence", "finalize"}
        /\ Fail("lost") /\ UNCHANGED <<phase, tries, touched, boundary>>
  /\ UNCHANGED <<repoVars, ticket, session, history, counters>>

Crash ==
  /\ ctl \notin {"idle", "down"} /\ interrupts < MaxInterrupts
  /\ ctl' = "down" /\ interrupted' = TRUE /\ interrupts' = interrupts + 1 /\ Forget
  /\ UNCHANGED <<repoVars, ticket, session, made, approved, late, tmux, attempts, selfCommits, others>>

(* The supervisor starts the next executor, without a bootstrap.           *)
NextExecutor ==
  /\ ctl = "down" /\ active
  /\ ctl' = "idle" /\ owned' = TRUE
  /\ UNCHANGED <<repoVars, ticket, accepted, cand, context, sup, active, recovery, local, history, counters>>

-----------------------------------------------------------------------------
(* Reconciliation: ensureBootstrapSessionReady, and a recovery strategy    *)
(* that reconstructs the workspace.                                        *)

Between == ctl \in {"idle", "down"}

(* A session without an open boundary and with the accepted repository     *)
(* may be resumed; any other repository is refused.                        *)
Bootstrap ==
  /\ Between /\ advance = NoAdvance /\ Identity = accepted /\ ~active
  /\ active' = TRUE /\ owned' = TRUE /\ ctl' = "idle"
  /\ UNCHANGED <<repoVars, ticket, accepted, cand, context, sup, recovery, local, history, counters>>

\* The boundary still starts at the accepted repository.
Reconcilable == Between /\ advance # NoAdvance /\ accepted = At(advance.base) /\ status = "In Progress"
HasChanges   == <<advance.vlog, advance.vfiles>> # At(advance.base)

\* The tree still is, uncommitted, exactly what was verified.
VerifiedDirty ==
  /\ advance.phase = "verified" /\ HasChanges
  /\ Dirty /\ files = advance.vfiles /\ log = advance.vlog

ReconcileCommit ==
  /\ Reconcilable /\ VerifiedDirty /\ tmux
  /\ ctl' = "recommit"
  /\ UNCHANGED <<repoVars, ticket, session, local, history, counters>>

(* The commit, with what its hooks stage; or git refuses.                  *)
Recommit ==
  /\ ctl = "recommit" /\ ctl' = "down"
  /\ \/ /\ \E swept \in SUBSET late :
             LET tree == Staged(advance.paths \cup swept)
             IN tree # TreeOf(log) /\ log' = Commit(tree, "own")
        /\ objects' = objects + 1
     \/ UNCHANGED <<log, objects>>
  /\ UNCHANGED <<files, refs, ticket, session, local, history, counters>>

\* The verified state itself, clean and with commits of the worker's own.
VerifiedClean ==
  /\ advance.phase = "verified" /\ HasChanges
  /\ Identity = <<advance.vlog, advance.vfiles>> /\ ~Dirty /\ log # advance.base

ReconcileAmend ==
  /\ Reconcilable /\ VerifiedClean
  /\ log[Len(log)].by # "own" /\ Window(advance.base) = 1
  /\ ctl' = "amend"
  /\ UNCHANGED <<repoVars, ticket, session, local, history, counters>>

(* The amended commit is taken as it is; when git refuses, the boundary is *)
(* reset.                                                                  *)
Amend ==
  /\ ctl = "amend"
  /\ \/ /\ \E swept \in SUBSET late : log' = Amended(Staged(swept))
        /\ objects' = objects + 1 /\ ctl' = "closing"
     \/ /\ UNCHANGED <<log, objects>>
        /\ ctl' = IF Restored(advance.base) THEN "reset done" ELSE "reset"
  /\ UNCHANGED <<files, refs, ticket, session, local, history, counters>>

\* Fault: a commit that names the ticket is taken for its completion.
NamedCommit == ~Dirty /\ log # advance.base /\ log[Len(log)].by = "own"

\* One commit on the verified head (or the amended one) holds its files.
Committed ==
  \/ VerifiedClean /\ log[Len(log)].by = "own"
  \/ /\ advance.phase = "verified"
     /\ ~Dirty /\ files = advance.vfiles /\ log # advance.base
     /\ log[Len(log)].by = "own"
     /\ \/ Len(log) = Len(advance.vlog) + 1 /\ SubSeq(log, 1, Len(log) - 1) = advance.vlog
        \/ Len(log) = Len(advance.vlog) /\ log # advance.vlog

NoOp == advance.phase = "verified" /\ ~HasChanges /\ Restored(advance.base)

ReconcileChecked ==
  /\ Reconcilable /\ (Committed \/ NoOp)
  /\ ctl' = "closing"
  /\ UNCHANGED <<repoVars, ticket, session, local, history, counters>>

(* The repository is accepted as it is by then.                            *)
ReconcileDone ==
  /\ ctl = "closing"
  /\ status' = "Done" /\ accepted' = Identity /\ advance' = NoAdvance /\ recovery' = FALSE
  /\ stamp' = IF log # advance.base THEN HeadOf(log) ELSE stamp
  /\ ctl' = "down"
  /\ UNCHANGED <<repoVars, cand, context, sup, active, owned, local, history, counters>>

(* resetAdvanceToTodo: an unverified boundary, verified changes that a     *)
(* direct session has not committed or that carry no trailer, and a        *)
(* verified boundary already rolled back.                                  *)
ReconcileReset ==
  /\ Reconcilable
  /\ \/ advance.phase = "started"
     \/ VerifiedDirty /\ ~tmux
     \/ VerifiedClean /\ log[Len(log)].by # "own"
     \/ advance.phase = "verified" /\ HasChanges /\ Restored(advance.base)
  /\ ctl' = IF Restored(advance.base) THEN "reset done" ELSE "reset"
  /\ UNCHANGED <<repoVars, ticket, session, local, history, counters>>

ResetRestored ==
  /\ ctl = "reset files" /\ Misplaced = {}
  /\ ctl' = IF Restored(advance.base) THEN "reset done" ELSE "down"
  /\ UNCHANGED <<repoVars, ticket, session, local, history, counters>>

ResetToTodo ==
  /\ ctl = "reset done"
  /\ status' = "Todo" /\ advance' = NoAdvance /\ recovery' = FALSE /\ ctl' = "down"
  /\ UNCHANGED <<repoVars, stamp, accepted, cand, context, sup, active, owned, local, history, counters>>

(* Another ticket is delivered between two attempts.                       *)
OtherTicket ==
  /\ ctl = "idle" /\ advance = NoAdvance /\ status # "Done" /\ Identity = accepted /\ ~Dirty
  /\ others < MaxOthers /\ others' = others + 1
  /\ log' = Commit(files, "other") /\ objects' = objects + 1
  /\ accepted' = <<log', files>>
  /\ UNCHANGED <<files, refs, ticket, cand, context, sup, active, recovery, owned, ctl, local,
                 history, tmux, attempts, interrupts, selfCommits>>

AttemptStep ==
  \/ Preflight \/ Begin \/ Resume \/ Baseline \/ RestoreCandidate
  \/ SkipSimplify \/ CallModel \/ PhaseAccepted \/ PhaseRetried \/ PhaseFails
  \/ Verify \/ CancelledBetween \/ ScopeCheck \/ Gate \/ Record \/ AutoCommit \/ Trailer \/ Evidence
  \/ Finalize \/ FinalizeFails \/ ClearCandidate
RollbackStep ==
  \/ Archive \/ MoveHead \/ RestorePath \/ PersistCandidate \/ NothingToRollBack \/ RollbackFails \/ Park
ReconcileStep ==
  \/ Bootstrap \/ ReconcileCommit \/ Recommit \/ ReconcileAmend \/ Amend
  \/ ReconcileChecked \/ ReconcileDone \/ ReconcileReset
  \/ ResetRestored \/ ResetToTodo

WANext ==
  \/ AttemptStep \/ Edit \/ LateEdit \/ SelfCommit \/ RollbackStep \/ ReconcileStep
  \/ Cancel \/ LoseLease \/ Drain \/ Crash \/ NextExecutor \/ OtherTicket

WASpec == WAInit /\ [][WANext]_waVars

-----------------------------------------------------------------------------
(* Properties.                                                             *)

(* Every variable holds values of its shape.                               *)
WATypeOK ==
  /\ tmux \in BOOLEAN /\ active \in BOOLEAN /\ recovery \in BOOLEAN /\ owned \in BOOLEAN
  /\ files \subseteq Changes /\ refs \subseteq Changes
  /\ \A k \in DOMAIN log : /\ log[k].tree \subseteq Changes /\ log[k].by \in {"none", "own", "other"}
                          /\ log[k].id \in 1..objects
  /\ status \in {"Todo", "In Progress", "Blocked", "Done"} /\ stamp \in 0..objects
  /\ advance.phase \in {"none", "started", "verified"}
  /\ cand.ids \subseteq Changes
  /\ phase \in 0..LastPhase /\ tries \in 0..2 /\ sup.n \in {0} \cup ContextPhases
  /\ made \subseteq Changes /\ approved \subseteq Changes /\ late \subseteq Changes

(* Whatever a worker made in an attempt stays recoverable at every point   *)
(* of the attempt, of its rollback and of its reconciliation, crashes      *)
(* included: it is in the work tree or under an anchored ref.              *)
AttemptPreserved == made \subseteq files \cup refs

(* A ticket becomes Done, at once or at a later bootstrap, over the tree   *)
(* its gate approved but for what was changed after the gate's verdict,    *)
(* and in a detached session with the rest of that tree committed.         *)
DoneIsDelivered ==
  [][status # "Done" /\ status' = "Done"
       => /\ Differ(files', approved') \subseteq late'
          /\ tmux => approved' \ late' \subseteq TreeOf(log')]_waVars

(* Said where the completion commit is made: staging only the fenced delta *)
(* keeps a user's change after the scope review out.  So Done is reached   *)
(* over the very tree the gate approved.                                   *)
DoneIsApproved ==
  [][status # "Done" /\ status' = "Done" => files' = approved']_waVars

(* Once an attempt is over, the repository is again the accepted one and   *)
(* no boundary is open: a rejected attempt leaves nothing behind, unless   *)
(* its executor was interrupted or the failed rollback asks for recovery.  *)
RejectedLeavesNothing ==
  ctl = "idle" /\ ~interrupted /\ ~recovery => Identity = accepted /\ advance = NoAdvance

(* Said by the execution engine's plan of a crash: the next bootstrap      *)
(* reconstructs a clean workspace from the last verified checkpoint.  So   *)
(* a repository that left the accepted one has an open boundary to be      *)
(* reconstructed from.                                                     *)
BoundaryKept == ctl = "idle" /\ ~recovery /\ Identity # accepted => advance # NoAdvance

(* Said by the plan of a rejected candidate: remediation begins from it.   *)
(* So restoring it is never what fails an attempt.                         *)
CandidateRestores == ctl = "failing" => cause # "candidate"

(* Said in runTicket: a surviving stamp must never be claimed as           *)
(* completion.  So the commit a ticket becomes Done by is in the history   *)
(* it delivers.                                                            *)
StampDelivered ==
  [][status # "Done" /\ status' = "Done" /\ stamp' # 0
       => \E k \in DOMAIN log' : log'[k].id = stamp']_waVars
=============================================================================
