---------------------------- MODULE CitadelGate ----------------------------
(***************************************************************************)
(* The citadel: the last phase of a pipeline, which decides whether the    *)
(* work may be released (services/citadel.ts).                             *)
(*                                                                         *)
(* One run of runCitadel removes the report and the approval of the last   *)
(* one, runs the deterministic checks of the tickets (or reuses those that *)
(* passed on the same commit), lets a reviewer model judge the commit, and *)
(* writes the report and, if the verdict is to approve, an approval bound  *)
(* to the commit.  What it cannot judge it records as a system block.      *)
(* Every artifact is a file: the controller may be killed between any two  *)
(* writes, or see an error at any step, and the next run starts from the   *)
(* files.  The repository belongs to the user, who may commit meanwhile.   *)
(*                                                                         *)
(* This module has the steps of one run.  What is done about a refusal or  *)
(* a system block is in ReviewerContract and PipelinePhases.               *)
(***************************************************************************)
EXTENDS Naturals, FiniteSets

CONSTANTS Tickets,   \* the tickets of the manifest
          Catalog,   \* reviewer strategies of the catalog (the code has 5)
          MaxHead,   \* commits
          Environments, \* environments that a run may be started in
          MaxEvidence, \* different failed reviewer candidates of one review
          MaxUpsets  \* kills, errors, failing checks, commits of the user,
                     \* restarts elsewhere and cancellations, together

ASSUME TicketsAssumption == IsFiniteSet(Tickets) /\ Tickets # {}
ASSUME GateBounds ==
  /\ {Catalog, Environments} \subseteq Nat \ {0}
  /\ {MaxHead, MaxEvidence, MaxUpsets} \subseteq Nat

VARIABLES
  head,     \* HEAD of the working directory
  contract, \* the accepted PRD: "ok", its scope is invalid ("scope"), or no
            \* ticket has a substantive verifier ("noGate")
  broken,   \* tickets whose verifier in the manifest is missing
  env,      \* what the process inherits: process.env, with the session and
            \* pane of tmux, and the timeouts of the checks
  st,       \* state.json: active, last_exit_reason, cancel_requested_at
  gate,     \* citadel-deterministic-check-journal.json, citadel-checks.json
  review,   \* citadel-review-state.json
  report,   \* citadel-report.json
  approval, \* citadel-release-approval.json: the commit, 0 if there is none
  block,    \* citadel-system-block.json
  cj,       \* the journal of the repair of the reviewer's contract
  refused,  \* history: commits that an accepted review refused, as long as
            \* nothing lets them be judged anew
  ctl,      \* the controller: its step, the commit it judges, its result
  upsets    \* of those that MaxUpsets limits

repo     == <<head, contract, broken, env>>
evidence == <<gate, review, report, approval, block, cj, refused>>

Attempts == 2   \* CITADEL_REVIEWER_MAX_ATTEMPTS

NoGate == [head |-> 0, env |-> 0, result |-> "none", owners |-> {}]
\* "con" is artifact_contract_recovery: the mechanism of the last repair of
\* the reviewer's contract, the mechanisms used and the evidence it had.
NoCon     == [mech |-> 0, used |-> {}, n |-> 0, err |-> 0]
\* "n" counts the different failed candidates, "err" tells two errors apart
\* that the same candidate can be rejected for.
NewReview == [bound |-> TRUE, epoch |-> 1, status |-> "running", used |-> 0,
              last |-> "none", verdict |-> {}, n |-> 0, err |-> 0, con |-> NoCon]
NoReport  == [verdict |-> "none", owners |-> {}, head |-> 0]
NoBlock   == [code |-> "none", owners |-> {}, err |-> 0, odd |-> FALSE]

At(x)   == ctl.at = x
Step(x) == [at |-> x, head |-> 0, ret |-> "none", left |-> {}, back |-> "none"]
Goto(x) == ctl' = [ctl EXCEPT !.at = x]
\* runCitadel ends; "error" stands for an exception.
Return(r) == ctl' = [Step("returned") EXCEPT !.ret = r]
Throw     == Return("error")
Unmoved   == head = ctl.head     \* assertReleaseWorkspaceUnchanged
ReturnIfUnmoved(r) == Return(IF Unmoved THEN r ELSE "error")
Upset     == upsets < MaxUpsets /\ upsets' = upsets + 1
Cancelled == st.cancel \/ st.exit = "cancelled"    \* shouldCancel

\* citadelSystemBlockFailureIdentity
SameFailure(code, owners, err) ==
  block.code = code /\ block.owners = owners /\ block.err = err

(* persistCitadelSystemBlock: the same failure again is the next attempt.  *)
PersistBlock(code, owners, err) ==
  /\ report' = NoReport
  /\ block' = [code |-> code, owners |-> owners, err |-> err,
               odd |-> IF SameFailure(code, owners, err) THEN ~block.odd ELSE TRUE]

-----------------------------------------------------------------------------
(* The entry and the deterministic checks.                                 *)

(* createCitadelWorktree: what is judged is a checkout of this commit; one *)
(* that cannot be made is an exception (CitadelThrows).                    *)
CheckOut == ctl' = [Step("gate") EXCEPT !.head = head]

EnterCitadel ==
  /\ At("citadel")
  /\ approval' = 0
  /\ IF contract = "scope"
     THEN PersistBlock("scope", {}, 0) /\ Return("system")
     ELSE /\ report' = NoReport
          /\ CheckOut
          /\ UNCHANGED block
  /\ UNCHANGED <<repo, st, gate, review, cj, refused, upsets>>

(* verificationGateFromManifest: a ticket without a verifier is repaired   *)
(* before anything runs.                                                   *)
VerifiersMissing ==
  /\ At("gate") /\ broken # {}
  /\ PersistBlock("verifier", broken, 0) /\ ReturnIfUnmoved("system")
  /\ UNCHANGED <<repo, st, gate, review, approval, cj, refused, upsets>>

\* deriveCitadelChecksAuthorityContext: what the results are bound to.
ChecksBound == gate.head = ctl.head /\ gate.env = env
\* canReuseChecks
Reusable == ChecksBound /\ gate.result = "passed"

ReuseChecks ==
  /\ At("gate") /\ broken = {} /\ Reusable
  /\ Goto("review")
  /\ UNCHANGED <<repo, st, evidence, upsets>>

(* A run of the checks has its own times, so that a review of the results  *)
(* of an earlier run is not resumed.  In another environment the commit is *)
(* checked, and then judged, anew.                                         *)
StartChecks ==
  /\ At("gate") /\ broken = {} /\ ~Reusable
  /\ gate' = [head |-> ctl.head, env |-> env, result |-> "running", owners |-> {}]
  /\ review' = [review EXCEPT !.bound = FALSE]
  /\ refused' = IF gate.env = env THEN refused ELSE {}
  /\ Goto("checking")
  /\ UNCHANGED <<repo, st, report, approval, block, cj, upsets>>

(* The journal is completed before citadel-checks.json is written, which   *)
(* refers to it.  A failed check belongs to one ticket, or to none; one    *)
(* that failed before may well fail again.                                 *)
ChecksPass ==
  /\ At("checking") /\ gate' = [gate EXCEPT !.result = "unsaved"]
  /\ Goto("saving")
  /\ UNCHANGED <<repo, st, review, report, approval, block, cj, refused, upsets>>

ChecksFail ==
  /\ At("checking")
  /\ Upset \/ (block.code = "checks" /\ UNCHANGED upsets)
  /\ \E owners \in {{}} \cup {{t} : t \in Tickets} :
       gate' = [gate EXCEPT !.result = "failed", !.owners = owners]
  /\ Goto("saving")
  /\ UNCHANGED <<repo, st, review, report, approval, block, cj, refused>>

ChecksCancelled ==
  /\ At("checking") /\ Cancelled
  /\ gate' = [gate EXCEPT !.result = "interrupted"]
  /\ ReturnIfUnmoved("cancelled")
  /\ UNCHANGED <<repo, st, review, report, approval, block, cj, refused, upsets>>

(* The identity of a failure has the output of the checks in it, which may *)
(* be another one each time.                                               *)
SaveChecks ==
  /\ At("saving")
  /\ IF gate.result = "failed"
     THEN /\ \E output \in {0, 1} : PersistBlock("checks", gate.owners, output)
          /\ ReturnIfUnmoved("system") /\ UNCHANGED gate
     ELSE /\ gate' = [gate EXCEPT !.result = "passed"]
          /\ Goto("review") /\ UNCHANGED <<report, block>>
  /\ UNCHANGED <<repo, st, review, approval, cj, refused, upsets>>

-----------------------------------------------------------------------------
(* The reviewer.                                                           *)

NoSubstance ==
  /\ At("review") /\ contract = "noGate"
  /\ PersistBlock("noGate", {}, 0) /\ ReturnIfUnmoved("system")
  /\ UNCHANGED <<repo, st, gate, review, approval, cj, refused, upsets>>

\* A fault: a review that has ended is not resumed.
ResumedRunning == IF review.bound /\ review.status = "running" THEN review ELSE NewReview
\* A new review identity: the journal of a contract repair keeps the old one.
Resumed == IF review.bound THEN review ELSE NewReview
\* Another candidate failed, or the same bytes again, for error e.
Failed(r, same, e) ==
  [r EXCEPT !.last = "none", !.n = IF same THEN @ ELSE @ + 1,
            !.err = IF same THEN e ELSE 0]

\* The next strategy of the catalog, when the attempts of one are used up.
Exhausted(r) == \/ r.status = "diagnostic"
                \/ r.status = "exhausted" /\ (r.epoch >= Catalog \/ r.con.mech # 0)
NextEpoch(r) == IF r.status = "exhausted"
                THEN [r EXCEPT !.epoch = @ + 1, !.used = 0, !.status = "running"] ELSE r

ReviewerExhausted ==
  /\ At("review") /\ contract # "noGate" /\ Exhausted(Resumed)
  /\ review' = [review EXCEPT !.status = "diagnostic"]
  /\ PersistBlock("reviewer", {}, review.err) /\ ReturnIfUnmoved("system")
  /\ UNCHANGED <<repo, st, gate, approval, cj, refused, upsets>>

\* A fault: a candidate without a report is an attempt that was cut off.
OpenReviewAfresh ==
  /\ At("review") /\ contract # "noGate" /\ ~Exhausted(Resumed)
  /\ LET r   == NextEpoch(Resumed)
         cut == IF r.last \in {"started", "validated"} THEN Failed(r, FALSE, 0) ELSE r
     IN review' = cut /\ Goto(IF cut.last = "accepted" THEN "report" ELSE "attempts")
  /\ cj' = IF review.bound THEN cj ELSE [cj EXCEPT !.mine = FALSE]
  /\ UNCHANGED <<repo, st, gate, report, approval, block, refused, upsets>>

(* An attempt that was cut off counts; one whose candidate was validated   *)
(* is taken as it is, without asking the model again.                      *)
OpenReview ==
  /\ At("review") /\ contract # "noGate" /\ ~Exhausted(Resumed)
  /\ LET r   == NextEpoch(Resumed)
         cut == IF r.last = "started" THEN Failed(r, FALSE, 0) ELSE r
     IN /\ review' = cut
        /\ Goto(IF cut.last \in {"validated", "accepted"} THEN "report" ELSE "attempts")
  /\ cj' = IF review.bound THEN cj ELSE [cj EXCEPT !.mine = FALSE]
  /\ UNCHANGED <<repo, st, gate, report, approval, block, refused, upsets>>

StartAttempt ==
  /\ At("attempts") /\ review.used < Attempts
  /\ review' = [review EXCEPT !.used = @ + 1, !.last = "started"]
  /\ Goto("reviewing")
  /\ UNCHANGED <<repo, st, gate, report, approval, block, cj, refused, upsets>>

\* CitadelReviewerArtifactError
AttemptsUsedUp ==
  /\ At("attempts") /\ review.used >= Attempts
  /\ review' = [review EXCEPT !.status = "exhausted"]
  /\ Throw
  /\ UNCHANGED <<repo, st, gate, report, approval, block, cj, refused, upsets>>

(* The verdict is a set of tickets: those the findings may belong to, none *)
(* to approve.                                                             *)
ReviewerJudges ==
  /\ At("reviewing") /\ Unmoved
  /\ \E v \in SUBSET Tickets :
       review' = [review EXCEPT !.last = "validated", !.verdict = v]
  /\ Goto("report")
  /\ UNCHANGED <<repo, st, gate, report, approval, block, cj, refused, upsets>>

\* A new candidate failed, or one that failed before.
Rejection ==
  \/ review.n < MaxEvidence /\ review' = Failed(review, FALSE, 0)
  \/ review.n > 0 /\ \E e \in {0, 1} : review' = Failed(review, TRUE, e)

CandidateRejected ==
  /\ At("reviewing") /\ Unmoved /\ Rejection /\ Goto("attempts")
  /\ UNCHANGED <<repo, st, gate, report, approval, block, cj, refused, upsets>>

ReviewerFails ==
  /\ At("reviewing") /\ Upset /\ review.n < MaxEvidence
  /\ review' = Failed(review, FALSE, 0) /\ Throw
  /\ UNCHANGED <<repo, st, gate, report, approval, block, cj, refused>>

ReviewerCancelled ==
  /\ At("reviewing") /\ Cancelled /\ Unmoved /\ review.n < MaxEvidence
  /\ review' = Failed(review, FALSE, 0) /\ Return("cancelled")
  /\ UNCHANGED <<repo, st, gate, report, approval, block, cj, refused, upsets>>

(* A candidate that was validated, or is read again after a restart, must  *)
(* have its telemetry finalized before it is reported.  An error there, or *)
(* a file that changed, rejects it after all, and the model is asked again.*)
ValidatedRejected ==
  /\ At("report") /\ Upset /\ Rejection /\ Goto("attempts")
  /\ refused' = refused \ {ctl.head}
  /\ UNCHANGED <<repo, st, gate, report, approval, block, cj>>

\* The attempt stays "started".
ReviewedWorkspaceMoved ==
  /\ At("reviewing") /\ ~Unmoved /\ Throw
  /\ UNCHANGED <<repo, st, evidence, upsets>>

-----------------------------------------------------------------------------
(* The verdict.                                                            *)

WriteReport ==
  /\ At("report")
  /\ block' = NoBlock
  /\ report' = [verdict |-> IF review.verdict = {} THEN "approve" ELSE "block",
                owners |-> review.verdict, head |-> ctl.head]
  /\ Goto("accept")
  /\ UNCHANGED <<repo, st, gate, review, approval, cj, refused, upsets>>

AcceptReview ==
  /\ At("accept")
  /\ review' = [review EXCEPT !.status = "accepted", !.last = "accepted"]
  /\ Goto(IF report.verdict = "approve" THEN "approve" ELSE "verify")
  /\ refused' = IF report.verdict = "approve" THEN refused ELSE refused \cup {ctl.head}
  /\ UNCHANGED <<repo, st, gate, report, approval, block, cj, upsets>>

\* persistCitadelReleaseApproval takes the commit of this moment.
PersistApproval ==
  /\ At("approve") /\ approval' = head /\ Goto("verify")
  /\ UNCHANGED <<repo, st, gate, review, report, block, cj, refused, upsets>>

(* validateCitadelRecoveryEvidence: the checks, their journal, the review  *)
(* and the report fit together and to the repository, and the checks to    *)
(* the environment of this run.                                            *)
ChecksPassed == gate.head = head /\ gate.result = "passed"
ReviewFits ==
  /\ review.bound /\ review.status = "accepted" /\ review.last = "accepted"
  /\ report.verdict = IF review.verdict = {} THEN "approve" ELSE "block"
EvidenceFits == ChecksPassed /\ gate.env = env /\ ReviewFits

\* A fault: the verdict alone decides.
VerifyVerdict ==
  /\ At("verify") /\ Return(IF report.verdict = "approve" THEN "success" ELSE "blocked")
  /\ UNCHANGED <<repo, st, evidence, upsets>>

VerifyRelease ==
  /\ At("verify")
  /\ Return(IF ~Unmoved \/ ~EvidenceFits THEN "error"
            ELSE IF report.verdict = "approve" THEN "success" ELSE "blocked")
  /\ UNCHANGED <<repo, st, evidence, upsets>>

(* assertCitadelReleaseApproval                                            *)
ReleaseApproved == report.verdict = "approve" /\ approval = head

(* A dirty tree, a check or a reviewer that changed the isolated worktree, *)
(* a file that cannot be written: an exception between two steps.          *)
CitadelSteps == {"citadel", "gate", "checking", "saving", "review", "attempts",
                 "reviewing", "report", "accept", "approve", "verify"}
CitadelThrows ==
  /\ ctl.at \in CitadelSteps /\ Upset /\ Throw
  /\ UNCHANGED <<repo, st, evidence>>

UserCommits ==
  /\ head < MaxHead /\ Upset /\ head' = head + 1
  /\ UNCHANGED <<contract, broken, env, st, evidence, ctl>>

RunCitadel ==
  \/ EnterCitadel \/ VerifiersMissing \/ ReuseChecks \/ StartChecks
  \/ ChecksPass \/ ChecksFail \/ ChecksCancelled \/ SaveChecks
  \/ NoSubstance \/ ReviewerExhausted \/ OpenReview \/ StartAttempt \/ AttemptsUsedUp
  \/ ReviewerJudges \/ CandidateRejected \/ ReviewerFails \/ ReviewerCancelled
  \/ ValidatedRejected \/ ReviewedWorkspaceMoved \/ WriteReport \/ AcceptReview \/ PersistApproval
  \/ VerifyRelease \/ CitadelThrows
=============================================================================
