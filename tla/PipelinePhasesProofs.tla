------------------------ MODULE PipelinePhasesProofs ------------------------
(***************************************************************************)
(* Proofs about the phases of a pipeline, the citadel and the repair of    *)
(* the reviewer's contract: a completed pipeline was reviewed, a refused   *)
(* commit stays refused, a refusal is settled before a phase works, and a  *)
(* verdict is not asked for twice.  They hold for every run of the model   *)
(* without its fairness, with any number of tickets, strategies, commits,  *)
(* failures and kills, and whatever the tickets depend on.                 *)
(*                                                                         *)
(* The types come first, and what the moves of the controller do to its    *)
(* fields; then each property has an inductive invariant of its own over   *)
(* the steps of the controller, and one lemma for each part of the system  *)
(* that takes steps: the citadel, the repair of the contract, the rest.    *)
(***************************************************************************)
EXTENDS PipelinePhases, TLAPS

-----------------------------------------------------------------------------
(* Types, in the parts that one action disturbs together.                  *)

Exits   == {"none", "success", "other", "cancelled"}
Strikes == {"checks", "reviewer", "scope", "verifier", "noGate", "none"}
Places  == CitadelSteps \cup ContractSteps \cup
  {"down", "boot", "boot-pending", "verifiers", "dispatch", "pickle", "polish", "returned",
   "enqueue", "intend", "reopen", "applied", "attribute", "attributing", "attributed",
   "system", "strategy", "reset", "diagnose", "mapped", "unwind", "leave"}
Results == {"none", "success", "blocked", "system", "cancelled", "failed", "error",
            "scheduled", "revision", "resumed", "first", "second"}

RepoTyped ==
  /\ head \in Nat \ {0}
  /\ contract \in {"ok", "scope", "noGate"}
  /\ broken \in SUBSET Tickets
  /\ env \in Nat

StateTyped ==
  /\ st \in [active : BOOLEAN, exit : Exits, cancel : BOOLEAN]
  /\ txn \in [on : BOOLEAN, active : BOOLEAN, exit : Exits, cancel : BOOLEAN]

ReportsTyped ==
  /\ gate \in [head : Nat, env : Nat, owners : SUBSET Tickets,
               result : {"none", "running", "interrupted", "unsaved", "passed", "failed"}]
  /\ report \in [verdict : {"none", "approve", "block"}, owners : SUBSET Tickets, head : Nat]
  /\ block \in [code : Strikes, owners : SUBSET Tickets, err : Nat, odd : BOOLEAN]
  /\ approval \in Nat
  /\ refused \in SUBSET Nat

Con == [mech : Nat, used : SUBSET Nat, n : Nat, err : Nat]

Review ==
  [bound : BOOLEAN, epoch : Nat, status : {"running", "accepted", "exhausted", "diagnostic"},
   used : Nat, last : {"none", "started", "validated", "accepted"}, verdict : SUBSET Tickets,
   n : Nat, err : Nat, con : Con]

ReviewTyped ==
  /\ review \in Review
  /\ cj \in [st : {"none", "started", "rejected", "resolved"}, mine : BOOLEAN, mech : Nat,
             used : SUBSET Nat, n : Nat, err : Nat, att : {"none", "canonical", "model"},
             cand : {"none", "good", "bad"}, shards : Nat, written : SUBSET Nat]

ControlTyped ==
  ctl \in [at : Places, head : Nat, ret : Results, left : SUBSET Tickets,
           back : {"none", "boot", "loop"}]

WorkTyped ==
  /\ todo \in SUBSET Tickets
  /\ ps \in [Phases -> {"todo", "running", "done", "failed", "cancelled"}]
  /\ pending \in SUBSET Tickets
  /\ blocked \in [cands : SUBSET Tickets, tries : Nat]
  /\ det \in [owners : SUBSET Tickets, n : Nat, diag : BOOLEAN]
  /\ logical \in {"open", "revision", "completed", "cancelled"}
  /\ asked \in BOOLEAN

Typed == RepoTyped /\ StateTyped /\ ReportsTyped /\ ReviewTyped /\ ControlTyped /\ WorkTyped

LEMMA Kept ==
  /\ RepoTyped /\ UNCHANGED repo => RepoTyped'
  /\ StateTyped /\ UNCHANGED <<st, txn>> => StateTyped'
  /\ ReportsTyped /\ UNCHANGED <<gate, report, block, approval, refused>> => ReportsTyped'
  /\ ReviewTyped /\ UNCHANGED <<review, cj>> => ReviewTyped'
  /\ ControlTyped /\ UNCHANGED ctl => ControlTyped'
  /\ WorkTyped /\ UNCHANGED <<todo, ps, intents, logical, asked>> => WorkTyped'
BY DEF repo, intents, RepoTyped, StateTyped, ReportsTyped, ReviewTyped, ControlTyped, WorkTyped

\* The controller goes to any of its places.
LEMMA Moves ==
  ASSUME RepoTyped, ControlTyped
  PROVE  /\ \A x \in Places : Goto(x) => ControlTyped'
         /\ \A x \in Places : ctl' = Step(x) => ControlTyped'
         /\ \A r \in Results : Return(r) \/ Leave(r) \/ ReturnIfUnmoved(r) => ControlTyped'
         /\ Throw \/ Unwind \/ GoBack \/ CheckOut => ControlTyped'
BY DEF RepoTyped, ControlTyped, Goto, Step, Return, Leave, Throw, Unwind, GoBack, CheckOut,
       ReturnIfUnmoved, Places, Results, CitadelSteps, ContractSteps

LEMMA BlockTyped ==
  ASSUME ReportsTyped, NEW code \in Strikes, NEW owners \in SUBSET Tickets, NEW err \in Nat,
         PersistBlock(code, owners, err), UNCHANGED <<approval, refused>>,
         gate' = gate
  PROVE  ReportsTyped'
<1>1. block' \in [code : Strikes, owners : SUBSET Tickets, err : Nat, odd : BOOLEAN]
  BY DEF PersistBlock, ReportsTyped
<1>2. report' \in [verdict : {"none", "approve", "block"}, owners : SUBSET Tickets, head : Nat]
  BY DEF PersistBlock, NoReport
<1>. QED  BY <1>1, <1>2 DEF ReportsTyped

LEMMA FailedTyped ==
  ASSUME NEW r \in Review, NEW same \in BOOLEAN, NEW e \in Nat
  PROVE  Failed(r, same, e) \in Review
<1>. DEFINE n == IF same THEN r.n ELSE r.n + 1
            err == IF same THEN e ELSE 0
<1>1. n \in Nat /\ err \in Nat
  BY DEF Review
<1>2. Failed(r, same, e) = [r EXCEPT !.last = "none", !.n = n, !.err = err]
  BY DEF Failed, Review
<1>. HIDE DEF n, err
<1>. QED  BY <1>1, <1>2 DEF Review

\* The same bytes again, or others: either way a candidate failed.
LEMMA RejectionFails ==
  Rejection => \E same \in BOOLEAN, e \in Nat : review' = Failed(review, same, e)
BY DEF Rejection

LEMMA NewReviewTyped ==
  NewReview \in Review
BY DEF NewReview, Review, NoCon, Con

LEMMA ResumedTyped ==
  ASSUME ReviewTyped
  PROVE  Resumed \in Review /\ NextEpoch(Resumed) \in Review
<1>1. Resumed \in Review
  BY NewReviewTyped DEF ReviewTyped, Resumed
<1>2. ASSUME NEW r \in Review PROVE NextEpoch(r) \in Review
  <2>. DEFINE epoch == r.epoch + 1
  <2>1. epoch \in Nat
    BY DEF Review
  <2>2. r.status = "exhausted" =>
          NextEpoch(r) = [r EXCEPT !.epoch = epoch, !.used = 0, !.status = "running"]
    BY DEF NextEpoch, Review
  <2>. HIDE DEF epoch
  <2>3. [r EXCEPT !.epoch = epoch, !.used = 0, !.status = "running"] \in Review
    BY <2>1 DEF Review
  <2>. QED  BY <2>2, <2>3 DEF NextEpoch
<1>. QED  BY <1>1, <1>2

\* The first phase that is not done.
LEMMA NextPhaseIs ==
  /\ Phases = {"pickle", "polish", "citadel"}
  /\ Unfinished # {} =>
       NextPhase = IF ps["pickle"] # "done" THEN "pickle"
                   ELSE IF ps["polish"] # "done" THEN "polish" ELSE "citadel"
  /\ Unfinished = {} <=> \A p \in Phases : ps[p] = "done"
<1>1. /\ DOMAIN Order = {1, 2, 3}
      /\ Order[1] = "pickle" /\ Order[2] = "polish" /\ Order[3] = "citadel"
  BY DEF Order
<1>2. Phases = {"pickle", "polish", "citadel"}
  BY <1>1 DEF Phases
<1>3. Unfinished = {i \in {1, 2, 3} : ps[Order[i]] # "done"}
  BY <1>1 DEF Unfinished
<1>4. Unfinished = {} <=> \A p \in Phases : ps[p] = "done"
  BY <1>1, <1>2, <1>3
<1>5. ASSUME Unfinished # {}
      PROVE  NextPhase = IF ps["pickle"] # "done" THEN "pickle"
                         ELSE IF ps["polish"] # "done" THEN "polish" ELSE "citadel"
  <2>. DEFINE First(i) == i \in Unfinished /\ \A j \in Unfinished : i <= j
  <2>1. \E i : First(i)
    <3>1. CASE 1 \in Unfinished
      BY <1>3, <3>1
    <3>2. CASE 1 \notin Unfinished /\ 2 \in Unfinished
      BY <1>3, <3>2
    <3>3. CASE 1 \notin Unfinished /\ 2 \notin Unfinished
      BY <1>3, <1>5, <3>3
    <3>. QED  BY <3>1, <3>2, <3>3
  <2>2. PICK i : i = (CHOOSE k \in Unfinished : \A j \in Unfinished : k <= j)
    OBVIOUS
  <2>3. First(i)
    BY <2>1, <2>2
  <2>4. NextPhase = Order[i]
    BY <2>2 DEF NextPhase
  <2>5. CASE 1 \in Unfinished
    BY <1>1, <1>3, <2>3, <2>4, <2>5
  <2>6. CASE 1 \notin Unfinished /\ 2 \in Unfinished
    BY <1>1, <1>3, <2>3, <2>4, <2>6
  <2>7. CASE 1 \notin Unfinished /\ 2 \notin Unfinished
    BY <1>1, <1>3, <2>3, <2>4, <2>7
  <2>. QED  BY <2>5, <2>6, <2>7
<1>. QED  BY <1>2, <1>4, <1>5

\* There is a least set of tickets with everything done that depends on them.
LEMMA DependentsTyped ==
  ASSUME NEW ts \in SUBSET Tickets
  PROVE  WithDependents(ts) \in SUBSET Tickets /\ ts \subseteq WithDependents(ts)
<1>. DEFINE D ==
       {t \in Tickets : \A e \in SUBSET Tickets : ts \subseteq e /\ Closed(e) => t \in e}
<1>1. D \in SUBSET Tickets /\ ts \subseteq D
  OBVIOUS
<1>2. \A e \in SUBSET Tickets : ts \subseteq e /\ Closed(e) => D \subseteq e
  OBVIOUS
<1>3. Closed(D)
  <2>1. SUFFICES ASSUME NEW t \in Tickets \ todo, Needs[t] \cap D # {},
                        NEW e \in SUBSET Tickets, ts \subseteq e, Closed(e)
                 PROVE  t \in e
    BY DEF Closed
  <2>2. Needs[t] \cap e # {}
    BY <1>2, <2>1
  <2>. QED  BY <2>1, <2>2 DEF Closed
<1>4. \E d \in SUBSET Tickets :
         /\ ts \subseteq d /\ Closed(d)
         /\ \A e \in SUBSET Tickets : ts \subseteq e /\ Closed(e) => d \subseteq e
  BY <1>1, <1>2, <1>3
<1>. HIDE DEF D
<1>. QED  BY <1>4 DEF WithDependents

LEMMA RecordedTyped ==
  ASSUME StateTyped, NEW r \in Exits
  PROVE  Recorded(r) \in Exits
BY DEF StateTyped, Recorded, Exits

LEMMA TransactTyped ==
  ASSUME StateTyped, WorkTyped,
         NEW ps2 \in [Phases -> {"todo", "running", "done", "failed", "cancelled"}],
         NEW active \in BOOLEAN, NEW exit \in Exits, NEW cancel \in BOOLEAN,
         Transact(ps2, active, exit, cancel), UNCHANGED <<st, todo, intents, logical, asked>>
  PROVE  StateTyped' /\ WorkTyped'
BY DEF StateTyped, WorkTyped, Transact, intents

\* The scope block, with the approval gone.
LEMMA EntryTyped ==
  ASSUME ReportsTyped, PersistBlock("scope", {}, 0), approval' = 0, UNCHANGED <<gate, refused>>
  PROVE  ReportsTyped'
<1>1. block' \in [code : Strikes, owners : SUBSET Tickets, err : Nat, odd : BOOLEAN]
  <2>1. block.odd \in BOOLEAN
    BY DEF ReportsTyped
  <2>2. block' = [code |-> "scope", owners |-> {}, err |-> 0,
                  odd |-> IF SameFailure("scope", {}, 0) THEN ~block.odd ELSE TRUE]
    BY DEF PersistBlock
  <2>3. (IF SameFailure("scope", {}, 0) THEN ~block.odd ELSE TRUE) \in BOOLEAN
    BY <2>1
  <2>. QED  BY <2>2, <2>3 DEF Strikes
<1>. QED  BY <1>1 DEF PersistBlock, ReportsTyped, NoReport

LEMMA CitadelTyped ==
  ASSUME Typed, RunCitadel, UNCHANGED pipelineVars
  PROVE  Typed'
<1>. USE DEF Typed
<1>0. /\ WorkTyped' /\ (UNCHANGED <<repo, st>> => RepoTyped' /\ StateTyped')
      /\ UNCHANGED evidence => ReportsTyped' /\ ReviewTyped'
  BY Kept DEF pipelineVars, evidence, intents
<1>1. CASE EnterCitadel
  <2>1. ReportsTyped'
    <3>1. CASE contract = "scope"
      BY <1>1, <3>1, BlockTyped, EntryTyped DEF EnterCitadel
    <3>2. CASE contract # "scope"
      BY <1>1, <3>2 DEF EnterCitadel, ReportsTyped, NoReport
    <3>. QED  BY <3>1, <3>2
  <2>2. ControlTyped'
    BY <1>1, Moves DEF EnterCitadel, Results
  <2>. QED  BY <1>0, <1>1, <2>1, <2>2, Kept DEF EnterCitadel
<1>2. CASE VerifiersMissing \/ NoSubstance
  <2>1. ReportsTyped'
    BY <1>2, BlockTyped DEF VerifiersMissing, NoSubstance, RepoTyped, Strikes
  <2>2. ControlTyped'
    BY <1>2, Moves DEF VerifiersMissing, NoSubstance, Results
  <2>. QED  BY <1>0, <1>2, <2>1, <2>2, Kept DEF VerifiersMissing, NoSubstance
<1>3. CASE ReuseChecks \/ ReviewedWorkspaceMoved \/ VerifyRelease \/ CitadelThrows
  <2>1. ControlTyped'
    BY <1>3, Moves DEF ReuseChecks, ReviewedWorkspaceMoved, VerifyRelease, CitadelThrows,
                       Places, CitadelSteps, Results
  <2>. QED  BY <1>0, <1>3, <2>1
            DEF ReuseChecks, ReviewedWorkspaceMoved, VerifyRelease, CitadelThrows
<1>4. CASE StartChecks
  <2>1. ReportsTyped'
    BY <1>4 DEF StartChecks, ReportsTyped, ControlTyped, RepoTyped
  <2>2. ReviewTyped'
    BY <1>4 DEF StartChecks, ReviewTyped, Review
  <2>3. ControlTyped'
    BY <1>4, Moves DEF StartChecks, Places, CitadelSteps
  <2>. QED  BY <1>0, <1>4, <2>1, <2>2, <2>3 DEF StartChecks
<1>5. CASE ChecksPass \/ ChecksFail \/ ChecksCancelled
  <2>0. UNCHANGED <<report, block, approval, refused>>
    BY <1>5 DEF ChecksPass, ChecksFail, ChecksCancelled
  <2>1a. gate' \in [head : Nat, env : Nat, owners : SUBSET Tickets,
               result : {"none", "running", "interrupted", "unsaved", "passed", "failed"}]
    <3>1. ChecksPass => gate' = [gate EXCEPT !.result = "unsaved"]
      BY DEF ChecksPass
    <3>2. ChecksCancelled => gate' = [gate EXCEPT !.result = "interrupted"]
      BY DEF ChecksCancelled
    <3>3. ChecksFail => \E owners \in SUBSET Tickets :
                          gate' = [gate EXCEPT !.result = "failed", !.owners = owners]
      BY DEF ChecksFail
    <3>. QED  BY <1>5, <3>1, <3>2, <3>3 DEF ReportsTyped
  <2>1. ReportsTyped'
    BY <2>0, <2>1a DEF ReportsTyped
  <2>2. ControlTyped'
    BY <1>5, Moves DEF ChecksPass, ChecksFail, ChecksCancelled, Places, CitadelSteps, Results
  <2>. QED  BY <1>0, <1>5, <2>1, <2>2, Kept DEF ChecksPass, ChecksFail, ChecksCancelled
<1>6. CASE SaveChecks
  <2>1. ReportsTyped'
    <3>1. gate.owners \in SUBSET Tickets
      BY DEF ReportsTyped
    <3>2. CASE gate.result = "failed"
      <4>1. PICK output \in {0, 1} : PersistBlock("checks", gate.owners, output)
        BY <1>6, <3>2 DEF SaveChecks
      <4>. QED  BY <1>6, <3>1, <3>2, <4>1, BlockTyped DEF SaveChecks, Strikes
    <3>3. CASE gate.result # "failed"
      BY <1>6, <3>3 DEF SaveChecks, ReportsTyped
    <3>. QED  BY <3>2, <3>3
  <2>2. ControlTyped'
    BY <1>6, Moves DEF SaveChecks, Places, CitadelSteps, Results
  <2>. QED  BY <1>0, <1>6, <2>1, <2>2, Kept DEF SaveChecks
<1>7. CASE ReviewerExhausted
  <2>1. ReportsTyped'
    BY <1>7, BlockTyped DEF ReviewerExhausted, ReviewTyped, Review, Strikes
  <2>2. ReviewTyped'
    BY <1>7 DEF ReviewerExhausted, ReviewTyped, Review
  <2>3. ControlTyped'
    BY <1>7, Moves DEF ReviewerExhausted, Results
  <2>. QED  BY <1>0, <1>7, <2>1, <2>2, <2>3 DEF ReviewerExhausted
<1>8. CASE OpenReview
  <2>1. review' \in Review
    BY <1>8, ResumedTyped, FailedTyped DEF OpenReview
  <2>2. cj' \in [st : {"none", "started", "rejected", "resolved"}, mine : BOOLEAN, mech : Nat,
             used : SUBSET Nat, n : Nat, err : Nat, att : {"none", "canonical", "model"},
             cand : {"none", "good", "bad"}, shards : Nat, written : SUBSET Nat]
    BY <1>8 DEF OpenReview, ReviewTyped
  <2>3. ControlTyped'
    BY <1>8, Moves DEF OpenReview, Places, CitadelSteps
  <2>. QED  BY <1>0, <1>8, <2>1, <2>2, <2>3, Kept DEF OpenReview, ReviewTyped
<1>9. CASE StartAttempt \/ AttemptsUsedUp \/ ReviewerJudges
  <2>1. review' \in Review
    <3>1. CASE StartAttempt
      <4>. DEFINE used == review.used + 1
      <4>1. used \in Nat /\ review \in Review
        BY DEF ReviewTyped, Review
      <4>2. review' = [review EXCEPT !.used = used, !.last = "started"]
        BY <3>1 DEF StartAttempt, ReviewTyped, Review
      <4>. HIDE DEF used
      <4>. QED  BY <4>1, <4>2 DEF Review
    <3>2. CASE AttemptsUsedUp
      BY <3>2 DEF AttemptsUsedUp, ReviewTyped, Review
    <3>3. CASE ReviewerJudges
      BY <3>3 DEF ReviewerJudges, ReviewTyped, Review
    <3>. QED  BY <1>9, <3>1, <3>2, <3>3
  <2>2. ReviewTyped'
    BY <1>9, <2>1 DEF StartAttempt, AttemptsUsedUp, ReviewerJudges, ReviewTyped
  <2>3. ControlTyped'
    BY <1>9, Moves DEF StartAttempt, AttemptsUsedUp, ReviewerJudges, Places, CitadelSteps
  <2>. QED  BY <1>0, <1>9, <2>2, <2>3, Kept DEF StartAttempt, AttemptsUsedUp, ReviewerJudges
<1>10. CASE CandidateRejected \/ ValidatedRejected \/ ReviewerFails \/ ReviewerCancelled
  <2>1. \E same \in BOOLEAN, e \in Nat : review' = Failed(review, same, e)
    BY <1>10, RejectionFails
    DEF CandidateRejected, ValidatedRejected, ReviewerFails, ReviewerCancelled
  <2>1a. review' \in Review
    BY <2>1, FailedTyped DEF ReviewTyped
  <2>2. ReviewTyped'
    BY <1>10, <2>1a
    DEF CandidateRejected, ValidatedRejected, ReviewerFails, ReviewerCancelled, ReviewTyped
  <2>3. ControlTyped'
    BY <1>10, Moves DEF CandidateRejected, ValidatedRejected, ReviewerFails, ReviewerCancelled,
                        Places, CitadelSteps, Results
  <2>4. ReportsTyped'
    BY <1>10 DEF CandidateRejected, ValidatedRejected, ReviewerFails, ReviewerCancelled,
                 ReportsTyped
  <2>. QED  BY <1>0, <1>10, <2>2, <2>3, <2>4 DEF CandidateRejected, ValidatedRejected,
               ReviewerFails, ReviewerCancelled
<1>11. CASE WriteReport
  <2>1. /\ review.verdict \in SUBSET Tickets /\ ctl.head \in Nat
        /\ NoBlock \in [code : Strikes, owners : SUBSET Tickets, err : Nat, odd : BOOLEAN]
    BY DEF ReviewTyped, Review, ControlTyped, NoBlock, Strikes
  <2>2. ReportsTyped'
    BY <1>11, <2>1 DEF WriteReport, ReportsTyped
  <2>3. ControlTyped'
    BY <1>11, Moves DEF WriteReport, Places, CitadelSteps
  <2>. QED  BY <1>0, <1>11, <2>2, <2>3, Kept DEF WriteReport
<1>12. CASE PersistApproval
  <2>1. ReportsTyped'
    BY <1>12 DEF PersistApproval, ReportsTyped, RepoTyped
  <2>2. ControlTyped'
    BY <1>12, Moves DEF PersistApproval, Places, CitadelSteps
  <2>. QED  BY <1>0, <1>12, <2>1, <2>2, Kept DEF PersistApproval
<1>13. CASE AcceptReview
  <2>1. ReportsTyped'
    BY <1>13 DEF AcceptReview, ReportsTyped, ControlTyped
  <2>2. review' \in Review
    BY <1>13 DEF AcceptReview, ReviewTyped, Review
  <2>3. ControlTyped'
    BY <1>13, Moves DEF AcceptReview, Places, CitadelSteps
  <2>. QED  BY <1>0, <1>13, <2>1, <2>2, <2>3, Kept DEF AcceptReview, ReviewTyped
<1>. QED  BY <1>1, <1>2, <1>3, <1>4, <1>5, <1>6, <1>7, <1>8, <1>9, <1>10, <1>11, <1>12, <1>13
          DEF RunCitadel

Journals ==
  [st : {"none", "started", "rejected", "resolved"}, mine : BOOLEAN, mech : Nat,
   used : SUBSET Nat, n : Nat, err : Nat, att : {"none", "canonical", "model"},
   cand : {"none", "good", "bad"}, shards : Nat, written : SUBSET Nat]

LEMMA ProjectedTyped ==
  ASSUME ReviewTyped
  PROVE  ProjectInto(review) \in Review
<1>. DEFINE con == [mech |-> cj.mech, used |-> cj.used, n |-> cj.n, err |-> cj.err]
<1>1. con \in Con
  BY DEF ReviewTyped, Con
<1>2. ProjectInto(review) = [review EXCEPT !.status = "running", !.used = 0, !.last = "none",
                                           !.con = con]
  BY DEF ProjectInto
<1>. HIDE DEF con
<1>3. review \in Review
  BY DEF ReviewTyped
<1>4. [review EXCEPT !.status = "running", !.used = 0, !.last = "none"] \in Review
  BY <1>3 DEF Review
<1>5. \A r \in Review : [r EXCEPT !.con = con] \in Review
  BY <1>1 DEF Review
<1>6. ProjectInto(review)
        = [[review EXCEPT !.status = "running", !.used = 0, !.last = "none"] EXCEPT !.con = con]
  BY <1>2, <1>3 DEF Review
<1>. QED  BY <1>4, <1>5, <1>6

LEMMA BegunTyped ==
  ASSUME ReviewTyped, ReportsTyped, NEW m \in Nat, NEW how \in {"canonical", "model"}
  PROVE  Begun(m, how) \in Journals
<1>. DEFINE used    == UsedMechanisms \cup {m}
            shards  == IF SameEvidence THEN cj.shards ELSE 0
            written == IF SameEvidence THEN cj.written ELSE {}
<1>1. /\ review.con.used \in SUBSET Nat /\ review.con.mech \in Nat
      /\ cj.used \in SUBSET Nat /\ cj.shards \in Nat /\ cj.written \in SUBSET Nat
  BY DEF ReviewTyped, Review, Con
<1>2. used \in SUBSET Nat
  BY <1>1 DEF UsedMechanisms
<1>3. /\ shards \in Nat /\ written \in SUBSET Nat
      /\ review.n \in Nat /\ block.err \in Nat /\ cj \in Journals
  BY <1>1 DEF ReviewTyped, Review, ReportsTyped, Journals
<1>4. Begun(m, how) =
        [cj EXCEPT !.st = "started", !.mine = TRUE, !.mech = m, !.used = used, !.n = review.n,
                   !.err = block.err, !.att = how, !.cand = "none", !.shards = shards,
                   !.written = written]
  BY <1>3 DEF Begun, Journals
<1>. HIDE DEF used, shards, written
<1>. QED  BY <1>2, <1>3, <1>4 DEF Journals

LEMMA RepairTyped ==
  ASSUME Typed, RepairContract, UNCHANGED pipelineVars
  PROVE  Typed'
<1>. USE DEF Typed
<1>0. /\ UNCHANGED contractRest => RepoTyped' /\ StateTyped' /\ ReportsTyped' /\ WorkTyped'
      /\ UNCHANGED <<review, cj>> => ReviewTyped'
      /\ ReviewTyped <=> review \in Review /\ cj \in Journals
      /\ (review' \in Review /\ cj' \in Journals) => ReviewTyped'
  BY Kept DEF pipelineVars, contractRest, intents, ReviewTyped, Journals
<1>1. CASE RepairRefused \/ CriterionRejected
  BY <1>0, <1>1, Moves DEF RepairRefused, CriterionRejected, Results
<1>2. CASE RepairResolvedBefore \/ ProjectResolution
  BY <1>0, <1>2, Moves, ProjectedTyped DEF RepairResolvedBefore, ProjectResolution
<1>3. CASE RepairResumes
  <2>1. ControlTyped'
    BY <1>3 DEF RepairResumes, ControlTyped, Places, ContractSteps, Results
  <2>. QED  BY <1>0, <1>3, <2>1 DEF RepairResumes
<1>4. CASE RepairStarts
  <2>1. cj' \in Journals
    BY <1>4, BegunTyped, ContractBounds DEF RepairStarts
  <2>. QED  BY <1>0, <1>4, <2>1, Moves DEF RepairStarts, Places, ContractSteps
<1>5. CASE WriteCandidate
  <2>1. cj' \in Journals
    BY <1>0, <1>5 DEF WriteCandidate, Candidates, Journals
  <2>. QED  BY <1>0, <1>5, <2>1, Moves DEF WriteCandidate, Places, ContractSteps
<1>6. CASE ValidateCandidate
  <2>1. cj' \in Journals
    BY <1>0, <1>6 DEF ValidateCandidate, Reject, Journals
  <2>. QED  BY <1>0, <1>6, <2>1, Moves DEF ValidateCandidate, Reject, Places, ContractSteps,
               Results
<1>7. CASE JudgeCriterion
  <2>. DEFINE shards == cj.shards + 1
  <2>1. shards \in Nat /\ cj \in Journals
    BY <1>0 DEF Journals
  <2>2. cj' = [cj EXCEPT !.shards = shards]
    BY <1>7 DEF JudgeCriterion
  <2>. HIDE DEF shards
  <2>3. cj' \in Journals
    BY <2>1, <2>2 DEF Journals
  <2>. QED  BY <1>0, <1>7, <2>3, Kept DEF JudgeCriterion
<1>8. CASE WriteRuntime
  <2>. DEFINE written == cj.written \cup {cj.mech}
  <2>1. written \in SUBSET Nat /\ cj \in Journals
    BY <1>0 DEF Journals
  <2>2. cj' = [cj EXCEPT !.written = written]
    BY <1>8 DEF WriteRuntime
  <2>. HIDE DEF written
  <2>3. cj' \in Journals
    BY <2>1, <2>2 DEF Journals
  <2>. QED  BY <1>0, <1>8, <2>3, Moves DEF WriteRuntime, Places, ContractSteps
<1>9. CASE RuntimeNotWritten
  <2>1. cj' \in Journals
    BY <1>0, <1>9 DEF RuntimeNotWritten, Reject, Journals
  <2>2. ControlTyped'
    <3>1. CASE ctl.ret = "resumed"
      BY <1>9, <3>1 DEF RuntimeNotWritten, ControlTyped, Places, ContractSteps, Results
    <3>2. CASE ctl.ret # "resumed"
      BY <1>9, <3>2, Moves DEF RuntimeNotWritten, Reject, Results
    <3>. QED  BY <3>1, <3>2
  <2>. QED  BY <1>0, <1>9, <2>1, <2>2 DEF RuntimeNotWritten
<1>10. CASE ResolveJournal
  <2>1. cj' \in Journals
    BY <1>0, <1>10 DEF ResolveJournal, Journals
  <2>. QED  BY <1>0, <1>10, <2>1, Moves DEF ResolveJournal, Places, ContractSteps
<1>. QED  BY <1>1, <1>2, <1>3, <1>4, <1>5, <1>6, <1>7, <1>8, <1>9, <1>10 DEF RepairContract

Stages == {"todo", "running", "done", "failed", "cancelled"}

\* Where the controller ends a phase, or begins all of them anew.
LEMMA FinishTyped ==
  ASSUME StateTyped, WorkTyped, NEW status \in Stages, NEW r \in Exits,
         UNCHANGED <<st, todo, intents, logical, asked>>
  PROVE  Finish(status, r) => StateTyped' /\ WorkTyped'
<1>1. [ps EXCEPT ![NextPhase] = status] \in [Phases -> Stages]
  BY DEF WorkTyped, Stages
<1>2. Recorded(r) \in Exits /\ st.cancel \in BOOLEAN
  BY RecordedTyped DEF StateTyped
<1>. QED  BY <1>1, <1>2, TransactTyped DEF Finish, Stages

LEMMA ResetTyped ==
  ASSUME StateTyped, WorkTyped, UNCHANGED <<st, todo, intents, logical, asked>>
  PROVE  Reset => StateTyped' /\ WorkTyped'
<1>1. [p \in Phases |-> "todo"] \in [Phases -> Stages] /\ st.cancel \in BOOLEAN
  BY DEF Stages, StateTyped
<1>. QED  BY <1>1, TransactTyped DEF Reset, Stages, Exits

\* Steps that carry tickets, or where to go back to.
LEMMA CarriedTyped ==
  ASSUME NEW x \in Places, NEW left \in SUBSET Tickets, NEW back \in {"none", "boot", "loop"},
         \/ ctl' = [Step(x) EXCEPT !.left = left, !.back = back]
         \/ ctl' = [Step(x) EXCEPT !.back = back]
  PROVE  ControlTyped'
<1>. DEFINE C == [at : Places, head : Nat, ret : Results, left : SUBSET Tickets,
                  back : {"none", "boot", "loop"}]
<1>1. Step(x) \in C
  BY DEF Step, Results
<1>2. \A c \in C : [c EXCEPT !.back = back] \in C /\ [c EXCEPT !.left = left] \in C
  OBVIOUS
<1>3. [Step(x) EXCEPT !.left = left, !.back = back]
        = [[Step(x) EXCEPT !.left = left] EXCEPT !.back = back]
  BY DEF Step
<1>. QED  BY <1>1, <1>2, <1>3 DEF ControlTyped

\* The steps that leave the citadel's files and the commits alone.
LEMMA StartTyped ==
  ASSUME Typed,
         \/ StartRun \/ BootAfterVerifiers \/ BootOnward \/ BootPending \/ VerifiersRepaired
         \/ AllDone \/ BeginPhase \/ PhaseRefused \/ PhaseCancelled \/ PhaseEnds
         \/ BlockRepaired \/ RetryPhase \/ ResetAfterRefusal \/ ResetForCheck \/ AttributionFails
         \/ DiagnosisRejected
  PROVE  Typed'
<1>. USE DEF Typed
<1>0. CASE StartRun
  <2>1. RepoTyped'
    BY <1>0, GateBounds DEF StartRun, RepoTyped
  <2>2. StateTyped' /\ ReportsTyped' /\ ReviewTyped' /\ WorkTyped'
    BY <1>0, Kept DEF StartRun, evidence
  <2>3. ControlTyped'
    BY <1>0, Moves DEF StartRun, Places
  <2>. QED  BY <2>1, <2>2, <2>3
<1>. SUFFICES ASSUME ~StartRun PROVE Typed'
  BY <1>0
<1>1. RepoTyped' /\ ReportsTyped' /\ ReviewTyped'
  BY Kept DEF BootAfterVerifiers, BootOnward, BootPending, VerifiersRepaired, AllDone,
     BeginPhase, PhaseRefused, PhaseCancelled, PhaseEnds, BlockRepaired, RetryPhase,
     ResetAfterRefusal, ResetForCheck, AttributionFails, DiagnosisRejected, rest, evidence
<1>2. CASE BootOnward \/ BootPending \/ VerifiersRepaired \/ AllDone \/ PhaseRefused
           \/ RetryPhase \/ DiagnosisRejected
  <2>1. StateTyped' /\ WorkTyped'
    BY <1>2, Kept DEF BootOnward, BootPending, VerifiersRepaired, AllDone, PhaseRefused,
                      RetryPhase, DiagnosisRejected, rest
  <2>2. ControlTyped'
    <3>0. {"boot", "boot-pending", "contract", "reopen", "attribute", "dispatch"} \subseteq Places
      BY DEF Places, ContractSteps
    <3>1. CASE BootOnward \/ BootPending
      BY <3>0, <3>1, Moves, CarriedTyped DEF BootOnward, BootPending, WorkTyped
    <3>2. CASE VerifiersRepaired \/ AllDone \/ PhaseRefused \/ RetryPhase
      BY <3>2, Moves DEF VerifiersRepaired, AllDone, PhaseRefused, RetryPhase, Places, Results
    <3>3. CASE DiagnosisRejected
      <4>1. CASE ctl.ret = "first"
        BY <3>3, <4>1 DEF DiagnosisRejected, ControlTyped, Results, Places
      <4>2. CASE ctl.ret # "first"
        BY <3>3, <4>2, Moves DEF DiagnosisRejected, Results
      <4>. QED  BY <4>1, <4>2
    <3>. QED  BY <1>2, <3>1, <3>2, <3>3
  <2>. QED  BY <1>1, <2>1, <2>2
<1>3. CASE BootAfterVerifiers \/ BlockRepaired \/ ResetAfterRefusal \/ ResetForCheck
  <2>1. StateTyped' /\ WorkTyped'
    BY <1>3, ResetTyped, Kept DEF BootAfterVerifiers, BlockRepaired, ResetAfterRefusal,
       ResetForCheck, rest
  <2>2. ControlTyped'
    <3>0. {"boot-pending", "contract", "verifiers"} \subseteq Places /\ block.owners \in SUBSET Tickets
      BY DEF Places, ContractSteps, ReportsTyped
    <3>1. CASE BootAfterVerifiers \/ BlockRepaired
      BY <3>0, <3>1, Moves, CarriedTyped DEF BootAfterVerifiers, BlockRepaired
    <3>2. CASE ResetAfterRefusal \/ ResetForCheck
      BY <3>2, Moves DEF ResetAfterRefusal, ResetForCheck, Places, Results
    <3>. QED  BY <1>3, <3>1, <3>2
  <2>. QED  BY <1>1, <2>1, <2>2
<1>4. CASE BeginPhase
  <2>1. Transact([ps EXCEPT ![NextPhase] = "running"], TRUE, "none", FALSE)
    BY <1>4 DEF BeginPhase
  <2>2. [ps EXCEPT ![NextPhase] = "running"] \in [Phases -> Stages]
    BY DEF WorkTyped, Stages
  <2>3. StateTyped' /\ WorkTyped'
    BY <1>4, <2>1, <2>2, TransactTyped DEF BeginPhase, rest, Stages, Exits
  <2>4. NextPhase \in Places
    BY <1>4, NextPhaseIs DEF BeginPhase, Places, CitadelSteps
  <2>. QED  BY <1>1, <1>4, <2>3, <2>4, Moves DEF BeginPhase
<1>5. CASE PhaseCancelled
  <2>1. [ps EXCEPT ![NextPhase] = "cancelled"] \in [Phases -> Stages]
    BY DEF WorkTyped, Stages
  <2>2. Recorded("cancelled") \in Exits
    BY RecordedTyped DEF Exits
  <2>3. StateTyped' /\ WorkTyped'
    BY <1>5, <2>1, <2>2, TransactTyped DEF PhaseCancelled, rest, Stages
  <2>. QED  BY <1>1, <1>5, <2>3, Moves DEF PhaseCancelled, Results
<1>6. CASE PhaseEnds
  <2>1. StateTyped' /\ WorkTyped'
    BY <1>6, FinishTyped DEF PhaseEnds, rest, Stages, Exits
  <2>2. ControlTyped'
    <3>1. CASE ctl' = [Step("enqueue") EXCEPT !.back = "loop"]
      BY <3>1 DEF ControlTyped, Step, Places, Results
    <3>2. CASE ctl' # [Step("enqueue") EXCEPT !.back = "loop"]
      BY <1>6, <3>2, Moves DEF PhaseEnds, GoesOn, Places, Results
    <3>. QED  BY <3>1, <3>2
  <2>. QED  BY <1>1, <2>1, <2>2
<1>7. CASE AttributionFails
  <2>1. [ps EXCEPT !["citadel"] = "failed"] \in [Phases -> Stages] /\ st.cancel \in BOOLEAN
    BY DEF WorkTyped, Stages, StateTyped
  <2>2. StateTyped' /\ WorkTyped'
    BY <1>7, <2>1, TransactTyped DEF AttributionFails, rest, Stages, Exits
  <2>. QED  BY <1>1, <1>7, <2>2, Moves DEF AttributionFails, Results
<1>. QED  BY <1>2, <1>3, <1>4, <1>5, <1>6, <1>7

\* The steps of the work, of a refusal and of a system block.
LEMMA WorkStepTyped ==
  ASSUME Typed, NEW t \in Tickets,
         \/ RepairVerifier(t) \/ FinishTicket(t) \/ Polish \/ WorkEnds
         \/ ScheduleAttribution \/ DropAttribution \/ WriteIntent \/ ReopenTicket(t) \/ ClearIntent
         \/ Attribute \/ AttributionFound(t) \/ RewriteReport
         \/ RequestRevision \/ RepairCheck \/ RecordStrategy \/ DiagnosisMaps \/ RecordDiagnosis
  PROVE  Typed'
<1>. USE DEF Typed
<1>1. CASE RepairVerifier(t)
  <2>1. RepoTyped' /\ WorkTyped'
    BY <1>1 DEF RepairVerifier, Repaired, RepoTyped, WorkTyped, intents
  <2>2. ReportsTyped'
    BY <1>1 DEF RepairVerifier, Repaired, ReportsTyped
  <2>3. ControlTyped'
    BY <1>1 DEF RepairVerifier, ControlTyped
  <2>. QED  BY <1>1, <2>1, <2>2, <2>3, Kept DEF RepairVerifier
<1>2. CASE FinishTicket(t) \/ Polish
  <2>1. RepoTyped'
    BY <1>2 DEF FinishTicket, Polish, RepoTyped
  <2>2. WorkTyped'
    BY <1>2 DEF FinishTicket, Polish, WorkTyped, intents
  <2>3. ControlTyped'
    BY <1>2, Moves, Kept DEF FinishTicket, Polish, Results
  <2>. QED  BY <1>2, <2>1, <2>2, <2>3, Kept DEF FinishTicket, Polish, evidence
<1>3. CASE WorkEnds
  <2>1. ControlTyped'
    BY <1>3, Moves DEF WorkEnds, Results
  <2>. QED  BY <1>3, <2>1, Kept DEF WorkEnds, evidence
<1>4. CASE ScheduleAttribution \/ DropAttribution
  <2>1. WorkTyped'
    BY <1>4 DEF ScheduleAttribution, DropAttribution, WorkTyped, Narrowed, ReportsTyped,
       NoBlocked, rest
  <2>2. ControlTyped'
    BY <1>4, Moves DEF ScheduleAttribution, DropAttribution, Places
  <2>. QED  BY <1>4, <2>1, <2>2, Kept DEF ScheduleAttribution, DropAttribution, rest, evidence
<1>5. CASE WriteIntent
  <2>1. pending' \in SUBSET Tickets
    BY <1>5, DependentsTyped DEF WriteIntent, ReportsTyped
  <2>2. WorkTyped'
    BY <1>5, <2>1 DEF WriteIntent, WorkTyped, rest
  <2>3. ControlTyped'
    BY <1>5, <2>1 DEF WriteIntent, ControlTyped, Places
  <2>. QED  BY <1>5, <2>2, <2>3, Kept DEF WriteIntent, rest, evidence
<1>6. CASE ReopenTicket(t)
  <2>1. WorkTyped'
    BY <1>6 DEF ReopenTicket, WorkTyped, rest, intents
  <2>2. ControlTyped'
    BY <1>6 DEF ReopenTicket, ControlTyped
  <2>. QED  BY <1>6, <2>1, <2>2, Kept DEF ReopenTicket, rest, evidence
<1>7. CASE ClearIntent
  <2>1. WorkTyped'
    BY <1>7 DEF ClearIntent, WorkTyped, rest
  <2>2. ControlTyped'
    BY <1>7, Moves DEF ClearIntent, Places
  <2>. QED  BY <1>7, <2>1, <2>2, Kept DEF ClearIntent, rest, evidence
<1>8. CASE Attribute
  <2>1. blocked' \in [cands : SUBSET Tickets, tries : Nat]
    <3>1. CASE UNCHANGED blocked
      BY <3>1 DEF WorkTyped
    <3>2. CASE NextTry
      <4>1. (IF blocked.tries < 2 THEN blocked.tries + 1 ELSE blocked.tries) \in Nat
        BY DEF WorkTyped
      <4>. QED  BY <3>2, <4>1 DEF NextTry, WorkTyped
    <3>. QED  BY <1>8, <3>1, <3>2 DEF Attribute
  <2>2. WorkTyped'
    BY <1>8, <2>1 DEF Attribute, WorkTyped, rest
  <2>3. ControlTyped'
    <3>1. CASE Cardinality(blocked.cands) = 1
      <4>1. "attributed" \in Places /\ blocked.cands \in SUBSET Tickets
        BY DEF Places, WorkTyped
      <4>2. ctl' = [ctl EXCEPT !.at = "attributed", !.left = blocked.cands]
        BY <1>8, <3>1 DEF Attribute
      <4>. QED  BY <4>1, <4>2 DEF ControlTyped
    <3>2. CASE Cardinality(blocked.cands) # 1
      BY <1>8, <3>2, Moves DEF Attribute, Places
    <3>. QED  BY <3>1, <3>2
  <2>. QED  BY <1>8, <2>2, <2>3, Kept DEF Attribute, rest, evidence
<1>9. CASE AttributionFound(t)
  <2>1. ControlTyped'
    BY <1>9 DEF AttributionFound, ControlTyped, Places
  <2>. QED  BY <1>9, <2>1, Kept DEF AttributionFound, rest, evidence
<1>10. CASE RewriteReport
  <2>1. ReportsTyped'
    BY <1>10 DEF RewriteReport, ReportsTyped, ControlTyped
  <2>2. ControlTyped'
    BY <1>10 DEF RewriteReport, ControlTyped, Places
  <2>. QED  BY <1>10, <2>1, <2>2, Kept DEF RewriteReport, pipelineVars, intents
<1>11. CASE RequestRevision
  <2>1. WorkTyped'
    BY <1>11 DEF RequestRevision, WorkTyped, intents
  <2>2. ControlTyped'
    BY <1>11, Moves DEF RequestRevision, Results
  <2>. QED  BY <1>11, <2>1, <2>2, Kept DEF RequestRevision, evidence
<1>12. CASE RepairCheck \/ RecordStrategy \/ RecordDiagnosis
  <2>1. /\ Journal \in [owners : SUBSET Tickets, n : Nat, diag : BOOLEAN]
        /\ block.owners \in SUBSET Tickets
    BY DEF Journal, NoDet, WorkTyped, ReportsTyped
  <2>2. det' \in [owners : SUBSET Tickets, n : Nat, diag : BOOLEAN]
    <3>1. CASE RecordStrategy
      <4>1. Journal.n + 1 \in Nat
        BY <2>1
      <4>. QED  BY <2>1, <3>1, <4>1 DEF RecordStrategy
    <3>2. CASE RepairCheck
      <4>1. \/ UNCHANGED det
            \/ det' = [Journal EXCEPT !.diag = TRUE]
        BY <3>2 DEF RepairCheck
      <4>2. [Journal EXCEPT !.diag = TRUE] \in [owners : SUBSET Tickets, n : Nat, diag : BOOLEAN]
        BY <2>1
      <4>. QED  BY <4>1, <4>2 DEF WorkTyped
    <3>3. CASE RecordDiagnosis
      BY <3>3 DEF RecordDiagnosis, WorkTyped
    <3>. QED  BY <1>12, <3>1, <3>2, <3>3
  <2>3. WorkTyped'
    BY <1>12, <2>1, <2>2 DEF RepairCheck, RecordStrategy, RecordDiagnosis, WorkTyped, rest
  <2>4. ControlTyped'
    <3>1. CASE RecordStrategy \/ RecordDiagnosis
      BY <3>1, Moves DEF RecordStrategy, RecordDiagnosis, Places
    <3>2. CASE RepairCheck /\ Direct
      BY <3>2, Moves DEF RepairCheck, Places
    <3>3. CASE RepairCheck /\ ~Direct
      BY <3>3 DEF RepairCheck, ControlTyped, Places, Results
    <3>. QED  BY <1>12, <3>1, <3>2, <3>3
  <2>. QED  BY <1>12, <2>3, <2>4, Kept DEF RepairCheck, RecordStrategy, RecordDiagnosis, rest,
               evidence
<1>13. CASE DiagnosisMaps
  <2>1. WorkTyped'
    BY <1>13 DEF DiagnosisMaps, WorkTyped, rest, intents
  <2>2. ControlTyped'
    BY <1>13, Moves DEF DiagnosisMaps, Places
  <2>. QED  BY <1>13, <2>1, <2>2, Kept DEF DiagnosisMaps, rest, evidence
<1>. QED  BY <1>1, <1>2, <1>3, <1>4, <1>5, <1>6, <1>7, <1>8, <1>9, <1>10, <1>11, <1>12, <1>13

\* The ends of a run, and what the operator does.
LEMMA EndTyped ==
  ASSUME Typed,
         \/ CommitTransaction \/ EndWithError \/ EndRun \/ RunThrows
         \/ Kill \/ Cancel \/ CancelReaps \/ CancelSettles \/ ApproveRevision \/ OperatorCommits
  PROVE  Typed'
<1>. USE DEF Typed
<1>1. CASE CommitTransaction
  <2>1. StateTyped'
    BY <1>1 DEF CommitTransaction, StateTyped, NoTxn, Exits
  <2>. QED  BY <1>1, <2>1, Kept DEF CommitTransaction, evidence
<1>2. CASE EndWithError
  <2>1. Recorded("other") \in Exits
    BY RecordedTyped DEF Exits
  <2>2. StateTyped'
    <3>1. \E exit \in Exits : st' = [st EXCEPT !.active = FALSE, !.exit = exit]
      BY <1>2, <2>1 DEF EndWithError, StateTyped
    <3>. QED  BY <1>2, <3>1 DEF EndWithError, StateTyped, pipelineVars
  <2>. QED  BY <1>2, <2>2, Moves, Kept DEF EndWithError, evidence, pipelineVars, intents,
               Results
<1>3. CASE EndRun
  <2>1. WorkTyped'
    BY <1>3 DEF EndRun, WorkTyped, intents
  <2>. QED  BY <1>3, <2>1, Moves, Kept DEF EndRun, evidence, Places
<1>4. CASE RunThrows
  BY <1>4, Moves, Kept DEF RunThrows, evidence
<1>5. CASE Kill \/ CancelReaps
  <2>1. StateTyped'
    <3>1. NoTxn \in [on : BOOLEAN, active : BOOLEAN, exit : Exits, cancel : BOOLEAN]
      BY DEF NoTxn, Exits
    <3>. QED  BY <1>5, <3>1 DEF Kill, CancelReaps, StateTyped, rest
  <2>. QED  BY <1>5, <2>1, Moves, Kept DEF Kill, CancelReaps, evidence, rest, Places
<1>6. CASE Cancel
  <2>1. StateTyped' /\ WorkTyped'
    BY <1>6 DEF Cancel, StateTyped, WorkTyped, Exits, intents
  <2>. QED  BY <1>6, <2>1, Kept DEF Cancel, evidence
<1>7. CASE CancelSettles
  <2>1. Recorded("cancelled") \in Exits
    BY RecordedTyped DEF Exits
  <2>2. StateTyped'
    <3>1. \/ UNCHANGED st
          \/ st' = [active |-> FALSE, exit |-> Recorded("cancelled"), cancel |-> TRUE]
      BY <1>7 DEF CancelSettles
    <3>2. [active |-> FALSE, exit |-> Recorded("cancelled"), cancel |-> TRUE]
            \in [active : BOOLEAN, exit : Exits, cancel : BOOLEAN]
      BY <2>1
    <3>. QED  BY <1>7, <3>1, <3>2 DEF CancelSettles, StateTyped
  <2>3. WorkTyped'
    BY <1>7 DEF CancelSettles, WorkTyped, intents
  <2>. QED  BY <1>7, <2>2, <2>3, Kept DEF CancelSettles, evidence
<1>8. CASE ApproveRevision
  <2>1. RepoTyped' /\ ReportsTyped' /\ WorkTyped'
    BY <1>8 DEF ApproveRevision, RepoTyped, ReportsTyped, WorkTyped, intents
  <2>. QED  BY <1>8, <2>1, Kept DEF ApproveRevision
<1>9. CASE OperatorCommits
  <2>1. RepoTyped'
    BY <1>9 DEF OperatorCommits, UserCommits, RepoTyped
  <2>. QED  BY <1>9, <2>1, Kept DEF OperatorCommits, UserCommits, evidence, pipelineVars,
               intents
<1>. QED  BY <1>1, <1>2, <1>3, <1>4, <1>5, <1>6, <1>7, <1>8, <1>9

LEMMA StepKeepsTypes ==
  Typed /\ [PPNext]_vars => Typed'
<1>. SUFFICES ASSUME Typed, [PPNext]_vars PROVE Typed'
  OBVIOUS
<1>1. CASE UNCHANGED vars \/ Done
  BY <1>1, Kept DEF Typed, Done, vars, evidence, pipelineVars, intents
<1>2. \E t : t \in Tickets
  BY TicketsAssumption
<1>3. CASE Operator
  BY <1>3, EndTyped DEF Operator
<1>4. CASE Controller
  BY <1>2, <1>4, CitadelTyped, RepairTyped, StartTyped, WorkStepTyped, EndTyped
  DEF Controller, CitadelPhase, ContractRepair
<1>. QED  BY <1>1, <1>3, <1>4 DEF PPNext

LEMMA InitTyped ==
  PPInit => Typed
<1>. SUFFICES ASSUME PPInit PROVE Typed
  OBVIOUS
<1>1. RepoTyped /\ StateTyped
  BY DEF PPInit, RepoTyped, StateTyped, NoTxn, Exits
<1>2. ReportsTyped
  BY DEF PPInit, ReportsTyped, NoGate, NoReport, NoBlock, Strikes
<1>3. review \in Review
  BY NewReviewTyped DEF PPInit, Review
<1>4. ReviewTyped
  BY <1>3 DEF PPInit, ReviewTyped, NoJournal
<1>5. ControlTyped
  BY DEF PPInit, ControlTyped, Step, Places, Results
<1>6. WorkTyped
  BY DEF PPInit, WorkTyped, NoBlocked, NoDet
<1>. QED  BY <1>1, <1>2, <1>4, <1>5, <1>6 DEF Typed

-----------------------------------------------------------------------------
(* RefusalsFirst.  Inductive with the places where a refusal may still be  *)
(* outstanding, and with the way into them: a repair that comes before the *)
(* refusal is settled goes back to the start of the run.                   *)

Outstanding == pending # {} \/ AttributionPending

BootSteps == ContractSteps \cup {"verifiers"}

Settling == BootSteps \cup
  {"down", "boot", "boot-pending", "reopen", "applied", "enqueue", "intend", "attribute",
   "attributing", "attributed", "leave", "unwind"}

RefusalInv ==
  /\ Outstanding => ctl.at \in Settling /\ (ctl.at \in BootSteps => ctl.back = "boot")
  /\ ctl.at = "intend" => ~AttributionPending
  /\ ctl.at \in {"reopen", "applied"} /\ AttributionPending => ctl.back = "boot"

\* What the moves of the controller do to the fields of ctl.
LEMMA MoveFields ==
  ASSUME ControlTyped
  PROVE  /\ \A x : Goto(x) => /\ ctl'.at = x /\ ctl'.head = ctl.head /\ ctl'.ret = ctl.ret
                              /\ ctl'.left = ctl.left /\ ctl'.back = ctl.back
         /\ \A x : ctl' = Step(x) => ctl'.at = x /\ ctl'.ret = "none" /\ ctl'.back = "none"
         /\ \A r : Return(r) => ctl'.at = "returned" /\ ctl'.ret = r
         /\ \A r : ReturnIfUnmoved(r) => ctl'.at = "returned" /\ ctl'.ret \in {r, "error"}
         /\ \A r : Leave(r) => ctl'.at = "leave" /\ ctl'.ret = r
         /\ Throw => ctl'.at = "returned" /\ ctl'.ret = "error"
         /\ Unwind => ctl'.at = "unwind"
         /\ GoBack => ctl'.at = IF ctl.back = "boot" THEN "boot-pending" ELSE "dispatch"
         /\ CheckOut => ctl'.at = "gate" /\ ctl'.head = head
BY DEF ControlTyped, Goto, Step, Return, ReturnIfUnmoved, Leave, Throw, Unwind, GoBack, CheckOut

\* A run of the citadel stays in it or returns.
LEMMA CitadelPlaces ==
  ASSUME ControlTyped, RunCitadel
  PROVE  ctl.at \in CitadelSteps /\ ctl'.at \in CitadelSteps \cup {"returned"}
<1>1. CASE EnterCitadel \/ VerifiersMissing \/ ReuseChecks \/ StartChecks
  BY <1>1, MoveFields DEF EnterCitadel, VerifiersMissing, ReuseChecks, StartChecks, At,
     CitadelSteps
<1>2. CASE ChecksPass \/ ChecksFail \/ ChecksCancelled \/ SaveChecks
  BY <1>2, MoveFields DEF ChecksPass, ChecksFail, ChecksCancelled, SaveChecks, At, CitadelSteps
<1>3. CASE NoSubstance \/ ReviewerExhausted \/ OpenReview \/ StartAttempt
  BY <1>3, MoveFields DEF NoSubstance, ReviewerExhausted, OpenReview, StartAttempt, At,
     CitadelSteps
<1>4. CASE AttemptsUsedUp \/ ReviewerJudges \/ CandidateRejected \/ ValidatedRejected
  BY <1>4, MoveFields DEF AttemptsUsedUp, ReviewerJudges, CandidateRejected, ValidatedRejected,
     At, CitadelSteps
<1>5. CASE ReviewerFails \/ ReviewerCancelled \/ ReviewedWorkspaceMoved
  BY <1>5, MoveFields DEF ReviewerFails, ReviewerCancelled, ReviewedWorkspaceMoved, At,
     CitadelSteps
<1>6. CASE WriteReport \/ AcceptReview \/ PersistApproval \/ VerifyRelease \/ CitadelThrows
  BY <1>6, MoveFields DEF WriteReport, AcceptReview, PersistApproval, VerifyRelease,
     CitadelThrows,
     At, CitadelSteps
<1>. QED  BY <1>1, <1>2, <1>3, <1>4, <1>5, <1>6 DEF RunCitadel

\* A repair of the contract stays in it, ends the run, or goes back to where it came from.
LEMMA ContractPlaces ==
  ASSUME ControlTyped, RepairContract
  PROVE  /\ ctl.at \in ContractSteps
         /\ \/ ctl'.at \in ContractSteps /\ ctl'.back = ctl.back
            \/ ctl'.at \in {"unwind", "leave"} /\ ctl'.ret # "success"
            \/ ctl'.at = IF ctl.back = "boot" THEN "boot-pending" ELSE "dispatch"
<1>1. CASE RepairRefused \/ RepairResolvedBefore \/ RepairStarts
  BY <1>1, MoveFields DEF RepairRefused, RepairResolvedBefore, RepairStarts, Unwind, Step, At,
     ContractSteps
<1>2. CASE RepairResumes
  BY <1>2 DEF RepairResumes, ControlTyped, At, ContractSteps
<1>3. CASE WriteCandidate \/ ValidateCandidate \/ JudgeCriterion \/ CriterionRejected \/ WriteRuntime
  BY <1>3, MoveFields DEF WriteCandidate, ValidateCandidate, Reject, JudgeCriterion,
     CriterionRejected, WriteRuntime, At, ContractSteps
<1>4. CASE RuntimeNotWritten
  <2>1. CASE ctl.ret = "resumed"
    BY <1>4, <2>1 DEF RuntimeNotWritten, ControlTyped, At, ContractSteps
  <2>2. CASE ctl.ret # "resumed"
    BY <1>4, <2>2, MoveFields DEF RuntimeNotWritten, Reject, At, ContractSteps
  <2>. QED  BY <2>1, <2>2
<1>5. CASE ResolveJournal \/ ProjectResolution
  BY <1>5, MoveFields DEF ResolveJournal, ProjectResolution, At, ContractSteps
<1>. QED  BY <1>1, <1>2, <1>3, <1>4, <1>5 DEF RepairContract

LEMMA RefusalMove ==
  ASSUME RefusalInv, UNCHANGED <<pending, blocked>>,
         \/ ctl.at \notin Settling
         \/ ctl'.at \in Settling /\ (ctl'.at \in BootSteps => ctl'.back = "boot"),
         ctl'.at # "intend",
         ctl'.at \in {"reopen", "applied"} =>
           ctl'.back = "boot" \/ (ctl.at \in {"reopen", "applied"} /\ ctl'.back = ctl.back)
  PROVE  RefusalInv'
<1>1. Outstanding' = Outstanding /\ AttributionPending' = AttributionPending
  BY DEF Outstanding, AttributionPending
<1>. QED  BY <1>1 DEF RefusalInv, Outstanding

LEMMA RefusalStep ==
  Typed /\ RefusalInv /\ [PPNext]_vars => RefusalInv'
<1>. SUFFICES ASSUME Typed, RefusalInv, [PPNext]_vars PROVE RefusalInv'
  OBVIOUS
<1>0. ControlTyped
  BY DEF Typed
<1>1. CASE UNCHANGED vars \/ Done \/ CommitTransaction \/ Cancel \/ CancelSettles \/ ApproveRevision
           \/ OperatorCommits \/ \E t \in Tickets : FinishTicket(t)
  BY <1>1 DEF vars, Done, CommitTransaction, Cancel, CancelSettles, ApproveRevision,
     OperatorCommits, UserCommits, FinishTicket, evidence, pipelineVars, intents, RefusalInv,
     Outstanding, AttributionPending
<1>2. CASE CitadelPhase
  <2>1. ctl.at \notin Settling /\ ctl'.at \notin {"intend", "reopen", "applied"}
    BY <1>0, <1>2, CitadelPlaces DEF CitadelPhase, CitadelSteps, Settling, BootSteps,
       ContractSteps
  <2>. QED  BY <1>2, <2>1, RefusalMove DEF CitadelPhase, pipelineVars
<1>3. CASE ContractRepair
  <2>1. /\ ctl'.at \in Settling \/ ctl.back # "boot"
        /\ ctl'.at \in BootSteps => ctl'.back = ctl.back
        /\ ctl.at \in BootSteps
        /\ ctl'.at \notin {"intend", "reopen", "applied"}
    BY <1>0, <1>3, ContractPlaces DEF ContractRepair, Settling, BootSteps, ContractSteps
  <2>2. CASE ctl.back = "boot"
    BY <1>3, <2>1, <2>2, RefusalMove DEF ContractRepair, pipelineVars
  <2>3. CASE ctl.back # "boot"
    <3>1. ~Outstanding /\ UNCHANGED <<pending, blocked>>
      BY <1>3, <2>1, <2>3 DEF RefusalInv, ContractRepair, pipelineVars
    <3>. QED  BY <2>1, <3>1 DEF RefusalInv, Outstanding, AttributionPending
  <2>. QED  BY <2>2, <2>3
<1>4. CASE StartRun \/ BootAfterVerifiers \/ BootOnward \/ VerifiersRepaired
  <2>1. UNCHANGED <<pending, blocked>>
    BY <1>4 DEF StartRun, BootAfterVerifiers, BootOnward, VerifiersRepaired, intents
  <2>2. CASE StartRun \/ BootAfterVerifiers \/ BootOnward
    <3>1. /\ ctl'.at \in {"boot", "boot-pending", "verifiers", "contract"}
          /\ ctl'.at \in BootSteps => ctl'.back = "boot"
      <4>1. \/ ctl' = Step("boot") \/ ctl' = Step("boot-pending")
            \/ ctl' = [Step("verifiers") EXCEPT !.left = block.owners, !.back = "boot"]
            \/ ctl' = [Step("contract") EXCEPT !.back = "boot"]
        BY <2>2 DEF StartRun, BootAfterVerifiers, BootOnward
      <4>2. \/ ctl'.at \in {"boot", "boot-pending"}
            \/ ctl'.at \in {"verifiers", "contract"} /\ ctl'.back = "boot"
        <5>1. CASE ctl' = Step("boot") \/ ctl' = Step("boot-pending")
          BY <5>1 DEF Step
        <5>2. CASE ctl' = [Step("verifiers") EXCEPT !.left = block.owners, !.back = "boot"]
          BY <5>2 DEF Step
        <5>3. CASE ctl' = [Step("contract") EXCEPT !.back = "boot"]
          BY <5>3 DEF Step
        <5>. QED  BY <4>1, <5>1, <5>2, <5>3
      <4>. QED  BY <4>2 DEF BootSteps, ContractSteps
    <3>. QED  BY <2>1, <3>1, RefusalMove DEF Settling, BootSteps, ContractSteps
  <2>3. CASE VerifiersRepaired
    <3>1. ctl.at \in BootSteps /\ ctl'.at = IF ctl.back = "boot" THEN "boot-pending" ELSE "dispatch"
      BY <1>0, <2>3, MoveFields DEF VerifiersRepaired, Now, At, BootSteps
    <3>. QED  BY <2>1, <3>1 DEF RefusalInv, Outstanding, AttributionPending, Settling,
                 BootSteps, ContractSteps
  <2>. QED  BY <1>4, <2>2, <2>3
<1>5. CASE BootPending
  <2>1. UNCHANGED <<pending, blocked>> /\ ctl.at = "boot-pending"
    BY <1>5 DEF BootPending, intents, Now, At
  <2>2. CASE Outstanding
    <3>1. ctl'.at \in {"reopen", "attribute"} /\ ctl'.back = "boot"
      BY <1>5, <2>2 DEF BootPending, Step, Outstanding
    <3>. QED  BY <2>1, <3>1, RefusalMove DEF Settling, BootSteps, ContractSteps
  <2>3. CASE ~Outstanding
    <3>1. ctl'.at = "dispatch"
      BY <1>5, <2>3 DEF BootPending, Step, Outstanding
    <3>. QED  BY <2>1, <2>3, <3>1 DEF RefusalInv, Outstanding, AttributionPending
  <2>. QED  BY <2>2, <2>3
<1>6. ASSUME NEW t \in Tickets, RepairVerifier(t) \/ ReopenTicket(t) \/ AttributionFound(t)
      PROVE  RefusalInv'
  <2>1. /\ UNCHANGED <<pending, blocked>>
        /\ ctl'.back = ctl.back
        /\ IF AttributionFound(t) THEN ctl.at = "attributing" /\ ctl'.at = "attributed"
           ELSE ctl'.at = ctl.at
    BY <1>0, <1>6 DEF RepairVerifier, ReopenTicket, AttributionFound, ControlTyped, Now, At,
       intents
  <2>. QED  BY <2>1 DEF RefusalInv, Outstanding, AttributionPending, Settling, BootSteps,
               ContractSteps
<1>7. CASE AllDone \/ BeginPhase \/ PhaseRefused \/ Polish \/ WorkEnds \/ PhaseCancelled \/ PhaseEnds
           \/ RequestRevision \/ BlockRepaired \/ RetryPhase \/ RepairCheck \/ RecordStrategy
           \/ ResetForCheck \/ DiagnosisMaps \/ RecordDiagnosis \/ DiagnosisRejected
  <2>1. UNCHANGED <<pending, blocked>>
    BY <1>7 DEF AllDone, BeginPhase, PhaseRefused, Polish, WorkEnds, PhaseCancelled, PhaseEnds,
       RequestRevision, BlockRepaired, RetryPhase, RepairCheck, RecordStrategy, ResetForCheck,
       DiagnosisMaps, RecordDiagnosis, DiagnosisRejected, intents
  <2>2. ctl.at \in {"dispatch", "pickle", "polish", "returned", "system", "strategy", "reset",
                    "diagnose", "mapped"}
    BY <1>7 DEF AllDone, BeginPhase, PhaseRefused, Polish, WorkEnds, PhaseCancelled, PhaseEnds,
       RequestRevision, BlockRepaired, RetryPhase, RepairCheck, RecordStrategy, ResetForCheck,
       DiagnosisMaps, RecordDiagnosis, DiagnosisRejected, Now, At
  <2>3. ctl'.at \notin {"intend", "reopen", "applied"}
    <3>1. CASE AllDone \/ PhaseRefused \/ Polish \/ WorkEnds \/ PhaseCancelled
      BY <1>0, <3>1, MoveFields DEF AllDone, PhaseRefused, Polish, WorkEnds, PhaseCancelled
    <3>2. CASE BeginPhase
      <4>1. NextPhase \in {"pickle", "polish", "citadel"}
        BY <3>2, NextPhaseIs DEF BeginPhase
      <4>. QED  BY <1>0, <3>2, <4>1, MoveFields DEF BeginPhase
    <3>3. CASE PhaseEnds
      <4>1. ctl'.at \in {"dispatch", "enqueue", "system", "leave", "unwind"}
        BY <1>0, <3>3, MoveFields DEF PhaseEnds, GoesOn, Step
      <4>. QED  BY <4>1
    <3>4. CASE RequestRevision \/ RetryPhase \/ RecordStrategy \/ ResetForCheck \/ DiagnosisMaps
               \/ RecordDiagnosis
      BY <1>0, <3>4, MoveFields DEF RequestRevision, RetryPhase, RecordStrategy, ResetForCheck,
         DiagnosisMaps, RecordDiagnosis
    <3>5. CASE BlockRepaired
      BY <3>5 DEF BlockRepaired, Step
    <3>6. CASE RepairCheck \/ DiagnosisRejected
      <4>1. ctl'.at \in {"strategy", "diagnose", "leave"}
        BY <1>0, <3>6, MoveFields DEF RepairCheck, DiagnosisRejected, ControlTyped, Now, At
      <4>. QED  BY <4>1
    <3>. QED  BY <1>7, <3>1, <3>2, <3>3, <3>4, <3>5, <3>6
  <2>. QED  BY <2>1, <2>2, <2>3, RefusalMove DEF Settling, BootSteps, ContractSteps
<1>8. CASE ScheduleAttribution \/ Attribute
  <2>1. ctl'.at \in {"attribute", "attributing", "attributed"}
    BY <1>0, <1>8, MoveFields DEF ScheduleAttribution, Attribute, ControlTyped
  <2>. QED  BY <2>1 DEF RefusalInv, Settling, BootSteps, ContractSteps
<1>9. CASE DropAttribution \/ WriteIntent
  <2>1. CASE DropAttribution
    BY <1>0, <2>1, MoveFields
    DEF DropAttribution, NoBlocked, RefusalInv, AttributionPending, Settling, BootSteps,
       ContractSteps
  <2>2. CASE WriteIntent
    BY <1>0, <2>2 DEF WriteIntent, ControlTyped, Now, At, RefusalInv, AttributionPending,
       Settling,
                      BootSteps, ContractSteps
  <2>. QED  BY <1>9, <2>1, <2>2
<1>10. CASE ResetAfterRefusal \/ RewriteReport \/ AttributionFails
  <2>1. UNCHANGED <<pending, blocked>>
    BY <1>10 DEF ResetAfterRefusal, RewriteReport, AttributionFails, intents, pipelineVars
  <2>2. \/ ctl.at = "reopen" /\ ctl'.at = "applied" /\ ctl'.back = ctl.back
        \/ ctl'.at \in {"enqueue", "leave"}
    BY <1>0, <1>10, MoveFields
    DEF ResetAfterRefusal, RewriteReport, AttributionFails, ControlTyped, Now, At
  <2>. QED  BY <2>1, <2>2, RefusalMove DEF Settling, BootSteps, ContractSteps
<1>11. CASE ClearIntent
  <2>1. /\ ctl.at = "applied" /\ pending' = {} /\ UNCHANGED blocked
        /\ ctl'.at = IF ctl.back = "boot" THEN "boot-pending" ELSE "dispatch"
    BY <1>11 DEF ClearIntent, Now, At, Step
  <2>. QED  BY <2>1 DEF RefusalInv, Outstanding, AttributionPending, Settling, BootSteps,
               ContractSteps
<1>12. CASE EndWithError \/ EndRun \/ RunThrows \/ Kill \/ CancelReaps
  <2>1. UNCHANGED <<pending, blocked>>
    BY <1>12 DEF EndWithError, EndRun, RunThrows, Kill, CancelReaps, intents, pipelineVars
  <2>2. ctl'.at \in {"leave", "down", "unwind"}
    BY <1>0, <1>12, MoveFields DEF EndWithError, EndRun, RunThrows, Kill, CancelReaps
  <2>. QED  BY <2>1, <2>2, RefusalMove DEF Settling, BootSteps, ContractSteps
<1>. QED  BY <1>1, <1>2, <1>3, <1>4, <1>5, <1>6, <1>7, <1>8, <1>9, <1>10, <1>11, <1>12
          DEF PPNext, Controller, Operator

\* Whatever killed run left a refusal half settled, no phase works before the tickets it
\* names are open again: the intent and the attribution survive and are found first.
THEOREM RefusalsComeFirst ==
  PPSafety => []RefusalsFirst
<1>1. PPInit => RefusalInv
  BY DEF PPInit, RefusalInv, Outstanding, AttributionPending, NoBlocked, Step
<1>2. RefusalInv => RefusalsFirst
  BY DEF RefusalInv, RefusalsFirst, Outstanding, Settling, BootSteps, CitadelSteps,
     ContractSteps
<1>. QED  BY InitTyped, StepKeepsTypes, RefusalStep, <1>1, <1>2, PTL DEF PPSafety

-----------------------------------------------------------------------------
(* What the steps outside the citadel do to its evidence, and where they   *)
(* lead.  The lemmas of the other properties rest on it.                   *)

Inside    == CitadelSteps \ {"citadel"}
Elsewhere == Places \ (Inside \cup ContractSteps \cup {"verifiers"})

\* A changed verifier or PRD binds the checks anew.
Rebinds ==
  /\ refused' = {} /\ gate' = [gate EXCEPT !.head = 0]
  /\ UNCHANGED <<head, review, report, cj>>
  /\ \/ ctl.at = "verifiers" /\ ctl'.at = "verifiers"
     \/ ctl.at = "down" /\ UNCHANGED ctl

OutsideMove ==
  /\ UNCHANGED <<approval, block>>
  /\ \/ ctl' = ctl \/ ctl'.at \in Elsewhere
     \/ ctl'.at = "contract" /\ block.code = "reviewer"
     \/ ctl'.at = "verifiers" /\ (ctl.at = "verifiers" \/ block.code = "verifier")
  /\ \/ UNCHANGED <<gate, review, report, cj, refused>> /\ head' \in {head, head + 1}
     \/ Rebinds
     \/ RewriteReport

LEMMA OutsideSteps ==
  ASSUME Typed, [PPNext]_vars, ~CitadelPhase, ~ContractRepair
  PROVE  OutsideMove
<1>0. ControlTyped /\ RepoTyped
  BY DEF Typed
<1>a. {"down", "boot", "boot-pending", "dispatch", "pickle", "polish", "citadel",
       "returned", "enqueue", "intend", "reopen", "applied", "attribute", "attributing",
       "attributed", "system", "strategy", "reset", "diagnose", "mapped", "unwind", "leave"}
      = Elsewhere
  BY DEF Elsewhere, Places, Inside, CitadelSteps, ContractSteps
<1>1. CASE UNCHANGED vars \/ Done \/ CommitTransaction \/ Cancel \/ CancelSettles \/ OperatorCommits
           \/ \E t \in Tickets : FinishTicket(t)
  <2>1. UNCHANGED <<ctl, evidence>> /\ head' \in {head, head + 1}
    BY <1>1 DEF vars, Done, CommitTransaction, Cancel, CancelSettles, OperatorCommits,
       UserCommits,
       FinishTicket, repo
  <2>. QED  BY <2>1 DEF OutsideMove, evidence
<1>2. CASE ApproveRevision
  BY <1>2 DEF ApproveRevision, OutsideMove, Rebinds, At
<1>3. ASSUME NEW t \in Tickets, RepairVerifier(t) PROVE OutsideMove
  <2>1. ctl.at = "verifiers" /\ ctl'.at = "verifiers"
    BY <1>0, <1>3 DEF RepairVerifier, Now, At, ControlTyped
  <2>. QED  BY <1>3, <1>a, <2>1 DEF RepairVerifier, Repaired, OutsideMove, Rebinds
<1>4. CASE RewriteReport
  <2>1. ctl'.at = "enqueue"
    BY <1>0, <1>4 DEF RewriteReport, ControlTyped
  <2>. QED  BY <1>4, <1>a, <2>1 DEF RewriteReport, OutsideMove
<1>5. CASE Polish
  <2>1. ctl'.at = "returned"
    BY <1>0, <1>5, MoveFields DEF Polish
  <2>. QED  BY <1>5, <1>a, <2>1 DEF Polish, OutsideMove, evidence
<1>6. CASE StartRun \/ BootAfterVerifiers \/ BootOnward \/ BootPending \/ VerifiersRepaired
  <2>1. UNCHANGED <<head, evidence>>
    BY <1>6 DEF StartRun, BootAfterVerifiers, BootOnward, BootPending, VerifiersRepaired, rest,
       repo
  <2>2. CASE StartRun \/ BootPending \/ VerifiersRepaired
    <3>1. ctl'.at \in {"boot", "reopen", "attribute", "dispatch", "boot-pending"}
      BY <1>0, <2>2, MoveFields DEF StartRun, BootPending, VerifiersRepaired, Step
    <3>. QED  BY <1>a, <2>1, <3>1 DEF OutsideMove, evidence, repo
  <2>3. CASE BootAfterVerifiers \/ BootOnward
    <3>1. \/ ctl' = Step("boot-pending")
          \/ /\ ctl' = [Step("verifiers") EXCEPT !.left = block.owners, !.back = "boot"]
             /\ block.code = "verifier"
          \/ ctl' = [Step("contract") EXCEPT !.back = "boot"] /\ block.code = "reviewer"
      BY <2>3 DEF BootAfterVerifiers, BootOnward
    <3>2. \/ ctl'.at = "boot-pending"
          \/ ctl'.at = "verifiers" /\ block.code = "verifier"
          \/ ctl'.at = "contract" /\ block.code = "reviewer"
      <4>1. CASE ctl' = Step("boot-pending")
        BY <4>1 DEF Step
      <4>2. CASE /\ ctl' = [Step("verifiers") EXCEPT !.left = block.owners, !.back = "boot"]
                 /\ block.code = "verifier"
        BY <4>2 DEF Step
      <4>3. CASE ctl' = [Step("contract") EXCEPT !.back = "boot"] /\ block.code = "reviewer"
        BY <4>3 DEF Step
      <4>. QED  BY <3>1, <4>1, <4>2, <4>3
    <3>. QED  BY <1>a, <2>1, <3>2 DEF OutsideMove, evidence, repo
  <2>. QED  BY <1>6, <2>2, <2>3
<1>7. CASE AllDone \/ BeginPhase \/ PhaseRefused \/ WorkEnds \/ PhaseCancelled \/ PhaseEnds
  <2>1. UNCHANGED <<repo, evidence>>
    BY <1>7 DEF AllDone, BeginPhase, PhaseRefused, WorkEnds, PhaseCancelled, PhaseEnds, rest
  <2>2. ctl'.at \in {"leave", "unwind", "returned", "pickle", "polish", "citadel", "dispatch",
                     "enqueue", "system"}
    <3>1. CASE AllDone \/ PhaseRefused \/ WorkEnds \/ PhaseCancelled
      BY <1>0, <3>1, MoveFields DEF AllDone, PhaseRefused, WorkEnds, PhaseCancelled
    <3>2. CASE BeginPhase
      <4>1. NextPhase \in {"pickle", "polish", "citadel"}
        BY <3>2, NextPhaseIs DEF BeginPhase
      <4>. QED  BY <1>0, <3>2, <4>1, MoveFields DEF BeginPhase
    <3>3. CASE PhaseEnds
      BY <1>0, <3>3, MoveFields DEF PhaseEnds, GoesOn, Step
    <3>. QED  BY <1>7, <3>1, <3>2, <3>3
  <2>. QED  BY <1>a, <2>1, <2>2 DEF OutsideMove, evidence, repo
<1>8. CASE ScheduleAttribution \/ DropAttribution \/ WriteIntent \/ ResetAfterRefusal \/ ClearIntent
           \/ Attribute \/ AttributionFails
           \/ \E t \in Tickets : ReopenTicket(t) \/ AttributionFound(t)
  <2>1. UNCHANGED <<repo, evidence>>
    BY <1>8 DEF ScheduleAttribution, DropAttribution, WriteIntent, ResetAfterRefusal,
       ClearIntent,
       Attribute, AttributionFails, ReopenTicket, AttributionFound, rest
  <2>2. ctl'.at \in {"attribute", "intend", "reopen", "applied", "attributed", "attributing", "leave",
                     "boot-pending", "dispatch"}
    <3>1. CASE ScheduleAttribution \/ DropAttribution \/ ResetAfterRefusal \/ AttributionFails
      BY <1>0, <3>1, MoveFields
      DEF ScheduleAttribution, DropAttribution, ResetAfterRefusal, AttributionFails
    <3>2. CASE WriteIntent \/ \E t \in Tickets : ReopenTicket(t) \/ AttributionFound(t)
      BY <1>0, <3>2 DEF WriteIntent, ReopenTicket, AttributionFound, ControlTyped, Now, At
    <3>3. CASE ClearIntent
      BY <1>0, <3>3, MoveFields DEF ClearIntent
    <3>4. CASE Attribute
      BY <1>0, <3>4, MoveFields DEF Attribute, ControlTyped
    <3>. QED  BY <1>8, <3>1, <3>2, <3>3, <3>4
  <2>. QED  BY <1>a, <2>1, <2>2 DEF OutsideMove, evidence, repo
<1>9. CASE RequestRevision \/ BlockRepaired \/ RetryPhase \/ RepairCheck \/ RecordStrategy
           \/ ResetForCheck \/ DiagnosisMaps \/ RecordDiagnosis \/ DiagnosisRejected
  <2>1. UNCHANGED <<repo, evidence>>
    BY <1>9 DEF RequestRevision, BlockRepaired, RetryPhase, RepairCheck, RecordStrategy,
       ResetForCheck, DiagnosisMaps, RecordDiagnosis, DiagnosisRejected, rest
  <2>2. CASE BlockRepaired
    <3>1. CASE block.code = "reviewer"
      <4>1. ctl'.at = "contract"
        BY <2>2, <3>1 DEF BlockRepaired, Step
      <4>. QED  BY <2>1, <3>1, <4>1 DEF OutsideMove, evidence, repo
    <3>2. CASE block.code # "reviewer"
      <4>1. ctl'.at = "verifiers" /\ block.code = "verifier"
        BY <2>2, <3>2 DEF BlockRepaired, Step
      <4>. QED  BY <1>a, <2>1, <4>1 DEF OutsideMove, evidence, repo
    <3>. QED  BY <3>1, <3>2
  <2>3. CASE ~BlockRepaired
    <3>1. ctl'.at \in {"leave", "dispatch", "strategy", "diagnose", "reset", "mapped"}
      <4>1. CASE RequestRevision \/ RetryPhase \/ RecordStrategy \/ ResetForCheck \/ DiagnosisMaps
                 \/ RecordDiagnosis
        BY <1>0, <4>1, MoveFields DEF RequestRevision, RetryPhase, RecordStrategy,
           ResetForCheck,
           DiagnosisMaps, RecordDiagnosis
      <4>2. CASE RepairCheck \/ DiagnosisRejected
        BY <1>0, <4>2, MoveFields DEF RepairCheck, DiagnosisRejected, ControlTyped, Now, At
      <4>. QED  BY <1>9, <2>3, <4>1, <4>2
    <3>. QED  BY <1>a, <2>1, <3>1 DEF OutsideMove, evidence, repo
  <2>. QED  BY <2>2, <2>3
<1>10. CASE EndWithError \/ EndRun \/ RunThrows \/ Kill \/ CancelReaps
  <2>1. UNCHANGED <<repo, evidence>>
    BY <1>10 DEF EndWithError, EndRun, RunThrows, Kill, CancelReaps, rest
  <2>2. ctl'.at \in {"leave", "down", "unwind"}
    BY <1>0, <1>10, MoveFields DEF EndWithError, EndRun, RunThrows, Kill, CancelReaps
  <2>. QED  BY <1>a, <2>1, <2>2 DEF OutsideMove, evidence, repo
<1>. QED  BY <1>1, <1>2, <1>3, <1>4, <1>5, <1>6, <1>7, <1>8, <1>9, <1>10
          DEF PPNext, Controller, Operator

\* A repair of the contract leaves the evidence alone but for the review.
LEMMA ContractMove ==
  ASSUME Typed, ContractRepair
  PROVE  /\ UNCHANGED contractRest
         /\ UNCHANGED review \/ review' = ProjectInto(review)
         /\ ctl.at \in ContractSteps
         /\ ctl'.at \in Elsewhere \cup ContractSteps
<1>1. ctl.at \in ContractSteps /\ ctl'.at \in Elsewhere \cup ContractSteps
  <2>1. {"unwind", "leave", "boot-pending", "dispatch"} \subseteq Elsewhere
    BY DEF Elsewhere, Places, Inside, CitadelSteps, ContractSteps
  <2>. QED  BY <2>1, ContractPlaces DEF Typed, ContractRepair
<1>2. UNCHANGED contractRest
  BY DEF ContractRepair, RepairContract, contractRest, RepairRefused, RepairResolvedBefore,
     RepairResumes, RepairStarts, WriteCandidate, ValidateCandidate, JudgeCriterion,
     CriterionRejected, WriteRuntime, RuntimeNotWritten, ResolveJournal, ProjectResolution
<1>3. UNCHANGED review \/ review' = ProjectInto(review)
  BY DEF ContractRepair, RepairContract, RepairRefused, RepairResolvedBefore,
     RepairResumes, RepairStarts, WriteCandidate, ValidateCandidate, JudgeCriterion,
     CriterionRejected, WriteRuntime, RuntimeNotWritten, ResolveJournal, ProjectResolution
<1>. QED  BY <1>1, <1>2, <1>3

-----------------------------------------------------------------------------
(* One run of the citadel: what is on disk at each of its steps.           *)

Reviewing  == {"review", "attempts", "reviewing", "report", "accept", "approve"}
Asking     == {"attempts", "reviewing"}
JudgedLast == {"validated", "accepted"}
Ended      == {"exhausted", "diagnostic"}

ChecksInv ==
  /\ ctl.at \in {"checking", "saving"} => gate.head = ctl.head /\ gate.result # "passed"
  /\ ctl.at \in Reviewing => gate.head = ctl.head /\ gate.result = "passed"

ReviewInv ==
  /\ ctl.at \in Reviewing \ {"review"} => review.bound /\ review.status \notin Ended
  /\ ctl.at \in Asking => review.last \notin JudgedLast
  /\ ctl.at \in {"report", "accept", "approve"} => review.last \in JudgedLast
  /\ ctl.at = "approve" => review.status = "accepted" /\ review.last = "accepted"
  /\ review.status \in Ended => review.last \notin JudgedLast

ReportInv ==
  /\ ctl.at \in {"accept", "approve"} =>
       /\ block = NoBlock /\ report.head = ctl.head
       /\ report.verdict = IF review.verdict = {} THEN "approve" ELSE "block"
  /\ ctl.at = "approve" => report.verdict = "approve"
  /\ ctl.at = "verify" => block = NoBlock /\ report.head = ctl.head

ContractInv == ctl.at \in ContractSteps => block.code = "reviewer"

RunInv == ChecksInv /\ ReviewInv /\ ReportInv /\ ContractInv

\* Where the steps of a run lead.
CitadelMove ==
  \/ ctl'.at = "returned"
  \/ EnterCitadel /\ ctl'.at = "gate" /\ ctl'.head = head
  \/ ctl.at \in Inside /\ ctl'.at \in Inside \ {"gate"} /\ ctl'.head = ctl.head

LEMMA CitadelMoves ==
  ASSUME ControlTyped, RunCitadel
  PROVE  CitadelMove
<1>1. CASE EnterCitadel
  BY <1>1, MoveFields DEF EnterCitadel, CitadelMove
<1>2. CASE VerifiersMissing \/ ChecksCancelled \/ NoSubstance \/ ReviewerExhausted \/ AttemptsUsedUp
           \/ ReviewerFails \/ ReviewerCancelled \/ ReviewedWorkspaceMoved \/ VerifyRelease
           \/ CitadelThrows
  BY <1>2, MoveFields
  DEF CitadelMove, VerifiersMissing, ChecksCancelled, NoSubstance, ReviewerExhausted,
      AttemptsUsedUp, ReviewerFails, ReviewerCancelled, ReviewedWorkspaceMoved, VerifyRelease,
      CitadelThrows
<1>3. CASE ReuseChecks \/ StartChecks \/ ChecksPass \/ ChecksFail \/ SaveChecks
  <2>1. ctl.at \in {"gate", "checking", "saving"}
    BY <1>3 DEF At, ReuseChecks, StartChecks, ChecksPass, ChecksFail, SaveChecks
  <2>2. \/ ctl'.at = "returned"
        \/ ctl'.at \in {"checking", "saving", "review"} /\ ctl'.head = ctl.head
    BY <1>3, MoveFields DEF ReuseChecks, StartChecks, ChecksPass, ChecksFail, SaveChecks
  <2>. QED  BY <2>1, <2>2 DEF CitadelMove, Inside, CitadelSteps
<1>4. CASE OpenReview \/ StartAttempt \/ ReviewerJudges \/ CandidateRejected
           \/ ValidatedRejected
  <2>1. ctl.at \in {"review", "attempts", "reviewing", "report"}
    BY <1>4 DEF At, OpenReview, StartAttempt, ReviewerJudges, CandidateRejected,
       ValidatedRejected
  <2>2. ctl'.at \in {"attempts", "reviewing", "report"} /\ ctl'.head = ctl.head
    BY <1>4, MoveFields DEF OpenReview, StartAttempt, ReviewerJudges, CandidateRejected,
       ValidatedRejected
  <2>. QED  BY <2>1, <2>2 DEF CitadelMove, Inside, CitadelSteps
<1>5. CASE WriteReport \/ AcceptReview \/ PersistApproval
  <2>1. ctl.at \in {"report", "accept", "approve"}
    BY <1>5 DEF At, WriteReport, AcceptReview, PersistApproval
  <2>2. ctl'.at \in {"accept", "approve", "verify"} /\ ctl'.head = ctl.head
    BY <1>5, MoveFields DEF WriteReport, AcceptReview, PersistApproval
  <2>. QED  BY <2>1, <2>2 DEF CitadelMove, Inside, CitadelSteps
<1>. QED  BY <1>1, <1>2, <1>3, <1>4, <1>5 DEF RunCitadel

LEMMA FailedFields ==
  ASSUME NEW r \in Review, NEW same \in BOOLEAN, NEW e \in Nat
  PROVE  LET f == Failed(r, same, e)
         IN /\ f.last = "none" /\ f.bound = r.bound /\ f.status = r.status
            /\ f.verdict = r.verdict /\ f.epoch = r.epoch /\ f.con = r.con
BY DEF Failed, Review

\* What the opening of a review makes of the one on disk.
LEMMA OpenedFields ==
  ASSUME ReviewTyped, ControlTyped, OpenReview
  PROVE  /\ review'.bound /\ review'.status \notin Ended
         /\ review'.last \in JudgedLast => ctl'.at = "report" /\ review.bound
         /\ review'.last \notin JudgedLast => ctl'.at = "attempts"
         /\ review.bound => review'.verdict = review.verdict
                            /\ (review.last \in JudgedLast => review'.last = review.last)
                            /\ review'.con = review.con
         /\ ~review.bound => review'.con = NoCon
         /\ review.bound /\ review.status = "accepted" /\ review.last = "accepted" => UNCHANGED review
<1>. DEFINE r == NextEpoch(Resumed)
<1>1. r \in Review /\ Resumed \in Review
  BY ResumedTyped
<1>2. /\ review' = IF r.last = "started" THEN Failed(r, FALSE, 0) ELSE r
      /\ Goto(IF review'.last \in JudgedLast THEN "report" ELSE "attempts")
  BY DEF OpenReview, JudgedLast
<1>3. /\ Resumed.bound
      /\ review.bound => Resumed = review
      /\ ~review.bound => Resumed = NewReview
  BY DEF Resumed, NewReview
<1>4. /\ r.bound = Resumed.bound /\ r.last = Resumed.last /\ r.verdict = Resumed.verdict
      /\ r.con = Resumed.con
      /\ r.status = IF Resumed.status = "exhausted" THEN "running" ELSE Resumed.status
      /\ Resumed.status # "exhausted" => r = Resumed
  BY <1>1 DEF NextEpoch, Review
<1>5. Resumed.status # "diagnostic"
  BY DEF OpenReview, Exhausted
<1>. HIDE DEF r
<1>6. /\ review'.bound = r.bound /\ review'.status = r.status /\ review'.verdict = r.verdict
      /\ review'.con = r.con
      /\ review'.last = IF r.last = "started" THEN "none" ELSE r.last
  BY <1>1, <1>2, FailedFields
<1>7. /\ review'.last \in JudgedLast => ctl'.at = "report"
      /\ review'.last \notin JudgedLast => ctl'.at = "attempts"
  BY <1>2, MoveFields
<1>8. NewReview.last = "none" /\ NewReview.con = NoCon
  BY DEF NewReview
<1>. QED  BY <1>2, <1>3, <1>4, <1>5, <1>6, <1>7, <1>8 DEF Ended, JudgedLast

LEMMA RunOutside ==
  ASSUME Typed, RunInv, [PPNext]_vars, ~CitadelPhase
  PROVE  RunInv'
<1>1. CASE ContractRepair
  <2>1. ctl'.at \notin Inside /\ UNCHANGED <<block, gate, report>>
    BY <1>1, ContractMove DEF Elsewhere, contractRest, ContractSteps, Inside, CitadelSteps
  <2>2. ContractInv'
    BY <1>1, <2>1, ContractMove DEF RunInv, ContractInv
  <2>3. review'.status \in Ended => review'.last \notin JudgedLast
    <3>1. review \in Review
      BY DEF Typed, ReviewTyped
    <3>2. ProjectInto(review).status = "running"
      BY <3>1 DEF ProjectInto, Review
    <3>. QED  BY <1>1, <3>2, ContractMove DEF RunInv, ReviewInv, Ended
  <2>. QED  BY <2>1, <2>2, <2>3
       DEF RunInv, ChecksInv, ReviewInv, ReportInv, Inside, CitadelSteps, Reviewing, Asking
<1>2. CASE ~ContractRepair
  <2>0. OutsideMove
    BY <1>2, OutsideSteps
  <2>1. ctl' = ctl \/ ctl'.at \notin Inside
    BY <2>0 DEF OutsideMove, Elsewhere, Inside, CitadelSteps
  <2>2. ContractInv'
    BY <2>0 DEF OutsideMove, RunInv, ContractInv, Elsewhere, ContractSteps
  <2>3. UNCHANGED <<block, review>>
    BY <2>0 DEF OutsideMove, Rebinds, RewriteReport
  <2>4. CASE ctl'.at \notin Inside
    BY <2>2, <2>3, <2>4
    DEF RunInv, ChecksInv, ReviewInv, ReportInv, Inside, CitadelSteps, Reviewing, Asking
  <2>5. CASE ctl' = ctl /\ ctl.at \in Inside
    <3>1. UNCHANGED <<gate, report>>
      BY <2>0, <2>5 DEF OutsideMove, Rebinds, RewriteReport, Now, At, Inside, CitadelSteps
    <3>. QED  BY <2>2, <2>3, <2>5, <3>1 DEF RunInv, ChecksInv, ReviewInv, ReportInv
  <2>. QED  BY <2>1, <2>4, <2>5
<1>. QED  BY <1>1, <1>2

LEMMA RunInside ==
  ASSUME Typed, RunInv, RunCitadel
  PROVE  RunInv'
<1>0. ControlTyped /\ ReviewTyped /\ ReportsTyped /\ review \in Review
  BY DEF Typed, ReviewTyped
<1>a. ContractInv'
  BY <1>0, CitadelPlaces DEF ContractInv, ContractSteps, CitadelSteps
<1>1. ASSUME ctl'.at \in {"gate", "returned"},
             review'.status \in Ended => review'.last \notin JudgedLast
      PROVE  RunInv'
  BY <1>a, <1>1 DEF RunInv, ChecksInv, ReviewInv, ReportInv, Reviewing, Asking
<1>2. CASE EnterCitadel \/ VerifiersMissing \/ ChecksCancelled \/ NoSubstance
           \/ ReviewedWorkspaceMoved \/ VerifyRelease \/ CitadelThrows
  <2>1. ctl'.at \in {"gate", "returned"}
    BY <1>0, <1>2, MoveFields
    DEF EnterCitadel, VerifiersMissing, ChecksCancelled, NoSubstance, ReviewedWorkspaceMoved,
        VerifyRelease, CitadelThrows
  <2>2. UNCHANGED review
    BY <1>2 DEF EnterCitadel, VerifiersMissing, ChecksCancelled, NoSubstance,
       ReviewedWorkspaceMoved, VerifyRelease, CitadelThrows, evidence
  <2>. QED  BY <1>1, <2>1, <2>2 DEF RunInv, ReviewInv
<1>3. CASE ReviewerExhausted \/ AttemptsUsedUp \/ ReviewerFails \/ ReviewerCancelled
  <2>1. ctl'.at = "returned"
    BY <1>0, <1>3, MoveFields DEF ReviewerExhausted, AttemptsUsedUp, ReviewerFails,
       ReviewerCancelled
  <2>2. review'.last \notin JudgedLast
    <3>1. CASE ReviewerExhausted
      <4>1. NewReview.status = "running"
        BY DEF NewReview
      <4>2. review.status \in Ended
        BY <3>1, <4>1 DEF ReviewerExhausted, Exhausted, Resumed, Ended
      <4>3. review'.last = review.last
        BY <1>0, <3>1 DEF ReviewerExhausted, Review
      <4>. QED  BY <4>2, <4>3 DEF RunInv, ReviewInv
    <3>2. CASE AttemptsUsedUp
      <4>1. review'.last = review.last /\ ctl.at = "attempts"
        BY <1>0, <3>2 DEF AttemptsUsedUp, Review, At
      <4>. QED  BY <4>1 DEF RunInv, ReviewInv, Asking
    <3>3. CASE ReviewerFails \/ ReviewerCancelled
      BY <1>0, <3>3, FailedFields DEF ReviewerFails, ReviewerCancelled, JudgedLast
    <3>. QED  BY <1>3, <3>1, <3>2, <3>3
  <2>. QED  BY <1>1, <2>1, <2>2
<1>4. ASSUME ctl'.at \in {"checking", "saving", "review"},
             review'.status \in Ended => review'.last \notin JudgedLast, ChecksInv'
      PROVE  RunInv'
  BY <1>a, <1>4 DEF RunInv, ReviewInv, ReportInv, Reviewing, Asking
<1>5. CASE ReuseChecks
  <2>1. ctl'.at = "review" /\ ctl'.head = ctl.head /\ UNCHANGED <<review, gate>>
    BY <1>0, <1>5, MoveFields DEF ReuseChecks, evidence
  <2>2. ChecksInv'
    BY <1>5, <2>1 DEF ReuseChecks, Reusable, ChecksBound, ChecksInv
  <2>. QED  BY <1>4, <2>1, <2>2 DEF RunInv, ReviewInv
<1>6. CASE StartChecks
  <2>1. /\ ctl'.at = "checking" /\ ctl'.head = ctl.head
        /\ gate'.head = ctl.head /\ gate'.result = "running"
        /\ review'.status = review.status /\ review'.last = review.last
    BY <1>0, <1>6, MoveFields DEF StartChecks, Review
  <2>2. ChecksInv'
    BY <2>1 DEF ChecksInv, Reviewing
  <2>. QED  BY <1>4, <2>1, <2>2 DEF RunInv, ReviewInv
<1>7. CASE ChecksPass \/ ChecksFail
  <2>1. /\ ctl'.at = "saving" /\ ctl'.head = ctl.head /\ ctl.at = "checking" /\ UNCHANGED review
    BY <1>0, <1>7, MoveFields DEF ChecksPass, ChecksFail, At
  <2>2. gate'.head = gate.head /\ gate'.result \in {"unsaved", "failed"}
    BY <1>0, <1>7 DEF ChecksPass, ChecksFail, ReportsTyped
  <2>3. ChecksInv'
    BY <2>1, <2>2 DEF RunInv, ChecksInv, Reviewing
  <2>. QED  BY <1>4, <2>1, <2>3 DEF RunInv, ReviewInv
<1>8. CASE SaveChecks
  <2>1. UNCHANGED review /\ ctl.at = "saving"
    BY <1>8 DEF SaveChecks, At
  <2>2. CASE gate.result = "failed"
    <3>1. ctl'.at = "returned"
      BY <1>0, <1>8, <2>2, MoveFields DEF SaveChecks
    <3>. QED  BY <1>1, <2>1, <3>1 DEF RunInv, ReviewInv
  <2>3. CASE gate.result # "failed"
    <3>1. ctl'.at = "review" /\ ctl'.head = ctl.head
      BY <1>0, <1>8, <2>3, MoveFields DEF SaveChecks
    <3>2. gate'.head = gate.head /\ gate'.result = "passed"
      BY <1>0, <1>8, <2>3 DEF SaveChecks, ReportsTyped
    <3>3. ChecksInv'
      BY <2>1, <3>1, <3>2 DEF RunInv, ChecksInv
    <3>. QED  BY <1>4, <2>1, <3>1, <3>3 DEF RunInv, ReviewInv
  <2>. QED  BY <2>2, <2>3
<1>9. ASSUME ctl'.at \in {"attempts", "reviewing", "report"}, ctl'.head = ctl.head,
             ctl.at \in Reviewing, UNCHANGED gate, ReviewInv'
      PROVE  RunInv'
  <2>1. ChecksInv'
    BY <1>9 DEF RunInv, ChecksInv, Reviewing
  <2>. QED  BY <1>9, <1>a, <2>1 DEF RunInv, ReportInv
<1>10. CASE OpenReview
  <2>1. /\ ctl'.at \in {"attempts", "report"} /\ ctl'.head = ctl.head
        /\ ctl.at = "review" /\ UNCHANGED gate
    BY <1>0, <1>10, MoveFields DEF OpenReview, At
  <2>2. ReviewInv'
    BY <1>0, <1>10, <2>1, OpenedFields DEF ReviewInv, Reviewing, Asking
  <2>. QED  BY <1>9, <2>1, <2>2 DEF Reviewing
<1>11. CASE StartAttempt \/ ReviewerJudges \/ CandidateRejected \/ ValidatedRejected
  <2>1. /\ ctl'.at \in {"attempts", "reviewing", "report"} /\ ctl'.head = ctl.head
        /\ ctl.at \in {"attempts", "reviewing", "report"} /\ UNCHANGED gate
    BY <1>0, <1>11, MoveFields DEF StartAttempt, ReviewerJudges, CandidateRejected,
       ValidatedRejected, At
  <2>2. review'.bound = review.bound /\ review'.status = review.status
    <3>1. CASE StartAttempt \/ ReviewerJudges
      BY <1>0, <3>1 DEF StartAttempt, ReviewerJudges, Review
    <3>2. CASE CandidateRejected \/ ValidatedRejected
      <4>1. \E same \in BOOLEAN, e \in Nat : review' = Failed(review, same, e)
        BY <3>2, RejectionFails DEF CandidateRejected, ValidatedRejected
      <4>. QED  BY <1>0, <4>1, FailedFields
    <3>. QED  BY <1>11, <3>1, <3>2
  <2>3. \/ ctl'.at = "report" /\ review'.last \in JudgedLast
        \/ ctl'.at \in Asking /\ review'.last \notin JudgedLast
    <3>1. CASE ReviewerJudges
      BY <1>0, <3>1, MoveFields DEF ReviewerJudges, JudgedLast, Review
    <3>2. CASE StartAttempt
      <4>1. ctl'.at = "reviewing" /\ review'.last = "started"
        BY <1>0, <3>2, MoveFields DEF StartAttempt, Review
      <4>. QED  BY <4>1 DEF Asking, JudgedLast
    <3>3. CASE CandidateRejected \/ ValidatedRejected
      <4>1. ctl'.at = "attempts"
        BY <1>0, <3>3, MoveFields DEF CandidateRejected, ValidatedRejected
      <4>2. \E same \in BOOLEAN, e \in Nat : review' = Failed(review, same, e)
        BY <3>3, RejectionFails DEF CandidateRejected, ValidatedRejected
      <4>3. review'.last = "none"
        BY <1>0, <4>2, FailedFields
      <4>. QED  BY <4>1, <4>3 DEF Asking, JudgedLast
    <3>. QED  BY <1>11, <3>1, <3>2, <3>3
  <2>4. review.bound /\ review.status \notin Ended
    BY <2>1 DEF RunInv, ReviewInv, Reviewing
  <2>5. ReviewInv'
    BY <2>1, <2>2, <2>3, <2>4 DEF ReviewInv, Reviewing, Asking
  <2>. QED  BY <1>9, <2>1, <2>5 DEF Reviewing
<1>12. CASE WriteReport
  <2>1. /\ ctl'.at = "accept" /\ ctl'.head = ctl.head /\ ctl.at = "report"
        /\ UNCHANGED <<gate, review>>
        /\ block' = NoBlock /\ report'.head = ctl.head
        /\ report'.verdict = IF review.verdict = {} THEN "approve" ELSE "block"
    BY <1>0, <1>12, MoveFields DEF WriteReport, At
  <2>. QED  BY <1>a, <2>1 DEF RunInv, ChecksInv, ReviewInv, ReportInv, Reviewing, Asking
<1>13. CASE AcceptReview
  <2>1. /\ ctl'.at = IF report.verdict = "approve" THEN "approve" ELSE "verify"
        /\ ctl'.head = ctl.head /\ ctl.at = "accept" /\ UNCHANGED <<gate, report, block>>
    BY <1>0, <1>13, MoveFields DEF AcceptReview, At
  <2>2. /\ review'.status = "accepted" /\ review'.last = "accepted"
        /\ review'.bound = review.bound /\ review'.verdict = review.verdict
    BY <1>0, <1>13 DEF AcceptReview, Review
  <2>3. ChecksInv'
    BY <2>1 DEF RunInv, ChecksInv, Reviewing
  <2>4. ReviewInv'
    BY <2>1, <2>2 DEF RunInv, ReviewInv, Reviewing, Asking, Ended, JudgedLast
  <2>5. ReportInv'
    BY <2>1, <2>2 DEF RunInv, ReportInv
  <2>. QED  BY <1>a, <2>3, <2>4, <2>5 DEF RunInv
<1>14. CASE PersistApproval
  <2>1. /\ ctl'.at = "verify" /\ ctl'.head = ctl.head /\ ctl.at = "approve"
        /\ UNCHANGED <<gate, report, block, review>>
    BY <1>0, <1>14, MoveFields DEF PersistApproval, At
  <2>. QED  BY <1>a, <2>1 DEF RunInv, ChecksInv, ReviewInv, ReportInv, Reviewing, Asking
<1>. QED  BY <1>2, <1>3, <1>5, <1>6, <1>7, <1>8, <1>10, <1>11, <1>12, <1>13, <1>14
             DEF RunCitadel

LEMMA RunStep ==
  Typed /\ RunInv /\ [PPNext]_vars => RunInv'
BY RunInside, RunOutside DEF CitadelPhase

LEMMA RunInit ==
  PPInit => RunInv
BY DEF PPInit, RunInv, ChecksInv, ReviewInv, ReportInv, ContractInv, Reviewing, Asking,
   ContractSteps,
       Step, NewReview, Ended

-----------------------------------------------------------------------------
(* RefusedHeadStaysRefused.  Commits only grow; an approval is gone while  *)
(* a run judges; and a commit that was refused keeps the checks and the    *)
(* verdict that the next run of the citadel takes up instead of asking.    *)

HeadsInv ==
  /\ approval <= head
  /\ \A h \in refused : h # 0 /\ h <= head
  /\ ctl.at \in Inside => /\ ctl.head \in Nat \ {0} /\ ctl.head <= head
                          /\ \A h \in refused : h <= ctl.head
  /\ ctl.at \in Inside \ {"verify"} => approval = 0

Held(h) ==
  /\ gate.head = h /\ gate.result = "passed"
  /\ review.bound /\ review.status = "accepted" /\ review.last = "accepted"
  /\ review.verdict # {}

RefusedInv ==
  /\ head \in refused => Held(head) /\ block.code # "reviewer"
  /\ ctl.at \in Inside /\ ctl.head \in refused => Held(ctl.head)
  /\ RefusedHeadStaysRefused

LEMMA BlockCode ==
  \A code, owners, err : PersistBlock(code, owners, err) => block'.code = code
BY DEF PersistBlock

LEMMA HeadsStep ==
  Typed /\ HeadsInv /\ [PPNext]_vars => HeadsInv'
<1>. SUFFICES ASSUME Typed, HeadsInv, [PPNext]_vars PROVE HeadsInv'
  OBVIOUS
<1>0. /\ ControlTyped /\ head \in Nat \ {0} /\ approval \in Nat /\ refused \in SUBSET Nat
      /\ ctl.head \in Nat
  BY DEF Typed, RepoTyped, ReportsTyped, ControlTyped
<1>1. CASE ContractRepair
  <2>1. ctl'.at \notin Inside /\ UNCHANGED <<head, approval, refused>>
    BY <1>1, ContractMove DEF Elsewhere, contractRest, repo, ContractSteps, Inside, CitadelSteps
  <2>. QED  BY <2>1 DEF HeadsInv
<1>2. CASE CitadelPhase
  <2>0. RunCitadel /\ CitadelMove
    BY <1>0, <1>2, CitadelMoves DEF CitadelPhase
  <2>1. UNCHANGED head
    BY <2>0 DEF RunCitadel, repo, EnterCitadel, VerifiersMissing, ReuseChecks, StartChecks,
       ChecksPass,
       ChecksFail, ChecksCancelled, SaveChecks, NoSubstance, ReviewerExhausted, OpenReview,
       StartAttempt, AttemptsUsedUp, ReviewerJudges, CandidateRejected, ReviewerFails,
       ReviewerCancelled, ValidatedRejected, ReviewedWorkspaceMoved, WriteReport, AcceptReview, PersistApproval,
       VerifyRelease, CitadelThrows
  <2>2. CASE EnterCitadel
    <3>1. approval' = 0 /\ UNCHANGED refused
      BY <2>2 DEF EnterCitadel
    <3>2. ctl'.at = "returned" \/ (ctl'.at = "gate" /\ ctl'.head = head)
      BY <1>0, <2>2, MoveFields DEF EnterCitadel
    <3>. QED  BY <1>0, <2>1, <3>1, <3>2 DEF HeadsInv, Inside, CitadelSteps
  <2>3. CASE PersistApproval
    <3>1. /\ approval' = head /\ UNCHANGED refused
          /\ ctl.at = "approve" /\ ctl'.at = "verify" /\ ctl'.head = ctl.head
      BY <1>0, <2>3, MoveFields DEF PersistApproval, At
    <3>. QED  BY <1>0, <2>1, <3>1 DEF HeadsInv, Inside, CitadelSteps
  <2>4. CASE AcceptReview
    <3>1. /\ UNCHANGED approval /\ refused' \in {refused, refused \cup {ctl.head}}
          /\ ctl.at = "accept" /\ ctl'.head = ctl.head
      BY <1>0, <2>4, MoveFields DEF AcceptReview, At
    <3>2. ctl.at \in Inside \ {"verify"}
      BY <3>1 DEF Inside, CitadelSteps
    <3>. QED  BY <1>0, <2>1, <3>1, <3>2 DEF HeadsInv
  <2>5. CASE ~EnterCitadel /\ ~PersistApproval /\ ~AcceptReview
    <3>1. UNCHANGED approval /\ refused' \subseteq refused
      BY <2>0, <2>5 DEF RunCitadel, evidence, VerifiersMissing, ReuseChecks, StartChecks,
         ChecksPass,
         ChecksFail, ChecksCancelled, SaveChecks, NoSubstance, ReviewerExhausted, OpenReview,
         StartAttempt, AttemptsUsedUp, ReviewerJudges, CandidateRejected, ReviewerFails,
         ReviewerCancelled, ValidatedRejected, ReviewedWorkspaceMoved, WriteReport, VerifyRelease, CitadelThrows
    <3>2. CASE ctl'.at = "returned"
      BY <2>1, <3>1, <3>2 DEF HeadsInv, Inside, CitadelSteps
    <3>3. CASE ctl.at \in Inside /\ ctl'.head = ctl.head /\ ctl'.at \in Inside
      <4>1. ctl.at # "verify"
        <5>1. ctl.at = "verify" => ctl'.at = "returned"
          BY <1>0, <2>0, <2>5, MoveFields
          DEF RunCitadel, At, VerifiersMissing, ReuseChecks, StartChecks, ChecksPass,
              ChecksFail, ChecksCancelled, SaveChecks, NoSubstance, ReviewerExhausted, OpenReview,
              StartAttempt, AttemptsUsedUp, ReviewerJudges, CandidateRejected, ReviewerFails,
              ReviewerCancelled, ValidatedRejected, ReviewedWorkspaceMoved, WriteReport, VerifyRelease, CitadelThrows
        <5>. QED  BY <3>3, <5>1 DEF Inside, CitadelSteps
      <4>. QED  BY <2>1, <3>1, <3>3, <4>1 DEF HeadsInv
    <3>. QED  BY <2>0, <2>5, <3>2, <3>3 DEF CitadelMove
  <2>. QED  BY <2>2, <2>3, <2>4, <2>5
<1>3. CASE ~ContractRepair /\ ~CitadelPhase
  <2>0. OutsideMove
    BY <1>3, OutsideSteps
  <2>1. ctl' = ctl \/ ctl'.at \notin Inside
    BY <2>0 DEF OutsideMove, Elsewhere, Inside, CitadelSteps
  <2>2. /\ UNCHANGED approval /\ head' \in {head, head + 1}
        /\ refused' = {} \/ UNCHANGED refused
    BY <2>0 DEF OutsideMove, Rebinds, RewriteReport, repo
  <2>3. head' \in Nat /\ head <= head'
    BY <1>0, <2>2
  <2>4. approval' <= head' /\ \A h \in refused' : h # 0 /\ h <= head'
    <3>1. approval <= head'
      BY <1>0, <2>3 DEF HeadsInv
    <3>2. ASSUME NEW h \in refused PROVE h # 0 /\ h <= head'
      <4>1. h \in Nat /\ h # 0 /\ h <= head
        BY <1>0 DEF HeadsInv
      <4>. QED  BY <1>0, <2>3, <4>1
    <3>. QED  BY <2>2, <3>1, <3>2
  <2>5. CASE ctl'.at \notin Inside
    BY <2>4, <2>5 DEF HeadsInv
  <2>6. CASE ctl' = ctl /\ ctl.at \in Inside
    <3>1. ctl.head <= head'
      BY <1>0, <2>3, <2>6 DEF HeadsInv
    <3>. QED  BY <2>2, <2>4, <2>6, <3>1 DEF HeadsInv
  <2>. QED  BY <2>1, <2>5, <2>6
<1>. QED  BY <1>1, <1>2, <1>3

\* Inside a run only the commit it judges can be refused, when HEAD is it; and the steps
\* that would lose its checks or its verdict are not the ones the run takes then.
LEMMA RefusedRun ==
  ASSUME Typed, HeadsInv, RunInv, RefusedInv, RunCitadel, ctl.at \in Inside
  PROVE  RefusedInv'
<1>0. /\ ControlTyped /\ ReviewTyped /\ ReportsTyped /\ review \in Review
      /\ head \in Nat \ {0} /\ refused \in SUBSET Nat /\ ctl.head \in Nat
  BY DEF Typed, RepoTyped, ReportsTyped, ReviewTyped, ControlTyped
<1>1. ~EnterCitadel
  BY DEF EnterCitadel, At, Inside, CitadelSteps
<1>2. UNCHANGED head
  BY <1>1 DEF RunCitadel, repo, VerifiersMissing, ReuseChecks, StartChecks, ChecksPass,
     ChecksFail, ChecksCancelled, SaveChecks, NoSubstance, ReviewerExhausted, OpenReview,
     StartAttempt, AttemptsUsedUp, ReviewerJudges, CandidateRejected, ReviewerFails,
     ReviewerCancelled, ValidatedRejected, ReviewedWorkspaceMoved, WriteReport, AcceptReview, PersistApproval,
     VerifyRelease, CitadelThrows
<1>3. ctl'.at \notin Inside \/ ctl'.head = ctl.head
  BY <1>0, <1>1, CitadelMoves DEF CitadelMove, Inside, CitadelSteps
<1>4. /\ ctl.head \in refused => Held(ctl.head)
      /\ head \in refused => head = ctl.head
  BY <1>0 DEF HeadsInv, RefusedInv
<1>5. ASSUME UNCHANGED <<approval, refused>>, ctl.head \notin refused PROVE RefusedInv'
  BY <1>2, <1>3, <1>4, <1>5 DEF RefusedInv, RefusedHeadStaysRefused
<1>6. ASSUME UNCHANGED <<approval, refused, gate, review>>, block'.code # "reviewer" \/ UNCHANGED block
      PROVE  RefusedInv'
  BY <1>2, <1>3, <1>4, <1>6 DEF RefusedInv, RefusedHeadStaysRefused, Held
<1>7. CASE VerifiersMissing \/ NoSubstance
  <2>1. UNCHANGED <<approval, refused, gate, review>> /\ block'.code # "reviewer"
    BY <1>7, BlockCode DEF VerifiersMissing, NoSubstance
  <2>. QED  BY <1>6, <2>1
<1>8. CASE ReuseChecks \/ ReviewedWorkspaceMoved \/ VerifyRelease \/ CitadelThrows
  <2>1. UNCHANGED <<approval, refused, gate, review, block>>
    BY <1>8 DEF ReuseChecks, ReviewedWorkspaceMoved, VerifyRelease, CitadelThrows, evidence
  <2>. QED  BY <1>6, <2>1
\* Refusals that are to be judged anew are none.
<1>a. ASSUME UNCHANGED approval, refused' = {} PROVE RefusedInv'
  BY <1>a DEF RefusedInv, RefusedHeadStaysRefused
<1>9. CASE StartChecks \/ ChecksPass \/ ChecksFail \/ ChecksCancelled \/ SaveChecks
  <2>1. UNCHANGED approval /\ (UNCHANGED refused \/ (StartChecks /\ gate.env # env))
    BY <1>9 DEF StartChecks, ChecksPass, ChecksFail, ChecksCancelled, SaveChecks
  <2>2. CASE StartChecks /\ gate.env # env
    BY <1>a, <2>2 DEF StartChecks
  <2>3. CASE UNCHANGED refused /\ ~(StartChecks /\ gate.env # env)
    <3>1. ~(gate.head = ctl.head /\ gate.result = "passed")
      BY <1>9, <2>3 DEF StartChecks, ChecksPass, ChecksFail, ChecksCancelled, SaveChecks, At,
         Reusable, ChecksBound, RunInv, ChecksInv
    <3>. QED  BY <1>4, <1>5, <2>1, <2>3, <3>1 DEF Held
  <2>. QED  BY <2>1, <2>2, <2>3
<1>10. CASE ReviewerExhausted
  <2>1. UNCHANGED <<approval, refused>> /\ Exhausted(Resumed)
    BY <1>10 DEF ReviewerExhausted
  <2>2. ~Held(ctl.head)
    BY <2>1 DEF Exhausted, Resumed, Held
  <2>. QED  BY <1>4, <1>5, <2>1, <2>2
<1>11. CASE OpenReview
  <2>1. UNCHANGED <<approval, refused, gate, block>>
    BY <1>11 DEF OpenReview
  <2>2. CASE Held(ctl.head)
    <3>1. UNCHANGED review
      BY <1>0, <1>11, <2>2, OpenedFields DEF Held
    <3>. QED  BY <1>6, <2>1, <3>1
  <2>3. CASE ~Held(ctl.head)
    BY <1>4, <1>5, <2>1, <2>3
  <2>. QED  BY <2>2, <2>3
<1>12. CASE StartAttempt \/ AttemptsUsedUp \/ ReviewerJudges \/ CandidateRejected
            \/ ReviewerFails \/ ReviewerCancelled
  <2>1. UNCHANGED <<approval, refused>> /\ ctl.at \in Asking
    BY <1>12 DEF StartAttempt, AttemptsUsedUp, ReviewerJudges, CandidateRejected, ReviewerFails,
       ReviewerCancelled, At, Asking
  <2>2. ~Held(ctl.head)
    BY <2>1 DEF RunInv, ReviewInv, Held, JudgedLast
  <2>. QED  BY <1>4, <1>5, <2>1, <2>2
<1>b. CASE ValidatedRejected
  <2>1. UNCHANGED approval /\ refused' = refused \ {ctl.head}
    BY <1>b DEF ValidatedRejected
  <2>2. head \notin refused' /\ (ctl'.at \in Inside => ctl'.head \notin refused')
    BY <1>3, <1>4, <2>1
  <2>. QED  BY <1>2, <2>1, <2>2 DEF RefusedInv, RefusedHeadStaysRefused
<1>13. CASE WriteReport
  <2>1. UNCHANGED <<approval, refused, gate, review>> /\ block'.code # "reviewer"
    BY <1>13 DEF WriteReport, NoBlock
  <2>. QED  BY <1>6, <2>1
<1>14. CASE AcceptReview
  <2>1. /\ ctl.at = "accept" /\ UNCHANGED <<approval, gate, block>>
        /\ refused' = IF report.verdict = "approve" THEN refused ELSE refused \cup {ctl.head}
    BY <1>14 DEF AcceptReview, At
  <2>2. /\ review'.status = "accepted" /\ review'.last = "accepted"
        /\ review'.bound = review.bound /\ review'.verdict = review.verdict
    BY <1>0, <1>14 DEF AcceptReview, Review
  <2>3. /\ gate.head = ctl.head /\ gate.result = "passed" /\ review.bound
        /\ block = NoBlock
        /\ report.verdict = IF review.verdict = {} THEN "approve" ELSE "block"
    BY <2>1 DEF RunInv, ChecksInv, ReviewInv, ReportInv, Reviewing
  <2>4. block'.code # "reviewer"
    BY <2>1, <2>3 DEF NoBlock
  <2>5. ctl.head \in refused' => (Held(ctl.head))'
    <3>1. CASE ctl.head \in refused
      BY <1>3, <1>4, <2>1, <2>2, <3>1, CitadelMoves, <1>0, <1>14, MoveFields DEF Held,
         AcceptReview
    <3>2. CASE report.verdict # "approve"
      BY <2>1, <2>2, <2>3, <3>2, <1>0, <1>14, MoveFields DEF Held, AcceptReview
    <3>. QED  BY <2>1, <3>1, <3>2
  <2>6. ctl'.head = ctl.head
    BY <1>0, <1>14, MoveFields DEF AcceptReview
  <2>7. head \in refused' => head = ctl.head
    BY <1>4, <2>1
  <2>8. RefusedHeadStaysRefused'
    <3>1. approval = 0 /\ ctl.head # 0
      BY <2>1 DEF HeadsInv, Inside, CitadelSteps
    <3>. QED  BY <2>1, <3>1 DEF RefusedInv, RefusedHeadStaysRefused
  <2>. QED  BY <1>2, <2>4, <2>5, <2>6, <2>7, <2>8 DEF RefusedInv
<1>15. CASE PersistApproval
  <2>1. ctl.at = "approve" /\ approval' = head /\ UNCHANGED <<refused, gate, review, block>>
    BY <1>15 DEF PersistApproval, At
  <2>2. review.verdict = {}
    BY <2>1 DEF RunInv, ReportInv
  <2>3. ctl.head \notin refused /\ head \notin refused
    BY <1>4, <2>2 DEF Held
  <2>. QED  BY <1>2, <1>3, <2>1, <2>3 DEF RefusedInv, RefusedHeadStaysRefused
<1>. QED  BY <1>1, <1>7, <1>8, <1>9, <1>10, <1>11, <1>12, <1>b, <1>13, <1>14, <1>15
          DEF RunCitadel

LEMMA RefusedStep ==
  Typed /\ HeadsInv /\ RunInv /\ RefusedInv /\ [PPNext]_vars => RefusedInv'
<1>. SUFFICES ASSUME Typed, HeadsInv, RunInv, RefusedInv, [PPNext]_vars PROVE RefusedInv'
  OBVIOUS
<1>0. /\ ControlTyped /\ ReportsTyped /\ head \in Nat \ {0} /\ refused \in SUBSET Nat
  BY DEF Typed, RepoTyped, ReportsTyped
<1>1. CASE CitadelPhase /\ EnterCitadel
  <2>1. /\ UNCHANGED <<head, gate, review, refused>> /\ approval' = 0
        /\ block'.code # "reviewer" \/ UNCHANGED block
    BY <1>1, BlockCode DEF EnterCitadel, repo
  <2>2. ctl'.at = "returned" \/ ctl'.head = head
    BY <1>0, <1>1, MoveFields DEF EnterCitadel
  <2>. QED  BY <2>1, <2>2
       DEF RefusedInv, RefusedHeadStaysRefused, HeadsInv, Held, Inside, CitadelSteps
<1>2. CASE CitadelPhase /\ CitadelThrows
  <2>1. ctl'.at = "returned" /\ UNCHANGED <<head, approval, gate, review, refused, block>>
    BY <1>0, <1>2, MoveFields DEF CitadelThrows, evidence, repo
  <2>. QED  BY <2>1 DEF RefusedInv, RefusedHeadStaysRefused, Held, Inside, CitadelSteps
<1>3. CASE CitadelPhase /\ ~EnterCitadel /\ ~CitadelThrows
  <2>1. ctl.at \in Inside
    BY <1>3
    DEF CitadelPhase, RunCitadel, At, Inside, CitadelSteps, VerifiersMissing, ReuseChecks,
       StartChecks,
        ChecksPass, ChecksFail, ChecksCancelled, SaveChecks, NoSubstance, ReviewerExhausted,
        OpenReview, StartAttempt, AttemptsUsedUp, ReviewerJudges, CandidateRejected, ReviewerFails,
        ReviewerCancelled, ValidatedRejected, ReviewedWorkspaceMoved, WriteReport, AcceptReview, PersistApproval,
        VerifyRelease
  <2>. QED  BY <1>3, <2>1, RefusedRun DEF CitadelPhase
<1>4. CASE ContractRepair
  <2>1. /\ UNCHANGED <<head, approval, refused>>
        /\ ctl'.at \notin Inside /\ ctl.at \in ContractSteps
    BY <1>4, ContractMove DEF Elsewhere, contractRest, repo, ContractSteps, Inside, CitadelSteps
  <2>2. head \notin refused
    BY <2>1 DEF RunInv, ContractInv, RefusedInv
  <2>. QED  BY <2>1, <2>2 DEF RefusedInv, RefusedHeadStaysRefused
<1>5. CASE ~CitadelPhase /\ ~ContractRepair
  <2>0. OutsideMove
    BY <1>5, OutsideSteps
  <2>1. ctl' = ctl \/ ctl'.at \notin Inside
    BY <2>0 DEF OutsideMove, Elsewhere, Inside, CitadelSteps
  <2>2. CASE refused' = {}
    BY <2>2 DEF RefusedInv, RefusedHeadStaysRefused
  <2>3. CASE UNCHANGED <<gate, review, refused, approval, block>> /\ head' \in {head, head + 1}
    <3>1. head' \in refused => head' = head
      BY <1>0, <2>3 DEF HeadsInv
    <3>. QED  BY <2>1, <2>3, <3>1 DEF RefusedInv, RefusedHeadStaysRefused, Held
  <2>. QED  BY <2>0, <2>2, <2>3 DEF OutsideMove, Rebinds, RewriteReport, repo
<1>. QED  BY <1>1, <1>2, <1>3, <1>4, <1>5

\* A commit that a review refused is not approved by asking again: what it was refused
\* with is still on disk when a later run judges it, whatever was killed or redone between,
\* unless a verifier, the PRD or the environment of the checks is another one then, or the
\* refusal cannot be read again.
THEOREM RefusalsStand ==
  PPSafety => []RefusedHeadStaysRefused
<1>. DEFINE Inv == Typed /\ HeadsInv /\ RunInv /\ RefusedInv
<1>1. PPInit => Inv
  <2>1. PPInit => HeadsInv /\ RefusedInv
    BY DEF PPInit, HeadsInv, RefusedInv, RefusedHeadStaysRefused, Step, Inside, CitadelSteps
  <2>. QED  BY <2>1, InitTyped, RunInit
<1>2. Inv /\ [PPNext]_vars => Inv'
  BY StepKeepsTypes, HeadsStep, RunStep, RefusedStep
<1>3. Inv => RefusedHeadStaysRefused
  BY DEF RefusedInv
<1>. QED  BY <1>1, <1>2, <1>3, PTL DEF PPSafety

-----------------------------------------------------------------------------
(* CompletedMeansReviewed.  The citadel is done only with evidence that    *)
(* fits the approved commit; while it is done no step touches the evidence *)
(* but a commit of the user, after which the approval is of another one.   *)

Verified == ReleaseApproved => ChecksPassed /\ ReviewFits /\ report.head = head
Vouched  == Verified /\ block = NoBlock

PlacesInv ==
  /\ ctl.at = "pickle" => ps["pickle"] # "done"
  /\ ctl.at = "polish" => ps["polish"] # "done"
  /\ ctl.at \in CitadelSteps \cup BootSteps \cup {"system", "returned"} => ps["citadel"] # "done"
  /\ logical = "revision" => ps["citadel"] # "done" /\ ctl.at \in {"leave", "down"}
  /\ logical = "completed" => ctl.at = "down"

DoneInv ==
  /\ ps["citadel"] = "done" => ps["pickle"] = "done" /\ ps["polish"] = "done" /\ Vouched
  /\ ctl.at = "returned" /\ ctl.ret = "success" /\ ps["pickle"] = "done" /\ ps["polish"] = "done"
       => Vouched
  /\ ctl.at = "leave" /\ ctl.ret = "success" => ps["citadel"] = "done"

CompletedInv == PlacesInv /\ DoneInv /\ CompletedMeansReviewed

EvidenceStays ==
  /\ UNCHANGED <<gate, review, approval, block>> /\ head' \in {head, head + 1}
  /\ report'.verdict = report.verdict /\ report'.head = report.head

LEMMA VouchedStill ==
  ASSUME Typed, HeadsInv, EvidenceStays, Vouched
  PROVE  Vouched'
<1>1. head \in Nat /\ approval \in Nat /\ approval <= head
  BY DEF Typed, RepoTyped, ReportsTyped, HeadsInv
<1>2. CASE head' = head
  BY <1>2 DEF EvidenceStays, Vouched, Verified, ReleaseApproved, ChecksPassed,
     ReviewFits
<1>3. CASE head' = head + 1
  BY <1>1, <1>3 DEF EvidenceStays, Vouched, Verified, ReleaseApproved
<1>. QED  BY <1>2, <1>3 DEF EvidenceStays

\* A step to a place that promises nothing.
Free ==
  Places \ (CitadelSteps \cup BootSteps \cup {"pickle", "polish", "system", "returned", "leave"})

LEMMA AsideMove ==
  ASSUME Typed, HeadsInv, CompletedInv, EvidenceStays, UNCHANGED <<ps, logical>>,
         logical # "completed",
         logical = "revision" => ctl'.at \in {"leave", "down"},
         ctl'.at \in Free \/ (ctl'.at = "leave" /\ ctl'.ret # "success")
  PROVE  CompletedInv'
<1>1. PlacesInv'
  BY DEF CompletedInv, PlacesInv, Free, BootSteps, ContractSteps, CitadelSteps
<1>2. DoneInv'
  BY VouchedStill DEF CompletedInv, DoneInv, Free
<1>. QED  BY <1>1, <1>2 DEF CompletedInv, CompletedMeansReviewed

\* A step after which the citadel is not done.
LEMMA UndoneMove ==
  ASSUME ps'["citadel"] # "done", logical' \notin {"completed", "revision"},
         ctl'.at = "pickle" => ps'["pickle"] # "done",
         ctl'.at = "polish" => ps'["polish"] # "done",
         ~(ctl'.at \in {"leave", "returned"} /\ ctl'.ret = "success")
  PROVE  CompletedInv'
BY DEF CompletedInv, PlacesInv, DoneInv, CompletedMeansReviewed

\* A run of the citadel succeeds only with evidence that fits the commit.
LEMMA CitadelResult ==
  ASSUME ControlTyped, RunCitadel, ctl'.at = "returned", ctl'.ret = "success"
  PROVE  VerifyRelease /\ Unmoved /\ EvidenceFits
<1>1. CASE VerifiersMissing \/ ChecksCancelled \/ NoSubstance \/ ReviewerExhausted
  <2>1. ctl'.ret \in {"system", "cancelled", "error"}
    BY <1>1, MoveFields DEF VerifiersMissing, ChecksCancelled, NoSubstance, ReviewerExhausted
  <2>. QED  BY <2>1
<1>2. CASE EnterCitadel \/ AttemptsUsedUp \/ ReviewerFails \/ ReviewerCancelled
           \/ ReviewedWorkspaceMoved \/ CitadelThrows
  <2>1. ctl'.at = "gate" \/ ctl'.ret \in {"system", "cancelled", "error"}
    BY <1>2, MoveFields DEF EnterCitadel, AttemptsUsedUp, ReviewerFails, ReviewerCancelled,
       ReviewedWorkspaceMoved, CitadelThrows
  <2>. QED  BY <2>1
<1>3. CASE ReuseChecks \/ StartChecks \/ ChecksPass \/ ChecksFail
  <2>1. ctl'.at \in {"review", "checking", "saving"}
    BY <1>3, MoveFields DEF ReuseChecks, StartChecks, ChecksPass, ChecksFail
  <2>. QED  BY <2>1
<1>4. CASE OpenReview \/ StartAttempt \/ ReviewerJudges \/ CandidateRejected
           \/ ValidatedRejected \/ WriteReport \/ AcceptReview \/ PersistApproval
  <2>1. ctl'.at \in {"attempts", "reviewing", "report", "accept", "approve", "verify"}
    BY <1>4, MoveFields DEF OpenReview, StartAttempt, ReviewerJudges, CandidateRejected,
       ValidatedRejected, WriteReport, AcceptReview, PersistApproval
  <2>. QED  BY <2>1
<1>5. CASE SaveChecks
  <2>1. ctl'.at = "review" \/ ctl'.ret \in {"system", "error"}
    BY <1>5, MoveFields DEF SaveChecks
  <2>. QED  BY <2>1
<1>6. VerifyRelease
  BY <1>1, <1>2, <1>3, <1>4, <1>5 DEF RunCitadel
<1>7. Unmoved /\ EvidenceFits
  BY <1>6, MoveFields DEF VerifyRelease
<1>. QED  BY <1>6, <1>7

LEMMA CompletedCitadel ==
  ASSUME Typed, HeadsInv, RunInv, CompletedInv, CitadelPhase
  PROVE  CompletedInv'
<1>1. ControlTyped /\ RunCitadel /\ UNCHANGED <<ps, logical>>
  BY DEF Typed, CitadelPhase, pipelineVars
<1>2. /\ ctl.at \in CitadelSteps /\ ctl'.at \in CitadelSteps \cup {"returned"}
  BY <1>1, CitadelPlaces
<1>3. ps["citadel"] # "done" /\ logical \notin {"completed", "revision"}
  BY <1>2 DEF CompletedInv, PlacesInv, CitadelSteps
<1>4. CASE ctl'.at = "returned" /\ ctl'.ret = "success"
  <2>1. /\ ctl.at = "verify" /\ head = ctl.head /\ EvidenceFits
        /\ UNCHANGED <<head, gate, review, report, approval, block>>
    BY <1>1, <1>4, CitadelResult DEF VerifyRelease, At, Unmoved, repo, evidence
  <2>2. Vouched
    BY <2>1 DEF RunInv, ReportInv, Vouched, Verified, EvidenceFits
  <2>3. Vouched'
    BY <2>1, <2>2 DEF Vouched, Verified, ReleaseApproved, ChecksPassed, ReviewFits
  <2>. QED  BY <1>1, <1>3, <1>4, <2>3 DEF CompletedInv, PlacesInv, DoneInv,
               CompletedMeansReviewed
<1>5. CASE ~(ctl'.at = "returned" /\ ctl'.ret = "success")
  BY <1>1, <1>2, <1>3, <1>5, UndoneMove DEF CitadelSteps
<1>. QED  BY <1>4, <1>5

LEMMA CompletedContract ==
  ASSUME Typed, HeadsInv, RunInv, CompletedInv, ContractRepair
  PROVE  CompletedInv'
<1>1. ControlTyped /\ RepairContract /\ UNCHANGED <<ps, logical>>
  BY DEF Typed, ContractRepair, pipelineVars
<1>2. /\ ctl.at \in ContractSteps
      /\ \/ ctl'.at \in ContractSteps \cup {"boot-pending", "dispatch"}
         \/ ctl'.at \in {"unwind", "leave"} /\ ctl'.ret # "success"
  BY <1>1, ContractPlaces
<1>3. ps["citadel"] # "done" /\ logical \notin {"completed", "revision"}
  BY <1>2 DEF CompletedInv, PlacesInv, BootSteps, ContractSteps
<1>. QED  BY <1>1, <1>2, <1>3, UndoneMove DEF ContractSteps

\* The steps that promise nothing about the evidence, nor touch it.
LEMMA CompletedAside ==
  ASSUME Typed, HeadsInv, CompletedInv,
         \/ StartRun \/ BootPending \/ VerifiersRepaired \/ PhaseRefused
         \/ ScheduleAttribution \/ DropAttribution \/ WriteIntent \/ ClearIntent \/ Attribute
         \/ RewriteReport \/ RetryPhase \/ RepairCheck \/ RecordStrategy \/ DiagnosisMaps
         \/ RecordDiagnosis \/ DiagnosisRejected \/ RunThrows \/ EndWithError \/ Kill \/ CancelReaps
         \/ \E t \in Tickets : ReopenTicket(t) \/ AttributionFound(t)
  PROVE  CompletedInv'
<1>0. ControlTyped
  BY DEF Typed
<1>1. EvidenceStays /\ UNCHANGED <<ps, logical>>
  <2>1. CASE RewriteReport
    BY <2>1 DEF RewriteReport, EvidenceStays, repo, pipelineVars, Typed, ReportsTyped
  <2>2. CASE ~RewriteReport
    BY <2>2 DEF StartRun, BootPending, VerifiersRepaired, PhaseRefused, ScheduleAttribution,
       DropAttribution,
       WriteIntent, ClearIntent, Attribute, RetryPhase, RepairCheck, RecordStrategy, DiagnosisMaps,
       RecordDiagnosis, DiagnosisRejected, RunThrows, EndWithError, Kill, CancelReaps,
       ReopenTicket, AttributionFound, EvidenceStays, rest, repo, evidence, pipelineVars
  <2>. QED  BY <2>1, <2>2
<1>2. \/ ctl'.at \in {"boot", "boot-pending", "reopen", "attribute", "dispatch", "unwind", "down",
                      "intend", "attributed", "attributing", "enqueue", "strategy", "diagnose",
                      "reset", "mapped"}
      \/ ctl'.at = "leave" /\ ctl'.ret # "success"
  <2>1. CASE StartRun \/ BootPending \/ VerifiersRepaired \/ PhaseRefused \/ ClearIntent \/ RetryPhase
    BY <1>0, <2>1, MoveFields
    DEF StartRun, BootPending, VerifiersRepaired, PhaseRefused, ClearIntent, RetryPhase, Step
  <2>2. CASE ScheduleAttribution \/ DropAttribution \/ RecordStrategy \/ DiagnosisMaps \/ RecordDiagnosis
             \/ RunThrows \/ EndWithError \/ Kill \/ CancelReaps
    BY <1>0, <2>2, MoveFields DEF ScheduleAttribution, DropAttribution, RecordStrategy,
       DiagnosisMaps,
       RecordDiagnosis, RunThrows, EndWithError, Kill, CancelReaps
  <2>3. CASE WriteIntent \/ Attribute \/ RewriteReport
    <3>1. CASE WriteIntent
      BY <1>0, <3>1 DEF WriteIntent, ControlTyped
    <3>2. CASE Attribute
      BY <1>0, <3>2, MoveFields DEF Attribute, ControlTyped
    <3>3. CASE RewriteReport
      BY <1>0, <3>3 DEF RewriteReport, ControlTyped
    <3>. QED  BY <2>3, <3>1, <3>2, <3>3
  <2>4. CASE RepairCheck \/ DiagnosisRejected
    <3>1. CASE RepairCheck
      <4>1. ctl'.at \in {"strategy", "diagnose"}
        BY <1>0, <3>1, MoveFields DEF RepairCheck, ControlTyped
      <4>. QED  BY <4>1
    <3>2. CASE DiagnosisRejected
      <4>1. ctl'.at = "diagnose" \/ (ctl'.at = "leave" /\ ctl'.ret = "scheduled")
        BY <1>0, <3>2, MoveFields DEF DiagnosisRejected, ControlTyped, Now, At
      <4>. QED  BY <4>1
    <3>. QED  BY <2>4, <3>1, <3>2
  <2>5. CASE \E t \in Tickets : ReopenTicket(t) \/ AttributionFound(t)
    BY <1>0, <2>5 DEF ReopenTicket, AttributionFound, ControlTyped, Now, At
  <2>. QED  BY <2>1, <2>2, <2>3, <2>4, <2>5
<1>3. \/ logical = "open"
      \/ ctl'.at = "down" /\ ctl.at # "down"
      \/ ctl.at \notin {"leave", "down"}
  <2>1. CASE StartRun
    BY <2>1 DEF StartRun
  <2>2. CASE Kill \/ CancelReaps
    BY <1>0, <2>2, MoveFields DEF Kill, CancelReaps, At
  <2>3. CASE BootPending \/ VerifiersRepaired \/ PhaseRefused \/ ScheduleAttribution \/ DropAttribution
             \/ WriteIntent \/ ClearIntent \/ Attribute \/ RewriteReport \/ RetryPhase
    BY <2>3 DEF BootPending, VerifiersRepaired, PhaseRefused, ScheduleAttribution,
       DropAttribution,
       WriteIntent, ClearIntent, Attribute, RewriteReport, RetryPhase, Now, At
  <2>4. CASE RepairCheck \/ RecordStrategy \/ DiagnosisMaps \/ RecordDiagnosis \/ DiagnosisRejected
             \/ EndWithError \/ \E t \in Tickets : ReopenTicket(t) \/ AttributionFound(t)
    BY <2>4 DEF RepairCheck, RecordStrategy, DiagnosisMaps, RecordDiagnosis, DiagnosisRejected,
       EndWithError, ReopenTicket, AttributionFound, Now, At
  <2>5. CASE RunThrows
    BY <2>5 DEF RunThrows, ContractSteps
  <2>. QED  BY <2>1, <2>2, <2>3, <2>4, <2>5
<1>4. logical # "completed" /\ (logical = "revision" => ctl'.at \in {"leave", "down"})
  BY <1>3 DEF CompletedInv, PlacesInv
<1>5. ctl'.at \in Free \/ (ctl'.at = "leave" /\ ctl'.ret # "success")
  BY <1>2 DEF Free, Places, BootSteps, ContractSteps, CitadelSteps
<1>. QED  BY <1>1, <1>4, <1>5, AsideMove

\* The steps that change what is done, or end the run.
LEMMA CompletedWork ==
  ASSUME Typed, HeadsInv, CompletedInv, NEW t \in Tickets,
         \/ BootAfterVerifiers \/ BootOnward \/ RepairVerifier(t) \/ AllDone \/ BeginPhase
         \/ Polish \/ WorkEnds \/ PhaseCancelled \/ PhaseEnds \/ ResetAfterRefusal
         \/ AttributionFails \/ RequestRevision \/ BlockRepaired \/ ResetForCheck \/ EndRun
  PROVE  CompletedInv'
<1>0. /\ ControlTyped /\ WorkTyped
      /\ ps \in [{"pickle", "polish", "citadel"} -> {"todo", "running", "done", "failed", "cancelled"}]
  BY NextPhaseIs DEF Typed, WorkTyped
<1>1. logical \notin {"completed", "revision"} \/ EndRun
  BY DEF BootAfterVerifiers, BootOnward, RepairVerifier, AllDone, BeginPhase, Polish, WorkEnds,
     PhaseCancelled, PhaseEnds, ResetAfterRefusal, AttributionFails, RequestRevision, BlockRepaired,
     ResetForCheck, Now, At, CompletedInv, PlacesInv
<1>2. CASE BootAfterVerifiers \/ ResetAfterRefusal \/ ResetForCheck \/ AttributionFails
           \/ (BlockRepaired /\ block.code # "reviewer")
  <2>1. ps'["citadel"] # "done" /\ UNCHANGED logical
    <3>1. CASE AttributionFails
      BY <1>0, <3>1 DEF AttributionFails, Transact, rest
    <3>2. CASE Reset /\ UNCHANGED logical
      BY <3>2, NextPhaseIs DEF Reset, Transact
    <3>. QED  BY <1>2, <3>1, <3>2
              DEF BootAfterVerifiers, ResetAfterRefusal, ResetForCheck, BlockRepaired, rest
  <2>2. \/ ctl'.at \in {"boot-pending", "verifiers", "applied"}
        \/ ctl'.at = "leave" /\ ctl'.ret # "success"
    <3>1. CASE ResetAfterRefusal \/ ResetForCheck \/ AttributionFails
      <4>1. ctl'.at = "applied" \/ (ctl'.at = "leave" /\ ctl'.ret = "scheduled")
        BY <1>0, <3>1, MoveFields DEF ResetAfterRefusal, ResetForCheck, AttributionFails
      <4>. QED  BY <4>1
    <3>2. CASE BootAfterVerifiers \/ (BlockRepaired /\ block.code # "reviewer")
      <4>1. \/ ctl' = Step("boot-pending")
            \/ ctl' = [Step("verifiers") EXCEPT !.left = block.owners, !.back = "boot"]
            \/ ctl' = [Step("verifiers") EXCEPT !.left = block.owners, !.back = "loop"]
        BY <3>2 DEF BootAfterVerifiers, BlockRepaired
      <4>2. \A b : [Step("verifiers") EXCEPT !.left = block.owners, !.back = b].at = "verifiers"
        BY DEF Step
      <4>3. Step("boot-pending").at = "boot-pending"
        BY DEF Step
      <4>. QED  BY <4>1, <4>2, <4>3
    <3>. QED  BY <1>2, <3>1, <3>2
  <2>3. ~EndRun
    BY <1>2 DEF EndRun, BootAfterVerifiers, ResetAfterRefusal, ResetForCheck, AttributionFails,
       BlockRepaired, Now, At
  <2>. QED  BY <1>1, <2>1, <2>2, <2>3, UndoneMove
<1>3. CASE BootOnward \/ (BlockRepaired /\ block.code = "reviewer")
  <2>1. UNCHANGED <<ps, logical>> /\ EvidenceStays /\ ~EndRun
    BY <1>3 DEF BootOnward, BlockRepaired, EvidenceStays, rest, repo, evidence, EndRun, Now, At
  <2>2. \/ ctl'.at = "boot-pending"
        \/ ctl'.at = "contract" /\ block.code = "reviewer"
    <3>1. \/ ctl' = Step("boot-pending")
          \/ ctl' = [Step("contract") EXCEPT !.back = "boot"] /\ block.code = "reviewer"
          \/ ctl' = [Step("contract") EXCEPT !.back = "loop"] /\ block.code = "reviewer"
      BY <1>3 DEF BootOnward, BlockRepaired
    <3>2. \A b : [Step("contract") EXCEPT !.back = b].at = "contract"
      BY DEF Step
    <3>3. Step("boot-pending").at = "boot-pending"
      BY DEF Step
    <3>. QED  BY <3>1, <3>2, <3>3
  <2>3. CASE ctl'.at = "boot-pending"
    BY <1>1, <2>1, <2>3, AsideMove DEF Free, Places, BootSteps, ContractSteps, CitadelSteps
  <2>4. CASE ctl'.at = "contract" /\ block.code = "reviewer"
    <3>1. ps["citadel"] # "done"
      BY <2>4 DEF CompletedInv, DoneInv, Vouched, NoBlock
    <3>. QED  BY <1>1, <2>1, <2>4, <3>1, UndoneMove
  <2>. QED  BY <2>2, <2>3, <2>4
<1>4. CASE RepairVerifier(t)
  <2>1. /\ ps["citadel"] # "done" /\ UNCHANGED <<ps, logical>> /\ ctl'.at = "verifiers" /\ ~EndRun
    BY <1>0, <1>4 DEF RepairVerifier, Now, At, ControlTyped, CompletedInv, PlacesInv, BootSteps,
       EndRun
  <2>. QED  BY <1>1, <2>1, UndoneMove
<1>5. CASE AllDone
  <2>1. /\ UNCHANGED <<ps, logical>> /\ EvidenceStays /\ ctl'.at = "leave" /\ ctl'.ret = "success"
        /\ Unfinished = {} /\ ~EndRun
    BY <1>0, <1>5, MoveFields DEF AllDone, EvidenceStays, rest, repo, evidence, EndRun, Now, At
  <2>2. \A p \in {"pickle", "polish", "citadel"} : ps[p] = "done"
    BY <2>1, NextPhaseIs
  <2>3. Vouched'
    BY <2>1, <2>2, VouchedStill DEF CompletedInv, DoneInv
  <2>. QED  BY <1>1, <2>1, <2>2, <2>3
       DEF CompletedInv, PlacesInv, DoneInv, CompletedMeansReviewed, CitadelSteps, BootSteps,
          ContractSteps
<1>6. CASE BeginPhase
  <2>1. /\ UNCHANGED logical /\ ctl'.at = NextPhase /\ NextPhase \in {"pickle", "polish", "citadel"}
        /\ ps' = [ps EXCEPT ![NextPhase] = "running"] /\ Unfinished # {} /\ ~EndRun
    BY <1>0, <1>6, MoveFields, NextPhaseIs DEF BeginPhase, Transact, rest, EndRun, Now, At
  <2>2. ps["citadel"] # "done"
    BY <2>1, NextPhaseIs DEF CompletedInv, DoneInv
  <2>. QED  BY <1>0, <1>1, <2>1, <2>2, UndoneMove
<1>7. CASE Polish \/ WorkEnds
  <2>1. /\ UNCHANGED <<ps, logical>> /\ ctl'.at = "returned" /\ ~EndRun
        /\ ps["pickle"] # "done" \/ ps["polish"] # "done"
    BY <1>0, <1>7, MoveFields
    DEF Polish, WorkEnds, rest, EndRun, Now, At, CompletedInv, PlacesInv
  <2>2. ps["citadel"] # "done"
    BY <2>1 DEF CompletedInv, DoneInv
  <2>. QED  BY <1>1, <2>1, <2>2 DEF CompletedInv, PlacesInv, DoneInv, CompletedMeansReviewed
<1>8. CASE PhaseCancelled
  <2>1. /\ UNCHANGED logical /\ ctl.at = "returned" /\ ~EndRun
        /\ ps' = [ps EXCEPT ![NextPhase] = "cancelled"]
    BY <1>8 DEF PhaseCancelled, Transact, rest, EndRun, Now, At
  <2>2. ctl'.at = "unwind" \/ (ctl'.at = "leave" /\ ctl'.ret # "success")
    BY <1>0, <1>8, MoveFields DEF PhaseCancelled
  <2>3. ps'["citadel"] # "done"
    BY <1>0, <2>1 DEF CompletedInv, PlacesInv
  <2>. QED  BY <1>1, <2>1, <2>2, <2>3, UndoneMove
<1>9. CASE PhaseEnds
  <2>1. /\ UNCHANGED logical /\ ctl.at = "returned" /\ ~EndRun /\ EvidenceStays
        /\ ps' = [ps EXCEPT ![NextPhase] = IF ctl.ret = "success" THEN "done" ELSE "failed"]
    BY <1>9 DEF PhaseEnds, Finish, Transact, rest, repo, evidence, EvidenceStays, EndRun, Now,
       At
  <2>2. /\ ctl'.at \in {"dispatch", "enqueue", "system", "leave", "unwind"}
        /\ ctl'.at = "leave" => ctl'.ret # "success"
        /\ ctl.ret = "success" => ctl'.at = "dispatch"
    BY <1>0, <1>9, MoveFields DEF PhaseEnds, GoesOn, Step
  <2>3. ps["citadel"] # "done"
    BY <2>1 DEF CompletedInv, PlacesInv
  <2>4. CASE ps'["citadel"] # "done"
    BY <1>1, <2>1, <2>2, <2>4, UndoneMove
  <2>5. CASE ps'["citadel"] = "done"
    <3>1. ctl.ret = "success" /\ NextPhase = "citadel" /\ Unfinished # {}
      BY <1>0, <2>1, <2>3, <2>5, NextPhaseIs
    <3>2. ps["pickle"] = "done" /\ ps["polish"] = "done"
      BY <3>1, NextPhaseIs
    <3>3. Vouched'
      BY <2>1, <3>1, <3>2, VouchedStill DEF CompletedInv, DoneInv
    <3>4. ps'["pickle"] = "done" /\ ps'["polish"] = "done" /\ ctl'.at = "dispatch"
      BY <1>0, <2>1, <2>2, <3>1, <3>2
    <3>. QED  BY <1>1, <2>1, <3>3, <3>4
         DEF CompletedInv, PlacesInv, DoneInv, CompletedMeansReviewed, CitadelSteps, BootSteps,
            ContractSteps
  <2>. QED  BY <2>4, <2>5
<1>10. CASE RequestRevision
  <2>1. /\ logical' = "revision" /\ UNCHANGED ps /\ ctl.at = "system"
        /\ ctl'.at = "leave" /\ ctl'.ret # "success"
    BY <1>0, <1>10, MoveFields DEF RequestRevision, Now, At
  <2>2. ps["citadel"] # "done"
    BY <2>1 DEF CompletedInv, PlacesInv
  <2>. QED  BY <2>1, <2>2
       DEF CompletedInv, PlacesInv, DoneInv, CompletedMeansReviewed, CitadelSteps, BootSteps,
          ContractSteps
<1>11. CASE EndRun
  <2>1. /\ ctl.at = "leave" /\ ctl'.at = "down" /\ UNCHANGED ps /\ EvidenceStays
        /\ UNCHANGED <<head, report>>
        /\ logical' \in {logical, "completed", "cancelled"}
        /\ logical' = "completed" => logical = "completed" \/ (ctl.ret = "success" /\ ReleaseApproved)
    BY <1>0, <1>11, MoveFields DEF EndRun, EvidenceStays, repo, evidence, Now, At
  <2>2. PlacesInv'
    BY <2>1 DEF CompletedInv, PlacesInv, CitadelSteps, BootSteps, ContractSteps
  <2>3. DoneInv'
    BY <2>1, VouchedStill DEF CompletedInv, DoneInv
  <2>4. CASE logical' = "completed"
    <3>1. ctl.ret = "success" /\ ReleaseApproved
      BY <2>1, <2>4 DEF CompletedInv, PlacesInv
    <3>2. /\ ChecksPassed /\ ReviewFits /\ report.head = head
          /\ \A p \in Phases : ps[p] = "done"
      BY <2>1, <3>1, NextPhaseIs DEF CompletedInv, DoneInv, Vouched, Verified
    <3>3. CompletedMeansReviewed'
      BY <2>1, <3>1, <3>2
      DEF EvidenceStays, CompletedMeansReviewed, ReleaseApproved, ChecksPassed,
         ReviewFits
    <3>. QED  BY <2>2, <2>3, <3>3 DEF CompletedInv
  <2>5. CASE logical' # "completed"
    BY <2>2, <2>3, <2>5 DEF CompletedInv, CompletedMeansReviewed
  <2>. QED  BY <2>4, <2>5
<1>. QED  BY <1>2, <1>3, <1>4, <1>5, <1>6, <1>7, <1>8, <1>9, <1>10, <1>11

\* What the operator and the tickets do.
LEMMA CompletedOperator ==
  ASSUME Typed, HeadsInv, CompletedInv,
         \/ UNCHANGED vars \/ Done \/ CommitTransaction \/ Cancel \/ OperatorCommits
         \/ CancelSettles \/ ApproveRevision \/ \E t \in Tickets : FinishTicket(t)
  PROVE  CompletedInv'
<1>0. ps \in [{"pickle", "polish", "citadel"} -> {"todo", "running", "done", "failed", "cancelled"}]
  BY NextPhaseIs DEF Typed, WorkTyped
<1>1. CASE UNCHANGED vars \/ Done \/ CommitTransaction \/ Cancel \/ OperatorCommits
           \/ \E t \in Tickets : FinishTicket(t)
  <2>1. /\ EvidenceStays /\ UNCHANGED <<ctl, ps, logical, report>>
        /\ UNCHANGED head \/ logical # "completed"
    <3>1. CASE \E t \in Tickets : FinishTicket(t)
      BY <3>1 DEF FinishTicket, EvidenceStays, evidence, Now, At, CompletedInv, PlacesInv
    <3>2. CASE UNCHANGED vars \/ Done \/ CommitTransaction \/ Cancel \/ OperatorCommits
      BY <3>2 DEF vars, Done, CommitTransaction, Cancel, OperatorCommits, UserCommits,
         EvidenceStays, evidence, pipelineVars, repo
    <3>. QED  BY <1>1, <3>1, <3>2
  <2>2. PlacesInv' /\ DoneInv'
    BY <2>1, VouchedStill DEF CompletedInv, PlacesInv, DoneInv
  <2>3. CompletedMeansReviewed'
    BY <2>1 DEF CompletedInv, EvidenceStays, CompletedMeansReviewed, ReleaseApproved,
                ChecksPassed, ReviewFits
  <2>. QED  BY <2>2, <2>3 DEF CompletedInv
<1>2. CASE CancelSettles
  <2>1. UNCHANGED <<ctl, repo, evidence>> /\ ctl.at = "down"
    BY <1>2 DEF CancelSettles, At
  <2>2. CASE UNCHANGED <<logical, ps>>
    BY <2>1, <2>2 DEF CompletedInv, PlacesInv, DoneInv, Vouched, Verified,
       CompletedMeansReviewed,
       ReleaseApproved, ChecksPassed, ReviewFits, repo, evidence
  <2>3. CASE /\ logical' = "cancelled"
             /\ ps' = IF Unfinished = {} THEN ps ELSE [ps EXCEPT ![NextPhase] = "cancelled"]
    <3>1. ps'["citadel"] = "done" => ps["citadel"] = "done" /\ UNCHANGED ps
      BY <1>0, <2>3, NextPhaseIs DEF CompletedInv, DoneInv
    <3>2. DoneInv' /\ PlacesInv'
      BY <2>1, <2>3, <3>1 DEF CompletedInv, PlacesInv, DoneInv, Vouched, Verified,
         ReleaseApproved, ChecksPassed, ReviewFits, repo, evidence, CitadelSteps,
         BootSteps, ContractSteps
    <3>. QED  BY <2>3, <3>2 DEF CompletedInv, CompletedMeansReviewed
  <2>. QED  BY <1>2, <2>2, <2>3 DEF CancelSettles
<1>3. CASE ApproveRevision
  <2>1. /\ UNCHANGED <<ctl, ps>> /\ ctl.at = "down" /\ logical = "revision" /\ logical' = "open"
    BY <1>3 DEF ApproveRevision, At
  <2>2. ps["citadel"] # "done"
    BY <2>1 DEF CompletedInv, PlacesInv
  <2>. QED  BY <2>1, <2>2, UndoneMove
<1>. QED  BY <1>1, <1>2, <1>3

LEMMA CompletedStep ==
  Typed /\ HeadsInv /\ RunInv /\ CompletedInv /\ [PPNext]_vars => CompletedInv'
<1>. SUFFICES ASSUME Typed, HeadsInv, RunInv, CompletedInv, [PPNext]_vars PROVE CompletedInv'
  OBVIOUS
<1>1. \E t : t \in Tickets
  BY TicketsAssumption
<1>2. CASE Operator \/ Done \/ UNCHANGED vars
  BY <1>2, CompletedOperator, CompletedAside DEF Operator
<1>3. CASE Controller
  BY <1>1, <1>3, CompletedOperator, CompletedAside, CompletedWork, CompletedCitadel,
     CompletedContract
  DEF Controller
<1>. QED  BY <1>2, <1>3 DEF PPNext

\* A pipeline is completed only on the commit that passed its checks and whose accepted
\* review approved it: no kill, repair, revision or commit between two steps of any number
\* of runs lets an older verdict complete it.
THEOREM CompletedIsReviewed ==
  PPSafety => []CompletedMeansReviewed
<1>. DEFINE Inv == Typed /\ HeadsInv /\ RunInv /\ CompletedInv
<1>1. PPInit => Inv
  <2>1. PPInit => HeadsInv
    BY DEF PPInit, HeadsInv, Step, Inside, CitadelSteps
  <2>2. PPInit => CompletedInv
    BY NextPhaseIs DEF PPInit, CompletedInv, PlacesInv, DoneInv, CompletedMeansReviewed, Step,
       CitadelSteps, BootSteps, ContractSteps
  <2>. QED  BY <2>1, <2>2, InitTyped, RunInit
<1>2. Inv /\ [PPNext]_vars => Inv'
  BY StepKeepsTypes, HeadsStep, RunStep, CompletedStep
<1>3. Inv => CompletedMeansReviewed
  BY DEF CompletedInv
<1>. QED  BY <1>1, <1>2, <1>3, PTL DEF PPSafety

-----------------------------------------------------------------------------
(* VerdictKept.  A validated candidate is given up only by a new run of    *)
(* the checks or by a repair of the contract that is projected into the    *)
(* review; and a repair that is not projected yet does not begin while     *)
(* there is such a candidate: the journal was then resolved for another    *)
(* review and is refused.                                                  *)

Onward == CitadelSteps \cup
  {"boot-pending", "reopen", "applied", "enqueue", "intend", "attribute", "attributing",
   "attributed", "dispatch", "pickle", "polish"}

GoingOn == ctl.at \in Onward \/ (ctl.at = "returned" /\ ctl.ret \in {"success", "blocked"})

JournalInv ==
  /\ cj.st # "none" => cj.mech # 0
  /\ ctl.at \in ContractSteps \ {"contract"} => cj.mech # 0
  /\ ctl.at = "project" => cj.st = "resolved"
  /\ ctl.at = "verifiers" => block.code # "reviewer"

VerdictInv ==
  /\ block.code = "reviewer" /\ GoingOn => cj.st = "resolved" /\ (Projected \/ ~cj.mine)
  /\ block.code = "reviewer" /\ Judged(review) /\ ~Projected => cj.st = "resolved" /\ ~cj.mine
  /\ ctl.at \in ContractSteps \ {"contract"} => ~Judged(review) \/ Projected

\* With a block of the reviewer's contract the run goes on only from where it went on before.
LEMMA OnwardFrom ==
  ASSUME Typed, [PPNext]_vars, ~CitadelPhase, ~ContractRepair, block.code = "reviewer", GoingOn'
  PROVE  GoingOn \/ ctl.at = "verifiers"
<1>0. ControlTyped
  BY DEF Typed
<1>1. \/ ctl'.at \notin {"leave", "down", "unwind", "boot", "contract", "verifiers", "system",
                         "strategy", "reset", "diagnose", "mapped"}
  BY DEF GoingOn, Onward, CitadelSteps
<1>2. CASE UNCHANGED vars \/ Done \/ CommitTransaction \/ Cancel \/ CancelSettles \/ OperatorCommits
           \/ ApproveRevision \/ \E t \in Tickets : FinishTicket(t)
  <2>1. UNCHANGED ctl
    BY <1>2 DEF vars, Done, CommitTransaction, Cancel, CancelSettles, OperatorCommits,
       UserCommits,
       ApproveRevision, FinishTicket
  <2>. QED  BY <2>1 DEF GoingOn
<1>3. CASE StartRun \/ BootAfterVerifiers
  <2>1. CASE StartRun
    BY <1>0, <1>1, <2>1, MoveFields DEF StartRun
  <2>2. CASE BootAfterVerifiers
    BY <2>2 DEF BootAfterVerifiers
  <2>. QED  BY <1>3, <2>1, <2>2
<1>4. CASE BootOnward
  <2>1. ctl' = [Step("contract") EXCEPT !.back = "boot"]
    BY <1>4 DEF BootOnward
  <2>2. ctl'.at = "contract"
    BY <2>1 DEF Step
  <2>. QED  BY <1>1, <2>2
<1>5. CASE BlockRepaired
  <2>1. ctl' = [Step("contract") EXCEPT !.back = "loop"]
    BY <1>5 DEF BlockRepaired
  <2>2. ctl'.at = "contract"
    BY <2>1 DEF Step
  <2>. QED  BY <1>1, <2>2
<1>6. CASE BootPending \/ AllDone \/ BeginPhase \/ PhaseRefused \/ Polish \/ WorkEnds
           \/ ScheduleAttribution \/ DropAttribution \/ WriteIntent \/ ResetAfterRefusal \/ ClearIntent
           \/ Attribute \/ RewriteReport \/ AttributionFails \/ VerifiersRepaired
           \/ \E t \in Tickets : RepairVerifier(t) \/ ReopenTicket(t) \/ AttributionFound(t)
  <2>1. ctl.at \in Onward \cup {"verifiers"}
    <3>1. ctl.at \in {"boot-pending", "dispatch", "polish", "pickle", "enqueue", "intend", "reopen",
                      "applied", "attribute", "attributed", "attributing", "verifiers"}
      BY <1>6
      DEF Now, At, BootPending, AllDone, BeginPhase, PhaseRefused, Polish, WorkEnds,
          ScheduleAttribution, DropAttribution, WriteIntent, ResetAfterRefusal, ClearIntent,
          Attribute, RewriteReport, AttributionFails, VerifiersRepaired, RepairVerifier,
          ReopenTicket, AttributionFound
    <3>. QED  BY <3>1 DEF Onward
  <2>. QED  BY <2>1 DEF GoingOn
<1>7. CASE PhaseCancelled
  <2>1. ctl'.at \in {"leave", "unwind"}
    BY <1>0, <1>7, MoveFields DEF PhaseCancelled
  <2>. QED  BY <1>1, <2>1
<1>8. CASE PhaseEnds
  <2>1. /\ ctl.at = "returned"
        /\ ctl'.at \in {"leave", "unwind", "system"} \/ ctl.ret \in {"success", "blocked"}
    BY <1>0, <1>8, MoveFields DEF PhaseEnds, GoesOn, Now, At
  <2>. QED  BY <1>1, <2>1 DEF GoingOn
<1>9. CASE RequestRevision \/ RetryPhase \/ RepairCheck \/ RecordStrategy \/ ResetForCheck
           \/ DiagnosisMaps \/ RecordDiagnosis \/ DiagnosisRejected
  <2>1. CASE RequestRevision \/ RecordStrategy \/ ResetForCheck \/ DiagnosisMaps \/ RecordDiagnosis
    <3>1. ctl'.at \in {"leave", "reset", "mapped"}
      BY <1>0, <2>1, MoveFields DEF RequestRevision, RecordStrategy, ResetForCheck,
         DiagnosisMaps, RecordDiagnosis
    <3>. QED  BY <1>1, <3>1
  <2>2. CASE RetryPhase \/ RepairCheck
    BY <2>2 DEF RetryPhase, RepairCheck
  <2>3. CASE DiagnosisRejected
    <3>1. ctl'.at \in {"diagnose", "leave"}
      BY <1>0, <2>3, MoveFields DEF DiagnosisRejected, ControlTyped, Now, At
    <3>. QED  BY <1>1, <3>1
  <2>. QED  BY <1>9, <2>1, <2>2, <2>3
<1>10. CASE EndWithError \/ EndRun \/ RunThrows \/ Kill \/ CancelReaps
  <2>1. ctl'.at \in {"leave", "down", "unwind"}
    BY <1>0, <1>10, MoveFields DEF EndWithError, EndRun, RunThrows, Kill, CancelReaps
  <2>. QED  BY <1>1, <2>1
<1>. QED  BY <1>2, <1>3, <1>4, <1>5, <1>6, <1>7, <1>8, <1>9, <1>10 DEF PPNext, Controller,
             Operator

LEMMA VerdictOutside ==
  ASSUME Typed, JournalInv, VerdictInv, [PPNext]_vars, ~CitadelPhase, ~ContractRepair
  PROVE  JournalInv' /\ VerdictInv' /\ UNCHANGED review
<1>1. OutsideMove
  BY OutsideSteps
<1>2. UNCHANGED <<block, review, cj>>
  BY <1>1 DEF OutsideMove, Rebinds, RewriteReport
<1>3. ctl'.at \in ContractSteps \ {"contract"} => ctl' = ctl
  BY <1>1 DEF OutsideMove, Elsewhere, ContractSteps
<1>4. ctl'.at = "verifiers" => block.code # "reviewer"
  BY <1>1 DEF OutsideMove, Elsewhere, JournalInv
<1>5. JournalInv'
  BY <1>2, <1>3, <1>4 DEF JournalInv, ContractSteps
<1>6. Projected' = Projected /\ Judged(review)' = Judged(review)
  BY <1>2 DEF Projected, Judged
<1>7. block.code = "reviewer" /\ GoingOn' => GoingOn
  BY OnwardFrom DEF JournalInv
<1>8. VerdictInv'
  BY <1>2, <1>3, <1>6, <1>7 DEF VerdictInv
<1>. QED  BY <1>2, <1>5, <1>8

LEMMA VerdictContract ==
  ASSUME Typed, RunInv, JournalInv, VerdictInv, ContractRepair
  PROVE  /\ JournalInv' /\ VerdictInv'
         /\ Judged(review) /\ ~Projected => UNCHANGED review
<1>0. /\ ControlTyped /\ ReviewTyped /\ review \in Review /\ RepairContract /\ UNCHANGED block
      /\ block.code = "reviewer" /\ ctl.at \in ContractSteps
  BY ContractMove DEF Typed, ReviewTyped, ContractRepair, contractRest, RunInv, ContractInv
<1>a. /\ ctl'.at \in ContractSteps \cup {"unwind", "leave", "boot-pending", "dispatch"}
      /\ GoingOn' => ctl'.at \in {"boot-pending", "dispatch"}
  <2>1. ctl'.at \in ContractSteps \cup {"unwind", "leave", "boot-pending", "dispatch"}
    BY <1>0, ContractPlaces
  <2>. QED  BY <2>1 DEF GoingOn, Onward, ContractSteps, CitadelSteps
<1>b. ProjectInto(review).last = "none" /\ ProjectInto(review).con.mech = cj.mech
  BY <1>0 DEF ProjectInto, Review
\* A candidate that is judged and not projected keeps the repair from beginning.
<1>c. Judged(review) /\ ~Projected => Authenticated = "stale"
  BY <1>0 DEF VerdictInv, Authenticated, Pending
\* The repair goes back with a journal that is resolved and projected.
<1>d. ASSUME UNCHANGED cj, cj.st = "resolved", cj.mech # 0, Projected', ctl'.at \notin ContractSteps
      PROVE  JournalInv' /\ VerdictInv'
  BY <1>a, <1>d DEF JournalInv, VerdictInv, ContractSteps
\* Its other steps leave the review alone, and there is none to lose.
<1>e. ASSUME UNCHANGED review, ~Judged(review) \/ Projected,
             ctl'.at \notin {"boot-pending", "dispatch"}, cj'.mech # 0, ctl'.at = "project" => cj'.st = "resolved"
      PROVE  JournalInv' /\ VerdictInv'
  <2>1. Projected' = Projected /\ Judged(review)' = Judged(review)
    BY <1>e DEF Projected, Judged
  <2>. QED  BY <1>a, <1>e, <2>1 DEF JournalInv, VerdictInv, ContractSteps
<1>1. CASE RepairRefused
  <2>1. ctl'.at = "unwind" /\ UNCHANGED <<review, cj>>
    BY <1>0, <1>1, MoveFields DEF RepairRefused
  <2>2. Projected' = Projected /\ Judged(review)' = Judged(review)
    BY <2>1 DEF Projected, Judged
  <2>. QED  BY <1>0, <1>a, <2>1, <2>2 DEF JournalInv, VerdictInv, ContractSteps
<1>2. CASE RepairResolvedBefore
  <2>1. /\ Authenticated = "resolved" /\ UNCHANGED cj
        /\ review' = IF Projected THEN review ELSE ProjectInto(review)
        /\ ctl'.at \in {"boot-pending", "dispatch"}
    BY <1>0, <1>2, MoveFields DEF RepairResolvedBefore
  <2>2. cj.st = "resolved"
    BY <2>1 DEF Authenticated
  <2>3. cj.mech # 0
    BY <2>2 DEF JournalInv
  <2>4. Projected'
    BY <1>b, <2>1, <2>3 DEF Projected
  <2>. QED  BY <1>c, <1>d, <2>1, <2>2, <2>3, <2>4 DEF ContractSteps
<1>3. CASE RepairResumes
  <2>1. ctl'.at = "materialize" /\ UNCHANGED <<review, cj>> /\ Open
    BY <1>0, <1>3 DEF RepairResumes, ControlTyped
  <2>2. cj.mech # 0 /\ (~Judged(review) \/ Projected)
    BY <1>c, <2>1 DEF Open, JournalInv
  <2>. QED  BY <1>e, <2>1, <2>2
<1>4. CASE RepairStarts
  <2>1. ctl'.at = "candidate" /\ UNCHANGED review /\ Authenticated # "stale"
    BY <1>0, <1>4, MoveFields DEF RepairStarts
  <2>2. cj'.mech # 0
    <3>1. PICK m \in 1..Mechanisms : \E how \in {"canonical", "model"} : cj' = Begun(m, how)
      BY <1>4 DEF RepairStarts
    <3>2. \A how : Begun(m, how).mech = m
      BY <1>0 DEF Begun, ReviewTyped
    <3>3. m # 0
      BY ContractBounds
    <3>. QED  BY <3>1, <3>2, <3>3
  <2>. QED  BY <1>c, <1>e, <2>1, <2>2
<1>5. CASE WriteCandidate \/ ValidateCandidate \/ JudgeCriterion \/ CriterionRejected
           \/ WriteRuntime \/ RuntimeNotWritten \/ ResolveJournal
  <2>1. UNCHANGED review /\ ctl.at \in ContractSteps \ {"contract"}
    BY <1>5 DEF WriteCandidate, ValidateCandidate, JudgeCriterion, CriterionRejected,
       WriteRuntime, RuntimeNotWritten, ResolveJournal, At, ContractSteps
  <2>2. cj'.mech = cj.mech
    BY <1>0, <1>5 DEF WriteCandidate, ValidateCandidate, Reject, JudgeCriterion,
       CriterionRejected,
       WriteRuntime, RuntimeNotWritten, ResolveJournal, ReviewTyped
  <2>3. /\ ctl'.at \in {"validate", "leave", "materialize", "resolve", "candidate", "project"}
        /\ ctl'.at = "project" => cj'.st = "resolved"
    <3>1. CASE WriteCandidate \/ JudgeCriterion \/ CriterionRejected \/ WriteRuntime
      <4>1. ctl'.at \in {"validate", "materialize", "leave", "resolve"}
        BY <1>0, <3>1, MoveFields DEF WriteCandidate, JudgeCriterion, CriterionRejected,
           WriteRuntime, At
      <4>. QED  BY <4>1
    <3>2. CASE ValidateCandidate
      <4>1. ctl'.at \in {"materialize", "leave"}
        BY <1>0, <3>2, MoveFields DEF ValidateCandidate, Reject
      <4>. QED  BY <4>1
    <3>3. CASE RuntimeNotWritten
      <4>1. ctl'.at \in {"candidate", "leave"}
        BY <1>0, <3>3, MoveFields DEF RuntimeNotWritten, Reject, ControlTyped
      <4>. QED  BY <4>1
    <3>4. CASE ResolveJournal
      <4>1. ctl'.at = "project" /\ cj'.st = "resolved"
        BY <1>0, <3>4, MoveFields DEF ResolveJournal, ReviewTyped
      <4>. QED  BY <4>1
    <3>. QED  BY <1>5, <3>1, <3>2, <3>3, <3>4
  <2>4. cj.mech # 0 /\ (~Judged(review) \/ Projected)
    BY <2>1 DEF JournalInv, VerdictInv
  <2>. QED  BY <1>e, <2>1, <2>2, <2>3, <2>4
<1>6. CASE ProjectResolution
  <2>1. /\ ctl.at = "project" /\ review' = ProjectInto(review) /\ UNCHANGED cj
        /\ ctl'.at \in {"boot-pending", "dispatch"}
    BY <1>0, <1>6, MoveFields DEF ProjectResolution, At
  <2>2. cj.st = "resolved" /\ cj.mech # 0 /\ (~Judged(review) \/ Projected)
    BY <2>1 DEF JournalInv, VerdictInv, ContractSteps
  <2>3. Projected'
    BY <1>b, <2>1, <2>2 DEF Projected
  <2>. QED  BY <1>d, <2>1, <2>2, <2>3 DEF ContractSteps
<1>. QED  BY <1>0, <1>1, <1>2, <1>3, <1>4, <1>5, <1>6 DEF RepairContract

VerdictStays ==
  Judged(review) /\ ~Projected /\ review'.bound
    => CandidateLost \/ (Judged(review') /\ review'.verdict = review.verdict)

\* A run has no report until it writes one.
BlankInv == ctl.at \in Inside \ {"accept", "approve", "verify"} => report = NoReport

LEMMA BlankStep ==
  Typed /\ BlankInv /\ [PPNext]_vars => BlankInv'
<1>. SUFFICES ASSUME Typed, BlankInv, [PPNext]_vars PROVE BlankInv'
  OBVIOUS
<1>0. ControlTyped
  BY DEF Typed
<1>1. CASE ContractRepair
  <2>1. ctl'.at \notin Inside
    BY <1>1, ContractMove DEF Elsewhere, ContractSteps, Inside, CitadelSteps
  <2>. QED  BY <2>1 DEF BlankInv
<1>2. CASE ~ContractRepair /\ ~CitadelPhase
  <2>0. OutsideMove
    BY <1>2, OutsideSteps
  <2>1. ctl' = ctl \/ ctl'.at \notin Inside
    BY <2>0 DEF OutsideMove, Elsewhere, Inside, CitadelSteps
  <2>2. ctl' = ctl /\ ctl.at \in Inside => UNCHANGED report
    BY <2>0 DEF OutsideMove, Rebinds, RewriteReport, Now, At, Inside, CitadelSteps
  <2>. QED  BY <2>1, <2>2 DEF BlankInv
<1>3. CASE RunCitadel
  <2>1. CASE EnterCitadel
    BY <2>1 DEF EnterCitadel, PersistBlock, BlankInv
  <2>2. CASE CitadelThrows
    <3>1. ctl'.at = "returned"
      BY <1>0, <2>2, MoveFields DEF CitadelThrows
    <3>. QED  BY <3>1 DEF BlankInv, Inside, CitadelSteps
  <2>3. CASE VerifiersMissing \/ NoSubstance \/ ReviewerExhausted \/ SaveChecks
    <3>1. ctl.at \in {"gate", "saving", "review"} /\ (report' = NoReport \/ UNCHANGED report)
      BY <2>3 DEF VerifiersMissing, NoSubstance, ReviewerExhausted, SaveChecks, PersistBlock, At
    <3>. QED  BY <3>1 DEF BlankInv, Inside, CitadelSteps
  <2>4. CASE ReuseChecks \/ StartChecks \/ ChecksPass \/ ChecksFail \/ ChecksCancelled
             \/ OpenReview \/ StartAttempt \/ AttemptsUsedUp \/ ReviewerJudges
             \/ CandidateRejected \/ ReviewerFails \/ ReviewerCancelled \/ ValidatedRejected
             \/ ReviewedWorkspaceMoved
    <3>1. /\ ctl.at \in {"gate", "checking", "review", "attempts", "reviewing", "report"}
          /\ UNCHANGED report
      BY <2>4 DEF ReuseChecks, StartChecks, ChecksPass, ChecksFail, ChecksCancelled, OpenReview,
         StartAttempt, AttemptsUsedUp, ReviewerJudges, CandidateRejected, ReviewerFails,
         ReviewerCancelled, ValidatedRejected, ReviewedWorkspaceMoved, At, evidence
    <3>. QED  BY <3>1 DEF BlankInv, Inside, CitadelSteps
  <2>5. CASE WriteReport \/ AcceptReview \/ PersistApproval \/ VerifyRelease
    <3>1. ctl'.at \in {"accept", "approve", "verify", "returned"}
      BY <1>0, <2>5, MoveFields DEF WriteReport, AcceptReview, PersistApproval, VerifyRelease
    <3>. QED  BY <3>1 DEF BlankInv, Inside, CitadelSteps
  <2>. QED  BY <1>3, <2>1, <2>2, <2>3, <2>4, <2>5 DEF RunCitadel
<1>. QED  BY <1>1, <1>2, <1>3 DEF CitadelPhase

LEMMA VerdictCitadel ==
  ASSUME Typed, HeadsInv, RunInv, BlankInv, JournalInv, VerdictInv, CitadelPhase
  PROVE  JournalInv' /\ VerdictInv' /\ VerdictStays
<1>0. ControlTyped /\ ReviewTyped /\ review \in Review /\ RunCitadel
  BY DEF Typed, ReviewTyped, CitadelPhase
<1>a. ctl.at \in CitadelSteps /\ ctl'.at \in CitadelSteps \cup {"returned"} /\ GoingOn
  BY <1>0, CitadelPlaces DEF GoingOn, Onward
<1>b. ASSUME cj'.st = cj.st, cj'.mech = cj.mech
      PROVE  /\ JournalInv'
             /\ ctl'.at \notin ContractSteps
  BY <1>a, <1>b DEF JournalInv, ContractSteps, CitadelSteps
<1>c. ASSUME UNCHANGED cj, block'.code # "reviewer" \/ (UNCHANGED block /\ review'.con = review.con)
      PROVE  JournalInv' /\ VerdictInv'
  BY <1>a, <1>b, <1>c DEF VerdictInv, Projected
<1>d. UNCHANGED review => VerdictStays
  BY DEF VerdictStays, Judged
<1>1. CASE EnterCitadel \/ VerifiersMissing \/ NoSubstance \/ SaveChecks \/ WriteReport
  <2>1. UNCHANGED <<cj, review>> /\ (block'.code # "reviewer" \/ UNCHANGED block)
    <3>1. CASE EnterCitadel \/ VerifiersMissing \/ NoSubstance
      BY <3>1, BlockCode DEF EnterCitadel, VerifiersMissing, NoSubstance
    <3>2. CASE SaveChecks
      BY <3>2, BlockCode DEF SaveChecks
    <3>3. CASE WriteReport
      BY <3>3 DEF WriteReport, NoBlock
    <3>. QED  BY <1>1, <3>1, <3>2, <3>3
  <2>. QED  BY <1>c, <1>d, <2>1
<1>2. CASE ReuseChecks \/ ChecksPass \/ ChecksFail \/ ChecksCancelled \/ ReviewedWorkspaceMoved
           \/ PersistApproval \/ VerifyRelease \/ CitadelThrows
  <2>1. UNCHANGED <<cj, review, block>>
    BY <1>2 DEF ReuseChecks, ChecksPass, ChecksFail, ChecksCancelled, ReviewedWorkspaceMoved,
       PersistApproval, VerifyRelease, CitadelThrows, evidence
  <2>. QED  BY <1>c, <1>d, <2>1
<1>3. CASE StartChecks
  <2>1. UNCHANGED <<cj, block>> /\ ~review'.bound /\ review'.con = review.con
    BY <1>0, <1>3 DEF StartChecks, Review
  <2>. QED  BY <1>c, <2>1 DEF VerdictStays
<1>4. CASE ReviewerExhausted
  <2>1. /\ UNCHANGED cj /\ review'.last = review.last /\ ctl'.at = "returned"
        /\ ctl'.ret \in {"system", "error"}
    BY <1>0, <1>4, MoveFields DEF ReviewerExhausted, Review
  <2>2. ~Judged(review)
    BY <1>4 DEF ReviewerExhausted, Exhausted, Resumed, Judged, RunInv, ReviewInv, Ended,
       JudgedLast
  <2>3. ~(GoingOn')
    BY <2>1 DEF GoingOn, Onward, CitadelSteps
  <2>4. ~(Judged(review)')
    <3>1. review'.bound = review.bound
      BY <1>0, <1>4 DEF ReviewerExhausted, Review
    <3>. QED  BY <2>1, <2>2, <3>1 DEF Judged
  <2>. QED  BY <1>b, <2>1, <2>2, <2>3, <2>4 DEF VerdictInv, VerdictStays
<1>5. CASE OpenReview
  <2>1. UNCHANGED block /\ cj' = IF review.bound THEN cj ELSE [cj EXCEPT !.mine = FALSE]
    BY <1>5 DEF OpenReview
  <2>2. cj'.st = cj.st /\ cj'.mech = cj.mech /\ (review.bound => UNCHANGED cj)
        /\ (~review.bound => cj'.mine = FALSE)
    BY <1>0, <2>1 DEF ReviewTyped
  <2>3. /\ review'.bound
        /\ review.bound => /\ review'.con = review.con /\ review'.verdict = review.verdict
                           /\ review.last \in JudgedLast => review'.last = review.last
    BY <1>0, <1>5, OpenedFields
  <2>4. CASE review.bound
    BY <1>c, <2>1, <2>2, <2>3, <2>4 DEF VerdictStays, Judged, JudgedLast
  <2>5. CASE ~review.bound
    BY <1>a, <1>b, <2>1, <2>2, <2>5 DEF VerdictInv, VerdictStays, Judged
  <2>. QED  BY <2>4, <2>5
<1>8. CASE ValidatedRejected
  <2>1. UNCHANGED <<cj, block>> /\ ctl.at = "report"
    BY <1>8 DEF ValidatedRejected, At
  <2>2. review'.last = "none" /\ review'.con = review.con
    <3>1. \E same \in BOOLEAN, e \in Nat : review' = Failed(review, same, e)
      BY <1>8, RejectionFails DEF ValidatedRejected
    <3>. QED  BY <1>0, <3>1, FailedFields
  <2>3. CandidateLost
    BY <2>1, <2>2 DEF CandidateLost, At, BlankInv, HeadsInv, Inside, CitadelSteps
  <2>. QED  BY <1>c, <2>1, <2>2, <2>3 DEF VerdictStays
<1>6. CASE StartAttempt \/ AttemptsUsedUp \/ ReviewerJudges \/ CandidateRejected
           \/ ReviewerFails \/ ReviewerCancelled
  <2>1. UNCHANGED <<cj, block>> /\ ctl.at \in Asking
    BY <1>6 DEF StartAttempt, AttemptsUsedUp, ReviewerJudges, CandidateRejected, ReviewerFails,
       ReviewerCancelled, At, Asking
  <2>2. review'.con = review.con
    <3>1. CASE StartAttempt \/ AttemptsUsedUp \/ ReviewerJudges
      BY <1>0, <3>1 DEF StartAttempt, AttemptsUsedUp, ReviewerJudges, Review
    <3>2. CASE CandidateRejected \/ ReviewerFails \/ ReviewerCancelled
      <4>1. \E same \in BOOLEAN, e \in Nat : review' = Failed(review, same, e)
        BY <3>2, RejectionFails DEF CandidateRejected, ReviewerFails, ReviewerCancelled
      <4>. QED  BY <1>0, <4>1, FailedFields
    <3>. QED  BY <1>6, <3>1, <3>2
  <2>3. ~Judged(review)
    BY <2>1 DEF RunInv, ReviewInv, Judged, JudgedLast
  <2>. QED  BY <1>c, <2>1, <2>2, <2>3 DEF VerdictStays
<1>7. CASE AcceptReview
  <2>1. /\ UNCHANGED <<cj, block>> /\ review'.con = review.con /\ review'.last = "accepted"
        /\ review'.verdict = review.verdict
    BY <1>0, <1>7 DEF AcceptReview, Review
  <2>. QED  BY <1>c, <2>1 DEF VerdictStays, Judged
<1>. QED  BY <1>0, <1>1, <1>2, <1>3, <1>4, <1>5, <1>6, <1>7, <1>8 DEF RunCitadel

LEMMA VerdictStep ==
  Typed /\ HeadsInv /\ RunInv /\ BlankInv /\ JournalInv /\ VerdictInv /\ [PPNext]_vars
    => JournalInv' /\ VerdictInv' /\ VerdictStays
BY VerdictCitadel, VerdictContract, VerdictOutside DEF VerdictStays, Judged

\* The verdict of a validated candidate is given up only when the checks are run anew, or by
\* an error with the candidate before anything was reported of it: neither a kill before the
\* report nor a repair of the contract has the model asked again.
THEOREM VerdictsAreKept ==
  PPSafety => VerdictKept
<1>. DEFINE Inv == Typed /\ HeadsInv /\ RunInv /\ BlankInv /\ JournalInv /\ VerdictInv
<1>1. PPInit => Inv
  <2>1. PPInit => HeadsInv /\ BlankInv /\ JournalInv /\ VerdictInv
    BY DEF PPInit, HeadsInv, BlankInv, JournalInv, VerdictInv, NoJournal, NoBlock, Step,
       ContractSteps, Inside, CitadelSteps
  <2>. QED  BY <2>1, InitTyped, RunInit
<1>2. Inv /\ [PPNext]_vars => Inv'
  BY StepKeepsTypes, HeadsStep, RunStep, BlankStep, VerdictStep
<1>3. Inv /\ [PPNext]_vars =>
        [Judged(review) /\ ~Projected /\ review'.bound
           => CandidateLost \/ (Judged(review') /\ review'.verdict = review.verdict)]_vars
  BY VerdictStep DEF VerdictStays
<1>. QED  BY <1>1, <1>2, <1>3, PTL DEF PPSafety, VerdictKept

-----------------------------------------------------------------------------
(* ReleasedMeansDone.  Tickets to do beside a ticket phase that is done    *)
(* are seen only between their reopening and the reset of the phases.  An  *)
(* intent has the next run repeat the reset; the repair of a failing check *)
(* has none, so that a run which dies there leaves the gap to the next.    *)

Gap == todo # {} /\ ps["pickle"] = "done"

\* No run inherits the gap without an intent that has it closed.
StartsReset == At("boot") /\ pending = {} => ~Gap

Loose ==
  {"down", "boot", "unwind", "leave", "strategy", "diagnose", "mapped", "reset", "reopen"}

GapInv ==
  /\ Gap => ctl.at \in Loose \/ (pending # {} /\ ctl.at \in ContractSteps \cup {"boot-pending"})
  /\ ctl.at = "verifiers" => ps["pickle"] # "done"
  /\ ctl.at \in CitadelSteps \cup {"polish"} => todo = {}
  /\ ctl.at \in {"returned", "leave"} /\ ctl.ret = "success" => todo = {}
  /\ logical = "completed" => todo = {}

LEMMA LooseMove ==
  ASSUME ctl'.at \in Loose, ctl'.at = "leave" => ctl'.ret # "success",
         logical' = "completed" => todo' = {}
  PROVE  GapInv'
BY DEF GapInv, Loose, CitadelSteps

LEMMA ClosedMove ==
  ASSUME ~Gap', logical' # "completed",
         ctl'.at \notin CitadelSteps \cup {"polish", "verifiers"},
         ctl'.at \in {"returned", "leave"} => ctl'.ret # "success"
  PROVE  GapInv'
BY DEF GapInv

\* The phases begin anew, or the tickets are worked off.
LEMMA AnewMove ==
  ASSUME ps'["pickle"] # "done", logical' # "completed",
         ctl'.at \notin CitadelSteps \cup {"polish"},
         ctl'.at \in {"returned", "leave"} => ctl'.ret # "success"
  PROVE  GapInv'
BY DEF GapInv, Gap

LEMMA EmptyMove ==
  ASSUME todo' = {}, ctl'.at # "verifiers"
  PROVE  GapInv'
BY DEF GapInv, Gap

\* A step of the controller to a place where a reopened ticket may wait for the reset.
LEMMA GapLoose ==
  ASSUME Typed, CompletedInv, GapInv,
         \/ StartRun \/ PhaseRefused \/ PhaseCancelled \/ WriteIntent
         \/ AttributionFails \/ RequestRevision \/ RecordStrategy \/ ResetForCheck
         \/ DiagnosisMaps \/ RecordDiagnosis \/ DiagnosisRejected \/ EndWithError \/ EndRun
         \/ RunThrows \/ Kill \/ CancelReaps \/ (\E t \in Tickets : ReopenTicket(t))
  PROVE  GapInv'
<1>0. ControlTyped
  BY DEF Typed
<1>1. CASE StartRun \/ PhaseRefused \/ RecordStrategy \/ DiagnosisMaps \/ RecordDiagnosis
           \/ RunThrows \/ Kill \/ CancelReaps
  <2>1. ctl'.at \in {"boot", "unwind", "reset", "mapped", "down"}
    BY <1>0, <1>1, MoveFields
    DEF StartRun, PhaseRefused, RecordStrategy, DiagnosisMaps, RecordDiagnosis, RunThrows, Kill,
        CancelReaps
  <2>2. CASE DiagnosisMaps
    BY <2>1, <2>2, LooseMove
    DEF DiagnosisMaps, rest, Now, At, CompletedInv, PlacesInv, Loose
  <2>3. CASE ~DiagnosisMaps
    <3>1. UNCHANGED <<todo, logical>>
      BY <1>1, <2>3
      DEF StartRun, PhaseRefused, RecordStrategy, RecordDiagnosis, RunThrows, Kill, CancelReaps,
          rest
    <3>. QED  BY <2>1, <3>1, LooseMove DEF GapInv, Loose
  <2>. QED  BY <2>2, <2>3
<1>2. CASE PhaseCancelled \/ AttributionFails \/ ResetForCheck \/ EndWithError
  <2>1. ctl'.at = "unwind" \/ (ctl'.at = "leave" /\ ctl'.ret # "success")
    <3>1. ctl'.at = "unwind" \/ (ctl'.at = "leave" /\ ctl'.ret \in {"cancelled", "scheduled", "error"})
      BY <1>0, <1>2, MoveFields DEF PhaseCancelled, AttributionFails, ResetForCheck, EndWithError
    <3>. QED  BY <3>1
  <2>2. UNCHANGED <<todo, logical>>
    BY <1>2 DEF PhaseCancelled, AttributionFails, ResetForCheck, EndWithError, rest, pipelineVars
  <2>. QED  BY <2>1, <2>2, LooseMove DEF GapInv, Loose
<1>6. CASE DiagnosisRejected
  <2>1. /\ UNCHANGED <<todo, logical>>
        /\ ctl'.at = "diagnose" \/ (ctl'.at = "leave" /\ ctl'.ret = "scheduled")
    BY <1>0, <1>6, MoveFields DEF DiagnosisRejected, ControlTyped
  <2>. QED  BY <2>1, LooseMove DEF GapInv, Loose
<1>3. CASE RequestRevision
  <2>1. ctl'.at = "leave" /\ ctl'.ret # "success" /\ logical' = "revision"
    BY <1>0, <1>3, MoveFields DEF RequestRevision
  <2>. QED  BY <2>1, LooseMove DEF Loose
<1>4. CASE WriteIntent \/ \E t \in Tickets : ReopenTicket(t)
  <2>1. /\ ctl'.at = "reopen" /\ UNCHANGED logical /\ ctl.at \in {"intend", "reopen"}
    BY <1>0, <1>4 DEF WriteIntent, ReopenTicket, ControlTyped, Now, At, rest
  <2>2. logical' # "completed"
    BY <2>1 DEF CompletedInv, PlacesInv
  <2>. QED  BY <2>1, <2>2, LooseMove DEF Loose
<1>5. CASE EndRun
  <2>1. /\ ctl.at = "leave" /\ ctl'.at = "down" /\ UNCHANGED todo
        /\ logical' = "completed" => logical = "completed" \/ ctl.ret = "success"
    BY <1>0, <1>5, MoveFields DEF EndRun, Now, At
  <2>2. logical' = "completed" => todo' = {}
    BY <2>1 DEF GapInv
  <2>. QED  BY <2>1, <2>2, LooseMove DEF Loose
<1>. QED  BY <1>1, <1>2, <1>3, <1>4, <1>5, <1>6

\* A step between two places that see no gap.
LEMMA GapClosed ==
  ASSUME Typed, CompletedInv, GapInv,
         \/ ScheduleAttribution \/ DropAttribution \/ ClearIntent \/ Attribute \/ RewriteReport
         \/ RetryPhase \/ RepairCheck
         \/ (\E t \in Tickets : AttributionFound(t))
  PROVE  GapInv'
<1>0. ControlTyped
  BY DEF Typed
<1>1. CASE RepairCheck /\ Direct
  <2>1. ctl'.at = "strategy" /\ UNCHANGED logical /\ ctl.at = "system"
    BY <1>0, <1>1, MoveFields DEF RepairCheck, rest, Now, At
  <2>. QED  BY <2>1, LooseMove DEF Loose, CompletedInv, PlacesInv
<1>2. CASE ~(RepairCheck /\ Direct)
  <2>1. UNCHANGED <<todo, ps, logical>>
    BY <1>2
    DEF ScheduleAttribution, DropAttribution, ClearIntent, Attribute, RewriteReport, RetryPhase,
        RepairCheck, AttributionFound, rest, pipelineVars
  <2>2. ctl.at \in {"enqueue", "applied", "attribute", "attributing", "attributed", "system"}
    BY DEF ScheduleAttribution, DropAttribution, ClearIntent, Attribute, RewriteReport,
           RetryPhase, RepairCheck, AttributionFound, Now, At
  <2>3. \/ ctl'.at \in {"attribute", "intend", "boot-pending", "dispatch", "attributing",
                        "attributed", "enqueue", "diagnose"}
        \/ ctl'.at = "leave" /\ ctl'.ret # "success"
    <3>1. CASE ScheduleAttribution \/ DropAttribution \/ ClearIntent \/ RetryPhase
      BY <1>0, <3>1, MoveFields
      DEF ScheduleAttribution, DropAttribution, ClearIntent, RetryPhase
    <3>2. CASE Attribute
      BY <1>0, <3>2, MoveFields DEF Attribute, ControlTyped
    <3>3. CASE RewriteReport
      BY <1>0, <3>3 DEF RewriteReport, ControlTyped
    <3>4. CASE RepairCheck
      BY <1>0, <1>2, <3>4 DEF RepairCheck, ControlTyped
    <3>5. CASE \E t \in Tickets : AttributionFound(t)
      BY <1>0, <3>5 DEF AttributionFound, ControlTyped
    <3>. QED  BY <3>1, <3>2, <3>3, <3>4, <3>5
  <2>4. ~Gap
    BY <2>2 DEF GapInv, Loose, ContractSteps
  <2>5. ~Gap' /\ logical' # "completed"
    BY <2>1, <2>2, <2>4 DEF Gap, CompletedInv, PlacesInv
  <2>. QED  BY <2>3, <2>5, ClosedMove DEF CitadelSteps
<1>. QED  BY <1>1, <1>2

\* The phases, their start and their reset.
LEMMA GapPhases ==
  ASSUME Typed, CompletedInv, GapInv, StartsReset, NEW t \in Tickets,
         \/ BootAfterVerifiers \/ BootOnward \/ BootPending \/ RepairVerifier(t)
         \/ VerifiersRepaired \/ AllDone \/ BeginPhase \/ FinishTicket(t) \/ Polish \/ WorkEnds
         \/ PhaseEnds \/ ResetAfterRefusal \/ BlockRepaired
  PROVE  GapInv'
<1>0. /\ ControlTyped
      /\ ps \in [{"pickle", "polish", "citadel"} -> {"todo", "running", "done", "failed", "cancelled"}]
  BY NextPhaseIs DEF Typed, WorkTyped
<1>l. logical' # "completed" /\ UNCHANGED logical
  BY DEF BootAfterVerifiers, BootOnward, BootPending, RepairVerifier, VerifiersRepaired, AllDone,
         BeginPhase, FinishTicket, Polish, WorkEnds, PhaseEnds, ResetAfterRefusal, BlockRepaired,
         Now, At, rest, CompletedInv, PlacesInv
<1>1. CASE BootAfterVerifiers \/ ResetAfterRefusal \/ (BlockRepaired /\ block.code # "reviewer")
  <2>1. Reset
    BY <1>1 DEF BootAfterVerifiers, ResetAfterRefusal, BlockRepaired
  <2>2. ps'["pickle"] # "done"
    BY <2>1, NextPhaseIs DEF Reset, Transact
  <2>3. ctl'.at \in {"boot-pending", "verifiers", "applied"}
    <3>1. CASE ResetAfterRefusal
      BY <1>0, <3>1, MoveFields DEF ResetAfterRefusal
    <3>2. CASE ~ResetAfterRefusal
      <4>1. \/ ctl' = Step("boot-pending")
            \/ ctl' = [Step("verifiers") EXCEPT !.left = block.owners, !.back = "boot"]
            \/ ctl' = [Step("verifiers") EXCEPT !.left = block.owners, !.back = "loop"]
        BY <1>1, <3>2 DEF BootAfterVerifiers, BlockRepaired
      <4>2. \A b : [Step("verifiers") EXCEPT !.left = block.owners, !.back = b].at = "verifiers"
        BY DEF Step
      <4>3. Step("boot-pending").at = "boot-pending"
        BY DEF Step
      <4>. QED  BY <4>1, <4>2, <4>3
    <3>. QED  BY <3>1, <3>2
  <2>. QED  BY <1>l, <2>2, <2>3, AnewMove DEF CitadelSteps
<1>2. CASE BootOnward \/ (BlockRepaired /\ block.code = "reviewer")
  <2>1. UNCHANGED <<todo, ps, pending>> /\ ctl.at \in {"boot", "system"}
    BY <1>2 DEF BootOnward, BlockRepaired, intents, Now, At
  <2>2. ctl'.at \in {"boot-pending", "contract"}
    <3>1. \/ ctl' = Step("boot-pending")
          \/ ctl' = [Step("contract") EXCEPT !.back = "boot"]
          \/ ctl' = [Step("contract") EXCEPT !.back = "loop"]
      BY <1>2 DEF BootOnward, BlockRepaired
    <3>2. \A b : [Step("contract") EXCEPT !.back = b].at = "contract"
      BY DEF Step
    <3>3. Step("boot-pending").at = "boot-pending"
      BY DEF Step
    <3>. QED  BY <3>1, <3>2, <3>3
  <2>3. Gap' => pending' # {}
    BY <2>1 DEF StartsReset, At, Gap, GapInv, Loose, ContractSteps
  <2>. QED  BY <1>l, <2>2, <2>3 DEF GapInv, ContractSteps, CitadelSteps
<1>3. CASE BootPending
  <2>1. UNCHANGED <<todo, ps>> /\ ctl.at = "boot-pending"
    BY <1>3 DEF BootPending, Now, At
  <2>2. CASE pending # {}
    <3>1. ctl'.at = "reopen"
      BY <1>3, <2>2 DEF BootPending, Step
    <3>. QED  BY <1>l, <3>1, LooseMove DEF Loose
  <2>3. CASE pending = {}
    <3>1. ctl'.at \in {"attribute", "dispatch"}
      BY <1>3, <2>3 DEF BootPending, Step
    <3>2. ~Gap'
      BY <2>1, <2>3 DEF Gap, GapInv, Loose
    <3>. QED  BY <1>l, <3>1, <3>2, ClosedMove DEF CitadelSteps
  <2>. QED  BY <2>2, <2>3
<1>4. CASE RepairVerifier(t) \/ VerifiersRepaired
  <2>1. /\ UNCHANGED ps /\ ctl.at = "verifiers"
        /\ ctl'.at \in {"verifiers", "boot-pending", "dispatch"}
    BY <1>0, <1>4, MoveFields DEF RepairVerifier, VerifiersRepaired, ControlTyped, Now, At
  <2>. QED  BY <1>l, <2>1, AnewMove DEF GapInv, CitadelSteps
<1>5. CASE AllDone
  <2>1. ctl.at = "dispatch" /\ UNCHANGED todo /\ ctl'.at = "leave" /\ ps["pickle"] = "done"
    BY <1>0, <1>5, MoveFields, NextPhaseIs DEF AllDone, Now, At
  <2>2. todo = {}
    BY <2>1 DEF GapInv, Gap, Loose, ContractSteps
  <2>. QED  BY <2>1, <2>2, EmptyMove
<1>6. CASE BeginPhase
  <2>1. /\ ctl.at = "dispatch" /\ UNCHANGED todo /\ ctl'.at = NextPhase
        /\ NextPhase \in {"pickle", "polish", "citadel"}
        /\ NextPhase # "pickle" => ps["pickle"] = "done"
        /\ ps' = [ps EXCEPT ![NextPhase] = "running"]
    BY <1>0, <1>6, MoveFields, NextPhaseIs DEF BeginPhase, Transact, Now, At
  <2>2. CASE NextPhase = "pickle"
    BY <1>0, <1>l, <2>1, <2>2, AnewMove DEF CitadelSteps
  <2>3. CASE NextPhase # "pickle"
    <3>1. todo = {}
      BY <2>1, <2>3 DEF GapInv, Gap, Loose, ContractSteps
    <3>. QED  BY <2>1, <3>1, EmptyMove
  <2>. QED  BY <2>2, <2>3
<1>7. CASE FinishTicket(t)
  <2>1. UNCHANGED <<ps, ctl>> /\ ctl.at = "pickle"
    BY <1>7 DEF FinishTicket, Now, At
  <2>. QED  BY <1>l, <2>1, AnewMove DEF CompletedInv, PlacesInv, CitadelSteps
<1>8. CASE Polish \/ WorkEnds
  <2>1. /\ UNCHANGED <<todo, ps>> /\ ctl'.at = "returned" /\ ctl.at \in {"pickle", "polish"}
        /\ ctl.at = "pickle" /\ ctl'.ret = "success" => todo = {}
    BY <1>0, <1>8, MoveFields DEF Polish, WorkEnds, Now, At
  <2>2. CASE todo = {}
    BY <2>1, <2>2, EmptyMove
  <2>3. CASE todo # {}
    <3>1. ctl.at = "pickle" /\ ctl'.ret # "success"
      BY <2>1, <2>3 DEF GapInv
    <3>. QED  BY <1>l, <2>1, <3>1, AnewMove DEF CompletedInv, PlacesInv, CitadelSteps
  <2>. QED  BY <2>2, <2>3
<1>9. CASE PhaseEnds
  <2>1. /\ UNCHANGED todo /\ ctl.at = "returned"
        /\ ps' = [ps EXCEPT ![NextPhase] = IF ctl.ret = "success" THEN "done" ELSE "failed"]
    BY <1>9 DEF PhaseEnds, Finish, Transact, Now, At
  <2>2. /\ ctl'.at \in {"dispatch", "enqueue", "system", "leave", "unwind"}
        /\ ctl'.at = "leave" => ctl'.ret # "success"
    BY <1>0, <1>9, MoveFields DEF PhaseEnds, GoesOn, Step
  <2>3. CASE ctl.ret = "success"
    BY <2>1, <2>2, <2>3, EmptyMove DEF GapInv
  <2>4. CASE ctl.ret # "success"
    <3>1. ~Gap
      BY <2>1 DEF GapInv, Loose, ContractSteps
    <3>2. ps'["pickle"] = "done" => ps["pickle"] = "done"
      BY <1>0, <2>1, <2>4
    <3>. QED  BY <1>l, <2>1, <2>2, <3>1, <3>2, ClosedMove DEF Gap, CitadelSteps
  <2>. QED  BY <2>3, <2>4
<1>. QED  BY <1>1, <1>2, <1>3, <1>4, <1>5, <1>6, <1>7, <1>8, <1>9

LEMMA GapStep ==
  Typed /\ RefusalInv /\ CompletedInv /\ GapInv /\ StartsReset /\ [PPNext]_vars => GapInv'
<1>. SUFFICES ASSUME Typed, RefusalInv, CompletedInv, GapInv, StartsReset, [PPNext]_vars
              PROVE  GapInv'
  OBVIOUS
<1>0. ControlTyped
  BY DEF Typed
<1>1. CASE UNCHANGED vars \/ Done \/ CommitTransaction \/ Cancel \/ OperatorCommits
  <2>1. UNCHANGED <<todo, ps, pending, ctl, logical>>
    BY <1>1 DEF vars, Done, CommitTransaction, Cancel, OperatorCommits, UserCommits, intents,
                pipelineVars
  <2>. QED  BY <2>1 DEF GapInv, Gap
<1>2. CASE CancelSettles \/ ApproveRevision
  <2>1. UNCHANGED <<todo, ctl>> /\ ctl.at = "down"
    BY <1>2 DEF CancelSettles, ApproveRevision, At
  <2>2. logical' = "completed" => logical = "completed"
    BY <1>2 DEF CancelSettles, ApproveRevision
  <2>. QED  BY <2>1, <2>2, LooseMove DEF GapInv, Loose
<1>3. CASE CitadelPhase
  <2>1. ctl.at \in CitadelSteps /\ ctl'.at \in CitadelSteps \cup {"returned"} /\ UNCHANGED todo
    BY <1>0, <1>3, CitadelPlaces DEF CitadelPhase, pipelineVars
  <2>. QED  BY <2>1, EmptyMove DEF GapInv, CitadelSteps
<1>4. CASE ContractRepair
  <2>1. /\ UNCHANGED <<todo, ps, pending, logical>> /\ ctl.at \in ContractSteps
        /\ \/ ctl'.at \in ContractSteps
           \/ ctl'.at \in {"unwind", "leave"} /\ ctl'.ret # "success"
           \/ ctl'.at = IF ctl.back = "boot" THEN "boot-pending" ELSE "dispatch"
    BY <1>0, <1>4, ContractPlaces DEF ContractRepair, pipelineVars, intents
  <2>2. logical' # "completed"
    BY <2>1 DEF CompletedInv, PlacesInv, ContractSteps
  <2>3. CASE ~Gap
    <3>1. ~Gap'
      BY <2>1, <2>3 DEF Gap
    <3>. QED  BY <2>1, <2>2, <3>1, ClosedMove DEF ContractSteps, CitadelSteps
  <2>4. CASE Gap
    <3>1. pending # {} /\ ctl.back = "boot"
      BY <2>1, <2>4 DEF GapInv, Loose, ContractSteps, RefusalInv, Outstanding, BootSteps
    <3>2. CASE ctl'.at \in {"unwind", "leave"} /\ ctl'.ret # "success"
      BY <2>2, <3>2, LooseMove DEF Loose
    <3>3. CASE ctl'.at \in ContractSteps \cup {"boot-pending"}
      BY <2>1, <2>2, <3>1, <3>3 DEF GapInv, ContractSteps, CitadelSteps
    <3>. QED  BY <2>1, <3>1, <3>2, <3>3
  <2>. QED  BY <2>3, <2>4
<1>5. \E t : t \in Tickets
  BY TicketsAssumption
<1>6. CASE Controller /\ ~CommitTransaction /\ ~CitadelPhase /\ ~ContractRepair
  BY <1>5, <1>6, GapLoose, GapClosed, GapPhases DEF Controller
<1>. QED
  BY <1>1, <1>2, <1>3, <1>4, <1>6, GapLoose DEF PPNext, Operator, Controller

\* A pipeline is completed only with every ticket done, as long as no run inherits tickets
\* reopened beside finished phases without an intent: every other way to reopen a ticket
\* resets the phases, or has the next run reset them, before the citadel is asked.
THEOREM ReleaseNeedsReset ==
  PPSafety /\ []StartsReset => []ReleasedMeansDone
<1>. DEFINE Inv == Typed /\ HeadsInv /\ RunInv /\ RefusalInv /\ CompletedInv
<1>1. PPInit => Inv /\ GapInv
  <2>1. PPInit => HeadsInv
    BY DEF PPInit, HeadsInv, Step, Inside, CitadelSteps
  <2>2. PPInit => CompletedInv
    BY NextPhaseIs DEF PPInit, CompletedInv, PlacesInv, DoneInv, CompletedMeansReviewed, Step,
       CitadelSteps, BootSteps, ContractSteps
  <2>3. PPInit => RefusalInv
    BY DEF PPInit, RefusalInv, Outstanding, AttributionPending, NoBlocked, Step
  <2>4. PPInit => GapInv
    BY DEF PPInit, GapInv, Loose, Step, CitadelSteps
  <2>. QED  BY <2>1, <2>2, <2>3, <2>4, InitTyped, RunInit
<1>2. Inv /\ [PPNext]_vars => Inv'
  BY StepKeepsTypes, HeadsStep, RunStep, RefusalStep, CompletedStep
<1>3. Inv /\ GapInv /\ StartsReset /\ [PPNext]_vars => GapInv'
  BY GapStep
<1>4. GapInv => ReleasedMeansDone
  BY DEF GapInv, ReleasedMeansDone
<1>. QED  BY <1>1, <1>2, <1>3, <1>4, PTL DEF PPSafety

=============================================================================
