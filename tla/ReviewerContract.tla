-------------------------- MODULE ReviewerContract --------------------------
(***************************************************************************)
(* The repair of the reviewer's artifact contract                          *)
(* (services/citadel-reviewer-recovery.ts).                                *)
(*                                                                         *)
(* When every strategy of the catalog has failed to make the reviewer      *)
(* write a valid report, the citadel records a system block.  A recovery   *)
(* worker is then asked for a new instruction by one of a few mechanisms;  *)
(* its artifact is validated, turned into runtime files (for the last      *)
(* mechanism by a model call for each acceptance criterion), recorded in   *)
(* the journal and projected into the review, which goes on for another    *)
(* epoch.  When no mechanism is left and nothing new failed, the           *)
(* controller writes the instruction itself.  The journal says where a     *)
(* repair that was cut off goes on.                                        *)
(***************************************************************************)
EXTENDS CitadelGate

CONSTANTS Mechanisms, \* recovery mechanisms, in order (the code has 3)
          Shards      \* acceptance criteria

ASSUME ContractBounds == Mechanisms \in Nat \ {0} /\ Shards \in Nat

Sharded == Mechanisms   \* criterion_sharded_reconstruction is the last one

(* "n" and "err" bind the journal to the failed candidates and the error   *)
(* of the block; "mine" says that it belongs to the review on disk.  The   *)
(* files under citadel-reviewer-contract-runtime are keyed by the same     *)
(* identity: "shards" criteria are judged, and the mechanisms in "written" *)
(* have left a read-only validator.                                        *)
NoJournal == [st |-> "none", mine |-> FALSE, mech |-> 0, used |-> {}, n |-> 0, err |-> 0,
              att |-> "none", cand |-> "none", shards |-> 0, written |-> {}]

SameEvidence == cj.mine /\ cj.n = review.n /\ cj.err = block.err
SameDiagnosis(m) == SameEvidence /\ cj.mech = m

(* authenticateResolvedCitadelReviewerArtifactContract                     *)
Pending     == cj.mine /\ cj.st \in {"started", "rejected"}
Projected   == review.con.mech # 0
ResolvedFor == IF Projected THEN review.con.n ELSE cj.n
ResolvedBy  == IF Projected THEN review.con.mech ELSE cj.mech

Authenticated ==
  IF Pending THEN IF SameDiagnosis(cj.mech) THEN "pending" ELSE "stale"
  ELSE IF ~Projected /\ cj.st # "resolved" THEN "first"
  ELSE IF ~Projected /\ ~cj.mine THEN "stale"
  ELSE IF ResolvedFor # review.n THEN "fresh"
  ELSE IF cj.st = "resolved" /\ SameDiagnosis(ResolvedBy) THEN "resolved"
  ELSE IF review.status = "diagnostic" THEN "fresh" ELSE "stale"

Unwind == ctl' = Step("unwind")
\* To the caller: before the phases are dispatched, or in their loop.
GoBack == ctl' = Step(IF ctl.back = "boot" THEN "boot-pending" ELSE "dispatch")
Leave(r) == ctl' = [Step("leave") EXCEPT !.ret = r]
\* projectResolvedReviewerState
ProjectInto(r) == [r EXCEPT !.status = "running", !.used = 0, !.last = "none",
                            !.con = [mech |-> cj.mech, used |-> cj.used,
                                     n |-> cj.n, err |-> cj.err]]

contractRest == <<repo, st, gate, report, approval, block, refused, upsets>>

RepairRefused ==
  /\ At("contract") /\ Authenticated = "stale" /\ Unwind
  /\ UNCHANGED <<contractRest, review, cj>>

RepairResolvedBefore ==
  /\ At("contract") /\ Authenticated = "resolved"
  /\ review' = IF Projected THEN review ELSE ProjectInto(review)
  /\ GoBack
  /\ UNCHANGED <<contractRest, cj>>

(* The mechanisms that were used for this review before, but for the one   *)
(* of an attempt that was cut off, which is resumed.                       *)
Open == Authenticated = "pending" /\ cj.st = "started"
UsedMechanisms ==
  (IF Authenticated # "pending" THEN {} ELSE IF Open THEN cj.used \ {cj.mech} ELSE cj.used)
    \cup review.con.used \cup ({review.con.mech} \ {0})
Unused == (1..Mechanisms) \ UsedMechanisms
NewEvidence == ~Projected \/ review.n > review.con.n

\* selectMechanism: in order or in reverse, as the errors read.
Selects(m) ==
  IF Open THEN m = cj.mech
  ELSE IF Unused = {} THEN m = Sharded
  ELSE /\ m \in Unused
       /\ (\A u \in Unused : m <= u) \/ (\A u \in Unused : m >= u)
\* The controller synthesizes the instruction itself.
Canonical == ~Open /\ Unused = {} /\ ~NewEvidence

RepairResumes ==
  /\ At("contract") /\ Open /\ cj.cand = "good"
  /\ ctl' = [ctl EXCEPT !.at = "materialize", !.ret = "resumed"]
  /\ UNCHANGED <<contractRest, review, cj>>

Begun(m, how) ==
  [cj EXCEPT !.st = "started", !.mine = TRUE, !.mech = m,
             !.used = UsedMechanisms \cup {m}, !.n = review.n, !.err = block.err,
             !.att = how, !.cand = "none",
             !.shards  = IF SameEvidence THEN @ ELSE 0,
             !.written = IF SameEvidence THEN @ ELSE {}]

\* The attempt is in the journal before the worker is called.
RepairStarts ==
  /\ At("contract") /\ Authenticated \in {"pending", "first", "fresh"}
  /\ ~(Open /\ cj.cand = "good")
  /\ \E m \in 1..Mechanisms :
       /\ Selects(m) /\ cj' = Begun(m, IF Canonical THEN "canonical" ELSE "model")
  /\ Goto("candidate")
  /\ UNCHANGED <<contractRest, review>>

\* controllerCanonicalStrategy writes what the validation expects.
Candidates == IF cj.att = "canonical" THEN {"good"} ELSE {"good", "bad"}

WriteCandidate ==
  /\ At("candidate")
  /\ \E c \in Candidates : cj' = [cj EXCEPT !.cand = c]
  /\ Goto("validate")
  /\ UNCHANGED <<contractRest, review>>

Reject == cj' = [cj EXCEPT !.st = "rejected"] /\ Leave("scheduled")

ValidateCandidate ==
  /\ At("validate")
  /\ IF cj.cand = "bad" THEN Reject ELSE Goto("materialize") /\ UNCHANGED cj
  /\ UNCHANGED <<contractRest, review>>

(* executeCriterionShards: what is judged stays judged; a criterion that   *)
(* fails leaves the attempt open.                                          *)
ShardsLeft == cj.mech = Sharded /\ cj.shards < Shards
JudgeCriterion ==
  /\ At("materialize") /\ ShardsLeft
  /\ cj' = [cj EXCEPT !.shards = @ + 1] /\ UNCHANGED ctl
  /\ UNCHANGED <<contractRest, review>>
CriterionRejected ==
  /\ At("materialize") /\ ShardsLeft /\ Leave("scheduled")
  /\ UNCHANGED <<contractRest, review, cj>>

(* materializeRuntimeArtifacts: the validator is left without the right to *)
(* write it, so that it may not be written a second time.                  *)
WriteRuntime ==
  /\ At("materialize") /\ ~ShardsLeft
  /\ cj' = [cj EXCEPT !.written = @ \cup {cj.mech}]
  /\ Goto("resolve")
  /\ UNCHANGED <<contractRest, review>>
RuntimeNotWritten ==
  /\ At("materialize") /\ ~ShardsLeft /\ cj.mech \in cj.written
  /\ IF ctl.ret = "resumed"
     THEN /\ cj' = [cj EXCEPT !.att = "model", !.cand = "none"]
          /\ ctl' = [ctl EXCEPT !.at = "candidate", !.ret = "none"]
     ELSE Reject
  /\ UNCHANGED <<contractRest, review>>

\* persistResolved: the journal, then the review.
ResolveJournal ==
  /\ At("resolve") /\ cj' = [cj EXCEPT !.st = "resolved"] /\ Goto("project")
  /\ UNCHANGED <<contractRest, review>>
ProjectResolution ==
  /\ At("project") /\ review' = ProjectInto(review) /\ GoBack
  /\ UNCHANGED <<contractRest, cj>>

ContractSteps == {"contract", "candidate", "validate", "materialize", "resolve", "project"}

RepairContract ==
  \/ RepairRefused \/ RepairResolvedBefore \/ RepairResumes \/ RepairStarts
  \/ WriteCandidate \/ ValidateCandidate \/ JudgeCriterion \/ CriterionRejected
  \/ WriteRuntime \/ RuntimeNotWritten \/ ResolveJournal \/ ProjectResolution
=============================================================================
