------------------------ MODULE CancellationRecovery ------------------------
(***************************************************************************)
(* Cancellation of a direct session (bin/cancel.ts) and its recovery       *)
(* (services/cancellation-recovery.ts, services/autonomous-owner-recovery) *)
(* by a daemon and a watchdog that start each other.                       *)
(*                                                                         *)
(* A cancellation first arms a watchdog, then writes the recovery intent   *)
(* with the children it knows, drains or reaps them, and completes the     *)
(* intent.  Whoever dies on the way, the daemon completes it.  The         *)
(* controller that ran the children goes on until it notices.  A child     *)
(* leads a process group; it is "up" while its recorded identity runs and  *)
(* "orphaned" when only unrecorded members of its group are left.  Every   *)
(* update of state.json is one step; what a process read before is its     *)
(* own copy.  Times (arm expiry, deadlines) may pass at any moment, and a  *)
(* retry's delay is left out.                                              *)
(***************************************************************************)
EXTENDS Naturals, FiniteSets

CONSTANTS Children,     \* children the controller may launch
          Cancellers,   \* runs of the cancel command
          Daemon,       \* the name of the recovery daemon
          NoId,         \* no intent or arm
          MaxKills      \* processes killed

ASSUME NamesAssumption == Daemon \notin Cancellers /\ NoId \notin Cancellers
ASSUME KillsAssumption == MaxKills \in Nat

VARIABLES
  requested,        \* state.json: cancel_requested_at, with active false
  intent, arm,      \* cancellation_recovery and its watchdog's arm
  kind, required,   \* recovery_kind is cancellation_ownership, recovery_required
  ledger, owner,    \* recorded children, and whether their controller is recorded
  ended,            \* the logical pipeline is terminal
  child,            \* the processes of the children
  ctl, job,         \* the controller and its current child
  wd, wdArm,        \* the watchdog and the arm it follows
  dm,               \* the daemon
  cc, known, armId, \* the cancellers: step, remembered children, prepared arm
  rec,              \* reconcileCancellationRecovery of a process: step and copies
  kills, unguarded, \* deaths, and whether one left neither daemon nor watchdog
  reopened          \* a canceller reopened a completed intent

stateVars == <<requested, intent, arm, kind, required, ledger, owner, ended>>
procVars  == <<child, ctl, job>>
guardVars == <<wd, wdArm, dm>>
ccVars    == <<cc, known, armId>>
faults    == <<kills, unguarded, reopened>>
crVars    == <<stateVars, procVars, guardVars, ccVars, rec, faults>>

Recoverers == Cancellers \cup {Daemon}
NoIntent   == [id |-> NoId, status |-> "none", ids |-> {}]
NoArm      == [id |-> NoId, status |-> "none"]
Idle       == [at |-> "off", id |-> NoId, ids |-> {}, owned |-> FALSE]

CRInit ==
  /\ requested = FALSE /\ intent = NoIntent /\ arm = NoArm /\ kind = FALSE /\ required = FALSE
  /\ ledger = {} /\ owner = FALSE /\ ended = FALSE
  /\ child = [i \in Children |-> "new"] /\ ctl = "idle" /\ job = {}
  /\ wd = "none" /\ wdArm = NoId /\ dm = "none"
  /\ cc = [k \in Cancellers |-> "new"] /\ known = [k \in Cancellers |-> {}]
  /\ armId = [k \in Cancellers |-> NoId]
  /\ rec = [p \in Recoverers |-> Idle]
  /\ kills = 0 /\ unguarded = FALSE /\ reopened = FALSE

\* hasPendingCancellationRecovery
Pending == IF kind THEN intent.status # "completed" ELSE intent.status \in {"pending", "quiescent"}
\* groupAbsent for the groups of all of them.
AllAbsent(ids) == \A i \in ids : child[i] \in {"new", "gone"}
CtlAlive == ctl \notin {"dead", "exited"}
\* controllerStillOwns, by the record in state.json
OwnsNow == owner /\ CtlAlive

(* mergeCancellationRecoveryIntent: a new identity reopens the intent.     *)
Merged(ids) ==
  [intent EXCEPT !.ids = @ \cup ids,
                 !.status = IF ids \subseteq intent.ids THEN @ ELSE "pending"]

-----------------------------------------------------------------------------
(* The controller launches one child after another and looks at the        *)
(* cancellation before each.                                               *)

LookAtState ==
  /\ ctl = "idle"
  /\ ctl' = IF requested THEN "exited" ELSE "launching"
  /\ UNCHANGED <<stateVars, child, job, guardVars, ccVars, rec, faults>>

Publish ==
  /\ ctl = "launching"
  /\ \E i \in Children :
       /\ child[i] = "new" /\ AllAbsent(ledger)
       /\ child' = [child EXCEPT ![i] = "up"]
       /\ ledger' = {i} /\ owner' = TRUE
       /\ job' = {i} /\ ctl' = "running"
  /\ UNCHANGED <<requested, intent, arm, kind, required, ended, guardVars, ccVars, rec, faults>>

\* Nothing to launch any more, or live children of others on the ledger.
PublishRefused ==
  /\ ctl = "launching"
  /\ ~AllAbsent(ledger) \/ \A i \in Children : child[i] # "new"
  /\ ctl' = "exited"
  /\ UNCHANGED <<stateVars, child, job, guardVars, ccVars, rec, faults>>

\* The child ends, by itself or because its controller saw the cancellation.
ChildEnds ==
  /\ \E i \in Children : child[i] = "up" /\ child' = [child EXCEPT ![i] = "gone"]
  /\ UNCHANGED <<stateVars, ctl, job, guardVars, ccVars, rec, faults>>

(* onDrain: the ledger is cleared when it still is exactly this child's.   *)
Drain ==
  /\ ctl = "running" /\ AllAbsent(job)
  /\ IF ledger = job THEN ledger' = {} /\ owner' = FALSE /\ ctl' = "idle"
     ELSE ctl' = "exited" /\ UNCHANGED <<ledger, owner>>
  /\ job' = {}
  /\ UNCHANGED <<requested, intent, arm, kind, required, ended, child, guardVars, ccVars, rec, faults>>

\* The recorded leader of an abandoned group ends before its members do.
Orphan ==
  /\ ~CtlAlive
  /\ \E i \in Children :
       \/ child[i] = "up" /\ child' = [child EXCEPT ![i] = "orphaned"]
       \/ child[i] = "orphaned" /\ child' = [child EXCEPT ![i] = "gone"]
  /\ UNCHANGED <<stateVars, ctl, job, guardVars, ccVars, rec, faults>>

-----------------------------------------------------------------------------
(* Daemon and watchdog: one of each, by their locks.                       *)

WdRecorded == wd = "running"
DmRecorded == dm \notin {"none", "starting"}

\* ensureCancellationRecoveryWatchdog
EnsureWd == wd' = IF (Pending \/ arm.status = "prepared") /\ ~WdRecorded /\ wd = "none"
                  THEN "starting" ELSE wd
\* ensureAutonomousOwnerRecoveryDaemon, for a session without owner spec
EnsureDm == dm' = IF (Pending \/ (arm.status = "prepared" /\ ~requested)) /\ ~DmRecorded /\ dm = "none"
                  THEN "starting" ELSE dm

WdStart ==
  /\ wd = "starting" /\ wd' = "running" /\ wdArm' = arm.id
  /\ UNCHANGED <<stateVars, procVars, dm, ccVars, rec, faults>>

\* Fault: the watchdog leaves as soon as the cancellation has its intent.
WatchesUnarmed == wdArm # NoId /\ arm.id = wdArm /\ arm.status = "prepared"

(* The watchdog stays while its arm is prepared, and then while the intent *)
(* of that arm is pending.                                                 *)
Watches ==
  \/ wdArm # NoId /\ arm.id = wdArm /\ arm.status = "prepared"
  \/ /\ wdArm = NoId \/ (arm.id = wdArm /\ intent.id = wdArm)
     /\ Pending

WdWatch ==
  /\ wd = "running" /\ Watches /\ arm.status # "prepared"
  /\ EnsureDm /\ dm' # dm
  /\ UNCHANGED <<stateVars, procVars, wd, wdArm, ccVars, rec, faults>>

WdExpire ==
  /\ wd = "running" /\ arm.id = wdArm /\ arm.status = "prepared"
  /\ arm' = NoArm /\ wd' = "ending"
  /\ UNCHANGED <<requested, intent, kind, required, ledger, owner, ended, procVars, wdArm, dm,
                 ccVars, rec, faults>>

WdLeaves ==
  /\ wd = "running" /\ ~Watches
  /\ wd' = "ending"
  /\ UNCHANGED <<stateVars, procVars, wdArm, dm, ccVars, rec, faults>>

WdEnd ==
  /\ wd = "ending" /\ wd' = "none"
  /\ arm' = IF arm.id = wdArm THEN NoArm ELSE arm
  /\ wdArm' = NoId
  /\ UNCHANGED <<requested, intent, kind, required, ledger, owner, ended, procVars, dm, ccVars, rec, faults>>

DmStart ==
  /\ dm = "starting" /\ dm' = "top"
  /\ UNCHANGED <<stateVars, procVars, wd, wdArm, ccVars, rec, faults>>

(* A pass of the daemon: it keeps the watchdog alive, waits for a prepared *)
(* arm, and reconciles a pending cancellation.                             *)
DmTop ==
  /\ dm = "top"
  /\ EnsureWd
  /\ dm' = IF ~Pending /\ arm = NoArm THEN "ending"
           ELSE IF arm.status = "prepared" THEN "top" ELSE "work"
  /\ dm' # dm \/ wd' # wd
  /\ UNCHANGED <<stateVars, procVars, wdArm, ccVars, rec, faults>>

DmNextPass ==
  /\ dm = "work" /\ rec[Daemon].at = "done"
  /\ dm' = IF requested /\ ~Pending THEN "ending" ELSE "top"
  /\ rec' = [rec EXCEPT ![Daemon] = Idle]
  /\ UNCHANGED <<stateVars, procVars, wd, wdArm, ccVars, faults>>

DmEnd ==
  /\ dm = "ending" /\ dm' = "none"
  /\ UNCHANGED <<stateVars, procVars, wd, wdArm, ccVars, rec, faults>>

-----------------------------------------------------------------------------
(* reconcileCancellationRecovery, of the daemon or of a canceller.         *)

Reconciling(p) == IF p = Daemon THEN dm = "work" ELSE cc[p] = "settle"
Goes(p, at) == rec' = [rec EXCEPT ![p].at = at]
Exact(p)    == intent.id = rec[p].id /\ intent.status \in {"pending", "quiescent"}
Recovers(p) == UNCHANGED <<requested, arm, procVars, guardVars, ccVars, faults>>

RecRead(p) ==
  /\ Reconciling(p) /\ rec[p].at = "off"
  /\ IF intent.status \in {"pending", "quiescent"}
     THEN rec' = [rec EXCEPT ![p] = [at |-> "merge", id |-> intent.id, ids |-> intent.ids \cup ledger,
                                     owned |-> owner]]
     ELSE Goes(p, "done")
  /\ required' = (required \/ (kind /\ intent.status = "none"))
  /\ UNCHANGED <<intent, kind, ledger, owner, ended>> /\ Recovers(p)

\* What the ledger adds to the intent reopens it.
RecMerge(p) ==
  /\ rec[p].at = "merge"
  /\ intent' = IF Exact(p) /\ ~(rec[p].ids \subseteq intent.ids)
               THEN [intent EXCEPT !.ids = rec[p].ids, !.status = "pending"] ELSE intent
  /\ Goes(p, IF rec[p].owned /\ CtlAlive THEN "fail" ELSE "reap")
  /\ UNCHANGED <<kind, required, ledger, owner, ended>> /\ Recovers(p)

RecReap(p) ==
  /\ rec[p].at = "reap"
  /\ \E i \in rec[p].ids : child[i] = "up" /\ child' = [child EXCEPT ![i] = "gone"]
  /\ UNCHANGED <<stateVars, ctl, job, guardVars, ccVars, rec, faults>>

\* A group without a recorded live member must not be signalled.
RecReaped(p) ==
  /\ rec[p].at = "reap"
  /\ \/ AllAbsent(rec[p].ids) /\ Goes(p, "quiesce")
     \/ (\E i \in rec[p].ids : child[i] = "orphaned") /\ Goes(p, "fail")
  /\ UNCHANGED <<intent, kind, required, ledger, owner, ended>> /\ Recovers(p)

RecFail(p) ==
  /\ rec[p].at = "fail"
  /\ IF Exact(p)
     THEN intent' = [intent EXCEPT !.status = "pending"] /\ required' = TRUE /\ kind' = TRUE
     ELSE UNCHANGED <<intent, required, kind>>
  /\ Goes(p, "done")
  /\ UNCHANGED <<ledger, owner, ended>> /\ Recovers(p)

RecQuiesce(p) ==
  /\ rec[p].at = "quiesce"
  /\ intent' = IF /\ intent.id = rec[p].id /\ intent.status = "pending"
                  /\ ledger \subseteq intent.ids /\ AllAbsent(intent.ids)
               THEN [intent EXCEPT !.status = "quiescent"] ELSE intent
  /\ Goes(p, "look")
  /\ UNCHANGED <<kind, required, ledger, owner, ended>> /\ Recovers(p)

RecLook(p) ==
  /\ rec[p].at = "look"
  /\ IF intent.status = "quiescent"
     THEN rec' = [rec EXCEPT ![p].at = "logical", ![p].id = intent.id] ELSE Goes(p, "done")
  /\ UNCHANGED <<intent, kind, required, ledger, owner, ended>> /\ Recovers(p)

RecLogical(p) ==
  /\ rec[p].at = "logical"
  /\ ended' = TRUE /\ Goes(p, "final")
  /\ UNCHANGED <<intent, kind, required, ledger, owner>> /\ Recovers(p)

\* Fault: what was quiescent before stays so.
StaysQuiet == TRUE

\* Ownership did not change since it was found quiescent.
StillQuiet == ~OwnsNow /\ ledger \subseteq intent.ids /\ AllAbsent(intent.ids \cup ledger)

RecFinal(p) ==
  /\ rec[p].at = "final"
  /\ Goes(p, "done")
  /\ IF ~(intent.id = rec[p].id /\ intent.status = "quiescent")
     THEN UNCHANGED <<intent, kind, required, ledger, owner>>
     ELSE IF StillQuiet
     THEN /\ intent' = [intent EXCEPT !.status = "completed"]
          /\ kind' = FALSE /\ required' = FALSE /\ ledger' = {} /\ owner' = FALSE
     ELSE /\ intent' = [intent EXCEPT !.status = "pending", !.ids = @ \cup ledger]
          /\ kind' = TRUE /\ required' = TRUE /\ UNCHANGED <<ledger, owner>>
  /\ UNCHANGED ended /\ Recovers(p)

Reconcile(p) ==
  \/ RecRead(p) \/ RecMerge(p) \/ RecReap(p) \/ RecReaped(p) \/ RecFail(p)
  \/ RecQuiesce(p) \/ RecLook(p) \/ RecLogical(p) \/ RecFinal(p)

-----------------------------------------------------------------------------
(* The cancel command.                                                     *)

Step(k, at) == cc' = [cc EXCEPT ![k] = at]
Remember(k) == known' = [known EXCEPT ![k] = @ \cup ledger]

\* The intent of an earlier cancellation names the arm.
CcRead(k) ==
  /\ cc[k] = "new" /\ Step(k, "arm") /\ Remember(k)
  /\ armId' = [armId EXCEPT ![k] = IF intent = NoIntent THEN k ELSE intent.id]
  /\ UNCHANGED <<stateVars, procVars, guardVars, rec, faults>>

CcArm(k) ==
  /\ cc[k] = "arm" /\ Step(k, "ensure")
  /\ arm' = [id |-> armId[k], status |-> "prepared"]
  /\ UNCHANGED <<requested, intent, kind, required, ledger, owner, ended, procVars, guardVars,
                 known, armId, rec, faults>>

CcEnsure(k) ==
  /\ cc[k] = "ensure" /\ Step(k, "await")
  /\ EnsureWd /\ EnsureDm
  /\ UNCHANGED <<stateVars, procVars, wdArm, known, armId, rec, faults>>

CcReady(k) ==
  /\ cc[k] = "await" /\ Step(k, "activate")
  /\ WdRecorded /\ wdArm = armId[k] /\ DmRecorded
  /\ UNCHANGED <<stateVars, procVars, guardVars, known, armId, rec, faults>>

CcNotReady(k) ==
  /\ cc[k] = "await" /\ Step(k, "failed")
  /\ arm' = IF arm.id = armId[k] /\ arm.status = "prepared" THEN NoArm ELSE arm
  /\ UNCHANGED <<requested, intent, kind, required, ledger, owner, ended, procVars, guardVars,
                 known, armId, rec, faults>>

Activated(k) ==
  IF intent = NoIntent THEN [id |-> armId[k], status |-> "pending", ids |-> known[k] \cup ledger]
  ELSE Merged(known[k] \cup ledger)

\* The request, its intent and the activation of the arm are one update.
CcActivate(k) ==
  /\ cc[k] = "activate"
  /\ IF intent.id \in {NoId, armId[k]} /\ arm = [id |-> armId[k], status |-> "prepared"]
     THEN /\ Remember(k)
          /\ requested' = TRUE /\ kind' = TRUE
          /\ intent' = Activated(k)
          /\ arm' = [arm EXCEPT !.status = "activated"]
          /\ Step(k, "drain")
     ELSE Step(k, "failed") /\ UNCHANGED <<requested, kind, intent, arm, known>>
  /\ UNCHANGED <<required, ledger, owner, ended, procVars, guardVars, armId, rec, faults>>

\* waitForCooperativeDrain, until the controller is gone or the deadline passes.
CcDrain(k) ==
  /\ cc[k] = "drain" /\ Remember(k)
  /\ Step(k, IF OwnsNow /\ (ledger # {} \/ ~AllAbsent(known[k] \cup ledger)) THEN "unsafe" ELSE "pass")
  /\ UNCHANGED <<stateVars, procVars, guardVars, armId, rec, faults>>

CcPass(k) ==
  /\ cc[k] = "pass" /\ Remember(k)
  /\ Step(k, IF OwnsNow THEN "unsafe" ELSE "reap")
  /\ UNCHANGED <<stateVars, procVars, guardVars, armId, rec, faults>>

CcReap(k) ==
  /\ cc[k] = "reap"
  /\ \/ /\ \E i \in known[k] : child[i] = "up" /\ child' = [child EXCEPT ![i] = "gone"]
        /\ UNCHANGED cc
     \/ AllAbsent(known[k]) /\ Step(k, "clear") /\ UNCHANGED child
     \/ (\E i \in known[k] : child[i] = "orphaned") /\ Step(k, "unsafe") /\ UNCHANGED child
  /\ UNCHANGED <<stateVars, ctl, job, guardVars, known, armId, rec, faults>>

\* The ledger is cleared when it holds nothing new; otherwise another pass.
CcClear(k) ==
  /\ cc[k] = "clear" /\ Remember(k)
  /\ IF ledger \subseteq known[k] /\ ~OwnsNow /\ AllAbsent(known[k])
     THEN ledger' = {} /\ owner' = FALSE /\ Step(k, "settle")
     ELSE UNCHANGED <<ledger, owner>> /\ (Step(k, "pass") \/ Step(k, "unsafe"))
  /\ UNCHANGED <<requested, intent, arm, kind, required, ended, procVars, guardVars, armId, rec, faults>>

\* Ownership could not be cleared: the daemon takes over.
CcUnsafe(k) ==
  /\ cc[k] = "unsafe" /\ Step(k, "ensure daemon")
  /\ required' = TRUE /\ kind' = TRUE
  /\ intent' = [Merged(known[k]) EXCEPT !.status = "pending"]
  /\ reopened' = (reopened \/ intent.status = "completed")
  /\ UNCHANGED <<requested, arm, ledger, owner, ended, procVars, guardVars, known, armId, rec,
                 kills, unguarded>>

\* settleDurableCancellation, until done or its deadline passes.
CcSettled(k) ==
  /\ cc[k] = "settle" /\ rec[k].at = "done"
  /\ rec' = [rec EXCEPT ![k] = Idle]
  /\ IF intent.status = "completed" THEN Step(k, "cancelled")
     ELSE Step(k, "settle") \/ Step(k, "ensure daemon")
  /\ UNCHANGED <<stateVars, procVars, guardVars, known, armId, faults>>

CcEnsureDaemon(k) ==
  /\ cc[k] = "ensure daemon" /\ Step(k, "blocked")
  /\ EnsureWd /\ EnsureDm
  /\ UNCHANGED <<stateVars, procVars, wdArm, known, armId, rec, faults>>

CcStep(k) ==
  \/ CcRead(k) \/ CcArm(k) \/ CcEnsure(k) \/ CcReady(k) \/ CcNotReady(k) \/ CcActivate(k)
  \/ CcDrain(k) \/ CcPass(k) \/ CcReap(k) \/ CcClear(k) \/ CcUnsafe(k) \/ CcSettled(k)
  \/ CcEnsureDaemon(k)

-----------------------------------------------------------------------------
(* Kills.                                                                  *)

Killed == kills < MaxKills /\ kills' = kills + 1 /\ UNCHANGED reopened

KillController ==
  /\ Killed /\ CtlAlive /\ ctl' = "dead"
  /\ UNCHANGED <<stateVars, child, job, guardVars, ccVars, rec, unguarded>>

KillWatchdog ==
  /\ Killed /\ wd # "none" /\ wd' = "none" /\ wdArm' = NoId
  /\ unguarded' = (unguarded \/ dm \in {"none", "ending"})
  /\ UNCHANGED <<stateVars, procVars, dm, ccVars, rec>>

KillDaemon ==
  /\ Killed /\ dm # "none" /\ dm' = "none"
  /\ rec' = [rec EXCEPT ![Daemon] = Idle]
  /\ unguarded' = (unguarded \/ wd \in {"none", "ending"})
  /\ UNCHANGED <<stateVars, procVars, wd, wdArm, ccVars>>

KillCanceller(k) ==
  /\ Killed /\ cc[k] \notin {"new", "failed", "cancelled", "blocked", "dead"}
  /\ Step(k, "dead")
  /\ rec' = [rec EXCEPT ![k] = Idle]
  /\ UNCHANGED <<stateVars, procVars, guardVars, known, armId, unguarded>>

ControllerStep == LookAtState \/ Publish \/ PublishRefused \/ Drain
WatchdogStep   == WdStart \/ WdWatch \/ WdLeaves \/ WdEnd
DaemonStep     == DmStart \/ DmTop \/ DmNextPass \/ DmEnd

CRNext ==
  \/ ControllerStep \/ ChildEnds \/ Orphan
  \/ WatchdogStep \/ WdExpire \/ DaemonStep
  \/ \E p \in Recoverers : Reconcile(p)
  \/ \E k \in Cancellers : CcStep(k)
  \/ KillController \/ KillWatchdog \/ KillDaemon
  \/ \E k \in Cancellers : KillCanceller(k)

(* The processes run; a live controller that sees the cancellation ends    *)
(* its child, and an arm that nobody activates expires.                    *)
Fairness ==
  /\ WF_crVars(ControllerStep) /\ WF_crVars(CtlAlive /\ requested /\ ChildEnds)
  /\ WF_crVars(WatchdogStep) /\ WF_crVars(WdExpire)
  /\ WF_crVars(DaemonStep) /\ WF_crVars(Reconcile(Daemon))
  /\ \A k \in Cancellers : WF_crVars(CcStep(k)) /\ WF_crVars(Reconcile(k))

CRSpec == CRInit /\ [][CRNext]_crVars /\ Fairness

-----------------------------------------------------------------------------
(* Properties.                                                             *)

(* Type correctness of state.json's fields and of the processes.           *)
CRTypeOK ==
  /\ intent.id \in Cancellers \cup {NoId} /\ intent.ids \subseteq Children
  /\ intent.status \in {"none", "pending", "quiescent", "completed"}
  /\ arm.status \in {"none", "prepared", "activated"}
  /\ ledger \subseteq Children /\ job \subseteq Children
  /\ wd \in {"none", "starting", "running", "ending"}
  /\ dm \in {"none", "starting", "top", "work", "ending"}
  /\ \A p \in Recoverers : rec[p].ids \subseteq Children

(* A live child is never forgotten, whoever clears the ledger and whenever *)
(* a controller launched it: it is on the ledger, or an intent that is not *)
(* completed names it.                                                     *)
NothingForgotten ==
  \A i \in Children :
    child[i] \in {"up", "orphaned"} =>
      i \in ledger \/ (intent.status \in {"pending", "quiescent"} /\ i \in intent.ids)

(* A recorded cancellation completes, whoever dies, unless daemon and      *)
(* watchdog are killed at once, a group has no recorded member left to     *)
(* signal it by, or a canceller that gave up reopens a completed intent.   *)
CancellationCompletes ==
  Pending ~> \/ intent.status = "completed" \/ unguarded \/ reopened
             \/ \E i \in Children : child[i] = "orphaned"

(* Said in autonomous-owner-recovery.ts: watchdog and daemon re-ensure     *)
(* each other until the intent is complete.                                *)
GuardedUntilComplete ==
  Pending ~> intent.status = "completed" \/ unguarded \/ \E i \in Children : child[i] = "orphaned"
=============================================================================
