--------------------------- MODULE OwnerRecovery ---------------------------
(***************************************************************************)
(* The recovery daemon brings back the supervisor of an autonomous session *)
(* (services/autonomous-owner-recovery.ts, services/session.ts,            *)
(* bin/supervised-runner.ts, services/autonomous-budget.ts).               *)
(*                                                                         *)
(* A supervisor records itself as the owner in state.json and launches one *)
(* executor after another; an executor that runs out of its budget leaves  *)
(* a rollover intent for the next.  Supervisors and executors may be       *)
(* killed.  The daemon of the session plans a restoration when the owner   *)
(* is missing, claims it, spawns a replacement and publishes it, or reaps  *)
(* it when the claim was lost.  Every other command of the program         *)
(* (status, get-session ...) reconciles the same state, in a read and a    *)
(* later update.                                                           *)
(*                                                                         *)
(* A session is owned by a detached process or by the process of a tmux    *)
(* pane.  The processes are numbered in the order in which they start.     *)
(* The leases that keep two executors apart are modelled elsewhere: here   *)
(* an executor starts when none is left.  Delays and deadlines may pass at *)
(* any moment.                                                             *)
(***************************************************************************)
EXTENDS Naturals

CONSTANTS Modes,     \* of "process" and "tmux"
          MaxSups,   \* supervisor processes at one time
          MaxEpoch,  \* autonomous budget rollovers in a session of each mode
          MaxEvents  \* kills, failed launches and publications, and
                     \* reconciliations by other commands, together

ASSUME ModesAssumption == Modes \subseteq {"process", "tmux"}
ASSUME ORBoundsAssumption ==
  MaxSups \in Nat \ {0} /\ MaxEpoch \in [Modes -> Nat] /\ MaxEvents \in Nat

VARIABLES
  mode,    \* owner_mode of the session
  st,      \* state.json
  rest,    \* autonomous_owner_restoration in state.json; "mine": the
           \* running daemon has claimed this very intent
  late,    \* max_time has passed since the run started
  sup,     \* the supervisors
  exec,    \* the executor and the supervisor that waits for it
  worker,  \* the monitored child of an executor: "none", "own" or "stray"
  dm,      \* the daemon: step, spawned replacement
  look,    \* what the daemon and another command have read
  events,  \* of those that MaxEvents events
  stale    \* a restoration was planned beside a live supervisor, or in
           \* place of the claim of a live restorer

procVars == <<sup, exec, worker>>
orVars   == <<mode, st, rest, late, procVars, dm, look, events, stale>>

Sups    == 1..MaxSups
Lookers == {"daemon", "command"}
NoRest  == [st |-> "none", kind |-> "none", epoch |-> 0, mine |-> FALSE]
NoLook  == [what |-> "none", missing |-> FALSE, epoch |-> 0]
NoExec  == [of |-> 0, at |-> "none"]

(* state.json: "reason" is last_exit_reason, "roll" says that a rollover   *)
(* intent is set, "runner" that tmux_runner_pid is; "owner" is the         *)
(* supervisor's identity, 0 before the first has registered.               *)
ORInit ==
  /\ mode \in Modes
  /\ st = [active |-> FALSE, reason |-> "none", done |-> FALSE, cancelled |-> FALSE,
           required |-> FALSE, roll |-> FALSE, epoch |-> 0, runner |-> FALSE, owner |-> 0]
  /\ rest = NoRest /\ late = FALSE
  /\ sup = [s \in Sups |-> IF s = 1 THEN "booting" ELSE "gone"]
  /\ exec = NoExec /\ worker = "none"
  /\ dm = [at |-> "none", kid |-> 0]
  /\ look = [p \in Lookers |-> NoLook]
  /\ events = 0 /\ stale = FALSE

Alive(s)    == s \in Sups /\ sup[s] \in {"booting", "up"}
OwnerAlive  == Alive(st.owner)
SomeAlive   == \E s \in Sups : Alive(s)
RunnerAlive == st.runner /\ exec.at = "running"
Ended       == st.cancelled \/ st.done
\* The daemon that claimed the restoration is alive.
RestorerAlive == rest.st = "restoring" /\ rest.mine
\* A new process gets a number that nobody holds or remembers.
Free        == {s \in Sups : sup[s] = "gone"} \ {st.owner}
Event       == events < MaxEvents /\ events' = events + 1
Fresh(s)    == s \in Free /\ \A t \in Free : s <= t
\* reapRecordedLiveProcessGroup: the supervisor with the executor it runs.
ReapSup(s) == /\ sup' = [sup EXCEPT ![s] = "gone"]
              /\ exec' = IF exec.of = s THEN NoExec ELSE exec
              /\ worker' = IF exec.of = s /\ worker = "own" THEN "stray" ELSE worker

(* restorationMatchesControlState                                          *)
Matches ==
  IF rest.kind = "loss"
  THEN ~st.active /\ st.reason = "lost" /\ ~st.required
  ELSE rest.kind = "roll" /\ st.roll /\ rest.epoch = st.epoch

Plan(kind) == rest' = [st |-> "pending", kind |-> kind, mine |-> FALSE,
                       epoch |-> IF kind = "roll" THEN st.epoch ELSE 0]

-----------------------------------------------------------------------------
(* Supervisors.                                                            *)

\* ensureAutonomousOwnerRecoveryDaemon
Ensured == IF dm.at = "none" /\ ~st.cancelled THEN [dm EXCEPT !.at = "starting"] ELSE dm

(* registerAutonomousOwnerSpec and the daemon that is ensured after it.  A *)
(* detached process also settles the rollover restoration it comes from.   *)
Register(s) ==
  /\ sup[s] = "booting" /\ sup' = [sup EXCEPT ![s] = "up"]
  /\ LET settles == mode = "process" /\ rest.st = "restoring" /\ rest.kind = "roll" /\ Matches
     IN IF st.cancelled THEN UNCHANGED <<st, rest>>
        ELSE /\ st' = [st EXCEPT !.owner = s, !.required = @ /\ ~settles]
             /\ rest' = IF settles THEN [rest EXCEPT !.st = "restored"] ELSE rest
  /\ dm' = Ensured
  /\ UNCHANGED <<mode, late, exec, worker, look, events, stale>>

AtLoopTop(s) == sup[s] = "up" /\ exec.of # s

EnsureDaemon(s) ==
  /\ AtLoopTop(s) /\ Ensured # dm /\ dm' = Ensured
  /\ UNCHANGED <<mode, st, rest, late, procVars, look, events, stale>>

(* supervisedRunnerDecision: 'restart', when the delay of a rollover has   *)
(* passed.                                                                 *)
Launch(s) ==
  /\ AtLoopTop(s) /\ exec = NoExec /\ ~Ended
  /\ exec' = [of |-> s, at |-> "starting"]
  /\ UNCHANGED <<mode, st, rest, late, sup, worker, dm, look, events, stale>>

\* 'completed' or 'cancelled'
Leave(s) ==
  /\ AtLoopTop(s) /\ Ended
  /\ sup' = [sup EXCEPT ![s] = "gone"]
  /\ UNCHANGED <<mode, st, rest, late, exec, worker, dm, look, events, stale>>

(* assertRecordedActiveChildRecovered after a crash: the supervisor reaps  *)
(* what the executor left, or ends with an exception.                      *)
AfterCrash(s) ==
  /\ sup[s] = "up" /\ exec = [of |-> s, at |-> "crashed"] /\ exec' = NoExec
  /\ \/ worker' = "none" /\ UNCHANGED sup
        /\ st' = [st EXCEPT !.required = @ /\ worker = "none"]
     \/ worker # "none" /\ sup' = [sup EXCEPT ![s] = "gone"]
        /\ st' = [st EXCEPT !.required = TRUE] /\ UNCHANGED worker
  /\ UNCHANGED <<mode, rest, late, dm, look, events, stale>>

-----------------------------------------------------------------------------
(* The executor: runSequentialWithLease.                                   *)

\* assertRecordedActiveChildRecovered at the start
ReapBeforeRun ==
  /\ exec.at = "starting" /\ worker # "none"
  /\ \/ worker' = "none" /\ st' = [st EXCEPT !.required = FALSE] /\ UNCHANGED exec
     \/ st' = [st EXCEPT !.required = TRUE] /\ exec' = NoExec /\ UNCHANGED worker
  /\ UNCHANGED <<mode, rest, late, sup, dm, look, events, stale>>

\* consumeAutonomousBudgetRollover
Consume ==
  /\ exec.at = "starting" /\ worker = "none"
  /\ exec' = [exec EXCEPT !.at = "entering"]
  /\ st' = IF st.active /\ ~st.cancelled THEN [st EXCEPT !.roll = FALSE] ELSE st
  /\ UNCHANGED <<mode, rest, late, sup, worker, dm, look, events, stale>>

\* enterMuxRunnerPhase: throws for a cancelled session
Enter ==
  /\ exec.at = "entering"
  /\ IF st.cancelled THEN exec' = NoExec /\ UNCHANGED <<st, late>>
     ELSE /\ exec' = [exec EXCEPT !.at = "running"] /\ late' = FALSE
          /\ st' = [st EXCEPT !.active = TRUE, !.runner = TRUE, !.reason = "none"]
  /\ UNCHANGED <<mode, rest, sup, worker, dm, look, events, stale>>

\* The executor runs a worker while it takes its session for active.
StartWorker ==
  /\ exec.at = "running" /\ worker = "none" /\ st.active
  /\ worker' = "own"
  /\ UNCHANGED <<mode, st, rest, late, sup, exec, dm, look, events, stale>>

WorkerEnds ==
  /\ worker # "none" /\ worker' = "none"
  /\ UNCHANGED <<mode, st, rest, late, sup, exec, dm, look, events, stale>>

\* scheduleAutonomousBudgetRollover
Rollover ==
  /\ exec.at = "running" /\ worker = "none" /\ st.active /\ ~st.cancelled /\ ~st.roll
  /\ st.epoch < MaxEpoch[mode]
  /\ st' = [st EXCEPT !.roll = TRUE, !.epoch = @ + 1, !.reason = "rollover"]
  /\ late' = FALSE /\ exec' = NoExec
  /\ UNCHANGED <<mode, rest, sup, worker, dm, look, events, stale>>

(* exitMuxRunnerPhase: a reason somebody else gave stays.                  *)
ExecutorExits ==
  /\ exec.at = "running" /\ worker = "none"
  /\ \E why \in {"other", "done"} :
       st' = [st EXCEPT !.active = FALSE, !.runner = FALSE,
                        !.reason = IF st.active THEN why ELSE @,
                        !.done = @ \/ (why = "done" /\ st.active)]
  /\ exec' = NoExec
  /\ UNCHANGED <<mode, rest, late, sup, worker, dm, look, events, stale>>

-----------------------------------------------------------------------------
(* reconcileSessionLiveness: the read, and what it finds.                  *)

Reads(p, what, missing) ==
  look' = [look EXCEPT ![p] = [what |-> what, missing |-> missing, epoch |-> st.epoch]]

Planned == rest.kind = "roll" /\ rest.epoch = st.epoch /\ rest.st \in {"pending", "restoring"}
RunnerMissing == mode = "tmux" /\ ~RunnerAlive

\* A rollover whose owner is missing, or whose relaunch is overdue.
SeesRollover(p) ==
  /\ ~Ended /\ st.roll /\ ~st.required
  /\ Reads(p, "roll", ~OwnerAlive)
  /\ UNCHANGED worker

(* The executor of an active session is gone or its time is over: what it  *)
(* left is reaped, unless its controller is alive.                         *)
SeesNoRunner(p) ==
  /\ ~Ended /\ ~st.roll /\ st.active /\ (RunnerMissing \/ late)
  /\ ~(worker = "own" /\ exec.at = "running")
  /\ worker' = "none" /\ Reads(p, IF late THEN "late" ELSE "lost", RunnerMissing)

SeesOrphan(p) ==
  /\ ~Ended /\ ~st.roll /\ st.active /\ (RunnerMissing \/ late)
  /\ worker # "none"
  /\ Reads(p, "orphan", RunnerMissing) /\ UNCHANGED worker

\* Nothing to do, or the relaunch is planned and its deadline not passed.
SeesNothing(p) ==
  /\ \/ Ended
     \/ st.roll /\ (st.required \/ (st.active /\ (OwnerAlive \/ Planned)))
     \/ ~st.roll /\ (~st.active \/ ~(RunnerMissing \/ late))
  /\ look' = [look EXCEPT ![p] = NoLook] /\ UNCHANGED worker

Look(p) == SeesRollover(p) \/ SeesNoRunner(p) \/ SeesOrphan(p) \/ SeesNothing(p)

-----------------------------------------------------------------------------
(* reconcileSessionLiveness: the update that follows from the read.        *)

Superseded(p) == ~st.roll \/ st.epoch # look[p].epoch \/ st.cancelled
Relaunching == [st EXCEPT !.active = TRUE, !.reason = "rollover", !.runner = FALSE]

\* Fault: one restoration for each rollover.
PlanOnce(p) ==
  /\ look[p].what = "roll"
  /\ IF Superseded(p) THEN UNCHANGED <<st, rest, stale>>
     ELSE /\ st' = Relaunching
          /\ IF look[p].missing /\ ~(rest.kind = "roll" /\ rest.epoch = st.epoch)
             THEN Plan("roll") /\ stale' = (stale \/ SomeAlive \/ RestorerAlive)
             ELSE UNCHANGED <<rest, stale>>
  /\ UNCHANGED late

\* Fault: an overdue relaunch is taken for a missing owner.
PlanOverdue(p) ==
  /\ look[p].what = "roll"
  /\ IF Superseded(p) THEN UNCHANGED <<st, rest, stale>>
     ELSE /\ st' = Relaunching
          /\ IF rest.st \notin {"pending", "restoring"}
             THEN Plan("roll") /\ stale' = (stale \/ (look[p].missing /\ SomeAlive) \/ RestorerAlive)
             ELSE UNCHANGED <<rest, stale>>
  /\ UNCHANGED late

(* The owner of a rollover is missing: a restoration is planned for this   *)
(* intent, or planned again when the last one is over or its restorer is   *)
(* dead; one that failed may be tried again.                               *)
PlanRestoration(p) ==
  /\ look[p].what = "roll"
  /\ IF Superseded(p) THEN UNCHANGED <<st, rest, stale>>
     ELSE LET same == rest.kind = "roll" /\ rest.epoch = st.epoch
              over == ~same \/ rest.st = "restored" \/ (rest.st = "restoring" /\ ~RestorerAlive)
          IN /\ st' = Relaunching
             /\ IF look[p].missing /\ over
                THEN Plan("roll") /\ stale' = (stale \/ SomeAlive \/ RestorerAlive)
                ELSE /\ rest' = IF look[p].missing /\ rest.st = "failed"
                                THEN [rest EXCEPT !.st = "pending"] ELSE rest
                     /\ UNCHANGED stale
  /\ UNCHANGED late

\* runner_lost
MarkLost(p) ==
  /\ look[p].what = "lost"
  /\ st' = IF st.active
           THEN [st EXCEPT !.active = FALSE, !.reason = "lost", !.runner = FALSE, !.required = FALSE]
           ELSE st
  /\ UNCHANGED <<rest, late, stale>>

(* runner_lost_orphaned_child, max_time_orphaned_child: whatever happened   *)
(* since.  A worker that appears after the read makes the repair of a       *)
(* rollover return nothing and come here.                                   *)
MarkOrphan(p) ==
  /\ \/ look[p].what = "orphan"
     \/ /\ look[p].what = "late" /\ worker # "none"
        /\ st.active /\ ~st.cancelled /\ ~st.roll /\ rest.st \notin {"pending", "restoring"}
  /\ st' = [st EXCEPT !.active = FALSE, !.required = TRUE,
                      !.reason = IF look[p].missing THEN "lost orphan" ELSE "late orphan"]
  /\ UNCHANGED <<rest, late, stale>>

(* The elapsed session gets the rollover its executor has not scheduled;   *)
(* this throws beside a restoration that is under way.                     *)
RepairRollover(p) ==
  /\ look[p].what = "late"
  /\ IF st.active /\ ~st.cancelled /\ ~st.roll /\ ~st.required /\ worker = "none"
        /\ rest.st \notin {"pending", "restoring"} /\ st.epoch < MaxEpoch[mode]
     THEN st' = [st EXCEPT !.roll = TRUE, !.epoch = @ + 1, !.reason = "rollover"] /\ late' = FALSE
     ELSE UNCHANGED <<st, late>>
  /\ UNCHANGED <<rest, stale>>

Update(p) == PlanRestoration(p) \/ MarkLost(p) \/ MarkOrphan(p) \/ RepairRollover(p)

\* Another command reconciles.
CommandLooks ==
  /\ look["command"] = NoLook /\ Event
  /\ Look("command")
  /\ UNCHANGED <<mode, st, rest, late, sup, exec, dm, stale>>

CommandUpdates ==
  /\ Update("command") /\ look' = [look EXCEPT !["command"] = NoLook]
  /\ UNCHANGED <<mode, procVars, dm, events>>

-----------------------------------------------------------------------------
(* runAutonomousOwnerRecoveryDaemon                                        *)

DaemonAt(a, b) == dm.at = a /\ dm' = [dm EXCEPT !.at = b]

DaemonStarts ==
  /\ DaemonAt("starting", "pass")
  /\ UNCHANGED <<mode, st, rest, late, procVars, look, events, stale>>

DaemonLeaves ==
  /\ DaemonAt("pass", "none") /\ Ended
  /\ rest' = [rest EXCEPT !.mine = FALSE]
  /\ UNCHANGED <<mode, st, late, procVars, look, events, stale>>

(* prepareRunnerLossOwnerRestoration: the child of a lost executor is      *)
(* reaped or found gone, and then the loss is an ordinary one.             *)
ReapOrphan ==
  /\ DaemonAt("pass", "reaped") /\ ~Ended
  /\ ~st.active /\ st.reason = "lost orphan" /\ st.required
  /\ worker' = "none" /\ st' = [st EXCEPT !.required = FALSE]
  /\ UNCHANGED <<mode, rest, late, sup, exec, look, events, stale>>

OrphanRecovered ==
  /\ DaemonAt("reaped", "prepare")
  /\ st' = IF ~st.active /\ st.reason = "lost orphan" /\ ~st.required
           THEN [st EXCEPT !.reason = "lost"] ELSE st
  /\ UNCHANGED <<mode, rest, late, procVars, look, events, stale>>

(* The restoration of a lost owner is planned, unless the supervisor lives *)
(* or a restoration of this kind is pending or claimed by anybody.         *)
Prepare ==
  /\ dm.at \in {"pass", "prepare"} /\ ~(dm.at = "pass" /\ Ended) /\ dm' = [dm EXCEPT !.at = "look"]
  /\ IF /\ ~st.active /\ st.reason = "lost" /\ ~st.required /\ ~st.cancelled
        /\ st.owner # 0 /\ ~OwnerAlive
        /\ ~(rest.kind = "loss" /\ rest.st \in {"pending", "restoring"})
     THEN Plan("loss") ELSE UNCHANGED rest
  /\ UNCHANGED <<mode, st, late, procVars, look, events, stale>>

\* restoreAutonomousBudgetOwner: nothing while recovery is required
DaemonLooks ==
  /\ dm.at = "look"
  /\ IF st.required \/ st.cancelled
     THEN dm' = [dm EXCEPT !.at = "pass"] /\ UNCHANGED <<look, worker>>
     ELSE dm' = [dm EXCEPT !.at = "update"] /\ Look("daemon")
  /\ UNCHANGED <<mode, st, rest, late, sup, exec, events, stale>>

DaemonUpdates ==
  /\ dm.at = "update"
  /\ IF look["daemon"] = NoLook THEN UNCHANGED <<st, rest, late, stale>>
     ELSE Update("daemon")
  /\ look' = [look EXCEPT !["daemon"] = NoLook]
  /\ dm' = [dm EXCEPT !.at = "claim"]
  /\ UNCHANGED <<mode, procVars, events>>

\* The delay of a restoration may not have passed.
DaemonWaits ==
  /\ DaemonAt("claim", "pass")
  /\ UNCHANGED <<mode, st, rest, late, procVars, look, events, stale>>

Claim ==
  /\ dm.at = "claim" /\ ~st.cancelled /\ ~st.required
  /\ Matches /\ rest.st \in {"pending", "failed"}
  /\ rest' = [rest EXCEPT !.st = "restoring", !.mine = TRUE]
  /\ dm' = [dm EXCEPT !.at = "claimed"]
  /\ UNCHANGED <<mode, st, late, procVars, look, events, stale>>

(* failRestoration: an integrity failure asks for help.                    *)
Failed(unsafe) ==
  IF rest.mine /\ ~st.cancelled
  THEN rest' = [rest EXCEPT !.st = "failed"] /\ st' = [st EXCEPT !.required = unsafe]
  ELSE UNCHANGED <<rest, st>>

Spawn ==
  /\ mode = "process" /\ dm.at = "claimed"
  /\ \E s \in Sups : Fresh(s) /\ sup' = [sup EXCEPT ![s] = "booting"]
                     /\ dm' = [dm EXCEPT !.at = "launched", !.kid = s]
  /\ UNCHANGED <<mode, st, rest, late, exec, worker, look, events, stale>>

(* respawnOwnedTmuxPane kills whatever runs in the pane: a supervisor with *)
(* its executor.                                                           *)
Respawn ==
  /\ mode = "tmux" /\ dm.at = "claimed"
  /\ \E s \in Sups :
       /\ Fresh(s) /\ sup' = [t \in Sups |-> IF t = s THEN "booting" ELSE "gone"]
       /\ exec' = NoExec
       /\ worker' = IF worker = "own" THEN "stray" ELSE worker
       /\ dm' = [dm EXCEPT !.at = "launched", !.kid = s]
  /\ UNCHANGED <<mode, st, rest, late, look, events, stale>>

SpawnFails ==
  /\ dm.at = "claimed" /\ Event
  /\ \E unsafe \in BOOLEAN : Failed(unsafe)
  /\ dm' = [dm EXCEPT !.at = "pass"]
  /\ UNCHANGED <<mode, late, procVars, look, stale>>

Kid == dm.kid
MyClaim == rest.mine /\ rest.st = "restoring"
SettledByKid == rest.mine /\ rest.st = "restored" /\ st.owner = Kid

\* The claim still stands, or the child has settled it.
PublishOwner ==
  /\ mode = "process" /\ DaemonAt("launched", "pass") /\ ~st.cancelled
  /\ \/ SettledByKid /\ UNCHANGED <<st, rest>>
     \/ /\ MyClaim
        /\ st' = [st EXCEPT !.owner = Kid, !.required = FALSE]
        /\ rest' = [rest EXCEPT !.st = "restored"]
  /\ UNCHANGED <<mode, late, procVars, look, events, stale>>

\* Cancelled, or the claim is another's: the replacement is reaped.
ReapReplacement ==
  /\ mode = "process" /\ DaemonAt("launched", "pass")
  /\ st.cancelled \/ ~(SettledByKid \/ MyClaim)
  /\ ReapSup(Kid)
  /\ UNCHANGED <<mode, st, rest, late, look, events, stale>>

\* The update found state.json locked: the replacement is reaped.
PublishOwnerFails ==
  /\ mode = "process" /\ DaemonAt("launched", "pass")
  /\ Event
  /\ ReapSup(Kid) /\ Failed(FALSE)
  /\ UNCHANGED <<mode, late, look, stale>>

\* The pane is the new owner, or its session is killed.
PublishPane ==
  /\ mode = "tmux" /\ DaemonAt("launched", "pass")
  /\ IF ~st.cancelled /\ MyClaim
     THEN /\ rest' = [rest EXCEPT !.st = "restored"] /\ st' = [st EXCEPT !.required = FALSE]
          /\ UNCHANGED procVars
     ELSE ReapSup(Kid) /\ UNCHANGED <<st, rest>>
  /\ UNCHANGED <<mode, late, look, events, stale>>

-----------------------------------------------------------------------------
(* The world outside.                                                      *)

Cancel ==
  /\ ~Ended
  /\ st' = [st EXCEPT !.cancelled = TRUE, !.active = FALSE, !.reason = "cancelled"]
  /\ UNCHANGED <<mode, rest, late, procVars, dm, look, events, stale>>

TimePasses ==
  /\ st.active /\ ~late /\ ~st.roll /\ late' = TRUE
  /\ UNCHANGED <<mode, st, rest, procVars, dm, look, events, stale>>

KillSupervisor ==
  /\ Event
  /\ \E s \in Sups : /\ Alive(s) /\ sup' = [sup EXCEPT ![s] = "gone"]
                     /\ exec' = IF exec = [of |-> s, at |-> "crashed"] THEN NoExec
                                ELSE IF exec.of = s THEN [exec EXCEPT !.of = 0] ELSE exec
  /\ UNCHANGED <<mode, st, rest, late, worker, dm, look, stale>>

KillExecutor ==
  /\ Event
  /\ exec.at \in {"starting", "entering", "running"}
  /\ exec' = IF Alive(exec.of) THEN [exec EXCEPT !.at = "crashed"] ELSE NoExec
  /\ worker' = IF worker = "own" THEN "stray" ELSE worker
  /\ UNCHANGED <<mode, st, rest, late, sup, dm, look, stale>>

KillDaemon ==
  /\ Event
  /\ dm.at \notin {"none", "starting"} /\ dm' = [dm EXCEPT !.at = "none"]
  /\ look' = [look EXCEPT !["daemon"] = NoLook]
  /\ rest' = [rest EXCEPT !.mine = FALSE]
  /\ UNCHANGED <<mode, st, late, procVars, stale>>

-----------------------------------------------------------------------------
SupervisorStep(s) ==
  Register(s) \/ EnsureDaemon(s) \/ Launch(s) \/ Leave(s) \/ AfterCrash(s)

ExecutorStep ==
  ReapBeforeRun \/ Consume \/ Enter \/ StartWorker \/ WorkerEnds \/ Rollover \/ ExecutorExits

DaemonStep ==
  \/ DaemonStarts \/ DaemonLeaves \/ ReapOrphan \/ OrphanRecovered \/ Prepare
  \/ DaemonLooks \/ DaemonUpdates \/ DaemonWaits \/ Claim
  \/ Spawn \/ Respawn \/ SpawnFails
  \/ PublishOwner \/ ReapReplacement \/ PublishOwnerFails \/ PublishPane

ORNext ==
  \/ \E s \in Sups : SupervisorStep(s)
  \/ ExecutorStep \/ CommandLooks \/ CommandUpdates \/ DaemonStep
  \/ Cancel \/ TimePasses \/ KillSupervisor \/ KillExecutor \/ KillDaemon

(* A live process takes its next step; an executor's worker ends at last   *)
(* and so does the executor.  The delay of a restoration passes: a daemon  *)
(* that may claim again and again does.                                    *)
ORFairness ==
  /\ \A s \in Sups : WF_orVars(SupervisorStep(s))
  /\ WF_orVars(ReapBeforeRun \/ Consume \/ Enter) /\ WF_orVars(WorkerEnds)
  /\ WF_orVars(DaemonStep) /\ SF_orVars(Claim)
  /\ WF_orVars(CommandUpdates)

ORSpec == ORInit /\ [][ORNext]_orVars /\ ORFairness

-----------------------------------------------------------------------------
States    == [active : BOOLEAN, done : BOOLEAN, cancelled : BOOLEAN, required : BOOLEAN,
              roll : BOOLEAN, runner : BOOLEAN, owner : 0..MaxSups, epoch : Nat,
              reason : {"none", "rollover", "lost", "lost orphan", "late orphan",
                        "other", "done", "cancelled"}]
Intents   == [st : {"none", "pending", "restoring", "restored", "failed"},
              kind : {"none", "loss", "roll"}, epoch : Nat, mine : BOOLEAN]
Executors == [of : 0..MaxSups, at : {"none", "starting", "entering", "running", "crashed"}]
Daemons   == [at : {"none", "starting", "pass", "reaped", "prepare", "look", "update",
                    "claim", "claimed", "launched"}, kid : 0..MaxSups]
Readings  == [what : {"none", "roll", "late", "lost", "orphan"},
              missing : BOOLEAN, epoch : Nat]

ORTypeOK ==
  /\ mode \in {"process", "tmux"}
  /\ st \in States /\ rest \in Intents /\ exec \in Executors /\ dm \in Daemons
  /\ sup \in [Sups -> {"booting", "up", "gone"}]
  /\ worker \in {"none", "own", "stray"}
  /\ look \in [Lookers -> Readings]
  /\ late \in BOOLEAN /\ stale \in BOOLEAN /\ events \in 0..MaxEvents

(* A rollover whose owner has died is owned again, or consumed, or held    *)
(* for a human or by a cancellation, as long as a daemon is there: a dead  *)
(* restorer, a failed launch and another command's update do not leave it  *)
(* (session.ts 934-960).                                                   *)
RolloverOwned ==
  (mode = "process" /\ st.roll /\ ~OwnerAlive /\ dm.at # "none")
    ~> (OwnerAlive \/ ~st.roll \/ st.required \/ Ended \/ dm.at = "none")

(* No step of the daemon, and no registration, displaces or reaps a live   *)
(* recorded owner of a process session, except after a cancellation, when  *)
(* the publication itself fails, or when a reconciliation planned one more *)
(* restoration: beside a live supervisor (it had read the state before the *)
(* owner registered, or the restorer of a booting replacement had died),   *)
(* or for a later rollover in place of the claim of a live restorer, which *)
(* then reaps its replacement though that has registered                   *)
(* (session.ts 944, autonomous-owner-recovery.ts 971-1039).                *)
LiveOwnerStays ==
  [][(/\ mode = "process" /\ OwnerAlive /\ ~stale /\ ~Ended
      /\ (dm' # dm \/ st'.owner # st.owner))
     => \/ st'.owner = st.owner /\ sup'[st.owner] # "gone"
        \/ events' # events]_orVars
=============================================================================
