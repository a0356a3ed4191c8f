-------------------------- MODULE MonitoredProcess --------------------------
(***************************************************************************)
(* A monitored model process (services/codex.ts runSpawnedCommand,         *)
(* bin/monitored-process-broker.ts, services/monitored-process-ownership). *)
(*                                                                         *)
(* A controller spawns a broker, which leads a process group of its own,   *)
(* starts the target in it, stopped, and releases it only once the         *)
(* controller has written its identity to the ledger of state.json.  The   *)
(* two talk over an IPC channel that ends with the controller.  At the end *)
(* the broker freezes the tree, reports every descendant it attested, and  *)
(* kills the group when the controller has stored that report or is gone.  *)
(* The ledger is what a later controller reaps after a crash.              *)
(*                                                                         *)
(* One descendant stands for all of them.  A process is "gone" when its    *)
(* identity is not running; "own" is a descendant that leads a group of    *)
(* its own.  Once the broker's group is gone its number may be taken by a  *)
(* foreign group, whose identity does not match the recorded one.          *)
(***************************************************************************)
EXTENDS Naturals, Sequences, FiniteSets

CONSTANTS MaxCalls,     \* monitored calls of all controllers
          MaxCrashes    \* controllers that die

ASSUME BoundsAssumption == MaxCalls \in Nat /\ MaxCrashes \in Nat

VARIABLES
  ctl,        \* the controller: what it does for its current call
  cause,      \* terminationCause of the controller, or "none"
  acked,      \* shutdownAckObserved
  flaw,       \* protocolFailure, or a record that could not be written
  fallback,   \* the controller's fallback timer is armed
  result,     \* outcome of the last finished call
  brk,        \* the broker
  conn,       \* the controller that spawned the broker is alive
  stuck,      \* the broker is alive and takes no more steps
  tgt,        \* the target, behind its guardian
  dsc,        \* the descendant
  seen,       \* 0: unknown, 1: candidate, 2: attested by the broker
  toBroker, toController,   \* the IPC channel
  ledger,     \* active_child_identities in state.json
  foreign,    \* the group number belongs to a foreign process group
  hurt,       \* a foreign group has been signalled
  brkKilled,  \* somebody outside killed the broker alone
  calls, crashes

ctlVars  == <<ctl, cause, acked, flaw, fallback, result>>
brkVars  == <<brk, conn, stuck>>
treeVars == <<tgt, dsc, seen>>
ipc      == <<toBroker, toController>>
outside  == <<foreign, hurt, brkKilled, calls, crashes>>
mpVars   == <<ctlVars, brkVars, treeVars, ipc, ledger, outside>>

BrokerUp   == brk \notin {"none", "gone"}
TargetUp   == tgt \in {"stopped", "running"}
DescUp     == dsc \in {"group", "own"}
\* process.kill(-pgid, 0): somebody is in the group of that number.
GroupAlive == BrokerUp \/ TargetUp \/ dsc = "group" \/ foreign

\* Fault: the identities alone, without their groups.
AbsentIdentities(ids) ==
  /\ "b" \in ids => ~BrokerUp
  /\ "t" \in ids => ~TargetUp
  /\ "d" \in ids => ~DescUp

\* allAbsent: no recorded identity runs, and no group of theirs exists.
Absent(ids) ==
  /\ ids # {} => ~GroupAlive
  /\ "d" \in ids => ~DescUp

MPInit ==
  /\ ctl = "idle" /\ cause = "none" /\ acked = FALSE /\ flaw = FALSE
  /\ fallback = FALSE /\ result = "none"
  /\ brk = "none" /\ conn = FALSE /\ stuck = FALSE
  /\ tgt = "none" /\ dsc = "none" /\ seen = 0
  /\ toBroker = <<>> /\ toController = <<>>
  /\ ledger = {}
  /\ foreign = FALSE /\ hurt = FALSE /\ brkKilled = FALSE /\ calls = 0 /\ crashes = 0

-----------------------------------------------------------------------------
(* The controller's side.                                                  *)

(* spawn of the broker and capture of its identity.  Whatever is left of   *)
(* an earlier tree is no longer followed: onSpawn refuses while any of it  *)
(* is on the ledger, and a broker without a launch ends by itself.         *)
SpawnBroker ==
  /\ ctl = "idle" /\ calls < MaxCalls /\ Absent(ledger)
  /\ ctl' = "spawned" /\ calls' = calls + 1
  /\ cause' = "none" /\ acked' = FALSE /\ flaw' = FALSE /\ fallback' = FALSE /\ result' = "none"
  /\ brk' = "waiting" /\ conn' = TRUE /\ stuck' = FALSE
  /\ tgt' = "none" /\ dsc' = "none" /\ seen' = 0
  /\ toBroker' = <<>> /\ toController' = <<>>
  /\ foreign' = FALSE /\ brkKilled' = FALSE
  /\ UNCHANGED <<ledger, hurt, crashes>>

(* onSpawn refuses to overwrite live ownership: the new broker is ended    *)
(* before it was given anything to launch.                                 *)
SpawnRefused ==
  /\ ctl = "idle" /\ calls < MaxCalls /\ ~Absent(ledger)
  /\ calls' = calls + 1 /\ result' = "failed"
  /\ UNCHANGED <<ctl, cause, acked, flaw, fallback, brkVars, treeVars, ipc, ledger,
                 foreign, hurt, brkKilled, crashes>>

(* onSpawn publishes the broker; the launch request follows.               *)
Publish ==
  /\ ctl = "spawned"
  /\ ledger' = {"b"}
  /\ toBroker' = IF BrokerUp THEN <<"launch">> ELSE <<>>
  /\ ctl' = "launching"
  /\ UNCHANGED <<cause, acked, flaw, fallback, result, brkVars, treeVars, toController, outside>>

(* The identity could not be captured or the record not be written: the    *)
(* unreleased broker is terminated and the call fails.                     *)
PublishFails ==
  /\ ctl = "spawned"
  /\ brk' = "gone"
  /\ ctl' = "idle" /\ result' = "failed"
  /\ UNCHANGED <<cause, acked, flaw, fallback, conn, stuck, treeVars, ipc, ledger, outside>>

Send(m) == toBroker' = IF BrokerUp THEN Append(toBroker, m) ELSE toBroker

(* requestBrokerShutdown: a message that may find the channel closed, and  *)
(* the timer that kills the group when nothing comes back.                 *)
RequestShutdown == Send("terminate") /\ fallback' = TRUE

Waiting  == ctl \in {"launching", "launched", "armed", "closing"}
Heard(m) == Waiting /\ toController # <<>> /\ Head(toController) = m
            /\ toController' = Tail(toController)

\* Fault: the release is sent before the record is written.
ReleaseThenRecord ==
  /\ ctl = "launching" /\ Heard("launched")
  /\ Send("release")
  /\ ctl' = "launched"
  /\ UNCHANGED <<cause, acked, flaw, fallback, result, brkVars, treeVars, ledger, outside>>

(* 'launched': the target is recorded before it is released; when it       *)
(* cannot be attested or recorded the broker is told to shut down.         *)
OnLaunched ==
  /\ ctl = "launching" /\ Heard("launched")
  /\ \/ /\ ledger = {"b"} /\ TargetUp
        /\ ledger' = {"b", "t"}
        /\ Send("release")
        /\ ctl' = "launched" /\ UNCHANGED <<flaw, fallback>>
     \/ /\ RequestShutdown
        /\ flaw' = TRUE /\ ctl' = "closing" /\ UNCHANGED ledger
  /\ UNCHANGED <<cause, acked, result, brkVars, treeVars, outside>>

(* 'released' arms the timeout, the success poll and the cancel poll.      *)
OnReleased ==
  /\ ctl = "launched" /\ Heard("released")
  /\ ctl' = "armed"
  /\ UNCHANGED <<cause, acked, flaw, fallback, result, brkVars, treeVars, toBroker, ledger, outside>>

(* 'descendants': the ledger only grows while the call runs.               *)
OnDescendants ==
  /\ Heard("descendants")
  /\ ledger' = IF "t" \in ledger THEN ledger \cup {"d"} ELSE ledger
  /\ UNCHANGED <<ctlVars, brkVars, treeVars, toBroker, outside>>

(* requestTermination: once, and not after the broker has exited.          *)
Terminate ==
  /\ ctl = "armed" /\ cause = "none" /\ BrokerUp
  /\ cause' \in {"success", "cancel", "timeout"}
  /\ RequestShutdown
  /\ ctl' = "closing"
  /\ UNCHANGED <<acked, flaw, result, brkVars, treeVars, toController, ledger, outside>>

\* Fault: an acknowledgement ends the watch over the broker.
AckEndsWatch ==
  /\ Heard("ack")
  /\ acked' = TRUE /\ fallback' = FALSE
  /\ ledger' = IF seen = 2 /\ "t" \in ledger THEN ledger \cup {"d"} ELSE ledger
  /\ Send("shutdown_release")
  /\ UNCHANGED <<ctl, cause, flaw, result, brkVars, treeVars, outside>>

(* 'shutdown_ack': the descendants it carries are stored before the broker *)
(* is released to drain; the timer is armed again for a broker that hangs. *)
(* When they cannot be stored there is no acknowledgement.                 *)
OnAck ==
  /\ Heard("ack")
  /\ \/ /\ acked' = TRUE /\ fallback' = TRUE
        /\ ledger' = IF seen = 2 /\ "t" \in ledger THEN ledger \cup {"d"} ELSE ledger
        /\ Send("shutdown_release") /\ UNCHANGED flaw
     \/ flaw' = TRUE /\ UNCHANGED <<acked, fallback, ledger, toBroker>>
  /\ UNCHANGED <<ctl, cause, result, brkVars, treeVars, outside>>

\* process.kill(-pgid, SIGKILL): whoever has the number is signalled.
KillGroup ==
  /\ brk' = IF BrokerUp THEN "gone" ELSE brk
  /\ tgt' = IF TargetUp THEN "gone" ELSE tgt
  /\ dsc' = IF dsc = "group" THEN "gone" ELSE dsc
  /\ hurt' = (hurt \/ foreign)

\* Fault: the number alone is taken for the group.
SignalNumber == KillGroup

(* signalAttestedGroup: a number is signalled only while an identity of    *)
(* the group matches.                                                      *)
SignalAttestedGroup ==
  IF BrokerUp \/ TargetUp
  THEN KillGroup
  ELSE UNCHANGED <<brk, tgt, dsc, hurt>>

(* armBrokerFallback: the timer fires.                                     *)
FallbackKill ==
  /\ fallback /\ Waiting
  /\ fallback' = FALSE
  /\ IF ~acked \/ GroupAlive THEN SignalAttestedGroup ELSE UNCHANGED <<brk, tgt, dsc, hurt>>
  /\ UNCHANGED <<ctl, cause, acked, flaw, result, conn, stuck, seen, ipc, ledger,
                 foreign, brkKilled, calls, crashes>>

\* Fault: an acknowledgement is taken for the drain.
AttestedByAck == acked /\ ~flaw

(* The condition of brokerDrainAttested: an acknowledgement, no failure of *)
(* the protocol, and every identity and every group absent.                *)
Attested == acked /\ ~flaw /\ Absent(ledger \cup {"b"})

(* 'close' comes when the broker has exited and nobody holds its pipes;    *)
(* messages sent before it are delivered first.  onDrain clears the ledger *)
(* of a call whose drain is attested; any other call fails, or keeps its   *)
(* own cause, and leaves the ledger.                                       *)
Finalize ==
  /\ Waiting /\ ~BrokerUp /\ ~TargetUp /\ toController = <<>>
  /\ ctl' = "idle" /\ fallback' = FALSE /\ conn' = FALSE
  /\ IF Attested
     THEN /\ ledger' = {}
          /\ result' \in IF cause \in {"cancel", "timeout"} THEN {cause} ELSE {"ok", "failed"}
     ELSE /\ UNCHANGED ledger
          /\ result' = IF cause \in {"cancel", "timeout"} THEN cause ELSE "failed"
  /\ UNCHANGED <<cause, acked, flaw, brk, stuck, treeVars, ipc, outside>>

-----------------------------------------------------------------------------
(* The broker's side.                                                      *)

BrokerSteps == BrokerUp /\ ~stuck
Told(m)     == toBroker # <<>> /\ Head(toBroker) = m /\ toBroker' = Tail(toBroker)
Say(m)      == toController' = IF conn THEN Append(toController, m) ELSE toController
Disconnected == ~conn /\ toBroker = <<>>

(* A launch request starts the guardian, which stops itself.               *)
BrokerLaunch ==
  /\ BrokerSteps /\ brk = "waiting" /\ Told("launch")
  /\ brk' = "starting" /\ tgt' = "stopped"
  /\ UNCHANGED <<ctlVars, conn, stuck, dsc, seen, toController, ledger, outside>>

(* waitForTargetStop and the capture of its identity, which may fail.      *)
BrokerAttests ==
  /\ BrokerSteps /\ brk = "starting"
  /\ \/ brk' = "attested" /\ Say("launched")
     \/ brk' = "converging" /\ UNCHANGED toController
  /\ UNCHANGED <<ctlVars, conn, stuck, treeVars, toBroker, ledger, outside>>

(* release: only a target that is still the stopped one it attested.       *)
BrokerRelease ==
  /\ BrokerSteps /\ brk = "attested" /\ Told("release")
  /\ IF tgt = "stopped"
     THEN tgt' = "running" /\ brk' = "released" /\ Say("released")
     ELSE brk' = "converging" /\ UNCHANGED <<tgt, toController>>
  /\ UNCHANGED <<ctlVars, conn, stuck, dsc, seen, ledger, outside>>

\* Fault: an attested descendant is discovered again.
DiscoverAgain ==
  /\ BrokerSteps /\ brk = "released" /\ TargetUp /\ DescUp
  /\ seen' = seen + 1
  /\ IF seen = 1 THEN Say("descendants") ELSE UNCHANGED toController
  /\ UNCHANGED <<ctlVars, brkVars, tgt, dsc, toBroker, ledger, outside>>

(* discoverDescendants, every 10 ms: what is seen twice in the tree of the *)
(* target is attested and reported.                                        *)
Discover ==
  /\ BrokerSteps /\ brk = "released" /\ TargetUp /\ DescUp /\ seen < 2
  /\ seen' = seen + 1
  /\ IF seen = 1 THEN Say("descendants") ELSE UNCHANGED toController
  /\ UNCHANGED <<ctlVars, brkVars, tgt, dsc, toBroker, ledger, outside>>

(* beginShutdown: on 'terminate' and on the exit of the target.            *)
BeginShutdown ==
  /\ BrokerSteps /\ brk \in {"starting", "attested", "released"}
  /\ Told("terminate") \/ (~TargetUp /\ UNCHANGED toBroker)
  /\ brk' = "converging"
  /\ UNCHANGED <<ctlVars, conn, stuck, treeVars, toController, ledger, outside>>

(* Messages that a broker in its shutdown ignores.                         *)
BrokerIgnores ==
  /\ BrokerSteps /\ brk \in {"converging", "acked", "draining"}
  /\ Told("terminate") \/ Told("release")
  /\ UNCHANGED <<ctlVars, brkVars, treeVars, toController, ledger, outside>>

(* convergeDescendantsForShutdown: the tree is stopped and observed until  *)
(* two snapshots agree and everything in them, and every candidate that    *)
(* left it alive, is attested; then the report is sent and TERM follows.   *)
Converge ==
  /\ BrokerSteps /\ brk = "converging" /\ conn
  /\ seen' = IF DescUp /\ (TargetUp \/ seen > 0) THEN 2 ELSE seen
  /\ Say("ack")
  /\ brk' = "acked"
  /\ UNCHANGED <<ctlVars, conn, stuck, tgt, dsc, toBroker, ledger, outside>>

(* executeShutdown: on 'shutdown_release', when that stays away too long,  *)
(* when the tree does not converge, and when the controller is gone.       *)
ExecuteShutdown ==
  /\ BrokerSteps
  /\ \/ brk = "acked" /\ Told("shutdown_release")
     \/ brk \in {"acked", "converging"} /\ UNCHANGED toBroker
     \/ brk \in {"starting", "attested", "released"} /\ Disconnected /\ UNCHANGED toBroker
  /\ seen' = IF DescUp /\ TargetUp /\ seen = 0 THEN 1 ELSE seen
  /\ brk' = "draining"
  /\ UNCHANGED <<ctlVars, conn, stuck, tgt, dsc, toController, ledger, outside>>

(* signalOwnedGroups(SIGKILL): the group of every live process it has ever *)
(* seen, then its own group and with it itself.                            *)
BrokerDrains ==
  /\ BrokerSteps /\ brk = "draining"
  /\ brk' = "gone"
  /\ tgt' = IF TargetUp THEN "gone" ELSE tgt
  /\ dsc' = IF dsc = "group" \/ (dsc = "own" /\ seen > 0) THEN "gone" ELSE dsc
  /\ hurt' = (hurt \/ foreign)
  /\ UNCHANGED <<ctlVars, conn, stuck, seen, ipc, ledger, foreign, brkKilled, calls, crashes>>

(* A broker without a launch exits when the channel closes or the          *)
(* registration deadline passes.                                           *)
BrokerGivesUp ==
  /\ BrokerSteps /\ brk = "waiting"
  /\ toBroker = <<>>
  /\ brk' = "gone"
  /\ UNCHANGED <<ctlVars, conn, stuck, treeVars, ipc, ledger, outside>>

-----------------------------------------------------------------------------
(* The processes themselves and the faults.                                *)

(* The tree is stopped while the broker converges; it runs before and,     *)
(* with TERM pending, after.                                               *)
Fork ==
  /\ tgt = "running" /\ brk # "converging" /\ dsc = "none"
  /\ dsc' \in {"group", "own"}
  /\ UNCHANGED <<ctlVars, brkVars, tgt, seen, ipc, ledger, outside>>

TargetExits ==
  /\ tgt = "running" /\ tgt' = "gone"
  /\ UNCHANGED <<ctlVars, brkVars, dsc, seen, ipc, ledger, outside>>

DescendantExits ==
  /\ DescUp /\ dsc' = "gone"
  /\ UNCHANGED <<ctlVars, brkVars, tgt, seen, ipc, ledger, outside>>

(* The broker hangs (a wedged event loop, a SIGSTOP).                      *)
BrokerHangs ==
  /\ BrokerSteps /\ brk \in {"released", "converging", "acked", "draining"}
  /\ stuck' = TRUE
  /\ UNCHANGED <<ctlVars, brk, conn, treeVars, ipc, ledger, outside>>

(* Somebody outside (the OOM killer) kills the broker alone.               *)
BrokerKilled ==
  /\ BrokerUp /\ ~brkKilled
  /\ brk' = "gone" /\ brkKilled' = TRUE
  /\ UNCHANGED <<ctlVars, conn, stuck, treeVars, ipc, ledger, foreign, hurt, calls, crashes>>

(* The number of a group that is gone is taken by a foreign group.         *)
NumberReused ==
  /\ ~GroupAlive /\ brk = "gone" /\ ledger # {}
  /\ foreign' = TRUE
  /\ UNCHANGED <<ctlVars, brkVars, treeVars, ipc, ledger, hurt, brkKilled, calls, crashes>>

ForeignExits ==
  /\ foreign /\ foreign' = FALSE
  /\ UNCHANGED <<ctlVars, brkVars, treeVars, ipc, ledger, hurt, brkKilled, calls, crashes>>

ControllerDies ==
  /\ ctl # "dead" /\ crashes < MaxCrashes
  /\ ctl' = "dead" /\ crashes' = crashes + 1
  /\ conn' = FALSE /\ fallback' = FALSE /\ toController' = <<>>
  /\ UNCHANGED <<cause, acked, flaw, result, brk, stuck, treeVars, toBroker, ledger,
                 foreign, hurt, brkKilled, calls>>

-----------------------------------------------------------------------------
(* recoverMonitoredProcessOwnership by the next controller.                *)

NextController ==
  /\ ctl = "dead"
  /\ ctl' = "reaping" /\ cause' = "none" /\ acked' = FALSE /\ flaw' = FALSE /\ result' = "none"
  /\ UNCHANGED <<fallback, brkVars, treeVars, ipc, ledger, outside>>

(* reapMonitoredLedger: the group through its recorded leader, or through  *)
(* a recorded member when the leader is gone; a descendant's own group     *)
(* through the descendant.                                                 *)
ReapLedger ==
  /\ ctl = "reaping" /\ ledger # {}
  /\ LET byGroup == \/ "b" \in ledger /\ BrokerUp
                    \/ "t" \in ledger /\ TargetUp
                    \/ "d" \in ledger /\ dsc = "group"
     IN /\ brk' = IF byGroup /\ BrokerUp THEN "gone" ELSE brk
        /\ tgt' = IF byGroup /\ TargetUp THEN "gone" ELSE tgt
        /\ dsc' = IF (byGroup /\ dsc = "group") \/ ("d" \in ledger /\ dsc = "own")
                  THEN "gone" ELSE dsc
        /\ hurt' = (hurt \/ (byGroup /\ foreign))
  /\ UNCHANGED <<ctlVars, conn, stuck, seen, ipc, ledger, foreign, brkKilled, calls, crashes>>

(* The ledger is cleared when everything on it is absent; otherwise the    *)
(* recovery throws and is tried again.                                     *)
ClearRecovered ==
  /\ ctl = "reaping" /\ Absent(ledger)
  /\ ledger' = {} /\ ctl' = "idle"
  /\ UNCHANGED <<cause, acked, flaw, fallback, result, brkVars, treeVars, ipc, outside>>

ControllerStep ==
  \/ Publish \/ PublishFails
  \/ OnLaunched \/ OnReleased \/ OnDescendants \/ Terminate \/ OnAck
  \/ FallbackKill

BrokerStep ==
  \/ BrokerLaunch \/ BrokerAttests \/ BrokerRelease \/ Discover \/ BeginShutdown \/ BrokerIgnores
  \/ Converge \/ ExecuteShutdown \/ BrokerDrains \/ BrokerGivesUp

MPNext ==
  \/ SpawnBroker \/ SpawnRefused \/ ControllerStep \/ Finalize
  \/ BrokerStep
  \/ Fork \/ TargetExits \/ DescendantExits
  \/ BrokerHangs \/ BrokerKilled \/ NumberReused \/ ForeignExits \/ ControllerDies
  \/ NextController \/ ReapLedger \/ ClearRecovered

(* Timers fire and messages are delivered; a descendant outside the group  *)
(* may hold the pipes, so 'close' is only sure to come without one.        *)
MPFairness ==
  /\ WF_mpVars(ControllerStep)
  /\ WF_mpVars(Finalize /\ ~DescUp)
  /\ WF_mpVars(BrokerStep)

MPSpec == MPInit /\ [][MPNext]_mpVars /\ MPFairness

-----------------------------------------------------------------------------
Messages == {"launch", "release", "terminate", "shutdown_release"}
Reports  == {"launched", "released", "descendants", "ack"}

(* Every variable holds values of its shape; the channel carries only the  *)
(* protocol's messages.                                                    *)
MPTypeOK ==
  /\ ctl \in {"idle", "spawned", "launching", "launched", "armed", "closing", "dead", "reaping"}
  /\ cause \in {"none", "success", "cancel", "timeout"}
  /\ result \in {"none", "ok", "failed", "cancel", "timeout"}
  /\ {acked, flaw, fallback, conn, stuck, foreign, hurt, brkKilled} \subseteq BOOLEAN
  /\ brk \in {"none", "waiting", "starting", "attested", "released",
              "converging", "acked", "draining", "gone"}
  /\ tgt \in {"none", "stopped", "running", "gone"}
  /\ dsc \in {"none", "group", "own", "gone"}
  /\ seen \in 0..2
  /\ toBroker \in Seq(Messages) /\ toController \in Seq(Reports)
  /\ ledger \subseteq {"b", "t", "d"}
  /\ calls \in 0..MaxCalls /\ crashes \in 0..MaxCrashes

(* Whatever still runs of a tree can be found by the next controller: the  *)
(* target and every member of its group through the recorded broker, and a *)
(* target that has ever run through its own record, at every point where a *)
(* controller may die.                                                     *)
TreeIsRecorded ==
  /\ (TargetUp \/ dsc = "group") => "b" \in ledger
  /\ tgt = "running" => "t" \in ledger

(* A call that reports success has left nothing behind but a descendant in *)
(* a group of its own that no acknowledgement covered: one that was never  *)
(* seen, or was forked after the acknowledgement of a broker that hung.    *)
SuccessLeavesNothing ==
  result = "ok" => /\ ledger = {} /\ ~BrokerUp /\ ~TargetUp
                   /\ DescUp => dsc = "own" /\ seen < 2

(* No process group is signalled that has taken the number of a dead one:  *)
(* an identity that matches shows that the number is still the tree's.     *)
ForeignUntouched == ~hurt

(* A call that was released ends, also when the broker hangs, unless the   *)
(* broker alone was killed from outside or a descendant outside the group  *)
(* keeps the pipes open.                                                   *)
CallReturns ==
  ctl \in {"armed", "closing"} ~> ctl \in {"idle", "dead"} \/ brkKilled \/ dsc = "own"
=============================================================================
