------------------------ MODULE LogicalPipelineProofs ------------------------
(***************************************************************************)
(* What LogicalPipeline guarantees for any number of lanes, handoffs and   *)
(* checkpoints and with no bound on the journal.                           *)
(***************************************************************************)
EXTENDS LogicalPipeline, TLAPS

-----------------------------------------------------------------------------
(* The type invariant, in the parts that one action disturbs together.     *)

FileTyped ==
  /\ control \in Controls
  /\ terminal \in Terminals
  /\ lease \in [owner : Lanes \cup {NoLane}, generation : Nat]
  /\ leaseGeneration \in Nat
  /\ restarts \in Nat
  /\ events \in Seq(Event)

ClockTyped == leaseExpired \in BOOLEAN /\ handoffOverdue \in BOOLEAN

RunnersTyped ==
  /\ pc \in [Lanes -> RunnerPCs]
  /\ held \in [Lanes -> Nat]
  /\ exitReason \in [Lanes -> Reasons]

DecidersTyped ==
  /\ supervisor \in [Lanes -> {"unused", "poll", "wait", "stopped", "failed"}]
  /\ accepting \in [Lanes -> Requests \cup {NoRequest}]

OperatorTyped ==
  operator \in [pc : {"idle", "release", "spawn"},
                request : Requests \cup {NoRequest}, generation : Nat]

LEMMA TypeParts ==
  TypeOK <=> FileTyped /\ ClockTyped /\ RunnersTyped /\ DecidersTyped /\ OperatorTyped
BY DEF TypeOK, FileTyped, ClockTyped, RunnersTyped, DecidersTyped, OperatorTyped

LEMMA TypePartsNext ==
  (FileTyped' /\ ClockTyped' /\ RunnersTyped' /\ DecidersTyped' /\ OperatorTyped')
    => TypeOK'
BY DEF TypeOK, FileTyped, ClockTyped, RunnersTyped, DecidersTyped, OperatorTyped

\* What a step leaves alone stays typed.
LEMMA FileKept == FileTyped /\ UNCHANGED file => FileTyped'
BY DEF FileTyped, file

LEMMA ClockKept == ClockTyped /\ UNCHANGED clock => ClockTyped'
BY DEF ClockTyped, clock

LEMMA RunnersKept == RunnersTyped /\ UNCHANGED runners => RunnersTyped'
BY DEF RunnersTyped, runners

LEMMA DecidersKept == DecidersTyped /\ UNCHANGED deciders => DecidersTyped'
BY DEF DecidersTyped, deciders

LEMMA OperatorKept == OperatorTyped /\ UNCHANGED operator => OperatorTyped'
BY DEF OperatorTyped

\* The moves of a runner.
LEMMA ExitTyped ==
  ASSUME RunnersTyped, NEW l \in Lanes, Exit(l)
  PROVE  RunnersTyped'
BY DEF RunnersTyped, Exit, RunnerPCs, Reasons

LEMMA GotoTyped ==
  ASSUME RunnersTyped, NEW l \in Lanes, NEW place \in RunnerPCs, Goto(l, place)
  PROVE  RunnersTyped'
BY DEF RunnersTyped, Goto

LEMMA LeaveTyped ==
  ASSUME RunnersTyped, NEW l \in Lanes, NEW reason \in Reasons, Leave(l, reason)
  PROVE  RunnersTyped'
BY DEF RunnersTyped, Leave, RunnerPCs

LEMMA PollTyped ==
  ASSUME DecidersTyped, NEW l \in Lanes,
         NEW place \in {"unused", "poll", "wait", "stopped", "failed"},
         Poll(l, place), UNCHANGED accepting
  PROVE  DecidersTyped'
BY DEF DecidersTyped, Poll

\* Every event the operations append is an event of the journal.
LEMMA EvTyped ==
  ASSUME NEW kind \in Kinds, NEW owner \in Lanes \cup {NoLane},
         NEW generation \in Nat, NEW item \in Items
  PROVE  Ev(kind, owner, generation, item) \in Event
BY DEF Ev, Event

LEMMA Append1Typed ==
  ASSUME events \in Seq(Event), NEW e \in Event, Append1(e)
  PROVE  events' \in Seq(Event)
BY DEF Append1

LEMMA LeaseTyped == FileTyped => lease.owner \in Lanes \cup {NoLane} /\ lease.generation \in Nat
BY DEF FileTyped

\* Only a request can be open.
LEMMA OpenRequest ==
  ASSUME FileTyped, NEW r \in Requests \cup {NoRequest}, Open(r)
  PROVE  r \in Requests
<1>1. PICK i \in DOMAIN events : events[i].item = r
  BY DEF Open, Journaled
<1>2. events[i] \in Event
  BY DEF FileTyped
<1>3. events[i].item \in Items
  BY <1>2 DEF Event
<1>. QED  BY <1>1, <1>3, RequestAssumption DEF Items

LEMMA NoLeaseTyped == NoLease \in [owner : Lanes \cup {NoLane}, generation : Nat]
BY DEF NoLease

\* The loss of the owner, where there is one, is a journal of its own.
LEMMA LoseOwnerTyped ==
  ASSUME FileTyped
  PROVE  LoseOwner \in Seq(Event)
<1>1. Lost \in Event
  BY EvTyped, LeaseTyped DEF Lost, Kinds, Items
<1>. QED  BY <1>1 DEF LoseOwner

\* Whoever is granted the lease, the state stays well typed.
LEMMA GrantTyped ==
  ASSUME FileTyped, ClockTyped, RunnersTyped, NEW l \in Lanes, NEW kind \in GrantKinds,
         NEW item \in Requests \cup {NoItem}, Grant(l, kind, item)
  PROVE  FileTyped' /\ ClockTyped' /\ RunnersTyped'
<1>1. Ev(kind, l, leaseGeneration + 1, item) \in Event
  BY EvTyped DEF FileTyped, Kinds, GrantKinds, Items
<1>2. events' \in Seq(Event)
  BY <1>1, LoseOwnerTyped DEF Grant, FileTyped
<1>3. FileTyped'
  BY <1>2 DEF FileTyped, Grant
<1>4. ClockTyped'
  BY DEF ClockTyped, Grant
<1>5. RunnersTyped'
  BY DEF RunnersTyped, FileTyped, Grant, RunnerPCs
<1>. QED  BY <1>3, <1>4, <1>5

LEMMA InitTyped ==
  Init => TypeOK
<1>. SUFFICES ASSUME Init PROVE TypeOK
  OBVIOUS
<1>1. Ev("pipeline_created", NoLane, 0, NoItem) \in Event
  BY EvTyped DEF Kinds, Items
<1>2. FileTyped
  BY <1>1, NoLeaseTyped DEF Init, FileTyped, Controls, Terminals
<1>3. ClockTyped /\ RunnersTyped
  BY DEF Init, ClockTyped, RunnersTyped, RunnerPCs, Reasons
<1>4. DecidersTyped /\ OperatorTyped
  BY DEF Init, DecidersTyped, OperatorTyped
<1>. QED  BY <1>2, <1>3, <1>4, TypeParts

-----------------------------------------------------------------------------
(* Every step keeps the state well typed.                                  *)

LEMMA AcquisitionTyped ==
  ASSUME TypeOK, NEW l \in Lanes, Acquire(l) \/ Watchdog(l) \/ Accept(l)
  PROVE  TypeOK'
<1>1. FileTyped /\ ClockTyped /\ RunnersTyped /\ DecidersTyped /\ OperatorTyped
  BY TypeParts
<1>2. DecidersTyped' /\ OperatorTyped'
  BY <1>1, DecidersKept, OperatorKept DEF Acquire, Watchdog, Accept
<1>3. accepting[l] \in Requests \cup {NoRequest}
  BY <1>1 DEF DecidersTyped
<1>4. CASE Exit(l) /\ UNCHANGED <<file, clock>>
  BY <1>1, <1>2, <1>4, ExitTyped, FileKept, ClockKept, TypePartsNext
<1>5. CASE \E kind \in GrantKinds, item \in Requests \cup {NoItem} : Grant(l, kind, item)
  BY <1>1, <1>2, <1>5, GrantTyped, TypePartsNext
<1>6. MayAccept(accepting[l]) => accepting[l] \in Requests
  BY <1>1, <1>3, OpenRequest DEF MayAccept
<1>. QED  BY <1>4, <1>5, <1>6 DEF Acquire, Watchdog, Accept, GrantKinds

\* A revision ends the lease and nothing else.
LEMMA ReviseTyped ==
  ASSUME FileTyped, ClockTyped, Revise
  PROVE  FileTyped' /\ ClockTyped'
<1>1. Ev("prd_revision_requested", lease.owner, leaseGeneration, NoItem) \in Event
  BY EvTyped, LeaseTyped DEF FileTyped, Kinds, Items
<1>2. FileTyped'
  BY <1>1, Append1Typed, NoLeaseTyped DEF Revise, FileTyped, DropLease, Controls
<1>. QED  BY <1>2 DEF Revise, ClockTyped, DropLease

LEMMA RunnerTyped ==
  ASSUME TypeOK, NEW l \in Lanes, RunnerNext(l)
  PROVE  TypeOK'
<1>. USE TypeParts, TypePartsNext
<1>1. CASE StartRun(l) \/ AssertOwned(l) \/ Finish(l) \/ CitadelRefuses(l) \/ CrashRunner(l)
           \/ \E reason \in Reasons : EndRun(l, reason)
  <2>1. FileTyped' /\ ClockTyped' /\ DecidersTyped' /\ OperatorTyped'
    BY <1>1, FileKept, ClockKept, DecidersKept, OperatorKept
    DEF StartRun, AssertOwned, Finish, CitadelRefuses, CrashRunner, EndRun
  <2>2. \/ CrashRunner(l)
        \/ Exit(l)
        \/ \E place \in RunnerPCs : Goto(l, place)
        \/ \E reason \in Reasons : Leave(l, reason)
    BY <1>1 DEF StartRun, AssertOwned, Finish, CitadelRefuses, EndRun, Route, RunnerPCs,
                Reasons
  <2>3. CrashRunner(l) => RunnersTyped'
    BY DEF CrashRunner, RunnersTyped, RunnerPCs, Reasons
  <2>4. RunnersTyped'
    BY <2>2, <2>3, ExitTyped, GotoTyped, LeaveTyped
  <2>. QED  BY <2>1, <2>4
<1>2. CASE Acquire(l) \/ Watchdog(l) \/ Accept(l)
  BY <1>2, AcquisitionTyped
<1>3. CASE Renew(l)
  <2>1. Ev("lease_renewed", l, held[l], NoItem) \in Event
    BY EvTyped DEF RunnersTyped, Kinds, Items
  <2>2. FileTyped'
    BY <1>3, <2>1, Append1Typed DEF Renew, FileTyped
  <2>. QED  BY <1>3, <2>2, ClockKept, RunnersKept, DecidersKept, OperatorKept DEF Renew
<1>4. CASE \E receipt \in Receipts, payload \in Payloads : RecordCheckpoint(l, receipt, payload)
  <2>. PICK receipt \in Receipts, payload \in Payloads : RecordCheckpoint(l, receipt, payload)
    BY <1>4
  <2>1. Ev("checkpoint_recorded", l, held[l], <<receipt, payload>>) \in Event
    BY EvTyped DEF RunnersTyped, Kinds, Items
  <2>2. events' \in Seq(Event)
    BY <2>1, Append1Typed DEF RecordCheckpoint, FileTyped
  <2>3. FileTyped'
    BY <2>2 DEF RecordCheckpoint, FileTyped
  <2>4. RunnersTyped'
    BY GotoTyped, LeaveTyped DEF RecordCheckpoint, RunnerPCs, Reasons
  <2>. QED  BY <2>3, <2>4, ClockKept, DecidersKept, OperatorKept DEF RecordCheckpoint, clock
<1>5. CASE RequestPrdRevision(l)
  <2>1. FileTyped' /\ ClockTyped'
    BY <1>5, ReviseTyped, FileKept, ClockKept DEF RequestPrdRevision
  <2>2. RunnersTyped'
    BY <1>5, LeaveTyped DEF RequestPrdRevision, Reasons
  <2>. QED  BY <1>5, <2>1, <2>2, DecidersKept, OperatorKept DEF RequestPrdRevision
<1>6. CASE ReleaseLease(l)
  <2>1. Ev("lease_released", l, leaseGeneration, NoItem) \in Event
    BY EvTyped DEF FileTyped, Kinds, Items
  <2>2. FileTyped'
    BY <1>6, <2>1, Append1Typed, NoLeaseTyped DEF ReleaseLease, FileTyped, DropLease
  <2>3. ClockTyped'
    BY <1>6 DEF ReleaseLease, ClockTyped, DropLease
  <2>4. RunnersTyped'
    BY <1>6, ExitTyped DEF ReleaseLease
  <2>. QED  BY <1>6, <2>2, <2>3, <2>4, DecidersKept, OperatorKept DEF ReleaseLease
<1>7. CASE \E state \in Terminals : Terminate(l, state)
  <2>. PICK state \in Terminals : Terminate(l, state)
    BY <1>7
  <2>1. /\ Ev("pipeline_completed", l, leaseGeneration, NoItem) \in Event
        /\ Ev("pipeline_cancelled", l, leaseGeneration, NoItem) \in Event
    BY EvTyped DEF FileTyped, Kinds, Items
  <2>2. events' \in Seq(Event)
    BY <2>1, Append1Typed DEF Terminate, FileTyped
  <2>3. FileTyped'
    BY <2>2, NoLeaseTyped DEF Terminate, FileTyped, DropLease, Terminals
  <2>4. ClockTyped'
    BY DEF Terminate, ClockTyped, DropLease
  <2>5. RunnersTyped'
    BY ExitTyped DEF Terminate
  <2>. QED  BY <2>3, <2>4, <2>5, DecidersKept, OperatorKept DEF Terminate
<1>. QED  BY <1>1, <1>2, <1>3, <1>4, <1>5, <1>6, <1>7 DEF RunnerNext

LEMMA SupervisorTyped ==
  ASSUME TypeOK, NEW l \in Lanes, SupervisorNext(l)
  PROVE  TypeOK'
<1>. USE TypeParts, TypePartsNext
<1>1. CASE SettleAccepting(l)
  <2>1. DecidersTyped'
    BY <1>1 DEF SettleAccepting, DecidersTyped, Poll
  <2>. QED  BY <1>1, <2>1, FileKept, ClockKept, RunnersKept, OperatorKept DEF SettleAccepting
<1>2. CASE AbortExpiredHandoff(l)
  <2>1. ASSUME NEW r \in Pending, Abort(r)
        PROVE  FileTyped' /\ ClockTyped'
    <3>1. Ev("runtime_handoff_aborted", NoLane, leaseGeneration, r) \in Event
      BY EvTyped DEF FileTyped, Kinds, Items, Pending
    <3>2. events' \in Seq(Event)
      BY <2>1, <3>1, LoseOwnerTyped DEF Abort, FileTyped
    <3>3. FileTyped'
      BY <2>1, <3>2, NoLeaseTyped DEF Abort, FileTyped, DropLease
    <3>. QED  BY <2>1, <3>3 DEF Abort, ClockTyped, DropLease
  <2>2. FileTyped' /\ ClockTyped'
    BY <1>2, <2>1, FileKept, ClockKept DEF AbortExpiredHandoff
  <2>3. DecidersTyped'
    BY <1>2 DEF AbortExpiredHandoff, DecidersTyped, Poll
  <2>. QED  BY <1>2, <2>2, <2>3, RunnersKept, OperatorKept DEF AbortExpiredHandoff
<1>3. CASE Decide(l)
  <2>1. RunnersTyped'
    BY <1>3, RunnersKept DEF Decide, RunnersTyped, RunnerPCs, Reasons
  <2>2. DecidersTyped'
    BY <1>3, PollTyped DEF Decide
  <2>. QED  BY <1>3, <2>1, <2>2, FileKept, ClockKept, OperatorKept DEF Decide
<1>4. CASE Reap(l) \/ CrashSupervisor(l)
  <2>1. DecidersTyped'
    BY <1>4, PollTyped DEF Reap, CrashSupervisor
  <2>. QED  BY <1>4, <2>1, FileKept, ClockKept, RunnersKept, OperatorKept
            DEF Reap, CrashSupervisor
<1>. QED  BY <1>1, <1>2, <1>3, <1>4 DEF SupervisorNext

LEMMA OperatorNextTyped ==
  ASSUME TypeOK, OperatorNext
  PROVE  TypeOK'
<1>. USE TypeParts, TypePartsNext
<1>0. leaseGeneration \in Nat /\ lease.generation \in Nat /\ lease.owner \in Lanes \cup {NoLane}
  BY LeaseTyped DEF FileTyped
<1>1. CASE BeginAutonomousExecution \/ ApprovePrdRevision
  <2>1. Ev("prd_sealed", NoLane, leaseGeneration, NoItem) \in Event
    BY <1>0, EvTyped DEF Kinds, Items
  <2>2. FileTyped'
    BY <1>1, <2>1, Append1Typed
    DEF BeginAutonomousExecution, ApprovePrdRevision, FileTyped, Controls
  <2>. QED  BY <1>1, <2>2, ClockKept, RunnersKept, DecidersKept, OperatorKept
            DEF BeginAutonomousExecution, ApprovePrdRevision
<1>2. CASE CancelByOperator
  <2>1. Ev("pipeline_cancelled", lease.owner, leaseGeneration, NoItem) \in Event
    BY <1>0, EvTyped DEF Kinds, Items
  <2>2. FileTyped'
    BY <1>2, <2>1, Append1Typed, NoLeaseTyped
    DEF CancelByOperator, FileTyped, DropLease, Terminals
  <2>3. ClockTyped'
    BY <1>2 DEF CancelByOperator, ClockTyped, DropLease
  <2>. QED  BY <1>2, <2>2, <2>3, RunnersKept, DecidersKept, OperatorKept DEF CancelByOperator
<1>3. CASE \E r \in Requests : RequestHandoff(r)
  <2>. PICK r \in Requests : RequestHandoff(r)
    BY <1>3
  <2>1. Ev("runtime_handoff_requested", lease.owner, lease.generation, r) \in Event
    BY <1>0, EvTyped DEF Kinds, Items
  <2>2. FileTyped'
    BY <2>1, Append1Typed DEF RequestHandoff, FileTyped
  <2>3. ClockTyped' /\ OperatorTyped'
    BY <1>0 DEF RequestHandoff, ClockTyped, OperatorTyped
  <2>. QED  BY <2>2, <2>3, RunnersKept, DecidersKept DEF RequestHandoff
<1>4. CASE ReleaseForHandoff
  <2>1. operator.request \in Requests \cup {NoRequest}
    BY DEF OperatorTyped
  <2>2. MayReleaseForHandoff => operator.request \in Requests
    BY <2>1, OpenRequest DEF MayReleaseForHandoff
  <2>3. MayReleaseForHandoff =>
          Ev("runtime_handoff_released", lease.owner, lease.generation, operator.request) \in Event
    BY <1>0, <2>2, EvTyped DEF Kinds, Items
  <2>4. FileTyped'
    BY <1>4, <2>3, Append1Typed, NoLeaseTyped DEF ReleaseForHandoff, FileTyped, DropLease
  <2>5. ClockTyped'
    BY <1>4 DEF ReleaseForHandoff, ClockTyped, DropLease
  <2>6. OperatorTyped'
    BY <1>4 DEF ReleaseForHandoff, OperatorTyped, OperatorIdle
  <2>. QED  BY <1>4, <2>4, <2>5, <2>6, RunnersKept, DecidersKept DEF ReleaseForHandoff
<1>5. CASE \E r \in Requests : ResumeHandoff(r)
  <2>1. OperatorTyped'
    BY <1>5 DEF ResumeHandoff, OperatorTyped
  <2>. QED  BY <1>5, <2>1, FileKept, ClockKept, RunnersKept, DecidersKept DEF ResumeHandoff
<1>6. CASE CrashOperator
  <2>1. OperatorTyped'
    BY <1>6 DEF CrashOperator, OperatorIdle, OperatorTyped
  <2>. QED  BY <1>6, <2>1, FileKept, ClockKept, RunnersKept, DecidersKept DEF CrashOperator
<1>7. CASE \E l \in Lanes : SpawnTarget(l)
  <2>. PICK l \in Lanes : SpawnTarget(l)
    BY <1>7
  <2>1. OperatorTyped'
    BY DEF SpawnTarget, OperatorIdle, OperatorTyped
  <2>2. DecidersTyped'
    BY DEF SpawnTarget, DecidersTyped, OperatorTyped, Poll
  <2>. QED  BY <2>1, <2>2, FileKept, ClockKept, RunnersKept DEF SpawnTarget
<1>8. CASE LauncherRevisesPrd
  BY <1>8, ReviseTyped, RunnersKept, DecidersKept, OperatorKept DEF LauncherRevisesPrd
<1>. QED  BY <1>1, <1>2, <1>3, <1>4, <1>5, <1>6, <1>7, <1>8 DEF OperatorNext

LEMMA StepTyped ==
  TypeOK /\ [Next]_vars => TypeOK'
<1>. SUFFICES ASSUME TypeOK, [Next]_vars PROVE TypeOK'
  OBVIOUS
<1>. USE TypeParts, TypePartsNext
<1>1. CASE \E l \in Lanes : RunnerNext(l) \/ SupervisorNext(l)
  BY <1>1, RunnerTyped, SupervisorTyped
<1>2. CASE OperatorNext
  BY <1>2, OperatorNextTyped
<1>3. CASE ExpireLease \/ HandoffTimesOut
  <2>1. ClockTyped'
    BY <1>3 DEF ExpireLease, HandoffTimesOut, ClockTyped
  <2>. QED  BY <1>3, <2>1, FileKept, RunnersKept, DecidersKept, OperatorKept
            DEF ExpireLease, HandoffTimesOut
<1>4. CASE UNCHANGED vars
  BY <1>4, FileKept, ClockKept, RunnersKept, DecidersKept, OperatorKept DEF vars
<1>. QED  BY <1>1, <1>2, <1>3, <1>4 DEF Next

\* In every reachable state, whatever was journaled and whoever crashed, the file
\* holds one of the states its validator knows and every process stands at a step
\* of its code.
THEOREM TypeCorrect ==
  Spec => []TypeOK
BY InitTyped, StepTyped, PTL DEF Spec

-----------------------------------------------------------------------------
(* FencedWrites.  Inductive with what the lease knows of the journal: the  *)
(* generation in force is the highest journaled one, and no event ended it *)
(* yet.                                                                    *)

FencedJournal(s) ==
  \A i, j \in DOMAIN s :
    (i < j /\ s[i].kind \in EndKinds /\ s[j].kind \in WriteKinds)
      => s[i].generation < s[j].generation

Below(s, g) == \A i \in DOMAIN s : s[i].generation <= g

EndedBelow(s, g) == \A i \in DOMAIN s : s[i].kind \in EndKinds => s[i].generation < g

FenceInv ==
  /\ Leased => lease.generation = leaseGeneration
  /\ Below(events, leaseGeneration)
  /\ Leased => EndedBelow(events, leaseGeneration)
  /\ FencedWrites

\* One event more: an end is free, a write needs every earlier end below it.
LEMMA AppendFenced ==
  ASSUME NEW s \in Seq(Event), NEW e \in Event, NEW g \in Nat,
         FencedJournal(s), Below(s, g), e.generation <= g,
         e.kind \in WriteKinds => EndedBelow(s, e.generation)
  PROVE  FencedJournal(Append(s, e)) /\ Below(Append(s, e), g)
<1>. DEFINE t == Append(s, e)
<1>1. /\ DOMAIN t = 1 .. Len(s) + 1
      /\ t[Len(s) + 1] = e
      /\ \A i \in 1 .. Len(s) : t[i] = s[i]
      /\ DOMAIN s = 1 .. Len(s)
      /\ Len(s) \in Nat
  OBVIOUS
<1>2. \A i \in 1 .. Len(s) : s[i] \in Event
  OBVIOUS
<1>. HIDE DEF t
<1>3. ASSUME NEW i \in DOMAIN t, NEW j \in DOMAIN t, i < j,
             t[i].kind \in EndKinds, t[j].kind \in WriteKinds
      PROVE  t[i].generation < t[j].generation
  <2>1. i \in DOMAIN s /\ t[i] = s[i]
    BY <1>1, <1>3
  <2>2. CASE j = Len(s) + 1
    BY <1>1, <1>3, <2>1, <2>2 DEF EndedBelow
  <2>3. CASE j \in DOMAIN s
    BY <1>1, <1>3, <2>1, <2>3 DEF FencedJournal
  <2>. QED  BY <1>1, <2>2, <2>3
<1>4. Below(t, g)
  BY <1>1 DEF Below
<1>. QED  BY <1>3, <1>4 DEF t, FencedJournal

LEMMA AppendEndedBelow ==
  ASSUME NEW s \in Seq(Event), NEW e \in Event, NEW g \in Nat, EndedBelow(s, g),
         e.kind \in EndKinds => e.generation < g
  PROVE  EndedBelow(Append(s, e), g)
BY DEF EndedBelow

\* A generation above everything journaled ends nothing.
LEMMA BelowNext ==
  ASSUME NEW s \in Seq(Event), NEW g \in Nat, Below(s, g)
  PROVE  Below(s, g + 1) /\ EndedBelow(s, g + 1)
<1>1. \A i \in DOMAIN s : s[i] \in Event
  OBVIOUS
<1>2. \A i \in DOMAIN s : s[i].generation \in Nat
  BY <1>1 DEF Event
<1>. QED  BY <1>2 DEF Below, EndedBelow

\* What a step may do to the journal: nothing; one event of the generation in
\* force; a grant of the next generation; or the end of an overdue handoff.  The
\* last two first take the lease from an owner that is gone.
Untouched == UNCHANGED <<events, lease, leaseGeneration>>

Journals(e) ==
  /\ events' = Append(events, e)
  /\ e \in Event
  /\ e.generation = leaseGeneration
  /\ e.kind \in WriteKinds => Leased
  /\ lease' \in {lease, NoLease}
  /\ e.kind \in EndKinds => lease' = NoLease
  /\ leaseGeneration' = leaseGeneration

Grants(e) ==
  /\ e \in Event /\ e.kind \in GrantKinds /\ e.generation = leaseGeneration + 1
  /\ events' = events \o LoseOwner \o <<e>>
  /\ leaseGeneration' = leaseGeneration + 1
  /\ lease'.generation = leaseGeneration + 1
  /\ ~(LeaseLive /\ OwnerAlive)

Aborts(e) ==
  /\ e \in Event /\ e.kind = "runtime_handoff_aborted"
  /\ e.generation = leaseGeneration
  /\ events' = events \o LoseOwner \o <<e>>
  /\ leaseGeneration' = leaseGeneration
  /\ lease' = NoLease

JournalStep ==
  Untouched \/ \E e \in Event : Journals(e) \/ Grants(e) \/ Aborts(e)

LEMMA GrantJournals ==
  ASSUME TypeOK, NEW l \in Lanes, NEW kind \in GrantKinds,
         NEW item \in Requests \cup {NoItem}, Grant(l, kind, item),
         ~(LeaseLive /\ OwnerAlive)
  PROVE  JournalStep
<1>. DEFINE e == Ev(kind, l, leaseGeneration + 1, item)
<1>1. e \in Event
  BY EvTyped DEF TypeOK, Kinds, GrantKinds, Items
<1>2. Grants(e)
  BY <1>1 DEF Grants, Grant, Ev
<1>. QED  BY <1>1, <1>2 DEF JournalStep

LEMMA ReviseJournals ==
  ASSUME TypeOK, Revise
  PROVE  JournalStep
<1>. DEFINE e == Ev("prd_revision_requested", lease.owner, leaseGeneration, NoItem)
<1>1. e \in Event
  BY TypeParts, EvTyped, LeaseTyped DEF FileTyped, Kinds, Items
<1>2. Journals(e)
  BY <1>1 DEF Revise, DropLease, Append1, Journals, Ev, WriteKinds
<1>. QED  BY <1>1, <1>2 DEF JournalStep

LEMMA RunnerJournals ==
  ASSUME TypeOK, FenceInv, NEW l \in Lanes, RunnerNext(l)
  PROVE  JournalStep
<1>0. FileTyped /\ RunnersTyped /\ DecidersTyped
  BY TypeParts
<1>1. CASE StartRun(l) \/ AssertOwned(l) \/ Finish(l) \/ CitadelRefuses(l) \/ CrashRunner(l)
           \/ \E reason \in Reasons : EndRun(l, reason)
  BY <1>1 DEF StartRun, AssertOwned, Finish, CitadelRefuses, CrashRunner, EndRun,
              file, JournalStep, Untouched
<1>2. CASE Acquire(l)
  BY <1>2, GrantJournals
  DEF Acquire, MayAcquire, GrantKinds, LeaseLive, file, JournalStep, Untouched
<1>3. CASE Watchdog(l)
  BY <1>3, GrantJournals
  DEF Watchdog, MayRecover, GrantKinds, file, JournalStep, Untouched
<1>4. CASE Accept(l)
  <2>1. MayAccept(accepting[l]) => accepting[l] \in Requests
    BY <1>0, OpenRequest DEF MayAccept, DecidersTyped
  <2>. QED  BY <1>4, <2>1, GrantJournals
            DEF Accept, MayAccept, GrantKinds, LeaseLive, file, JournalStep, Untouched
<1>5. CASE Renew(l)
  <2>. DEFINE e == Ev("lease_renewed", l, held[l], NoItem)
  <2>1. e \in Event
    BY <1>0, EvTyped DEF RunnersTyped, Kinds, Items
  <2>2. Journals(e)
    BY <1>5, <2>1 DEF Renew, Fenced, Owns, Append1, FenceInv, Journals, Ev, EndKinds,
                      TerminalKinds
  <2>. QED  BY <2>1, <2>2 DEF JournalStep
<1>6. CASE \E receipt \in Receipts, payload \in Payloads : RecordCheckpoint(l, receipt, payload)
  <2>. PICK receipt \in Receipts, payload \in Payloads : RecordCheckpoint(l, receipt, payload)
    BY <1>6
  <2>. DEFINE e == Ev("checkpoint_recorded", l, held[l], <<receipt, payload>>)
  <2>1. e \in Event
    BY <1>0, EvTyped DEF RunnersTyped, Kinds, Items
  <2>2. CASE Append1(e) /\ Fenced(l)
    <3>1. Journals(e)
      BY <2>1, <2>2 DEF RecordCheckpoint, Fenced, Owns, Append1, FenceInv, Journals, Ev,
                        EndKinds, TerminalKinds
    <3>. QED  BY <2>1, <3>1 DEF JournalStep
  <2>3. CASE UNCHANGED events
    BY <2>3 DEF RecordCheckpoint, JournalStep, Untouched
  <2>. QED  BY <2>2, <2>3 DEF RecordCheckpoint
<1>7. CASE RequestPrdRevision(l)
  <2>1. CASE Revise
    BY <2>1, ReviseJournals
  <2>2. CASE UNCHANGED file
    BY <2>2 DEF file, JournalStep, Untouched
  <2>. QED  BY <1>7, <2>1, <2>2 DEF RequestPrdRevision
<1>8. CASE ReleaseLease(l)
  <2>. DEFINE e == Ev("lease_released", l, leaseGeneration, NoItem)
  <2>1. e \in Event
    BY <1>0, EvTyped DEF FileTyped, Kinds, Items
  <2>2. CASE MayEnd(l)
    <3>1. Journals(e)
      BY <1>8, <2>1, <2>2 DEF ReleaseLease, DropLease, Append1, MayEnd, Owns, Journals, Ev
    <3>. QED  BY <2>1, <3>1 DEF JournalStep
  <2>3. CASE ~MayEnd(l)
    BY <1>8, <2>3 DEF ReleaseLease, JournalStep, Untouched
  <2>. QED  BY <2>2, <2>3
<1>9. CASE \E state \in Terminals : Terminate(l, state)
  <2>. PICK state \in Terminals : Terminate(l, state)
    BY <1>9
  <2>. DEFINE e == Ev(IF state = "completed" THEN "pipeline_completed" ELSE "pipeline_cancelled",
                      l, leaseGeneration, NoItem)
  <2>1. e \in Event
    BY <1>0, EvTyped DEF FileTyped, Kinds, Items
  <2>2. CASE MayEnd(l)
    <3>1. Journals(e)
      BY <2>1, <2>2 DEF Terminate, DropLease, Append1, Journals, Ev, WriteKinds
    <3>. QED  BY <2>1, <3>1 DEF JournalStep
  <2>3. CASE ~MayEnd(l)
    BY <2>3 DEF Terminate, JournalStep, Untouched
  <2>. QED  BY <2>2, <2>3
<1>. QED  BY <1>1, <1>2, <1>3, <1>4, <1>5, <1>6, <1>7, <1>8, <1>9 DEF RunnerNext

LEMMA StepJournals ==
  TypeOK /\ FenceInv /\ [Next]_vars => JournalStep
<1>. SUFFICES ASSUME TypeOK, FenceInv, [Next]_vars PROVE JournalStep
  OBVIOUS
<1>0. FileTyped /\ OperatorTyped
  BY TypeParts
<1>0a. leaseGeneration \in Nat /\ lease.generation \in Nat /\ lease.owner \in Lanes \cup {NoLane}
  BY <1>0, LeaseTyped DEF FileTyped
<1>1. CASE \E l \in Lanes : RunnerNext(l)
  BY <1>1, RunnerJournals
<1>2. ASSUME NEW l \in Lanes, SupervisorNext(l)
      PROVE  JournalStep
  <2>1. CASE UNCHANGED file
    BY <2>1 DEF file, JournalStep, Untouched
  <2>2. ASSUME NEW r \in Pending, Abort(r)
        PROVE  JournalStep
    <3>. DEFINE e == Ev("runtime_handoff_aborted", NoLane, leaseGeneration, r)
    <3>1. e \in Event
      BY <1>0a, EvTyped DEF Kinds, Items, Pending
    <3>2. Aborts(e)
      BY <2>2, <3>1 DEF Abort, Aborts, DropLease, Ev
    <3>. QED  BY <3>1, <3>2 DEF JournalStep
  <2>. QED  BY <1>2, <2>1, <2>2
            DEF SupervisorNext, SettleAccepting, AbortExpiredHandoff, Decide, Reap,
               CrashSupervisor
<1>3. CASE OperatorNext
  <2>1. CASE BeginAutonomousExecution \/ ApprovePrdRevision
    <3>. DEFINE e == Ev("prd_sealed", NoLane, leaseGeneration, NoItem)
    <3>1. e \in Event
      BY <1>0a, EvTyped DEF Kinds, Items
    <3>2. Journals(e)
      BY <2>1, <3>1 DEF BeginAutonomousExecution, ApprovePrdRevision, Append1, Journals, Ev,
                        WriteKinds, EndKinds, TerminalKinds
    <3>. QED  BY <3>1, <3>2 DEF JournalStep
  <2>2. CASE CancelByOperator
    <3>. DEFINE e == Ev("pipeline_cancelled", lease.owner, leaseGeneration, NoItem)
    <3>1. e \in Event
      BY <1>0a, EvTyped DEF Kinds, Items
    <3>2. Journals(e)
      BY <2>2, <3>1 DEF CancelByOperator, Append1, DropLease, Journals, Ev, WriteKinds
    <3>. QED  BY <3>1, <3>2 DEF JournalStep
  <2>3. CASE \E r \in Requests : RequestHandoff(r)
    <3>. PICK r \in Requests : RequestHandoff(r)
      BY <2>3
    <3>. DEFINE e == Ev("runtime_handoff_requested", lease.owner, lease.generation, r)
    <3>1. e \in Event
      BY <1>0a, EvTyped DEF Kinds, Items
    <3>2. Journals(e)
      BY <3>1 DEF RequestHandoff, LeaseLive, FenceInv, Append1, Journals, Ev, EndKinds,
                  TerminalKinds
    <3>. QED  BY <3>1, <3>2 DEF JournalStep
  <2>4. CASE ReleaseForHandoff /\ MayReleaseForHandoff
    <3>. DEFINE e == Ev("runtime_handoff_released", lease.owner, lease.generation,
                        operator.request)
    <3>1. operator.request \in Requests
      BY <1>0, <2>4, OpenRequest DEF MayReleaseForHandoff, OperatorTyped
    <3>2. e \in Event
      BY <1>0a, <3>1, EvTyped DEF Kinds, Items
    <3>3. Journals(e)
      BY <2>4, <3>2 DEF ReleaseForHandoff, MayReleaseForHandoff, LeaseLive, FenceInv, Append1,
                        DropLease, Journals, Ev, WriteKinds
    <3>. QED  BY <3>2, <3>3 DEF JournalStep
  <2>5. CASE ReleaseForHandoff /\ ~MayReleaseForHandoff
    BY <2>5 DEF ReleaseForHandoff, JournalStep, Untouched
  <2>6. CASE CrashOperator \/ (\E r \in Requests : ResumeHandoff(r))
             \/ \E l \in Lanes : SpawnTarget(l)
    BY <2>6 DEF CrashOperator, ResumeHandoff, SpawnTarget, file, JournalStep, Untouched
  <2>7. CASE LauncherRevisesPrd
    BY <2>7, ReviseJournals DEF LauncherRevisesPrd
  <2>. QED  BY <1>3, <2>1, <2>2, <2>3, <2>4, <2>5, <2>6, <2>7 DEF OperatorNext
<1>4. CASE ExpireLease \/ HandoffTimesOut \/ UNCHANGED vars
  BY <1>4 DEF ExpireLease, HandoffTimesOut, vars, file, JournalStep, Untouched
<1>. QED  BY <1>1, <1>2, <1>3, <1>4 DEF Next

LEMMA LoseOwnerFenced ==
  ASSUME TypeOK, FenceInv
  PROVE  /\ events \o LoseOwner \in Seq(Event)
         /\ FencedJournal(events \o LoseOwner)
         /\ Below(events \o LoseOwner, leaseGeneration)
<1>1. FileTyped /\ events \in Seq(Event) /\ leaseGeneration \in Nat
  BY TypeParts DEF TypeOK
<1>2. FencedJournal(events) /\ Below(events, leaseGeneration)
  BY DEF FenceInv, FencedWrites, FencedJournal
<1>3. CASE Leased
  <2>1. Lost \in Event /\ Lost.kind \notin WriteKinds /\ Lost.generation = leaseGeneration
    BY <1>1, <1>3, EvTyped, LeaseTyped DEF Lost, Kinds, Items, Ev, WriteKinds, FenceInv
  <2>2. events \o LoseOwner = Append(events, Lost)
    BY <1>1, <1>3, <2>1 DEF LoseOwner
  <2>. QED  BY <1>1, <1>2, <2>1, <2>2, AppendFenced
<1>4. CASE ~Leased
  <2>1. events \o LoseOwner = events
    BY <1>1, <1>4 DEF LoseOwner
  <2>. QED  BY <1>1, <1>2, <2>1
<1>. QED  BY <1>3, <1>4

LEMMA FenceStep ==
  ASSUME TypeOK, TypeOK', FenceInv, JournalStep
  PROVE  FenceInv'
<1>1. events \in Seq(Event) /\ leaseGeneration \in Nat
  BY DEF TypeOK
<1>2. FencedJournal(events)
  BY DEF FenceInv, FencedWrites, FencedJournal
<1>3. CASE Untouched
  BY <1>3 DEF Untouched, FenceInv, FencedWrites, Leased, Below, EndedBelow
<1>4. ASSUME NEW e \in Event, Journals(e)
      PROVE  FenceInv'
  <2>1. e.kind \in WriteKinds => EndedBelow(events, e.generation)
    BY <1>4 DEF Journals, FenceInv
  <2>2. FencedJournal(events') /\ Below(events', leaseGeneration)
    BY <1>1, <1>2, <1>4, <2>1, AppendFenced DEF Journals, FenceInv
  <2>3. Leased' => Leased /\ e.kind \notin EndKinds /\ lease' = lease
    BY <1>4 DEF Journals, Leased
  <2>4. Leased' => EndedBelow(events', leaseGeneration)
    BY <1>1, <1>4, <2>3, AppendEndedBelow DEF Journals, FenceInv
  <2>. QED  BY <1>4, <2>2, <2>3, <2>4 DEF Journals, FenceInv, FencedWrites, FencedJournal,
                                         Below, EndedBelow
<1>5. ASSUME NEW e \in Event, Grants(e) \/ Aborts(e)
      PROVE  FenceInv'
  <2>. DEFINE s == events \o LoseOwner
  <2>1. s \in Seq(Event) /\ FencedJournal(s) /\ Below(s, leaseGeneration)
    BY LoseOwnerFenced
  <2>2. events' = Append(s, e)
    BY <1>5, <2>1 DEF Grants, Aborts
  <2>. HIDE DEF s
  <2>3. CASE Grants(e)
    <3>1. Below(s, leaseGeneration + 1) /\ EndedBelow(s, leaseGeneration + 1)
      BY <1>1, <2>1, BelowNext
    <3>2. e.kind \notin EndKinds /\ e.generation = leaseGeneration + 1
      BY <2>3 DEF Grants, GrantKinds, EndKinds, TerminalKinds
    <3>3. FencedJournal(events') /\ Below(events', leaseGeneration + 1)
      BY <1>1, <2>1, <2>2, <3>1, <3>2, AppendFenced
    <3>4. EndedBelow(events', leaseGeneration + 1)
      BY <1>1, <2>1, <2>2, <3>1, <3>2, AppendEndedBelow
    <3>. QED  BY <2>3, <3>3, <3>4 DEF Grants, FenceInv, FencedWrites, FencedJournal,
                                      Below, EndedBelow
  <2>4. CASE Aborts(e)
    <3>1. e.kind \notin WriteKinds /\ e.generation <= leaseGeneration
      BY <1>1, <2>4 DEF Aborts, WriteKinds
    <3>2. FencedJournal(events') /\ Below(events', leaseGeneration)
      BY <1>1, <2>1, <2>2, <3>1, AppendFenced
    <3>3. ~Leased' /\ leaseGeneration' = leaseGeneration
      BY <2>4 DEF Aborts, Leased
    <3>. QED  BY <3>2, <3>3 DEF FenceInv, FencedWrites, FencedJournal, Below
  <2>. QED  BY <1>5, <2>3, <2>4
<1>. QED  BY <1>3, <1>4, <1>5 DEF JournalStep

LEMMA InitFenced ==
  Init => FenceInv
<1>. SUFFICES ASSUME Init PROVE FenceInv
  OBVIOUS
<1>1. DOMAIN events = {1} /\ events[1].generation = 0
  BY DEF Init, Ev
<1>. QED  BY <1>1 DEF Init, FenceInv, FencedWrites, Leased, Below

\* No executor journals anything under a lease that an earlier event ended: the
\* fence of assertLeaseFence holds for every interleaving of the processes.
THEOREM WritesAreFenced ==
  Spec => []FencedWrites
<1>1. TypeOK /\ FenceInv /\ [Next]_vars => (TypeOK /\ FenceInv)'
  BY StepTyped, StepJournals, FenceStep
<1>2. FenceInv => FencedWrites
  BY DEF FenceInv
<1>. QED  BY InitTyped, InitFenced, <1>1, <1>2, PTL DEF Spec

\* No operation hands the lease of a live owner, still in its time, to another:
\* watchdog, acquisition and acceptance all find it gone or expired first.
THEOREM LeaseNeverStolen ==
  Spec => NoLeaseTheft
<1>1. TypeOK /\ FenceInv /\ [Next]_vars => (TypeOK /\ FenceInv)'
  BY StepTyped, StepJournals, FenceStep
<1>2. ASSUME TypeOK, FenceInv, [Next]_vars, LeaseLive, OwnerAlive, lease' # NoLease
      PROVE  lease'.owner = lease.owner /\ lease'.generation = lease.generation
  <2>1. JournalStep
    BY <1>2, StepJournals
  <2>. QED  BY <1>2, <2>1 DEF JournalStep, Untouched, Journals, Grants, Aborts
<1>3. TypeOK /\ FenceInv /\ [Next]_vars
        => [(LeaseLive /\ OwnerAlive /\ lease' # NoLease)
              => (lease'.owner = lease.owner /\ lease'.generation = lease.generation)]_vars
  BY <1>2
<1>. QED  BY InitTyped, InitFenced, <1>1, <1>3, PTL DEF Spec, NoLeaseTheft

-----------------------------------------------------------------------------
(* Under the operation lock a PRD revision admits one handoff target at most. *)

\* One runner at a time is past the operation lock.
AloneInside ==
  ExclusiveOperation => \A l, m \in Lanes : Inside(l) /\ Inside(m) => l = m

\* The revision of event i still waits for its approval.
Waiting(i) == Stands(i, Len(events) + 1)

TargetKinds == GrantKinds \cup {"runtime_handoff_requested"}

\* While a revision waits the control state says so, and as long as a start that read the
\* control state before stands at its acceptance, nobody owned the lease since and no
\* handoff was requested since: a request needs an owner.
RevisionWaits ==
  \A i \in DOMAIN events : Waiting(i) =>
    /\ control = "prd_revision_required"
    /\ \A l \in Lanes : pc[l] = "accept" =>
         /\ ~Leased
         /\ \A k \in i .. Len(events) : events[k].kind \notin TargetKinds

RevisionInv ==
  /\ AloneInside
  /\ ExclusiveOperation => RevisionWaits
  /\ RevisionAdmitsOneTarget

\* Events that neither revise, nor seal, nor give the lease away.
QuietKinds == Kinds \ (GrantKinds \cup {"prd_sealed", "prd_revision_requested"})

\* The journal keeps what it has.
Grows ==
  /\ Len(events') \in Nat /\ Len(events) <= Len(events')
  /\ DOMAIN events' = 1 .. Len(events')
  /\ \A k \in 1 .. Len(events) : events'[k] = events[k]

\* Nobody new stands at an acceptance, unless in autonomous execution.
NoNewTarget ==
  \A l \in Lanes : pc'[l] = "accept" =>
    pc[l] = "accept" \/ (UNCHANGED events /\ control = "autonomous_execution")

\* What a step may do to the journal: nothing that matters here; seal; revise; grant.
Quiet ==
  /\ Grows /\ control' = control /\ lease' \in {lease, NoLease}
  /\ \A k \in Len(events) + 1 .. Len(events') :
       /\ events'[k].kind \in QuietKinds
       /\ events'[k].kind = "runtime_handoff_requested" => Leased
  /\ NoNewTarget

Seals ==
  /\ Grows /\ Len(events') = Len(events) + 1 /\ NoNewTarget
  /\ events'[Len(events')].kind = "prd_sealed"

Revises ==
  /\ Grows /\ Len(events') = Len(events) + 1 /\ NoNewTarget
  /\ control = "autonomous_execution" /\ control' = "prd_revision_required"
  /\ lease' = NoLease
  /\ events'[Len(events')].kind = "prd_revision_requested"

GrantsTo(l) ==
  /\ Grows /\ Len(events) < Len(events') /\ NoNewTarget
  /\ control' = control /\ Inside(l) /\ pc'[l] = "run"
  /\ \A k \in Len(events) + 1 .. Len(events') - 1 : events'[k].kind \in QuietKinds
  /\ LET e == events'[Len(events')]
     IN  /\ e.kind \in GrantKinds
         /\ \/ control = "autonomous_execution"
            \/ /\ pc[l] = "accept" /\ e.kind = "runtime_handoff_completed"
               /\ Journaled({"runtime_handoff_requested"}, e.item)

\* What waited before and what waits after, along a step that keeps the journal.
LEMMA WaitingBefore ==
  ASSUME TypeOK, Grows, NEW i \in DOMAIN events, Waiting(i)'
  PROVE  Waiting(i)
BY DEF TypeOK, Waiting, Stands, Grows

\* The old part of the journal keeps the property.
LEMMA OldPairs ==
  ASSUME TypeOK, Grows, RevisionAdmitsOneTarget, ExclusiveOperation,
         NEW i \in DOMAIN events, NEW j \in DOMAIN events,
         Stands(i, j)', events'[j].kind \in GrantKinds
  PROVE  /\ events'[j].kind = "runtime_handoff_completed"
         /\ \E h \in 1 .. i - 1 : /\ events'[h].kind = "runtime_handoff_requested"
                                 /\ events'[h].item = events'[j].item
         /\ \A k \in i .. j - 1 : events'[k].kind \notin GrantKinds
<1>1. events \in Seq(Event) /\ DOMAIN events = 1 .. Len(events) /\ Len(events) \in Nat
  BY DEF TypeOK
<1>2. Stands(i, j) /\ events[j].kind \in GrantKinds
  BY <1>1 DEF Stands, Grows
<1>3. /\ events[j].kind = "runtime_handoff_completed"
      /\ \E h \in 1 .. i - 1 : /\ events[h].kind = "runtime_handoff_requested"
                              /\ events[h].item = events[j].item
      /\ \A k \in i .. j - 1 : events[k].kind \notin GrantKinds
  BY <1>2 DEF RevisionAdmitsOneTarget
<1>. QED  BY <1>1, <1>3 DEF Grows

\* Without a new grant the property stands.
LEMMA NoNewGrant ==
  ASSUME TypeOK, Grows, RevisionAdmitsOneTarget,
         \A k \in Len(events) + 1 .. Len(events') : events'[k].kind \notin GrantKinds
  PROVE  RevisionAdmitsOneTarget'
<1>1. DOMAIN events = 1 .. Len(events) /\ Len(events) \in Nat
  BY DEF TypeOK
<1>2. SUFFICES ASSUME ExclusiveOperation, NEW i \in DOMAIN events', NEW j \in DOMAIN events',
                      Stands(i, j)', events'[j].kind \in GrantKinds
               PROVE  /\ events'[j].kind = "runtime_handoff_completed"
                      /\ \E h \in 1 .. i - 1 :
                           /\ events'[h].kind = "runtime_handoff_requested"
                           /\ events'[h].item = events'[j].item
                      /\ \A k \in i .. j - 1 : events'[k].kind \notin GrantKinds
  BY DEF RevisionAdmitsOneTarget
<1>3. j \in DOMAIN events
  BY <1>1, <1>2 DEF Grows
<1>4. i \in DOMAIN events
  BY <1>1, <1>2, <1>3 DEF Grows, Stands
<1>. QED  BY <1>2, <1>3, <1>4, OldPairs

LEMMA QuietKeeps ==
  ASSUME TypeOK, ExclusiveOperation => RevisionWaits, RevisionAdmitsOneTarget, Quiet
  PROVE  (ExclusiveOperation => RevisionWaits') /\ RevisionAdmitsOneTarget'
<1>1. DOMAIN events = 1 .. Len(events) /\ Len(events) \in Nat /\ TypeOK
  BY DEF TypeOK
<1>2. RevisionAdmitsOneTarget'
  BY NoNewGrant DEF Quiet, QuietKinds
<1>3. ASSUME ExclusiveOperation, NEW i \in DOMAIN events', Waiting(i)'
      PROVE  /\ control' = "prd_revision_required"
             /\ \A l \in Lanes : pc'[l] = "accept" =>
                  /\ ~Leased'
                  /\ \A k \in i .. Len(events') : events'[k].kind \notin TargetKinds
  <2>1. i \in DOMAIN events
    BY <1>1, <1>3 DEF Quiet, Grows, Waiting, Stands, QuietKinds
  <2>2. Waiting(i)
    BY <1>1, <1>3, <2>1, WaitingBefore DEF Quiet
  <2>3. /\ control = "prd_revision_required"
        /\ \A l \in Lanes : pc[l] = "accept" =>
             /\ ~Leased
             /\ \A k \in i .. Len(events) : events[k].kind \notin TargetKinds
    BY <1>3, <2>1, <2>2 DEF RevisionWaits
  <2>4. control' = control /\ control # "autonomous_execution"
    BY <2>3 DEF Quiet
  <2>5. ASSUME NEW l \in Lanes, pc'[l] = "accept"
        PROVE  /\ ~Leased'
               /\ \A k \in i .. Len(events') : events'[k].kind \notin TargetKinds
    <3>1. pc[l] = "accept"
      BY <2>4, <2>5 DEF Quiet, NoNewTarget
    <3>2. ~Leased /\ ~Leased'
      BY <2>3, <3>1 DEF Quiet, Leased
    <3>3. ASSUME NEW k \in i .. Len(events')
          PROVE  events'[k].kind \notin TargetKinds
      <4>1. CASE k <= Len(events)
        BY <1>1, <2>1, <2>3, <3>1, <3>3, <4>1 DEF Quiet, Grows
      <4>2. CASE k > Len(events)
        BY <1>1, <2>1, <3>2, <3>3, <4>2 DEF Quiet, Grows, QuietKinds, TargetKinds
      <4>. QED  BY <1>1, <2>1, <3>3, <4>1, <4>2 DEF Quiet, Grows
    <3>. QED  BY <3>2, <3>3
  <2>. QED  BY <2>3, <2>4, <2>5
<1>. QED  BY <1>2, <1>3 DEF RevisionWaits

LEMMA SealsKeep ==
  ASSUME TypeOK, RevisionAdmitsOneTarget, Seals
  PROVE  RevisionWaits' /\ RevisionAdmitsOneTarget'
<1>1. DOMAIN events = 1 .. Len(events) /\ Len(events) \in Nat
  BY DEF TypeOK
<1>2. RevisionAdmitsOneTarget'
  BY <1>1, NoNewGrant DEF Seals, GrantKinds
<1>3. ASSUME NEW i \in DOMAIN events', Waiting(i)'
      PROVE  FALSE
  BY <1>1, <1>3 DEF Seals, Grows, Waiting, Stands
<1>. QED  BY <1>2, <1>3 DEF RevisionWaits

LEMMA RevisesKeep ==
  ASSUME TypeOK, ExclusiveOperation => RevisionWaits, RevisionAdmitsOneTarget, Revises
  PROVE  (ExclusiveOperation => RevisionWaits') /\ RevisionAdmitsOneTarget'
<1>1. DOMAIN events = 1 .. Len(events) /\ Len(events) \in Nat /\ TypeOK
  BY DEF TypeOK
<1>2. RevisionAdmitsOneTarget'
  BY <1>1, NoNewGrant DEF Revises, GrantKinds
<1>3. ASSUME ExclusiveOperation, NEW i \in DOMAIN events', Waiting(i)'
      PROVE  \A k \in i .. Len(events') : events'[k].kind \notin TargetKinds
  <2>1. CASE i \in DOMAIN events
    <3>1. Waiting(i)
      BY <1>1, <1>3, <2>1, WaitingBefore DEF Revises
    <3>. QED  BY <1>3, <2>1, <3>1 DEF RevisionWaits, Revises
  <2>2. CASE i \notin DOMAIN events
    <3>1. i = Len(events')
      BY <1>1, <1>3, <2>2 DEF Revises, Grows
    <3>. QED  BY <1>1, <3>1 DEF Revises, TargetKinds, GrantKinds
  <2>. QED  BY <2>1, <2>2
<1>. QED  BY <1>2, <1>3 DEF RevisionWaits, Revises, Leased

\* A grant while a revision waits is the acceptance of the one runner that was there.
LEMMA GrantsKeep ==
  ASSUME TypeOK, AloneInside, ExclusiveOperation => RevisionWaits,
         RevisionAdmitsOneTarget, NEW l \in Lanes, GrantsTo(l)
  PROVE  (ExclusiveOperation => RevisionWaits') /\ RevisionAdmitsOneTarget'
<1>. DEFINE n == Len(events')
            e == events'[n]
<1>1. DOMAIN events = 1 .. Len(events) /\ Len(events) \in Nat /\ TypeOK
  BY DEF TypeOK
<1>2. ASSUME ExclusiveOperation, NEW i \in DOMAIN events',
             Stands(i, Len(events))' \/ Waiting(i)'
      PROVE  /\ i \in DOMAIN events /\ control = "prd_revision_required"
             /\ pc[l] = "accept" /\ e.kind = "runtime_handoff_completed"
             /\ Journaled({"runtime_handoff_requested"}, e.item)
             /\ \A k \in i .. Len(events) : events[k].kind \notin TargetKinds
  <2>0. /\ Grows /\ n \in Nat /\ Len(events) < n /\ e.kind \in GrantKinds
        /\ \A k \in Len(events) + 1 .. n - 1 : events'[k].kind \in QuietKinds
    BY DEF GrantsTo, Grows
  <2>1. i \in DOMAIN events
    <3>1. events'[i].kind = "prd_revision_requested" /\ i \in 1 .. n
      BY <1>2, <2>0 DEF Grows, Waiting, Stands
    <3>2. i # n
      BY <2>0, <3>1 DEF GrantKinds
    <3>. QED  BY <1>1, <2>0, <3>1, <3>2 DEF QuietKinds
  <2>2. Waiting(i)
    BY <1>1, <1>2, <2>0, <2>1 DEF Grows, Waiting, Stands
  <2>3. control = "prd_revision_required"
    BY <1>2, <2>1, <2>2 DEF RevisionWaits
  <2>4. /\ pc[l] = "accept" /\ e.kind = "runtime_handoff_completed"
        /\ Journaled({"runtime_handoff_requested"}, e.item)
    BY <2>3 DEF GrantsTo
  <2>. QED  BY <1>2, <2>1, <2>2, <2>3, <2>4 DEF RevisionWaits
<1>3. ASSUME ExclusiveOperation PROVE RevisionWaits'
  <2>1. ASSUME NEW m \in Lanes, pc'[m] = "accept", control # "autonomous_execution" PROVE FALSE
    <3>1. pc[m] = "accept" /\ m # l
      BY <2>1 DEF GrantsTo, NoNewTarget
    <3>. QED  BY <1>3, <3>1 DEF AloneInside, Inside, GrantsTo
  <2>. QED  BY <1>2, <1>3, <2>1 DEF RevisionWaits, GrantsTo
<1>4. ASSUME ExclusiveOperation, NEW i \in DOMAIN events', NEW j \in DOMAIN events',
             Stands(i, j)', events'[j].kind \in GrantKinds
      PROVE  /\ events'[j].kind = "runtime_handoff_completed"
             /\ \E h \in 1 .. i - 1 : /\ events'[h].kind = "runtime_handoff_requested"
                                     /\ events'[h].item = events'[j].item
             /\ \A k \in i .. j - 1 : events'[k].kind \notin GrantKinds
  <2>1. CASE j \in DOMAIN events
    <3>1. i \in DOMAIN events
      BY <1>1, <1>4, <2>1 DEF GrantsTo, Grows, Stands
    <3>. QED  BY <1>4, <2>1, <3>1, <1>1, OldPairs DEF GrantsTo
  <2>2. CASE j \notin DOMAIN events
    <3>1. j = n
      BY <1>1, <1>4, <2>2 DEF GrantsTo, Grows, QuietKinds
    <3>2. /\ i \in DOMAIN events
          /\ e.kind = "runtime_handoff_completed"
          /\ Journaled({"runtime_handoff_requested"}, e.item)
          /\ \A k \in i .. Len(events) : events[k].kind \notin TargetKinds
      <4>1. Stands(i, Len(events))'
        BY <1>4, <3>1
      <4>. QED  BY <1>2, <1>4, <4>1
    <3>3. PICK h \in DOMAIN events : /\ events[h].kind = "runtime_handoff_requested"
                                     /\ events[h].item = e.item
      BY <3>2 DEF Journaled
    <3>4. h < i
      BY <1>1, <3>2, <3>3 DEF TargetKinds
    <3>5. /\ h \in 1 .. i - 1
          /\ events'[h].kind = "runtime_handoff_requested" /\ events'[h].item = e.item
      BY <1>1, <3>2, <3>3, <3>4 DEF GrantsTo, Grows
    <3>6. ASSUME NEW k \in i .. n - 1 PROVE events'[k].kind \notin GrantKinds
      <4>1. CASE k <= Len(events)
        BY <1>1, <3>2, <3>6, <4>1 DEF GrantsTo, Grows, TargetKinds
      <4>2. CASE k > Len(events)
        BY <1>1, <3>2, <3>6, <4>2 DEF GrantsTo, Grows, QuietKinds
      <4>. QED  BY <1>1, <3>2, <3>6, <4>1, <4>2 DEF GrantsTo, Grows
    <3>. QED  BY <3>1, <3>2, <3>5, <3>6
  <2>. QED  BY <2>1, <2>2
<1>. QED  BY <1>3, <1>4 DEF RevisionAdmitsOneTarget

\* The journal's growth, by the shape of the update.
LEMMA GrowsByNothing == TypeOK /\ UNCHANGED events => Grows
BY DEF TypeOK, Grows

LEMMA GrowsByOne ==
  ASSUME TypeOK, NEW e, events' = Append(events, e)
  PROVE  Grows /\ Len(events') = Len(events) + 1 /\ events'[Len(events')] = e
BY DEF TypeOK, Grows

\* The loss of an owner and one event.
LEMMA GrowsByLoss ==
  ASSUME TypeOK, NEW e, events' = events \o LoseOwner \o <<e>>
  PROVE  /\ Grows /\ Len(events) < Len(events') /\ events'[Len(events')] = e
         /\ \A k \in Len(events) + 1 .. Len(events') - 1 : events'[k].kind = "executor_lost"
<1>1. events \in Seq(Event)
  BY DEF TypeOK
<1>2. CASE Leased
  <2>1. events' = events \o <<Lost>> \o <<e>>
    BY <1>2 DEF LoseOwner
  <2>2. /\ Len(events') = Len(events) + 2 /\ DOMAIN events' = 1 .. Len(events')
        /\ \A k \in 1 .. Len(events) : events'[k] = events[k]
        /\ events'[Len(events) + 1] = Lost /\ events'[Len(events) + 2] = e
    BY <1>1, <2>1
  <2>. QED  BY <1>1, <2>2 DEF Grows, Lost, Ev
<1>3. CASE ~Leased
  <2>1. events' = Append(events, e)
    BY <1>1, <1>3 DEF LoseOwner
  <2>2. /\ Len(events') = Len(events) + 1 /\ DOMAIN events' = 1 .. Len(events')
        /\ \A k \in 1 .. Len(events) : events'[k] = events[k]
        /\ events'[Len(events) + 1] = e
    BY <1>1, <2>1
  <2>. QED  BY <1>1, <2>2 DEF Grows
<1>. QED  BY <1>2, <1>3

\* A grant in autonomous execution, or of a handoff by a runner that stood before it.
LEMMA GrantGrants ==
  ASSUME TypeOK, NEW l \in Lanes, NEW kind \in GrantKinds, NEW item,
         Grant(l, kind, item), Inside(l),
         \/ control = "autonomous_execution"
         \/ /\ pc[l] = "accept" /\ kind = "runtime_handoff_completed"
            /\ Journaled({"runtime_handoff_requested"}, item)
  PROVE  GrantsTo(l)
<1>. DEFINE e == Ev(kind, l, leaseGeneration + 1, item)
<1>1. events' = events \o LoseOwner \o <<e>>
  BY DEF Grant
<1>2. /\ Grows /\ Len(events) < Len(events') /\ events'[Len(events')] = e
      /\ \A k \in Len(events) + 1 .. Len(events') - 1 : events'[k].kind = "executor_lost"
  BY <1>1, GrowsByLoss
<1>3. /\ control' = control /\ pc'[l] = "run" /\ NoNewTarget
  BY DEF Grant, TypeOK, NoNewTarget
<1>4. e.kind = kind /\ e.item = item
  BY DEF Ev
<1>. HIDE DEF e
<1>. QED  BY <1>2, <1>3, <1>4 DEF GrantsTo, QuietKinds, Kinds, GrantKinds

LEMMA QuietByOne ==
  ASSUME TypeOK, NEW e, events' = Append(events, e), e.kind \in QuietKinds,
         e.kind = "runtime_handoff_requested" => Leased,
         control' = control, lease' \in {lease, NoLease}, NoNewTarget
  PROVE  Quiet
<1>1. Grows /\ Len(events') = Len(events) + 1 /\ events'[Len(events')] = e
  BY GrowsByOne
<1>2. Len(events) \in Nat
  BY DEF TypeOK
<1>. QED  BY <1>1, <1>2 DEF Quiet

LEMMA QuietByNothing ==
  ASSUME TypeOK, UNCHANGED events, control' = control, lease' \in {lease, NoLease}, NoNewTarget
  PROVE  Quiet
BY GrowsByNothing DEF Quiet, TypeOK

LEMMA RevisesByRevise ==
  ASSUME TypeOK, MayRevise, Revise, NoNewTarget
  PROVE  Revises
<1>1. events' = Append(events, Ev("prd_revision_requested", lease.owner, leaseGeneration, NoItem))
  BY DEF Revise, Append1
<1>. QED  BY <1>1, GrowsByOne DEF Revise, MayRevise, DropLease, Revises, Ev

JournalMoves == Quiet \/ Seals \/ Revises \/ \E l \in Lanes : GrantsTo(l)

LEMMA RunnerMoves ==
  ASSUME TypeOK, NEW l \in Lanes, RunnerNext(l)
  PROVE  JournalMoves
<1>0. pc \in [Lanes -> RunnerPCs]
  BY DEF TypeOK
<1>. USE DEF JournalMoves
<1>1. CASE StartRun(l)
  <2>1. NoNewTarget
    BY <1>0, <1>1 DEF StartRun, Goto, Exit, NoNewTarget, file
  <2>. QED  BY <1>1, <2>1, QuietByNothing DEF StartRun, file
<1>2. CASE Acquire(l) \/ Watchdog(l) \/ Accept(l)
  <2>1. Inside(l)
    BY <1>2 DEF Acquire, Watchdog, Accept, Inside
  <2>2. CASE Exit(l) /\ UNCHANGED file
    <3>1. NoNewTarget
      BY <1>0, <2>2 DEF Exit, NoNewTarget
    <3>. QED  BY <2>2, <3>1, QuietByNothing DEF file
  <2>3. CASE \E kind \in GrantKinds : \E item :
               /\ Grant(l, kind, item)
               /\ \/ control = "autonomous_execution"
                  \/ /\ pc[l] = "accept" /\ kind = "runtime_handoff_completed"
                     /\ Journaled({"runtime_handoff_requested"}, item)
    BY <2>1, <2>3, GrantGrants
  <2>4. CASE Acquire(l)
    BY <2>2, <2>3, <2>4 DEF Acquire, MayAcquire, GrantKinds
  <2>5. CASE Watchdog(l)
    BY <2>2, <2>3, <2>5 DEF Watchdog, MayRecover, GrantKinds
  <2>6. CASE Accept(l)
    BY <2>2, <2>3, <2>6 DEF Accept, MayAccept, Open, GrantKinds
  <2>. QED  BY <1>2, <2>4, <2>5, <2>6
<1>3. CASE Renew(l)
  <2>1. events' = Append(events, Ev("lease_renewed", l, held[l], NoItem)) /\ NoNewTarget
    BY <1>3 DEF Renew, Append1, runners, NoNewTarget
  <2>. QED  BY <1>3, <2>1, QuietByOne DEF Renew, Ev, QuietKinds, Kinds, GrantKinds
<1>4. CASE \/ AssertOwned(l) \/ Finish(l) \/ CitadelRefuses(l) \/ CrashRunner(l)
           \/ \E reason \in Reasons : EndRun(l, reason)
  <2>1. UNCHANGED file
    BY <1>4 DEF AssertOwned, Finish, CitadelRefuses, CrashRunner, EndRun
  <2>2. NoNewTarget
    BY <1>0, <1>4 DEF AssertOwned, Finish, CitadelRefuses, CrashRunner, EndRun, Goto, Leave,
                      Exit, NoNewTarget
  <2>. QED  BY <2>1, <2>2, QuietByNothing DEF file
<1>5. ASSUME NEW receipt \in Receipts, NEW payload \in Payloads,
             RecordCheckpoint(l, receipt, payload)
      PROVE  JournalMoves
  <2>1. NoNewTarget /\ control' = control /\ lease' = lease
    BY <1>0, <1>5 DEF RecordCheckpoint, Goto, Leave, NoNewTarget
  <2>2. CASE events' = Append(events, Ev("checkpoint_recorded", l, held[l], <<receipt, payload>>))
    BY <2>1, <2>2, QuietByOne DEF Ev, QuietKinds, Kinds, GrantKinds
  <2>3. CASE UNCHANGED events
    BY <2>1, <2>3, QuietByNothing
  <2>. QED  BY <1>5, <2>2, <2>3 DEF RecordCheckpoint, Append1
<1>6. CASE RequestPrdRevision(l)
  <2>1. NoNewTarget
    BY <1>0, <1>6 DEF RequestPrdRevision, Leave, NoNewTarget
  <2>2. CASE MayRevise
    BY <1>6, <2>1, <2>2, RevisesByRevise DEF RequestPrdRevision
  <2>3. CASE ~MayRevise
    BY <1>6, <2>1, <2>3, QuietByNothing DEF RequestPrdRevision, file
  <2>. QED  BY <2>2, <2>3
<1>7. CASE ReleaseLease(l) \/ \E state \in Terminals : Terminate(l, state)
  <2>1. NoNewTarget /\ control' = control /\ lease' \in {lease, NoLease}
    BY <1>0, <1>7 DEF ReleaseLease, Terminate, Exit, DropLease, NoNewTarget
  <2>2. \/ UNCHANGED events
        \/ \E kind \in {"lease_released"} \cup TerminalKinds :
             events' = Append(events, Ev(kind, l, leaseGeneration, NoItem))
    BY <1>7 DEF ReleaseLease, Terminate, Append1, TerminalKinds
  <2>3. ASSUME NEW kind \in {"lease_released"} \cup TerminalKinds
        PROVE  LET e == Ev(kind, l, leaseGeneration, NoItem)
               IN  e.kind \in QuietKinds /\ e.kind # "runtime_handoff_requested"
    BY <2>3 DEF Ev, QuietKinds, Kinds, GrantKinds, TerminalKinds
  <2>. QED  BY <2>1, <2>2, <2>3, QuietByOne, QuietByNothing
<1>. QED  BY <1>1, <1>2, <1>3, <1>4, <1>5, <1>6, <1>7 DEF RunnerNext

LEMMA AbortMoves ==
  ASSUME TypeOK, NEW r, Abort(r), NoNewTarget
  PROVE  Quiet
<1>. DEFINE e == Ev("runtime_handoff_aborted", NoLane, leaseGeneration, r)
<1>1. events' = events \o LoseOwner \o <<e>>
  BY DEF Abort
<1>2. /\ Grows /\ Len(events) < Len(events') /\ events'[Len(events')] = e
      /\ \A k \in Len(events) + 1 .. Len(events') - 1 : events'[k].kind = "executor_lost"
  BY <1>1, GrowsByLoss
<1>3. e.kind = "runtime_handoff_aborted"
  BY DEF Ev
<1>4. Len(events) \in Nat /\ Len(events') \in Nat
  BY <1>2 DEF TypeOK, Grows
<1>. HIDE DEF e
<1>5. ASSUME NEW k \in Len(events) + 1 .. Len(events')
      PROVE  events'[k].kind \in {"executor_lost", "runtime_handoff_aborted"}
  BY <1>2, <1>3, <1>4
<1>. QED  BY <1>2, <1>5 DEF Abort, DropLease, Quiet, QuietKinds, Kinds, GrantKinds

LEMMA StepMoves ==
  ASSUME TypeOK, [Next]_vars
  PROVE  JournalMoves
<1>. USE DEF JournalMoves
<1>1. ASSUME NEW l \in Lanes, RunnerNext(l) PROVE JournalMoves
  BY <1>1, RunnerMoves
<1>2. ASSUME NEW l \in Lanes, SupervisorNext(l) PROVE JournalMoves
  <2>1. NoNewTarget
    BY <1>2 DEF TypeOK, SupervisorNext, SettleAccepting, AbortExpiredHandoff, Decide, Reap,
                CrashSupervisor, runners, NoNewTarget
  <2>2. CASE UNCHANGED file
    BY <2>1, <2>2, QuietByNothing DEF file
  <2>3. UNCHANGED file \/ \E r \in Pending : Abort(r)
    BY <1>2 DEF SupervisorNext, SettleAccepting, AbortExpiredHandoff, Decide, Reap,
                CrashSupervisor
  <2>. QED  BY <2>1, <2>2, <2>3, AbortMoves
<1>3. CASE BeginAutonomousExecution \/ ApprovePrdRevision
  <2>1. NoNewTarget /\ events' = Append(events, Ev("prd_sealed", NoLane, leaseGeneration, NoItem))
    BY <1>3 DEF BeginAutonomousExecution, ApprovePrdRevision, Append1, runners, NoNewTarget
  <2>. QED  BY <2>1, GrowsByOne DEF Seals, Ev
<1>4. CASE LauncherRevisesPrd
  BY <1>4, RevisesByRevise DEF LauncherRevisesPrd, runners, NoNewTarget
<1>5. CASE CancelByOperator
  <2>1. /\ NoNewTarget /\ control' = control /\ lease' = NoLease
        /\ events' = Append(events, Ev("pipeline_cancelled", lease.owner, leaseGeneration, NoItem))
    BY <1>5 DEF CancelByOperator, Append1, DropLease, runners, NoNewTarget
  <2>. QED  BY <2>1, QuietByOne DEF Ev, QuietKinds, Kinds, GrantKinds
<1>6. ASSUME NEW r \in Requests, RequestHandoff(r) PROVE JournalMoves
  <2>1. /\ NoNewTarget /\ control' = control /\ lease' = lease /\ Leased
        /\ events' = Append(events, Ev("runtime_handoff_requested", lease.owner,
                                       lease.generation, r))
    BY <1>6 DEF RequestHandoff, Append1, LeaseLive, runners, NoNewTarget
  <2>. QED  BY <2>1, QuietByOne DEF Ev, QuietKinds, Kinds, GrantKinds
<1>7. CASE ReleaseForHandoff
  <2>1. NoNewTarget /\ control' = control /\ lease' \in {lease, NoLease}
    BY <1>7 DEF ReleaseForHandoff, DropLease, runners, NoNewTarget
  <2>2. \/ UNCHANGED events
        \/ events' = Append(events, Ev("runtime_handoff_released", lease.owner,
                                       lease.generation, operator.request))
    BY <1>7 DEF ReleaseForHandoff, Append1
  <2>3. LET e == Ev("runtime_handoff_released", lease.owner, lease.generation, operator.request)
        IN  e.kind \in QuietKinds /\ e.kind # "runtime_handoff_requested"
    BY DEF Ev, QuietKinds, Kinds, GrantKinds
  <2>. QED  BY <2>1, <2>2, <2>3, QuietByOne, QuietByNothing
<1>8. CASE \/ \E r \in Requests : ResumeHandoff(r)
           \/ CrashOperator \/ (\E l \in Lanes : SpawnTarget(l))
           \/ ExpireLease \/ HandoffTimesOut \/ UNCHANGED vars
  <2>1. UNCHANGED <<file, pc>>
    BY <1>8 DEF ResumeHandoff, CrashOperator, SpawnTarget, ExpireLease, HandoffTimesOut, vars,
                runners
  <2>. QED  BY <2>1, QuietByNothing DEF file, NoNewTarget
<1>. QED  BY <1>1, <1>2, <1>3, <1>4, <1>5, <1>6, <1>7, <1>8 DEF Next, OperatorNext

\* A runner gets past the lock alone.
LEMMA AloneStep ==
  ASSUME TypeOK, AloneInside, [Next]_vars
  PROVE  AloneInside'
<1>0. pc \in [Lanes -> RunnerPCs]
  BY DEF TypeOK
<1>1. ASSUME NEW l \in Lanes, RunnerNext(l) PROVE AloneInside'
  <2>1. \A m \in Lanes \ {l} : pc'[m] = pc[m]
    BY <1>0, <1>1 DEF RunnerNext, StartRun, Acquire, Watchdog, Accept, Renew, AssertOwned,
       RecordCheckpoint, EndRun, RequestPrdRevision, Finish, CitadelRefuses, ReleaseLease,
       Terminate, CrashRunner, Grant, Exit, Goto, Leave, runners
  <2>2. CASE StartRun(l)
    <3>1. OperationFree(l) \/ pc'[l] = "idle"
      BY <1>0, <2>2 DEF StartRun, Exit
    <3>. QED  BY <2>1, <3>1 DEF AloneInside, Inside, OperationFree
  <2>3. CASE ~StartRun(l)
    <3>1. Inside(l) \/ pc'[l] = "idle"
      BY <1>0, <1>1, <2>3 DEF RunnerNext, Acquire, Watchdog, Accept, Renew, AssertOwned,
         RecordCheckpoint, EndRun, RequestPrdRevision, Finish, CitadelRefuses, ReleaseLease,
         Terminate, CrashRunner, Inside
    <3>. QED  BY <2>1, <3>1 DEF AloneInside, Inside
  <2>. QED  BY <2>2, <2>3
<1>2. ASSUME NEW l \in Lanes, SupervisorNext(l) PROVE AloneInside'
  <2>1. \A m \in Lanes : pc'[m] = pc[m] \/ pc'[m] \in {"idle", "start"}
    BY <1>2 DEF TypeOK, SupervisorNext, SettleAccepting, AbortExpiredHandoff, Decide, Reap,
                CrashSupervisor, runners
  <2>. QED  BY <2>1 DEF AloneInside, Inside
<1>3. CASE OperatorNext \/ ExpireLease \/ HandoffTimesOut \/ UNCHANGED vars
  <2>1. UNCHANGED pc
    BY <1>3 DEF OperatorNext, BeginAutonomousExecution, ApprovePrdRevision, LauncherRevisesPrd,
                CancelByOperator, RequestHandoff, ResumeHandoff, ReleaseForHandoff,
                CrashOperator, SpawnTarget, ExpireLease, HandoffTimesOut, vars, runners
  <2>. QED  BY <2>1 DEF AloneInside, Inside
<1>. QED  BY <1>1, <1>2, <1>3 DEF Next

LEMMA RevisionStep ==
  TypeOK /\ RevisionInv /\ [Next]_vars => RevisionInv'
<1>. SUFFICES ASSUME TypeOK, RevisionInv, [Next]_vars PROVE RevisionInv'
  OBVIOUS
<1>. USE DEF RevisionInv
<1>1. AloneInside'
  BY AloneStep
<1>2. CASE Quiet
  BY <1>1, <1>2, QuietKeeps
<1>3. CASE Seals
  BY <1>1, <1>3, SealsKeep
<1>4. CASE Revises
  BY <1>1, <1>4, RevisesKeep
<1>5. ASSUME NEW l \in Lanes, GrantsTo(l) PROVE RevisionInv'
  BY <1>1, <1>5, GrantsKeep
<1>. QED  BY <1>2, <1>3, <1>4, <1>5, StepMoves DEF JournalMoves

\* Where runners take the operation lock, a PRD revision - of an executor or of a launcher
\* that takes no lock - admits one executor at most before its approval: the target of a
\* handoff requested before it, although accepting a handoff does not ask for the control
\* state.
THEOREM RevisionsAdmitOneTarget ==
  Spec => []RevisionAdmitsOneTarget
<1>1. Init => RevisionInv
  <2>. SUFFICES ASSUME Init PROVE RevisionInv
    OBVIOUS
  <2>1. DOMAIN events = 1 .. 1 /\ Len(events) = 1 /\ events[1].kind = "pipeline_created"
    BY DEF Init, Ev
  <2>2. AloneInside
    BY DEF Init, AloneInside, Inside
  <2>. QED  BY <2>1, <2>2 DEF RevisionInv, RevisionWaits, Waiting, Stands, RevisionAdmitsOneTarget
<1>. QED  BY InitTyped, StepTyped, RevisionStep, <1>1, PTL DEF Spec, RevisionInv

-----------------------------------------------------------------------------
(* The journal implements fenced ownership, step by step.                  *)

\* What the refinement reads of a journal, as operators of the journal.
Holds(s, kinds, item) == \E i \in DOMAIN s : s[i].kind \in kinds /\ s[i].item = item

WrittenIn(s) ==
  {<<s[i].generation, s[i].item[1]>> : i \in {k \in DOMAIN s : s[k].kind = "checkpoint_recorded"}}

Asked == {"runtime_handoff_requested"}

\* Inductive, besides the fence: a handoff at a time is pending, only a requested one
\* was settled, checkpoints carry a receipt and a payload, a lease names its owner.
RefInv ==
  /\ \A r, s \in Pending : r = s
  /\ \A r \in Requests : Journaled(SettledKinds, r) => Journaled(Asked, r)
  /\ \A i \in DOMAIN events :
       events[i].kind = "checkpoint_recorded" => events[i].item \in Receipts \X Payloads
  /\ lease.owner = NoLane => lease = NoLease

\* One event more is one more thing journaled.
LEMMA AppendHolds ==
  ASSUME NEW s \in Seq(Event), NEW e \in Event, NEW kinds, NEW item
  PROVE  Holds(Append(s, e), kinds, item)
           <=> Holds(s, kinds, item) \/ (e.kind \in kinds /\ e.item = item)
<1>. DEFINE t == Append(s, e)
<1>1. /\ DOMAIN t = 1 .. Len(s) + 1
      /\ t[Len(s) + 1] = e
      /\ \A i \in 1 .. Len(s) : t[i] = s[i]
      /\ DOMAIN s = 1 .. Len(s)
      /\ Len(s) \in Nat
  OBVIOUS
<1>. HIDE DEF t
<1>2. Holds(t, kinds, item)
        <=> Holds(s, kinds, item) \/ (e.kind \in kinds /\ e.item = item)
  BY <1>1 DEF Holds
<1>. QED  BY <1>2 DEF t

\* A checkpoint more is one more thing written; other events write nothing.
LEMMA AppendWritten ==
  ASSUME NEW s \in Seq(Event), NEW e \in Event
  PROVE  WrittenIn(Append(s, e))
           = IF e.kind = "checkpoint_recorded"
               THEN WrittenIn(s) \cup {<<e.generation, e.item[1]>>} ELSE WrittenIn(s)
<1>. DEFINE t == Append(s, e)
<1>1. /\ DOMAIN t = 1 .. Len(s) + 1
      /\ t[Len(s) + 1] = e
      /\ \A i \in 1 .. Len(s) : t[i] = s[i]
      /\ DOMAIN s = 1 .. Len(s)
      /\ Len(s) \in Nat
  OBVIOUS
<1>. HIDE DEF t
<1>2. ASSUME NEW w
      PROVE  w \in WrittenIn(t)
               <=> \/ w \in WrittenIn(s)
                   \/ e.kind = "checkpoint_recorded" /\ w = <<e.generation, e.item[1]>>
  <2>1. w \in WrittenIn(t) <=> \E i \in DOMAIN t : /\ t[i].kind = "checkpoint_recorded"
                                                  /\ w = <<t[i].generation, t[i].item[1]>>
    BY DEF WrittenIn
  <2>2. w \in WrittenIn(s) <=> \E i \in DOMAIN s : /\ s[i].kind = "checkpoint_recorded"
                                                  /\ w = <<s[i].generation, s[i].item[1]>>
    BY DEF WrittenIn
  <2>3. ASSUME NEW i \in DOMAIN t, t[i].kind = "checkpoint_recorded",
               w = <<t[i].generation, t[i].item[1]>>
        PROVE  \/ w \in WrittenIn(s)
               \/ e.kind = "checkpoint_recorded" /\ w = <<e.generation, e.item[1]>>
    <3>1. CASE i = Len(s) + 1
      BY <1>1, <2>3, <3>1
    <3>2. CASE i \in DOMAIN s
      BY <1>1, <2>2, <2>3, <3>2
    <3>. QED  BY <1>1, <3>1, <3>2
  <2>4. ASSUME NEW i \in DOMAIN s, s[i].kind = "checkpoint_recorded",
               w = <<s[i].generation, s[i].item[1]>>
        PROVE  w \in WrittenIn(t)
    BY <1>1, <2>1, <2>4
  <2>5. e.kind = "checkpoint_recorded" /\ w = <<e.generation, e.item[1]>> => w \in WrittenIn(t)
    BY <1>1, <2>1
  <2>. QED  BY <2>1, <2>2, <2>3, <2>4, <2>5
<1>3. WrittenIn(t) = IF e.kind = "checkpoint_recorded"
                       THEN WrittenIn(s) \cup {<<e.generation, e.item[1]>>} ELSE WrittenIn(s)
  <2>1. CASE e.kind = "checkpoint_recorded"
    BY <1>2, <2>1
  <2>2. CASE e.kind # "checkpoint_recorded"
    BY <1>2, <2>2
  <2>. QED  BY <2>1, <2>2
<1>. QED  BY <1>3 DEF t

\* The loss of an owner writes, asks and settles nothing.
LEMMA LossIsQuiet ==
  ASSUME TypeOK
  PROVE  /\ events \o LoseOwner \in Seq(Event)
         /\ WrittenIn(events \o LoseOwner) = WrittenIn(events)
         /\ \A kinds, item : "executor_lost" \notin kinds =>
              (Holds(events \o LoseOwner, kinds, item) <=> Holds(events, kinds, item))
<1>1. FileTyped /\ events \in Seq(Event)
  BY TypeParts DEF TypeOK
<1>2. CASE Leased
  <2>1. Lost \in Event /\ Lost.kind = "executor_lost"
    BY <1>1, EvTyped, LeaseTyped DEF Lost, Kinds, Items, Ev
  <2>2. events \o LoseOwner = Append(events, Lost)
    BY <1>1, <1>2, <2>1 DEF LoseOwner
  <2>. QED  BY <1>1, <2>1, <2>2, AppendHolds, AppendWritten
<1>3. CASE ~Leased
  <2>1. events \o LoseOwner = events
    BY <1>1, <1>3 DEF LoseOwner
  <2>. QED  BY <1>1, <2>1
<1>. QED  BY <1>2, <1>3

-----------------------------------------------------------------------------
(* The steps, by what they mean to the owners.                             *)

\* The journal gains e, in a write or after the loss of an owner that is gone.
Gains(e) ==
  /\ e \in Event
  /\ \/ events' = Append(events, e)
     \/ events' = events \o LoseOwner \o <<e>>

LEMMA GainedEvent ==
  ASSUME TypeOK, NEW e, Gains(e)
  PROVE  /\ \A kinds, item : "executor_lost" \notin kinds =>
              (Journaled(kinds, item)'
                 <=> Journaled(kinds, item) \/ (e.kind \in kinds /\ e.item = item))
         /\ Written' = IF e.kind = "checkpoint_recorded"
                         THEN Written \cup {<<e.generation, e.item[1]>>} ELSE Written
<1>1. events \in Seq(Event) /\ e \in Event
  BY DEF TypeOK, Gains
<1>2. \E s \in Seq(Event) :
        /\ events' = Append(s, e)
        /\ WrittenIn(s) = WrittenIn(events)
        /\ \A kinds, item : "executor_lost" \notin kinds =>
             (Holds(s, kinds, item) <=> Holds(events, kinds, item))
  <2>1. CASE events' = Append(events, e)
    BY <1>1, <2>1
  <2>2. CASE events' = events \o LoseOwner \o <<e>>
    <3>1. events' = Append(events \o LoseOwner, e)
      BY <1>1, <2>2, LossIsQuiet
    <3>. QED  BY <3>1, LossIsQuiet
  <2>. QED  BY <2>1, <2>2 DEF Gains
<1>3. PICK s \in Seq(Event) :
        /\ events' = Append(s, e)
        /\ WrittenIn(s) = WrittenIn(events)
        /\ \A kinds, item : "executor_lost" \notin kinds =>
             (Holds(s, kinds, item) <=> Holds(events, kinds, item))
  BY <1>2
<1>4. Written = WrittenIn(events) /\ Written' = WrittenIn(events')
  BY DEF Written, WrittenIn
<1>5. \A kinds, item : /\ Journaled(kinds, item) <=> Holds(events, kinds, item)
                       /\ Journaled(kinds, item)' <=> Holds(events', kinds, item)
  BY DEF Journaled, Holds
<1>. QED  BY <1>1, <1>3, <1>4, <1>5, AppendHolds, AppendWritten

\* What a step may mean: nothing; a renewal or a seal; a checkpoint; the end of a lease;
\* the end of the pipeline; a request; a grant, in general or to the target of a request;
\* and the lapse of a request.
Keeps == UNCHANGED <<lease, leaseGeneration, terminal>>

Notes(e) == Gains(e) /\ e.kind \in {"lease_renewed", "prd_sealed"} /\ Keeps

Checkpoints(e) ==
  /\ Gains(e) /\ e.kind = "checkpoint_recorded"
  /\ e.item \in Receipts \X Payloads /\ ~ReceiptKnown(e.item[1])
  /\ e.generation = leaseGeneration
  /\ Leased /\ terminal = "none" /\ Keeps

Relieves(e) ==
  /\ Gains(e) /\ e.kind \in {"prd_revision_requested", "lease_released", "runtime_handoff_released"}
  /\ terminal = "none" /\ lease' = NoLease /\ UNCHANGED <<leaseGeneration, terminal>>

Ends(e) ==
  /\ Gains(e) /\ e.kind \in TerminalKinds
  /\ terminal = "none" /\ terminal' # "none"
  /\ lease' = NoLease /\ UNCHANGED leaseGeneration

Asks(e) ==
  /\ Gains(e) /\ e.kind = "runtime_handoff_requested"
  /\ e.item \in Requests /\ Pending = {} /\ ~Journaled(Asked, e.item)
  /\ Leased /\ terminal = "none" /\ Keeps

Takes(l, e) ==
  /\ Gains(e) /\ e.kind \in GrantKinds
  /\ IF e.kind = "runtime_handoff_completed" THEN e.item \in Pending ELSE Pending = {}
  /\ terminal = "none" /\ UNCHANGED terminal
  /\ leaseGeneration' = leaseGeneration + 1
  /\ lease' = [owner |-> l, generation |-> leaseGeneration + 1]

Lapses(e) ==
  /\ Gains(e) /\ e.kind = "runtime_handoff_aborted" /\ e.item \in Pending
  /\ terminal = "none" /\ lease' = NoLease /\ UNCHANGED <<leaseGeneration, terminal>>

OwnersStep ==
  \/ UNCHANGED events /\ Keeps
  \/ \E e \in Event : \/ Notes(e) \/ Checkpoints(e) \/ Relieves(e) \/ Ends(e) \/ Asks(e)
                      \/ Lapses(e) \/ \E l \in Lanes : Takes(l, e)

LEMMA GrantTakes ==
  ASSUME TypeOK, NEW l \in Lanes, NEW kind \in GrantKinds,
         NEW item \in Requests \cup {NoItem}, Grant(l, kind, item),
         IF kind = "runtime_handoff_completed" THEN item \in Pending ELSE Pending = {}
  PROVE  OwnersStep
<1>. DEFINE e == Ev(kind, l, leaseGeneration + 1, item)
<1>1. e \in Event
  BY EvTyped DEF TypeOK, Kinds, GrantKinds, Items
<1>2. e.kind = kind /\ e.item = item
  BY DEF Ev
<1>3. Gains(e)
  BY <1>1 DEF Gains, Grant
<1>. HIDE DEF e
<1>4. Takes(l, e)
  BY <1>1, <1>2, <1>3 DEF Takes, Grant
<1>. QED  BY <1>1, <1>4 DEF OwnersStep

LEMMA ReviseRelieves ==
  ASSUME TypeOK, Revise
  PROVE  OwnersStep
<1>. DEFINE e == Ev("prd_revision_requested", lease.owner, leaseGeneration, NoItem)
<1>1. e \in Event
  BY TypeParts, EvTyped, LeaseTyped DEF FileTyped, Kinds, Items
<1>2. Relieves(e)
  BY <1>1 DEF Revise, DropLease, Append1, Gains, Relieves, Ev
<1>. QED  BY <1>1, <1>2 DEF OwnersStep

LEMMA RunnerOwnersStep ==
  ASSUME TypeOK, FenceInv, RefInv, NEW l \in Lanes, RunnerNext(l)
  PROVE  OwnersStep
<1>0. FileTyped /\ RunnersTyped /\ DecidersTyped /\ held[l] \in Nat /\ leaseGeneration \in Nat
  BY TypeParts DEF FileTyped, RunnersTyped
<1>1. CASE UNCHANGED file
  BY <1>1 DEF file, OwnersStep, Keeps
<1>2. CASE Acquire(l)
  <2>1. MayAcquire => OwnersStep
    BY <1>2, GrantTakes DEF Acquire, MayAcquire, GrantKinds
  <2>. QED  BY <1>1, <1>2, <2>1 DEF Acquire
<1>3. CASE Watchdog(l)
  <2>1. MayRecover => OwnersStep
    BY <1>3, GrantTakes DEF Watchdog, MayRecover, GrantKinds
  <2>. QED  BY <1>1, <1>3, <2>1 DEF Watchdog
<1>4. CASE Accept(l)
  <2>1. MayAccept(accepting[l]) => accepting[l] \in Pending
    BY <1>0, OpenRequest DEF MayAccept, DecidersTyped, Pending
  <2>2. MayAccept(accepting[l]) => OwnersStep
    BY <1>4, <2>1, GrantTakes DEF Accept, GrantKinds, Pending
  <2>. QED  BY <1>1, <1>4, <2>2 DEF Accept
<1>5. CASE Renew(l)
  <2>. DEFINE e == Ev("lease_renewed", l, held[l], NoItem)
  <2>1. e \in Event
    BY <1>0, EvTyped DEF Kinds, Items
  <2>2. Notes(e)
    BY <1>5, <2>1 DEF Renew, Append1, Gains, Notes, Keeps, Ev
  <2>. QED  BY <2>1, <2>2 DEF OwnersStep
<1>6. CASE \E receipt \in Receipts, payload \in Payloads : RecordCheckpoint(l, receipt, payload)
  <2>. PICK receipt \in Receipts, payload \in Payloads : RecordCheckpoint(l, receipt, payload)
    BY <1>6
  <2>. DEFINE e == Ev("checkpoint_recorded", l, held[l], <<receipt, payload>>)
  <2>1. e \in Event
    BY <1>0, EvTyped DEF Kinds, Items
  <2>2. /\ e.kind = "checkpoint_recorded" /\ e.generation = held[l]
        /\ e.item = <<receipt, payload>>
    BY DEF Ev
  <2>3. Keeps
    BY DEF RecordCheckpoint, Keeps
  <2>4. CASE Fenced(l) /\ ~ReceiptKnown(receipt)
    <3>1. Append1(e)
      BY <2>4 DEF RecordCheckpoint
    <3>. HIDE DEF e
    <3>2. Gains(e) /\ terminal = "none"
      BY <2>1, <3>1 DEF Append1, Gains
    <3>3. Leased /\ held[l] = leaseGeneration
      BY <2>4 DEF Fenced, Owns, FenceInv
    <3>4. Checkpoints(e)
      BY <2>2, <2>3, <2>4, <3>2, <3>3 DEF Checkpoints
    <3>. QED  BY <2>1, <3>4 DEF OwnersStep
  <2>5. CASE ~(Fenced(l) /\ ~ReceiptKnown(receipt))
    BY <2>3, <2>5 DEF RecordCheckpoint, OwnersStep
  <2>. QED  BY <2>4, <2>5
<1>7. CASE RequestPrdRevision(l)
  <2>1. CASE Revise
    BY <2>1, ReviseRelieves
  <2>2. CASE UNCHANGED file
    BY <2>2 DEF file, OwnersStep, Keeps
  <2>. QED  BY <1>7, <2>1, <2>2 DEF RequestPrdRevision
<1>8. CASE ReleaseLease(l)
  <2>. DEFINE e == Ev("lease_released", l, leaseGeneration, NoItem)
  <2>1. e \in Event
    BY <1>0, EvTyped DEF Kinds, Items
  <2>2. CASE MayEnd(l)
    <3>1. Relieves(e)
      BY <1>8, <2>1, <2>2 DEF ReleaseLease, DropLease, Append1, Gains, Relieves, Ev
    <3>. QED  BY <2>1, <3>1 DEF OwnersStep
  <2>3. CASE ~MayEnd(l)
    BY <1>8, <2>3 DEF ReleaseLease, OwnersStep, Keeps
  <2>. QED  BY <2>2, <2>3
<1>9. CASE \E state \in Terminals : Terminate(l, state)
  <2>. PICK state \in Terminals : Terminate(l, state)
    BY <1>9
  <2>. DEFINE e == Ev(IF state = "completed" THEN "pipeline_completed" ELSE "pipeline_cancelled",
                      l, leaseGeneration, NoItem)
  <2>1. e \in Event
    BY <1>0, EvTyped DEF Kinds, Items
  <2>2. CASE MayEnd(l)
    <3>1. Ends(e)
      BY <2>1, <2>2 DEF Terminate, DropLease, Append1, Gains, Ends, Ev, TerminalKinds
    <3>. QED  BY <2>1, <3>1 DEF OwnersStep
  <2>3. CASE ~MayEnd(l)
    BY <2>3 DEF Terminate, OwnersStep, Keeps
  <2>. QED  BY <2>2, <2>3
<1>. QED  BY <1>1, <1>2, <1>3, <1>4, <1>5, <1>6, <1>7, <1>8, <1>9
          DEF RunnerNext, StartRun, AssertOwned, Finish, CitadelRefuses, CrashRunner, EndRun

LEMMA StepOwners ==
  TypeOK /\ FenceInv /\ RefInv /\ [Next]_vars => OwnersStep
<1>. SUFFICES ASSUME TypeOK, FenceInv, RefInv, [Next]_vars PROVE OwnersStep
  OBVIOUS
<1>0. /\ FileTyped /\ OperatorTyped
      /\ leaseGeneration \in Nat /\ lease.generation \in Nat /\ lease.owner \in Lanes \cup {NoLane}
  BY TypeParts, LeaseTyped DEF FileTyped
<1>1. CASE UNCHANGED file
  BY <1>1 DEF file, OwnersStep, Keeps
<1>2. CASE \E l \in Lanes : RunnerNext(l)
  BY <1>2, RunnerOwnersStep
<1>3. ASSUME NEW l \in Lanes, SupervisorNext(l)
      PROVE  OwnersStep
  <2>1. ASSUME NEW r \in Pending, Abort(r)
        PROVE  OwnersStep
    <3>. DEFINE e == Ev("runtime_handoff_aborted", NoLane, leaseGeneration, r)
    <3>1. e \in Event
      BY <1>0, EvTyped DEF Kinds, Items, Pending
    <3>2. e.kind = "runtime_handoff_aborted" /\ e.item = r
      BY DEF Ev
    <3>3. Gains(e)
      BY <2>1, <3>1 DEF Abort, Gains
    <3>. HIDE DEF e
    <3>4. Lapses(e)
      BY <2>1, <3>2, <3>3 DEF Abort, DropLease, Lapses
    <3>. QED  BY <3>1, <3>4 DEF OwnersStep
  <2>. QED  BY <1>1, <1>3, <2>1
            DEF SupervisorNext, SettleAccepting, AbortExpiredHandoff, Decide, Reap,
               CrashSupervisor
<1>4. CASE OperatorNext
  <2>1. CASE BeginAutonomousExecution \/ ApprovePrdRevision
    <3>. DEFINE e == Ev("prd_sealed", NoLane, leaseGeneration, NoItem)
    <3>1. e \in Event
      BY <1>0, EvTyped DEF Kinds, Items
    <3>2. Notes(e)
      BY <2>1, <3>1 DEF BeginAutonomousExecution, ApprovePrdRevision, Append1, Gains, Notes,
                        Keeps, Ev
    <3>. QED  BY <3>1, <3>2 DEF OwnersStep
  <2>2. CASE CancelByOperator
    <3>. DEFINE e == Ev("pipeline_cancelled", lease.owner, leaseGeneration, NoItem)
    <3>1. e \in Event
      BY <1>0, EvTyped DEF Kinds, Items
    <3>2. Ends(e)
      BY <2>2, <3>1 DEF CancelByOperator, Append1, DropLease, Gains, Ends, Ev, TerminalKinds
    <3>. QED  BY <3>1, <3>2 DEF OwnersStep
  <2>3. CASE \E r \in Requests : RequestHandoff(r)
    <3>. PICK r \in Requests : RequestHandoff(r)
      BY <2>3
    <3>. DEFINE e == Ev("runtime_handoff_requested", lease.owner, lease.generation, r)
    <3>1. e \in Event
      BY <1>0, EvTyped DEF Kinds, Items
    <3>2. e.kind = "runtime_handoff_requested" /\ e.item = r
      BY DEF Ev
    <3>3. Gains(e) /\ terminal = "none"
      BY <3>1 DEF RequestHandoff, Append1, Gains
    <3>. HIDE DEF e
    <3>4. Asks(e)
      BY <3>2, <3>3 DEF RequestHandoff, LeaseLive, Keeps, Asks, Asked
    <3>. QED  BY <3>1, <3>4 DEF OwnersStep
  <2>4. CASE ReleaseForHandoff /\ MayReleaseForHandoff
    <3>. DEFINE e == Ev("runtime_handoff_released", lease.owner, lease.generation,
                        operator.request)
    <3>1. operator.request \in Requests
      BY <1>0, <2>4, OpenRequest DEF MayReleaseForHandoff, OperatorTyped
    <3>2. e \in Event
      BY <1>0, <3>1, EvTyped DEF Kinds, Items
    <3>3. Relieves(e)
      BY <2>4, <3>2 DEF ReleaseForHandoff, Append1, DropLease, Gains, Relieves, Ev
    <3>. QED  BY <3>2, <3>3 DEF OwnersStep
  <2>5. CASE ReleaseForHandoff /\ ~MayReleaseForHandoff
    BY <2>5 DEF ReleaseForHandoff, OwnersStep, Keeps
  <2>6. CASE CrashOperator \/ (\E r \in Requests : ResumeHandoff(r))
             \/ \E l \in Lanes : SpawnTarget(l)
    BY <1>1, <2>6 DEF CrashOperator, ResumeHandoff, SpawnTarget
  <2>7. CASE LauncherRevisesPrd
    BY <2>7, ReviseRelieves DEF LauncherRevisesPrd
  <2>. QED  BY <1>4, <2>1, <2>2, <2>3, <2>4, <2>5, <2>6, <2>7 DEF OperatorNext
<1>5. CASE ExpireLease \/ HandoffTimesOut \/ UNCHANGED vars
  BY <1>1, <1>5 DEF ExpireLease, HandoffTimesOut, vars
<1>. QED  BY <1>2, <1>3, <1>4, <1>5 DEF Next

\* What becomes of the pending handoff: only its request and its settlement touch it.
LEMMA PendingMove ==
  ASSUME TypeOK, RefInv, NEW e, Gains(e)
  PROVE  /\ e.kind \notin Asked \cup SettledKinds => Pending' = Pending
         /\ e.kind \in Asked /\ e.item \in Requests /\ Pending = {} /\ ~Journaled(Asked, e.item)
              => Pending' = {e.item}
         /\ e.kind \in SettledKinds /\ e.item \in Pending => Pending' = {}
<1>1. /\ \A r : Journaled(Asked, r)' <=> Journaled(Asked, r) \/ (e.kind \in Asked /\ e.item = r)
      /\ \A r : Journaled(SettledKinds, r)'
                  <=> Journaled(SettledKinds, r) \/ (e.kind \in SettledKinds /\ e.item = r)
  BY GainedEvent DEF Asked, SettledKinds
<1>2. /\ \A r : r \in Pending <=> r \in Requests /\ Journaled(Asked, r) /\ ~Journaled(SettledKinds, r)
      /\ \A r : r \in Pending' <=> /\ r \in Requests /\ Journaled(Asked, r)'
                                  /\ ~Journaled(SettledKinds, r)'
  BY DEF Pending, Open, Asked
<1>3. e.kind \in Asked => e.kind \notin SettledKinds
  BY DEF Asked, SettledKinds
<1>4. CASE e.kind \notin Asked \cup SettledKinds
  BY <1>1, <1>2, <1>4
<1>5. ASSUME e.kind \in Asked, e.item \in Requests, Pending = {}, ~Journaled(Asked, e.item)
      PROVE  Pending' = {e.item}
  <2>1. ~Journaled(SettledKinds, e.item)
    BY <1>5 DEF RefInv
  <2>. QED  BY <1>1, <1>2, <1>3, <1>5, <2>1
<1>6. ASSUME e.kind \in SettledKinds, e.item \in Pending
      PROVE  Pending' = {}
  <2>1. \A r \in Pending : r = e.item
    BY <1>6 DEF RefInv
  <2>. QED  BY <1>1, <1>2, <1>3, <1>6, <2>1
<1>. QED  BY <1>3, <1>4, <1>5, <1>6

LEMMA KeepsPending ==
  ASSUME UNCHANGED events
  PROVE  Pending' = Pending /\ Written' = Written
BY DEF Pending, Open, Journaled, Written

LEMMA RefStep ==
  ASSUME TypeOK, RefInv, OwnersStep
  PROVE  RefInv'
<1>1. CASE UNCHANGED events /\ Keeps
  BY <1>1, KeepsPending DEF RefInv, Keeps, Journaled
<1>2. ASSUME NEW e \in Event,
             \/ Notes(e) \/ Checkpoints(e) \/ Relieves(e) \/ Ends(e) \/ Asks(e) \/ Lapses(e)
             \/ \E l \in Lanes : Takes(l, e)
      PROVE  RefInv'
  <2>1. /\ Gains(e)
        /\ e.kind \in Asked =>
             e.item \in Requests /\ Pending = {} /\ ~Journaled(Asked, e.item)
        /\ e.kind \in SettledKinds => e.item \in Pending
        /\ e.kind = "checkpoint_recorded" => e.item \in Receipts \X Payloads
        /\ lease' \in {lease, NoLease} \/ lease'.owner \in Lanes
    BY <1>2 DEF Notes, Checkpoints, Relieves, Ends, Asks, Lapses, Takes, Keeps, Asked,
                SettledKinds, GrantKinds, TerminalKinds
  <2>2. /\ \A r : Journaled(Asked, r)' <=> Journaled(Asked, r) \/ (e.kind \in Asked /\ e.item = r)
        /\ \A r : Journaled(SettledKinds, r)'
                    <=> Journaled(SettledKinds, r) \/ (e.kind \in SettledKinds /\ e.item = r)
    BY <2>1, GainedEvent DEF Asked, SettledKinds
  <2>3. \A r, s \in Pending' : r = s
    BY <2>1, PendingMove DEF RefInv
  <2>4. \A r \in Requests : Journaled(SettledKinds, r)' => Journaled(Asked, r)'
    BY <2>1, <2>2 DEF RefInv, Pending, Open, Asked
  <2>5. \A i \in DOMAIN events' :
          events'[i].kind = "checkpoint_recorded" => events'[i].item \in Receipts \X Payloads
    <3>1. \A item : Journaled({"checkpoint_recorded"}, item) => item \in Receipts \X Payloads
      BY DEF RefInv, Journaled
    <3>2. \A item : Journaled({"checkpoint_recorded"}, item)'
            <=> \/ Journaled({"checkpoint_recorded"}, item)
                \/ e.kind \in {"checkpoint_recorded"} /\ e.item = item
      BY <2>1, GainedEvent
    <3>3. \A item : Journaled({"checkpoint_recorded"}, item)' => item \in Receipts \X Payloads
      BY <2>1, <3>1, <3>2
    <3>. QED  BY <3>3 DEF Journaled
  <2>6. lease'.owner = NoLane => lease' = NoLease
    BY <2>1, LaneAssumption DEF RefInv
  <2>. QED  BY <2>3, <2>4, <2>5, <2>6 DEF RefInv
<1>. QED  BY <1>1, <1>2 DEF OwnersStep

\* The target of the handoffs of S, as the refinement mapping picks it.
OneOf(S) == IF S = {} THEN NoRequest ELSE CHOOSE r \in S : TRUE

Reserved == OneOf(Pending)

LEMMA ReservedMeans ==
  ASSUME NEW S \in SUBSET Requests
  PROVE  /\ OneOf(S) = NoRequest <=> S = {}
         /\ \A r : S = {r} => OneOf(S) = r
<1>1. \A r \in Requests : r # NoRequest
  BY RequestAssumption DEF Items
<1>2. S # {} => (CHOOSE r \in S : TRUE) \in S
  OBVIOUS
<1>3. S # {} => OneOf(S) \in S
  BY <1>2 DEF OneOf
<1>4. S = {} => OneOf(S) = NoRequest
  BY DEF OneOf
<1>5. ASSUME NEW r, S = {r} PROVE OneOf(S) = r
  BY <1>3, <1>5
<1>. QED  BY <1>1, <1>3, <1>4, <1>5

LEMMA ReservedKept ==
  ASSUME Pending' = Pending
  PROVE  Reserved' = Reserved
BY DEF Reserved

LEMMA AuthorityStep ==
  ASSUME TypeOK, RefInv, RefInv', OwnersStep
  PROVE  [Authority!Next]_(Authority!vars)
<1>0. /\ Reserved = NoRequest <=> Pending = {}
      /\ Reserved' = NoRequest <=> Pending' = {}
  <2>1. Pending \in SUBSET Requests /\ Pending' \in SUBSET Requests
    BY DEF Pending
  <2>. QED  BY <2>1, ReservedMeans DEF Reserved
<1>1. CASE UNCHANGED events /\ Keeps
  BY <1>1, KeepsPending, ReservedKept DEF Authority!vars, Keeps, Reserved, OneOf
<1>2. ASSUME NEW e \in Event, Notes(e)
      PROVE  [Authority!Next]_(Authority!vars)
  <2>1. Pending' = Pending /\ Written' = Written
    BY <1>2, PendingMove, GainedEvent DEF Notes, Asked, SettledKinds
  <2>. QED  BY <1>2, <2>1, ReservedKept DEF Authority!vars, Notes, Keeps, Reserved, OneOf
<1>3. ASSUME NEW e \in Event, Checkpoints(e)
      PROVE  [Authority!Next]_(Authority!vars)
  <2>1. Pending' = Pending /\ Written' = Written \cup {<<leaseGeneration, e.item[1]>>}
    BY <1>3, PendingMove, GainedEvent DEF Checkpoints, Asked, SettledKinds
  <2>2. e.item[1] \in Receipts
    BY <1>3 DEF Checkpoints
  <2>3. \A n : <<n, e.item[1]>> \notin Written
    <3>1. SUFFICES ASSUME NEW n, <<n, e.item[1]>> \in Written PROVE FALSE
      OBVIOUS
    <3>2. PICK i \in DOMAIN events : /\ events[i].kind = "checkpoint_recorded"
                                     /\ events[i].item[1] = e.item[1]
      BY <3>1 DEF Written
    <3>3. PICK receipt \in Receipts, payload \in Payloads : events[i].item = <<receipt, payload>>
      BY <3>2 DEF RefInv
    <3>4. Recorded(e.item[1], payload)
      BY <3>2, <3>3 DEF Recorded
    <3>. QED  BY <1>3, <3>4 DEF Checkpoints, ReceiptKnown
  <2>4. lease.owner # NoLane
    BY <1>3 DEF Checkpoints, Leased, RefInv
  <2>5. Authority!Write(e.item[1])
    BY <1>3, <2>1, <2>3, <2>4, ReservedKept DEF Authority!Write, Checkpoints, Keeps, Reserved,
       OneOf
  <2>. QED  BY <2>2, <2>5 DEF Authority!Next
<1>4. ASSUME NEW e \in Event, Relieves(e)
      PROVE  [Authority!Next]_(Authority!vars)
  <2>1. Pending' = Pending /\ Written' = Written
    BY <1>4, PendingMove, GainedEvent DEF Relieves, Asked, SettledKinds
  <2>2. CASE lease.owner = NoLane
    <3>1. lease' = lease
      BY <1>4, <2>2 DEF Relieves, RefInv
    <3>. QED  BY <1>4, <2>1, <3>1, ReservedKept DEF Authority!vars, Relieves, Reserved, OneOf
  <2>3. CASE lease.owner # NoLane
    <3>1. lease'.owner = NoLane
      BY <1>4 DEF Relieves, NoLease
    <3>2. Authority!Revoke
      BY <1>4, <2>1, <2>3, <3>1, ReservedKept DEF Authority!Revoke, Relieves, Reserved, OneOf
    <3>. QED  BY <3>2 DEF Authority!Next
  <2>. QED  BY <2>2, <2>3
<1>5. ASSUME NEW e \in Event, Ends(e)
      PROVE  [Authority!Next]_(Authority!vars)
  <2>1. Pending' = Pending /\ Written' = Written
    BY <1>5, PendingMove, GainedEvent DEF Ends, Asked, SettledKinds, TerminalKinds
  <2>2. lease'.owner = NoLane
    BY <1>5 DEF Ends, NoLease
  <2>3. Authority!Close
    BY <1>5, <2>1, <2>2, ReservedKept DEF Authority!Close, Ends, Reserved, OneOf
  <2>. QED  BY <2>3 DEF Authority!Next
<1>6. ASSUME NEW e \in Event, Asks(e)
      PROVE  [Authority!Next]_(Authority!vars)
  <2>1. Pending' = {e.item} /\ Written' = Written
    BY <1>6, PendingMove, GainedEvent DEF Asks, Asked
  <2>2. Reserved = NoRequest /\ Reserved' = e.item
    BY <1>0, <1>6, <2>1, ReservedMeans DEF Asks, Reserved
  <2>3. lease.owner # NoLane
    BY <1>6 DEF Asks, Leased, RefInv
  <2>4. Authority!Reserve(e.item)
    BY <1>6, <2>1, <2>2, <2>3 DEF Authority!Reserve, Asks, Keeps, Reserved, OneOf
  <2>. QED  BY <1>6, <2>4 DEF Authority!Next, Asks
<1>7. ASSUME NEW e \in Event, Lapses(e)
      PROVE  [Authority!Next]_(Authority!vars)
  <2>1. Pending # {} /\ Pending' = {} /\ Written' = Written
    BY <1>7, PendingMove, GainedEvent DEF Lapses, SettledKinds
  <2>2. Reserved # NoRequest /\ Reserved' = NoRequest /\ lease'.owner = NoLane
    BY <1>0, <1>7, <2>1 DEF Lapses, NoLease
  <2>3. Authority!Abandon
    BY <1>7, <2>1, <2>2 DEF Authority!Abandon, Lapses, Reserved, OneOf
  <2>. QED  BY <2>3 DEF Authority!Next
<1>8. ASSUME NEW e \in Event, NEW l \in Lanes, Takes(l, e)
      PROVE  [Authority!Next]_(Authority!vars)
  <2>1. Written' = Written /\ lease'.owner = l
    BY <1>8, GainedEvent DEF Takes, GrantKinds
  <2>2. CASE e.kind = "runtime_handoff_completed"
    <3>1. Pending # {} /\ Pending' = {}
      BY <1>8, <2>2, PendingMove DEF Takes, SettledKinds
    <3>2. Reserved # NoRequest /\ Reserved' = NoRequest
      BY <1>0, <3>1
    <3>3. Authority!Transfer(l)
      BY <1>8, <2>1, <3>2 DEF Authority!Transfer, Takes, Reserved, OneOf
    <3>. QED  BY <3>3 DEF Authority!Next
  <2>3. CASE e.kind # "runtime_handoff_completed"
    <3>1. Pending = {} /\ Pending' = Pending
      BY <1>8, <2>3, PendingMove DEF Takes, Asked, SettledKinds, GrantKinds
    <3>2. Reserved = NoRequest /\ Reserved' = Reserved
      BY <1>0, <3>1, ReservedKept
    <3>3. Authority!Grant(l)
      BY <1>8, <2>1, <3>2 DEF Authority!Grant, Takes, Reserved, OneOf
    <3>. QED  BY <3>3 DEF Authority!Next
  <2>. QED  BY <2>2, <2>3
<1>. QED  BY <1>1, <1>2, <1>3, <1>4, <1>5, <1>6, <1>7, <1>8 DEF OwnersStep

LEMMA RefInit ==
  Init => RefInv /\ Authority!Init
<1>. SUFFICES ASSUME Init PROVE RefInv /\ Authority!Init
  OBVIOUS
<1>1. DOMAIN events = {1} /\ events[1].kind = "pipeline_created"
  BY DEF Init, Ev
<1>2. \A kinds, item : "pipeline_created" \notin kinds => ~Journaled(kinds, item)
  BY <1>1 DEF Journaled
<1>3. Pending = {}
  BY <1>2 DEF Pending, Open
<1>4. Written = {}
  BY <1>1 DEF Written
<1>5. lease = NoLease /\ lease.owner = NoLane /\ terminal = "none" /\ leaseGeneration = 0
  BY DEF Init, NoLease
<1>6. RefInv
  BY <1>1, <1>2, <1>3, <1>5 DEF RefInv, SettledKinds
<1>. QED  BY <1>3, <1>4, <1>5, <1>6 DEF Authority!Init

\* The journal, written by any number of runners, supervisors and handoffs that start, die
\* and resume between any two operations, implements fenced ownership: every grant opens a
\* generation, a checkpoint is written once and by the generation in force, a pending
\* handoff reserves the lease for its target, an ended pipeline grants and records nothing.
THEOREM OwnershipIsFenced ==
  Spec => ImplementsFencedOwnership
<1>1. TypeOK /\ FenceInv /\ RefInv /\ [Next]_vars
        => (TypeOK /\ FenceInv /\ RefInv)' /\ [Authority!Next]_(Authority!vars)
  BY StepTyped, StepJournals, FenceStep, StepOwners, RefStep, AuthorityStep
<1>. QED  BY InitTyped, InitFenced, RefInit, <1>1, PTL
          DEF Spec, ImplementsFencedOwnership, Authority!Spec

-----------------------------------------------------------------------------
(* Every operation leaves a file that the next read accepts.  The replay   *)
(* is a recursive function; what is carried along is that some function    *)
(* satisfies its equation on the journal and that every one that does ends *)
(* in the projection.  One event more extends the function by one point,   *)
(* and a function for the longer journal is one for the shorter.           *)

IsReplay(f, journal) ==
  f = [n \in 0 .. Len(journal) |->
         IF n = 0 THEN Created ELSE ReplayEvent(f[n - 1], journal[n])]

Yields(journal, p) ==
  /\ \E f : IsReplay(f, journal)
  /\ \A f : IsReplay(f, journal) => f[Len(journal)] = p

LEMMA YieldsReplay ==
  ASSUME NEW journal, NEW p, Yields(journal, p)
  PROVE  Replay(journal) = p
<1>1. IsReplay(CHOOSE f : IsReplay(f, journal), journal)
  BY DEF Yields
<1>2. Replay(journal) = (CHOOSE f : IsReplay(f, journal))[Len(journal)]
  BY DEF Replay, IsReplay
<1>. QED  BY <1>1, <1>2 DEF Yields

LEMMA YieldsAppend ==
  ASSUME NEW j \in Seq(Event), NEW e \in Event, NEW p, Yields(j, p)
  PROVE  Yields(Append(j, e), ReplayEvent(p, e))
<1>. DEFINE t == Append(j, e)
            k == Len(j)
<1>1. /\ k \in Nat /\ Len(t) = k + 1
      /\ t[k + 1] = e
      /\ \A n \in 1 .. k : t[n] = j[n]
  OBVIOUS
<1>. HIDE DEF t
<1>2. \E f : IsReplay(f, t)
  <2>1. PICK f : IsReplay(f, j)
    BY DEF Yields
  <2>2. /\ f[k] = p
        /\ f[0] = Created
        /\ \A n \in 1 .. k : f[n] = ReplayEvent(f[n - 1], j[n])
    <3>1. f[k] = p
      BY <2>1 DEF Yields
    <3>2. \A n \in 0 .. k : f[n] = IF n = 0 THEN Created ELSE ReplayEvent(f[n - 1], j[n])
      BY <2>1 DEF IsReplay
    <3>. QED  BY <1>1, <3>1, <3>2
  <2>. DEFINE g == [n \in 0 .. k + 1 |-> IF n = k + 1 THEN ReplayEvent(p, e) ELSE f[n]]
              h == [n \in 0 .. k + 1 |->
                      IF n = 0 THEN Created ELSE ReplayEvent(g[n - 1], t[n])]
  <2>3. ASSUME NEW n \in 0 .. k + 1
        PROVE  g[n] = h[n]
    <3>1. CASE n = 0
      BY <1>1, <2>2, <3>1
    <3>2. CASE n \in 1 .. k
      <4>1. g[n] = f[n] /\ g[n - 1] = f[n - 1] /\ n # 0
        BY <1>1, <3>2
      <4>2. h[n] = ReplayEvent(g[n - 1], t[n])
        BY <4>1
      <4>. QED  BY <1>1, <2>2, <3>2, <4>1, <4>2
    <3>3. CASE n = k + 1
      <4>1. g[n] = ReplayEvent(p, e) /\ g[n - 1] = f[k] /\ n # 0
        BY <1>1, <3>3
      <4>2. h[n] = ReplayEvent(g[n - 1], t[n])
        BY <4>1
      <4>. QED  BY <1>1, <2>2, <3>3, <4>1, <4>2
    <3>. QED  BY <1>1, <3>1, <3>2, <3>3
  <2>4. g = h
    BY <2>3
  <2>. QED  BY <1>1, <2>4 DEF IsReplay
<1>3. ASSUME NEW f, IsReplay(f, t)
      PROVE  f[Len(t)] = ReplayEvent(p, e)
  <2>1. \A n \in 0 .. k + 1 : f[n] = IF n = 0 THEN Created ELSE ReplayEvent(f[n - 1], t[n])
    BY <1>1, <1>3 DEF IsReplay
  <2>. DEFINE g == [n \in 0 .. k |-> f[n]]
              h == [n \in 0 .. k |-> IF n = 0 THEN Created ELSE ReplayEvent(g[n - 1], j[n])]
  <2>2. ASSUME NEW n \in 0 .. k
        PROVE  g[n] = h[n]
    <3>1. CASE n = 0
      BY <1>1, <2>1, <3>1
    <3>2. CASE n # 0
      <4>1. g[n] = f[n] /\ g[n - 1] = f[n - 1] /\ t[n] = j[n]
        BY <1>1, <3>2
      <4>2. h[n] = ReplayEvent(g[n - 1], j[n])
        BY <3>2
      <4>3. f[n] = ReplayEvent(f[n - 1], t[n])
        BY <1>1, <2>1, <3>2
      <4>. QED  BY <4>1, <4>2, <4>3
    <3>. QED  BY <3>1, <3>2
  <2>3. g = h
    BY <2>2
  <2>4. g[k] = p
    <3>1. IsReplay(g, j)
      BY <2>3 DEF IsReplay
    <3>. HIDE DEF g
    <3>. QED  BY <3>1 DEF Yields
  <2>5. f[k] = p
    BY <1>1, <2>4
  <2>6. f[k + 1] = ReplayEvent(f[k], t[k + 1])
    BY <1>1, <2>1
  <2>. QED  BY <1>1, <2>5, <2>6
<1>. QED  BY <1>2, <1>3 DEF t, Yields

LEMMA YieldsCreated ==
  ASSUME NEW e \in Event, e.kind = "pipeline_created"
  PROVE  Yields(<<e>>, Created)
<1>. DEFINE f == [n \in 0 .. 0 |-> Created]
<1>1. Len(<<>>) = 0 /\ <<>> \in Seq(Event) /\ <<e>> = Append(<<>>, e)
  OBVIOUS
<1>2. Yields(<<>>, Created)
  <2>1. IsReplay(f, <<>>)
    BY <1>1 DEF IsReplay
  <2>2. \A g : IsReplay(g, <<>>) => g[0] = Created
    BY <1>1 DEF IsReplay
  <2>. QED  BY <1>1, <2>1, <2>2 DEF Yields
<1>3. ReplayEvent(Created, e) = Created
  BY DEF ReplayEvent, Created, GrantKinds, EndKinds, TerminalKinds
<1>. QED  BY <1>1, <1>2, <1>3, YieldsAppend

\* What one event makes of a projection, by its kind.
LEMMA ReplayKeeps ==
  ASSUME NEW p, NEW e,
         e.kind \in {"checkpoint_recorded", "runtime_handoff_requested"}
  PROVE  ReplayEvent(p, e) =
           [control |-> p.control, terminal |-> p.terminal, lease |-> p.lease,
            generation |-> p.generation, restarts |-> p.restarts]
BY DEF ReplayEvent, GrantKinds, EndKinds, TerminalKinds

LEMMA ReplaySeals ==
  ASSUME NEW p, NEW e, e.kind = "prd_sealed"
  PROVE  ReplayEvent(p, e) =
           [control |-> "autonomous_execution", terminal |-> p.terminal, lease |-> p.lease,
            generation |-> p.generation, restarts |-> p.restarts]
BY DEF ReplayEvent, GrantKinds, EndKinds, TerminalKinds

LEMMA ReplayRevises ==
  ASSUME NEW p, NEW e, e.kind = "prd_revision_requested"
  PROVE  ReplayEvent(p, e) =
           [control |-> "prd_revision_required", terminal |-> p.terminal, lease |-> NoLease,
            generation |-> p.generation, restarts |-> p.restarts]
BY DEF ReplayEvent, GrantKinds, EndKinds, TerminalKinds

LEMMA ReplayGrants ==
  ASSUME NEW p, NEW e, e.kind \in GrantKinds \cup {"lease_renewed"}
  PROVE  ReplayEvent(p, e) =
           [control |-> p.control, terminal |-> p.terminal,
            lease |-> [owner |-> e.owner, generation |-> e.generation],
            generation |-> e.generation, restarts |-> p.restarts]
BY DEF ReplayEvent, GrantKinds

LEMMA ReplayLoses ==
  ASSUME NEW p, NEW e, e.kind = "executor_lost"
  PROVE  ReplayEvent(p, e) =
           [control |-> p.control, terminal |-> p.terminal, lease |-> p.lease,
            generation |-> p.generation, restarts |-> p.restarts + 1]
BY DEF ReplayEvent, GrantKinds, EndKinds, TerminalKinds

LEMMA ReplayReleases ==
  ASSUME NEW p, NEW e,
         e.kind \in {"lease_released", "runtime_handoff_aborted", "runtime_handoff_released"}
  PROVE  ReplayEvent(p, e) =
           [control |-> p.control, terminal |-> p.terminal, lease |-> NoLease,
            generation |-> p.generation, restarts |-> p.restarts]
BY DEF ReplayEvent, GrantKinds, EndKinds, TerminalKinds

LEMMA ReplayEnds ==
  ASSUME NEW p, NEW e, e.kind \in TerminalKinds
  PROVE  ReplayEvent(p, e) =
           [control |-> p.control,
            terminal |-> IF e.kind = "pipeline_completed" THEN "completed" ELSE "cancelled",
            lease |-> NoLease, generation |-> p.generation, restarts |-> p.restarts]
BY DEF ReplayEvent, GrantKinds, EndKinds, TerminalKinds

\* What a step makes of journal and projection together: nothing; one event more, and
\* the projection that event replays to; or the loss of the owner and such an event.
Appendable(e) ==
  /\ terminal = "none"
  /\ e \in Event /\ e.kind # "pipeline_created"
  /\ e.kind \in TerminalKinds <=> terminal' # "none"

ReplaysOne(e) ==
  events' = Append(events, e) /\ Projection' = ReplayEvent(Projection, e)

ReplaysTwo(e) ==
  /\ Leased
  /\ events' = Append(Append(events, Lost), e)
  /\ Projection' = ReplayEvent(ReplayEvent(Projection, Lost), e)

ReplayStep ==
  \/ events' = events /\ Projection' = Projection
  \/ \E e \in Event : Appendable(e) /\ (ReplaysOne(e) \/ ReplaysTwo(e))

LEMMA LostTyped ==
  ASSUME TypeOK
  PROVE  Lost \in Event
<1>1. lease.generation \in Nat /\ lease.owner \in Lanes \cup {NoLane}
  BY LeaseTyped DEF TypeOK, FileTyped
<1>. QED  BY <1>1, EvTyped DEF Lost, Kinds, Items

LEMMA LoseOwnerAppends ==
  ASSUME TypeOK, NEW e \in Event
  PROVE  /\ Leased => events \o LoseOwner \o <<e>> = Append(Append(events, Lost), e)
         /\ ~Leased => events \o LoseOwner \o <<e>> = Append(events, e)
<1>1. events \in Seq(Event) /\ Lost \in Event
  BY LostTyped DEF TypeOK
<1>. HIDE DEF Lost
<1>2. CASE Leased
  <2>1. LoseOwner = <<Lost>>
    BY <1>2 DEF LoseOwner
  <2>. QED  BY <1>1, <1>2, <2>1
<1>3. CASE ~Leased
  <2>1. LoseOwner = <<>>
    BY <1>3 DEF LoseOwner
  <2>. QED  BY <1>1, <1>3, <2>1
<1>. QED  BY <1>2, <1>3

LEMMA GrantReplays ==
  ASSUME TypeOK, NEW l \in Lanes, NEW kind \in GrantKinds,
         NEW item \in Requests \cup {NoItem}, Grant(l, kind, item)
  PROVE  ReplayStep
<1>. DEFINE e == Ev(kind, l, leaseGeneration + 1, item)
<1>1. e \in Event /\ e.kind = kind /\ e.owner = l /\ e.generation = leaseGeneration + 1
  BY EvTyped DEF TypeOK, Kinds, GrantKinds, Items, Ev
<1>2. Appendable(e)
  BY <1>1 DEF Grant, Appendable, GrantKinds, TerminalKinds
<1>3. events' = events \o LoseOwner \o <<e>>
  BY DEF Grant
<1>4. Projection' = [control |-> control, terminal |-> terminal,
                     lease |-> [owner |-> l, generation |-> leaseGeneration + 1],
                     generation |-> leaseGeneration + 1, restarts |-> restarts']
  BY DEF Grant, Projection
<1>5. CASE Leased
  <2>1. ReplayEvent(Projection, Lost) =
          [control |-> control, terminal |-> terminal, lease |-> lease,
           generation |-> leaseGeneration, restarts |-> restarts + 1]
    BY ReplayLoses DEF Lost, Ev, Projection
  <2>2. Projection' = ReplayEvent(ReplayEvent(Projection, Lost), e)
    BY <1>1, <1>4, <1>5, <2>1, ReplayGrants DEF Grant
  <2>. QED  BY <1>1, <1>2, <1>3, <1>5, <2>2, LoseOwnerAppends DEF ReplayStep, ReplaysTwo
<1>6. CASE ~Leased
  <2>1. Projection' = ReplayEvent(Projection, e)
    BY <1>1, <1>4, <1>6, ReplayGrants DEF Grant, Projection
  <2>. QED  BY <1>1, <1>2, <1>3, <1>6, <2>1, LoseOwnerAppends DEF ReplayStep, ReplaysOne
<1>. QED  BY <1>5, <1>6

LEMMA AbortReplays ==
  ASSUME TypeOK, NEW r \in Requests, Abort(r)
  PROVE  ReplayStep
<1>. DEFINE e == Ev("runtime_handoff_aborted", NoLane, leaseGeneration, r)
<1>1. e \in Event /\ e.kind = "runtime_handoff_aborted"
  BY EvTyped DEF TypeOK, Kinds, Items, Ev
<1>2. Appendable(e)
  BY <1>1 DEF Abort, Appendable, TerminalKinds
<1>3. events' = events \o LoseOwner \o <<e>>
  BY DEF Abort
<1>4. Projection' = [control |-> control, terminal |-> terminal, lease |-> NoLease,
                     generation |-> leaseGeneration, restarts |-> restarts']
  BY DEF Abort, DropLease, Projection
<1>5. CASE Leased
  <2>1. ReplayEvent(Projection, Lost) =
          [control |-> control, terminal |-> terminal, lease |-> lease,
           generation |-> leaseGeneration, restarts |-> restarts + 1]
    BY ReplayLoses DEF Lost, Ev, Projection
  <2>2. Projection' = ReplayEvent(ReplayEvent(Projection, Lost), e)
    BY <1>1, <1>4, <1>5, <2>1, ReplayReleases DEF Abort
  <2>. QED  BY <1>1, <1>2, <1>3, <1>5, <2>2, LoseOwnerAppends DEF ReplayStep, ReplaysTwo
<1>6. CASE ~Leased
  <2>1. Projection' = ReplayEvent(Projection, e)
    BY <1>1, <1>4, <1>6, ReplayReleases DEF Abort, Projection
  <2>. QED  BY <1>1, <1>2, <1>3, <1>6, <2>1, LoseOwnerAppends DEF ReplayStep, ReplaysOne
<1>. QED  BY <1>5, <1>6

LEMMA FileReplays ==
  UNCHANGED file => ReplayStep
BY DEF file, ReplayStep, Projection

LEMMA ReviseReplays ==
  ASSUME TypeOK, Revise
  PROVE  ReplayStep
<1>. DEFINE e == Ev("prd_revision_requested", lease.owner, leaseGeneration, NoItem)
<1>1. e \in Event /\ e.kind = "prd_revision_requested"
  BY TypeParts, EvTyped, LeaseTyped DEF FileTyped, Kinds, Items, Ev
<1>2. Appendable(e) /\ events' = Append(events, e)
  BY <1>1 DEF Revise, Append1, Appendable, TerminalKinds
<1>3. Projection' = [control |-> "prd_revision_required", terminal |-> terminal,
                     lease |-> NoLease, generation |-> leaseGeneration, restarts |-> restarts]
  BY DEF Revise, DropLease, Projection
<1>4. Projection' = ReplayEvent(Projection, e)
  BY <1>1, <1>3, ReplayRevises, TypeParts DEF Projection, FileTyped
<1>. QED  BY <1>1, <1>2, <1>4 DEF ReplayStep, ReplaysOne

LEMMA RunnerReplays ==
  ASSUME TypeOK, FenceInv, NEW l \in Lanes, RunnerNext(l)
  PROVE  ReplayStep
<1>0. FileTyped /\ RunnersTyped /\ DecidersTyped
  BY TypeParts
<1>0a. /\ leaseGeneration \in Nat /\ lease.owner \in Lanes \cup {NoLane}
       /\ lease = [owner |-> lease.owner, generation |-> lease.generation]
  BY <1>0, LeaseTyped DEF FileTyped
<1>1. CASE StartRun(l) \/ AssertOwned(l) \/ Finish(l) \/ CitadelRefuses(l) \/ CrashRunner(l)
           \/ \E reason \in Reasons : EndRun(l, reason)
  BY <1>1, FileReplays DEF StartRun, AssertOwned, Finish, CitadelRefuses, CrashRunner, EndRun
<1>2. CASE Acquire(l)
  BY <1>2, GrantReplays, FileReplays DEF Acquire, GrantKinds
<1>3. CASE Watchdog(l)
  BY <1>3, GrantReplays, FileReplays DEF Watchdog, GrantKinds
<1>4. CASE Accept(l)
  <2>1. MayAccept(accepting[l]) => accepting[l] \in Requests
    BY <1>0, OpenRequest DEF MayAccept, DecidersTyped
  <2>. QED  BY <1>4, <2>1, GrantReplays, FileReplays DEF Accept, GrantKinds
<1>5. CASE Renew(l)
  <2>. DEFINE e == Ev("lease_renewed", l, held[l], NoItem)
  <2>1. e \in Event /\ e.kind = "lease_renewed" /\ e.owner = l /\ e.generation = held[l]
    BY <1>0, EvTyped DEF RunnersTyped, Kinds, Items, Ev
  <2>2. Appendable(e) /\ events' = Append(events, e)
    BY <1>5, <2>1 DEF Renew, Append1, Appendable, TerminalKinds
  <2>3. lease = [owner |-> l, generation |-> held[l]] /\ held[l] = leaseGeneration
    BY <1>0a, <1>5 DEF Renew, Fenced, Owns, FenceInv
  <2>4. Projection' = Projection
    BY <1>5 DEF Renew, Projection
  <2>5. ReplayEvent(Projection, e) = Projection
    BY <2>1, <2>3, ReplayGrants DEF Projection
  <2>. QED  BY <2>1, <2>2, <2>4, <2>5 DEF ReplayStep, ReplaysOne
<1>6. CASE \E receipt \in Receipts, payload \in Payloads : RecordCheckpoint(l, receipt, payload)
  <2>. PICK receipt \in Receipts, payload \in Payloads : RecordCheckpoint(l, receipt, payload)
    BY <1>6
  <2>. DEFINE e == Ev("checkpoint_recorded", l, held[l], <<receipt, payload>>)
  <2>1. e \in Event /\ e.kind = "checkpoint_recorded"
    BY <1>0, EvTyped DEF RunnersTyped, Kinds, Items, Ev
  <2>2. Projection' = Projection /\ terminal' = terminal
    BY DEF RecordCheckpoint, Projection
  <2>3. CASE Append1(e)
    <3>1. Appendable(e) /\ events' = Append(events, e)
      BY <2>1, <2>2, <2>3 DEF Append1, Appendable, TerminalKinds
    <3>2. ReplayEvent(Projection, e) = Projection
      BY <2>1, ReplayKeeps DEF Projection
    <3>. QED  BY <2>1, <2>2, <3>1, <3>2 DEF ReplayStep, ReplaysOne
  <2>4. CASE UNCHANGED events
    BY <2>2, <2>4 DEF ReplayStep
  <2>. QED  BY <2>3, <2>4 DEF RecordCheckpoint
<1>7. CASE RequestPrdRevision(l)
  <2>1. CASE Revise
    BY <2>1, ReviseReplays
  <2>2. CASE UNCHANGED file
    BY <2>2, FileReplays
  <2>. QED  BY <1>7, <2>1, <2>2 DEF RequestPrdRevision
<1>8. CASE ReleaseLease(l)
  <2>. DEFINE e == Ev("lease_released", l, leaseGeneration, NoItem)
  <2>1. e \in Event /\ e.kind = "lease_released"
    BY <1>0a, EvTyped DEF Kinds, Items, Ev
  <2>2. CASE MayEnd(l)
    <3>1. Appendable(e) /\ events' = Append(events, e)
      BY <1>8, <2>1, <2>2 DEF ReleaseLease, Append1, Appendable, TerminalKinds
    <3>2. Projection' = [control |-> control, terminal |-> terminal, lease |-> NoLease,
                         generation |-> leaseGeneration, restarts |-> restarts]
      BY <1>8, <2>2 DEF ReleaseLease, DropLease, Projection
    <3>3. Projection' = ReplayEvent(Projection, e)
      BY <2>1, <3>2, ReplayReleases DEF Projection
    <3>. QED  BY <2>1, <3>1, <3>3 DEF ReplayStep, ReplaysOne
  <2>3. CASE ~MayEnd(l)
    BY <1>8, <2>3 DEF ReleaseLease, ReplayStep, Projection
  <2>. QED  BY <2>2, <2>3
<1>9. CASE \E state \in Terminals : Terminate(l, state)
  <2>. PICK state \in Terminals : Terminate(l, state)
    BY <1>9
  <2>0. state \in {"completed", "cancelled"}
    BY DEF Terminate
  <2>. DEFINE e == Ev(IF state = "completed" THEN "pipeline_completed" ELSE "pipeline_cancelled",
                      l, leaseGeneration, NoItem)
  <2>1. /\ e \in Event /\ e.kind \in TerminalKinds
        /\ e.kind = "pipeline_completed" <=> state = "completed"
    BY <1>0a, EvTyped DEF Kinds, Items, Ev, TerminalKinds
  <2>2. CASE MayEnd(l)
    <3>1. Append1(e) /\ terminal' = state
      BY <2>2 DEF Terminate
    <3>2. Appendable(e) /\ events' = Append(events, e)
      BY <2>0, <2>1, <3>1 DEF Append1, Appendable, TerminalKinds
    <3>3. Projection' = [control |-> control, terminal |-> state, lease |-> NoLease,
                         generation |-> leaseGeneration, restarts |-> restarts]
      BY <2>2 DEF Terminate, DropLease, Projection
    <3>. HIDE DEF e
    <3>4. Projection' = ReplayEvent(Projection, e)
      BY <2>0, <2>1, <3>3, ReplayEnds DEF Projection
    <3>. QED  BY <2>1, <3>2, <3>4 DEF ReplayStep, ReplaysOne
  <2>3. CASE ~MayEnd(l)
    BY <2>3 DEF Terminate, ReplayStep, Projection
  <2>. QED  BY <2>2, <2>3
<1>. QED  BY <1>1, <1>2, <1>3, <1>4, <1>5, <1>6, <1>7, <1>8, <1>9 DEF RunnerNext

LEMMA StepReplays ==
  TypeOK /\ FenceInv /\ [Next]_vars => ReplayStep
<1>. SUFFICES ASSUME TypeOK, FenceInv, [Next]_vars PROVE ReplayStep
  OBVIOUS
<1>0. FileTyped /\ OperatorTyped
  BY TypeParts
<1>0a. leaseGeneration \in Nat /\ lease.generation \in Nat /\ lease.owner \in Lanes \cup {NoLane}
  BY <1>0, LeaseTyped DEF FileTyped
<1>1. CASE \E l \in Lanes : RunnerNext(l)
  BY <1>1, RunnerReplays
<1>2. ASSUME NEW l \in Lanes, SupervisorNext(l)
      PROVE  ReplayStep
  <2>1. UNCHANGED file \/ \E r \in Requests : Abort(r)
    BY <1>2 DEF SupervisorNext, SettleAccepting, AbortExpiredHandoff, Decide, Reap,
                CrashSupervisor, Pending
  <2>. QED  BY <2>1, FileReplays, AbortReplays
<1>3. CASE OperatorNext
  <2>1. CASE BeginAutonomousExecution \/ ApprovePrdRevision
    <3>. DEFINE e == Ev("prd_sealed", NoLane, leaseGeneration, NoItem)
    <3>1. e \in Event /\ e.kind = "prd_sealed"
      BY <1>0a, EvTyped DEF Kinds, Items, Ev
    <3>2. Appendable(e) /\ events' = Append(events, e)
      BY <2>1, <3>1 DEF BeginAutonomousExecution, ApprovePrdRevision, Append1, Appendable,
                        TerminalKinds
    <3>3. Projection' = [control |-> "autonomous_execution", terminal |-> terminal,
                         lease |-> lease, generation |-> leaseGeneration,
                         restarts |-> restarts]
      BY <2>1 DEF BeginAutonomousExecution, ApprovePrdRevision, Projection
    <3>4. Projection' = ReplayEvent(Projection, e)
      BY <3>1, <3>3, ReplaySeals DEF Projection
    <3>. QED  BY <3>1, <3>2, <3>4 DEF ReplayStep, ReplaysOne
  <2>2. CASE CancelByOperator
    <3>. DEFINE e == Ev("pipeline_cancelled", lease.owner, leaseGeneration, NoItem)
    <3>1. e \in Event /\ e.kind = "pipeline_cancelled" /\ e.kind \in TerminalKinds
      BY <1>0a, EvTyped DEF Kinds, Items, Ev, TerminalKinds
    <3>2. Appendable(e) /\ events' = Append(events, e)
      BY <2>2, <3>1 DEF CancelByOperator, Append1, Appendable
    <3>3. Projection' = [control |-> control, terminal |-> "cancelled", lease |-> NoLease,
                         generation |-> leaseGeneration, restarts |-> restarts]
      BY <2>2 DEF CancelByOperator, DropLease, Projection
    <3>4. Projection' = ReplayEvent(Projection, e)
      BY <3>1, <3>3, ReplayEnds DEF Projection
    <3>. QED  BY <3>1, <3>2, <3>4 DEF ReplayStep, ReplaysOne
  <2>3. CASE \E r \in Requests : RequestHandoff(r)
    <3>. PICK r \in Requests : RequestHandoff(r)
      BY <2>3
    <3>. DEFINE e == Ev("runtime_handoff_requested", lease.owner, lease.generation, r)
    <3>1. e \in Event /\ e.kind = "runtime_handoff_requested"
      BY <1>0a, EvTyped DEF Kinds, Items, Ev
    <3>2. Appendable(e) /\ events' = Append(events, e)
      BY <3>1 DEF RequestHandoff, Append1, Appendable, TerminalKinds
    <3>3. Projection' = Projection
      BY DEF RequestHandoff, Projection
    <3>4. ReplayEvent(Projection, e) = Projection
      BY <3>1, ReplayKeeps DEF Projection
    <3>. QED  BY <3>1, <3>2, <3>3, <3>4 DEF ReplayStep, ReplaysOne
  <2>4. CASE ReleaseForHandoff /\ MayReleaseForHandoff
    <3>. DEFINE e == Ev("runtime_handoff_released", lease.owner, lease.generation,
                        operator.request)
    <3>1. operator.request \in Requests
      BY <1>0, <2>4, OpenRequest DEF MayReleaseForHandoff, OperatorTyped
    <3>2. e \in Event /\ e.kind = "runtime_handoff_released"
      BY <1>0a, <3>1, EvTyped DEF Kinds, Items, Ev
    <3>3. Appendable(e) /\ events' = Append(events, e)
      BY <2>4, <3>2 DEF ReleaseForHandoff, Append1, Appendable, TerminalKinds
    <3>4. Projection' = [control |-> control, terminal |-> terminal, lease |-> NoLease,
                         generation |-> leaseGeneration, restarts |-> restarts]
      BY <2>4 DEF ReleaseForHandoff, DropLease, Projection
    <3>5. Projection' = ReplayEvent(Projection, e)
      BY <3>2, <3>4, ReplayReleases DEF Projection
    <3>. QED  BY <3>2, <3>3, <3>5 DEF ReplayStep, ReplaysOne
  <2>5. CASE ReleaseForHandoff /\ ~MayReleaseForHandoff
    BY <2>5 DEF ReleaseForHandoff, ReplayStep, Projection
  <2>6. CASE CrashOperator \/ (\E r \in Requests : ResumeHandoff(r))
             \/ \E l \in Lanes : SpawnTarget(l)
    BY <2>6, FileReplays DEF CrashOperator, ResumeHandoff, SpawnTarget
  <2>7. CASE LauncherRevisesPrd
    BY <2>7, ReviseReplays DEF LauncherRevisesPrd
  <2>. QED  BY <1>3, <2>1, <2>2, <2>3, <2>4, <2>5, <2>6, <2>7 DEF OperatorNext
<1>4. CASE ExpireLease \/ HandoffTimesOut \/ UNCHANGED vars
  BY <1>4, FileReplays DEF ExpireLease, HandoffTimesOut, vars
<1>. QED  BY <1>1, <1>2, <1>3, <1>4 DEF Next

\* What is carried along: the shape of the journal and what it yields.
Shaped(journal, ended) ==
  /\ Len(journal) > 0
  /\ \A i \in DOMAIN journal : journal[i].kind = "pipeline_created" <=> i = 1
  /\ \A i \in DOMAIN journal :
       journal[i].kind \in TerminalKinds <=> ended # "none" /\ i = Len(journal)

ReplayInv ==
  /\ Shaped(events, terminal)
  /\ Leased => terminal = "none"
  /\ Yields(events, Projection)

LEMMA ShapedAppend ==
  ASSUME NEW j \in Seq(Event), Shaped(j, "none"), NEW e \in Event, NEW ended,
         e.kind # "pipeline_created",
         e.kind \in TerminalKinds <=> ended # "none"
  PROVE  Shaped(Append(j, e), ended)
<1>. DEFINE t == Append(j, e)
<1>1. /\ DOMAIN t = 1 .. Len(j) + 1 /\ Len(t) = Len(j) + 1 /\ Len(j) \in Nat
      /\ t[Len(j) + 1] = e
      /\ \A i \in 1 .. Len(j) : t[i] = j[i]
      /\ DOMAIN j = 1 .. Len(j)
  OBVIOUS
<1>. HIDE DEF t
<1>. QED  BY <1>1 DEF Shaped, t

LEMMA InitReplay ==
  Init => ReplayInv
<1>. SUFFICES ASSUME Init PROVE ReplayInv
  OBVIOUS
<1>. DEFINE e == Ev("pipeline_created", NoLane, 0, NoItem)
<1>1. e \in Event /\ e.kind = "pipeline_created"
  BY EvTyped DEF Kinds, Items, Ev
<1>2. events = <<e>> /\ terminal = "none" /\ ~Leased /\ Projection = Created
  BY DEF Init, Leased, Projection, Created
<1>. HIDE DEF e
<1>3. Shaped(<<e>>, "none")
  BY <1>1 DEF Shaped, TerminalKinds
<1>. QED  BY <1>1, <1>2, <1>3, YieldsCreated DEF ReplayInv

LEMMA ReplayStepValid ==
  ASSUME TypeOK, ReplayInv, ReplayStep
  PROVE  ReplayInv'
<1>0. events \in Seq(Event) /\ Lost \in Event /\ Lost.kind = "executor_lost"
  BY LostTyped DEF TypeOK, Lost, Ev
<1>. HIDE DEF Lost
<1>1. CASE events' = events /\ Projection' = Projection
  <2>1. terminal' = terminal /\ lease' = lease
    BY <1>1 DEF Projection
  <2>. QED  BY <1>1, <2>1 DEF ReplayInv, Leased
<1>2. ASSUME NEW e \in Event, Appendable(e), ReplaysOne(e) \/ ReplaysTwo(e)
      PROVE  ReplayInv'
  <2>. DEFINE before == IF ReplaysOne(e) THEN events ELSE Append(events, Lost)
              p == IF ReplaysOne(e) THEN Projection ELSE ReplayEvent(Projection, Lost)
  <2>1. before \in Seq(Event) /\ Shaped(before, "none") /\ Yields(before, p)
    <3>1. Shaped(events, "none")
      BY <1>2 DEF ReplayInv, Appendable
    <3>2. Shaped(Append(events, Lost), "none")
      BY <1>0, <3>1, ShapedAppend DEF TerminalKinds
    <3>3. Yields(Append(events, Lost), ReplayEvent(Projection, Lost))
      BY <1>0, YieldsAppend DEF ReplayInv
    <3>. QED  BY <1>0, <3>1, <3>2, <3>3 DEF ReplayInv
  <2>2. events' = Append(before, e) /\ Projection' = ReplayEvent(p, e)
    BY <1>2 DEF ReplaysOne, ReplaysTwo
  <2>. HIDE DEF before, p
  <2>3. Shaped(events', terminal')
    BY <1>2, <2>1, <2>2, ShapedAppend DEF Appendable
  <2>4. Yields(events', Projection')
    BY <1>2, <2>1, <2>2, YieldsAppend
  <2>5. terminal' # "none" => ~Leased'
    <3>1. terminal' # "none" => ReplayEvent(p, e).lease = NoLease
      BY <1>2, ReplayEnds DEF Appendable
    <3>2. Projection'.lease = lease'
      BY DEF Projection
    <3>. QED  BY <2>2, <3>1, <3>2 DEF Leased
  <2>. QED  BY <2>3, <2>4, <2>5 DEF ReplayInv
<1>. QED  BY <1>1, <1>2 DEF ReplayStep

\* After every operation, in every interleaving with kills, expiries and handoffs, the
\* file is one that validateLogicalPipelineState accepts: no interleaving makes a
\* session unreadable by diverging its projection from its journal.
THEOREM FileStaysValid ==
  Spec => []FileValid
<1>1. TypeOK /\ FenceInv /\ ReplayInv /\ [Next]_vars => (TypeOK /\ FenceInv /\ ReplayInv)'
  BY StepTyped, StepJournals, FenceStep, StepReplays, ReplayStepValid
<1>2. ASSUME FenceInv, ReplayInv
      PROVE  FileValid
  <2>1. Replay(events) = Projection
    BY <1>2, YieldsReplay DEF ReplayInv
  <2>. QED  BY <1>2, <2>1 DEF FileValid, FenceInv, ReplayInv, Shaped
<1>. QED  BY InitTyped, InitFenced, InitReplay, <1>1, <1>2, PTL DEF Spec

-----------------------------------------------------------------------------
(* What a supervisor may die of                                            *)

\* Nothing is journaled after the end, and the handoff clock is set back by a request.
LEMMA EndedStays ==
  ASSUME TypeOK, FenceInv, [Next]_vars, terminal # "none"
  PROVE  terminal' # "none" /\ Pending' = Pending /\ (handoffOverdue => handoffOverdue')
<1>1. ReplayStep
  BY StepReplays
<1>2. events' = events /\ terminal' = terminal
  BY <1>1 DEF ReplayStep, Appendable, Projection
<1>3. Pending' = Pending
  BY <1>2 DEF Pending, Open, Journaled
<1>4. handoffOverdue => handoffOverdue'
  <2>1. CASE \E r \in Requests : RequestHandoff(r)
    BY <2>1 DEF RequestHandoff, Append1
  <2>2. CASE \E l \in Lanes : AbortExpiredHandoff(l)
    BY <2>2 DEF AbortExpiredHandoff, clock
  <2>3. ASSUME NEW l \in Lanes, RunnerNext(l)
        PROVE  handoffOverdue' = handoffOverdue
    BY <2>3
    DEF RunnerNext, StartRun, Acquire, Watchdog, Accept, Renew, AssertOwned, RecordCheckpoint,
        EndRun, RequestPrdRevision, Revise, Finish, CitadelRefuses, ReleaseLease, Terminate,
        CrashRunner, Grant, clock
  <2>4. ASSUME NEW l \in Lanes, SettleAccepting(l) \/ Decide(l) \/ Reap(l) \/ CrashSupervisor(l)
        PROVE  handoffOverdue' = handoffOverdue
    BY <2>4 DEF SettleAccepting, Decide, Reap, CrashSupervisor, clock
  <2>5. CASE \/ BeginAutonomousExecution \/ ApprovePrdRevision \/ CancelByOperator
             \/ LauncherRevisesPrd \/ ReleaseForHandoff \/ CrashOperator
             \/ (\E r \in Requests : ResumeHandoff(r)) \/ \E l \in Lanes : SpawnTarget(l)
    BY <2>5 DEF BeginAutonomousExecution, ApprovePrdRevision, LauncherRevisesPrd, Revise,
                CancelByOperator,
                ReleaseForHandoff, CrashOperator, ResumeHandoff, SpawnTarget, clock
  <2>6. CASE ExpireLease \/ HandoffTimesOut \/ UNCHANGED vars
    BY <2>6 DEF ExpireLease, HandoffTimesOut, vars, clock
  <2>. QED  BY <2>1, <2>2, <2>3, <2>4, <2>5, <2>6 DEF Next, SupervisorNext, OperatorNext
<1>. QED  BY <1>2, <1>3, <1>4

\* Wherever processes die: the overdue handoff of an ended pipeline is the only thing
\* a supervisor's decision throws on.
THEOREM SupervisorsSurvive ==
  Spec => []OnlyOverdueHandoffKills
<1>1. Init => OnlyOverdueHandoffKills
  BY DEF Init, OnlyOverdueHandoffKills
<1>2. ASSUME TypeOK, FenceInv, OnlyOverdueHandoffKills, [Next]_vars
      PROVE  OnlyOverdueHandoffKills'
  <2>. SUFFICES ASSUME NEW l \in Lanes, supervisor'[l] = "failed"
                PROVE  terminal' # "none" /\ Pending' # {} /\ handoffOverdue'
    BY DEF OnlyOverdueHandoffKills
  <2>1. supervisor[l] = "failed" \/ AbortExpiredHandoff(l)
    <3>1. supervisor \in [Lanes -> {"unused", "poll", "wait", "stopped", "failed"}]
      BY <1>2 DEF TypeOK
    <3>2. ASSUME NEW m \in Lanes, RunnerNext(m)
          PROVE  supervisor' = supervisor
      BY <3>2
      DEF RunnerNext, StartRun, Acquire, Watchdog, Accept, Renew, AssertOwned,
          RecordCheckpoint, EndRun, RequestPrdRevision, Finish, CitadelRefuses, ReleaseLease,
          Terminate, CrashRunner, Grant, deciders
    <3>3. ASSUME NEW m \in Lanes, SupervisorNext(m), ~AbortExpiredHandoff(l)
          PROVE  supervisor[l] = "failed"
      BY <3>1, <3>3
      DEF SupervisorNext, SettleAccepting, AbortExpiredHandoff, Decide, Reap, CrashSupervisor,
          Poll
    <3>4. CASE OperatorNext
      BY <3>1, <3>4
      DEF OperatorNext, BeginAutonomousExecution, ApprovePrdRevision, LauncherRevisesPrd,
          CancelByOperator, RequestHandoff, ReleaseForHandoff, CrashOperator, ResumeHandoff, SpawnTarget,
          Poll, deciders
    <3>5. CASE ExpireLease \/ HandoffTimesOut \/ UNCHANGED vars
      BY <3>5 DEF ExpireLease, HandoffTimesOut, vars, deciders
    <3>. QED  BY <1>2, <3>2, <3>3, <3>4, <3>5 DEF Next
  <2>2. CASE supervisor[l] = "failed"
    BY <1>2, <2>2, EndedStays DEF OnlyOverdueHandoffKills
  <2>3. CASE AbortExpiredHandoff(l) /\ supervisor[l] # "failed"
    <3>1. terminal # "none" /\ Pending # {} /\ handoffOverdue
      <4>1. MayAbort
        BY <2>3 DEF AbortExpiredHandoff
      <4>2. terminal # "none"
        BY <2>3 DEF AbortExpiredHandoff
      <4>. QED  BY <4>1, <4>2 DEF MayAbort
    <3>. QED  BY <1>2, <3>1, EndedStays
  <2>. QED  BY <2>1, <2>2, <2>3
<1>. QED  BY InitTyped, InitFenced, StepTyped, StepJournals, FenceStep, <1>1, <1>2, PTL DEF Spec

=============================================================================
