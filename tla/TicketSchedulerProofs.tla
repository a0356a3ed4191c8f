------------------------ MODULE TicketSchedulerProofs ------------------------
(***************************************************************************)
(* What TicketScheduler guarantees for any tickets, dependencies, failures *)
(* and limits, and however often the environment strikes.                  *)
(***************************************************************************)
EXTENDS TicketScheduler, TLAPS

-----------------------------------------------------------------------------
(* The type invariant, in parts, and what it needs to be inductive         *)

TicketsTyped ==
  /\ status \in [Tickets -> Statuses]
  /\ window \in [Tickets -> [total : Nat, by : [Lineages -> Nat]]]
  /\ strategy \in [Tickets -> [count : 0..StrategyCap, domain : Domains \cup {"none"}]]
  /\ circuit \in {"CLOSED", "OPEN"}
  /\ reopen \subseteq Tickets /\ rechecked \subseteq Tickets

SessionTyped ==
  /\ session \in [active : BOOLEAN, cancelled : BOOLEAN, reason : Exits \cup {"none"},
                  overBudget : BOOLEAN, rollover : BOOLEAN, recovery : BOOLEAN]
  /\ terminal \in {"open", "completed", "cancelled"}
  /\ troubles \in 0..TroubleBound

Occupied == {"attempt", "strategy", "authorize", "reset", "start", "diagnose", "work",
             "progress", "record", "judge", "weigh", "verdict", "repair", "rollover"}

RunRecord ==
  [pc : Steps, ticket : Tickets \cup {NoTicket}, pending : SUBSET Tickets,
   repairing : SUBSET Tickets, diagnostic : Tickets \cup {NoTicket},
   domain : Domains \cup {"none"}, route : Routes,
   failure : Lineages \cup {NoFailure}, exhausted : BOOLEAN, repair : BOOLEAN,
   next : {"attempt", "weigh", "verdict", "diagnose"}, exit : Exits]

RunTyped ==
  /\ run \in RunRecord
  /\ run.pc \in Occupied => run.ticket \in Tickets
  /\ run.pc \in {"record", "judge", "verdict", "repair"} => run.failure # NoFailure

LEMMA TypeParts == TypeOK <=> TicketsTyped /\ SessionTyped /\ RunTyped
BY DEF TypeOK, TicketsTyped, SessionTyped, RunTyped, RunRecord, Occupied

\* A recovery epoch between a failure and its verdict keeps the failure.
FailureHeld ==
  /\ run.pc = "weigh" => run.failure # NoFailure
  /\ run.pc \in {"strategy", "authorize", "reset"} /\ run.next \in {"weigh", "verdict"} =>
       run.failure # NoFailure

\* A cancelled session is inactive, and an inactive one says why.
StopExplained ==
  /\ session.cancelled => ~session.active
  /\ ~session.active => session.reason # "none"

Typed == TicketsTyped /\ SessionTyped /\ RunTyped /\ FailureHeld /\ StopExplained

LEMMA LineageFacts ==
  ASSUME NEW f \in Lineages
  PROVE  f.kind \in Kinds /\ f.route \in Routes /\ f # NoFailure /\ Domain(f.route) \in Domains
BY FailureAssumption DEF Lineages, Broken, NoFailure, Kinds, Routes, Domain, Domains

LEMMA IdleTyped == Idle \in RunRecord /\ Idle.pc = "down" /\ Idle.failure = NoFailure
BY DEF Idle, Steps, Routes, Exits, RunRecord

\* What a step leaves alone stays typed.
LEMMA TicketsKept ==
  TicketsTyped /\ UNCHANGED <<status, window, strategy, circuit, reopen, rechecked>> => TicketsTyped'
BY DEF TicketsTyped

LEMMA SessionKept ==
  SessionTyped /\ StopExplained /\ UNCHANGED <<session, terminal, troubles>>
    => SessionTyped' /\ StopExplained'
BY DEF SessionTyped, StopExplained

\* The moves of the runner.
LEMMA IdleMove == run' = Idle => RunTyped' /\ FailureHeld'
BY IdleTyped DEF RunTyped, RunRecord, FailureHeld, Occupied

LEMMA LeaveMove ==
  ASSUME NEW reason \in Exits, Leave(reason)
  PROVE  RunTyped' /\ FailureHeld'
BY IdleTyped DEF Leave, RunTyped, RunRecord, FailureHeld, Occupied, Steps

LEMMA RunOnly ==
  ASSUME Typed, RunTyped', FailureHeld',
         UNCHANGED <<status, window, strategy, circuit, session, reopen, rechecked, terminal, troubles>>
  PROVE  Typed'
BY TicketsKept, SessionKept DEF Typed

LEMMA TroubleTyped == SessionTyped /\ Trouble => troubles' \in 0..TroubleBound
BY LimitAssumption DEF Trouble, SessionTyped

\* A ticket or a diagnostic is taken up.
LEMMA DiagnosticMove ==
  ASSUME NEW S \in SUBSET Tickets, NEW t \in Tickets,
         run' = [Idle EXCEPT !.pc = "select", !.pending = S, !.diagnostic = t]
  PROVE  RunTyped' /\ FailureHeld'
<1> DEFINE moved == [pc |-> "select", ticket |-> NoTicket, pending |-> S, repairing |-> {},
                     diagnostic |-> t, domain |-> "none", route |-> "infrastructure",
                     failure |-> NoFailure, exhausted |-> FALSE, repair |-> FALSE,
                     next |-> "attempt", exit |-> "success"]
<1>1. run' = moved
  BY DEF Idle
<1>2. moved \in RunRecord
  BY DEF RunRecord, Steps, Routes, Exits
<1> QED
  BY <1>1, <1>2 DEF RunTyped, FailureHeld, Occupied

LEMMA SelectMove ==
  ASSUME run \in RunRecord, NEW S \in SUBSET Tickets, NEW P \in SUBSET Tickets,
         NEW t \in Tickets, NEW d \in Domains \cup {"none"},
         run' = [run EXCEPT !.pc = "attempt", !.ticket = t, !.pending = S, !.repairing = P,
                            !.domain = d, !.route = "infrastructure", !.repair = FALSE]
  PROVE  RunTyped' /\ FailureHeld'
<1> DEFINE moved == [pc |-> "attempt", ticket |-> t, pending |-> S, repairing |-> P,
                     diagnostic |-> run.diagnostic, domain |-> d, route |-> "infrastructure",
                     failure |-> run.failure, exhausted |-> run.exhausted, repair |-> FALSE,
                     next |-> run.next, exit |-> run.exit]
<1>1. run' = moved
  BY DEF RunRecord
<1>2. moved \in RunRecord
  BY DEF RunRecord, Steps, Routes
<1> QED
  BY <1>1, <1>2 DEF RunTyped, FailureHeld

\* The loop lets a ticket go.
LEMMA ReleaseMove ==
  ASSUME run \in RunRecord,
         run' = [run EXCEPT !.pc = "select", !.ticket = NoTicket, !.domain = "none",
                            !.route = "infrastructure", !.repair = FALSE]
  PROVE  RunTyped' /\ FailureHeld'
<1> DEFINE moved == [pc |-> "select", ticket |-> NoTicket, pending |-> run.pending,
                     repairing |-> run.repairing, diagnostic |-> run.diagnostic,
                     domain |-> "none", route |-> "infrastructure", failure |-> run.failure,
                     exhausted |-> run.exhausted, repair |-> FALSE,
                     next |-> run.next, exit |-> run.exit]
<1>1. run' = moved
  BY DEF RunRecord
<1>2. moved \in RunRecord
  BY DEF RunRecord, Steps, Routes
<1> QED
  BY <1>1, <1>2 DEF RunTyped, FailureHeld, Occupied

\* A remediation is applied.
LEMMA ReopenMove ==
  ASSUME NEW S \in SUBSET Tickets,
         run' = [Idle EXCEPT !.pc = "reopen", !.pending = S]
  PROVE  RunTyped' /\ FailureHeld'
<1> DEFINE moved == [pc |-> "reopen", ticket |-> NoTicket, pending |-> S, repairing |-> {},
                     diagnostic |-> NoTicket, domain |-> "none", route |-> "infrastructure",
                     failure |-> NoFailure, exhausted |-> FALSE, repair |-> FALSE,
                     next |-> "attempt", exit |-> "success"]
<1>1. run' = moved
  BY DEF Idle
<1>2. moved \in RunRecord
  BY DEF RunRecord, Steps, Routes, Exits
<1> QED
  BY <1>1, <1>2 DEF RunTyped, FailureHeld, Occupied

\* A failure goes to the journal.
LEMMA FailureMove ==
  ASSUME run \in RunRecord, run.ticket \in Tickets, NEW f \in Lineages,
         run' = [run EXCEPT !.pc = "record", !.failure = f]
  PROVE  RunTyped' /\ FailureHeld'
<1> DEFINE moved == [pc |-> "record", ticket |-> run.ticket, pending |-> run.pending,
                     repairing |-> run.repairing, diagnostic |-> run.diagnostic,
                     domain |-> run.domain, route |-> run.route, failure |-> f,
                     exhausted |-> run.exhausted, repair |-> run.repair,
                     next |-> run.next, exit |-> run.exit]
<1>1. run' = moved
  BY DEF RunRecord
<1>2. moved \in RunRecord
  BY DEF RunRecord, Steps
<1>3. f # NoFailure
  BY LineageFacts
<1> QED
  BY <1>1, <1>2, <1>3 DEF RunTyped, FailureHeld

LEMMA JournaledTyped ==
  ASSUME TicketsTyped, NEW t \in Tickets, NEW d \in Domains
  PROVE  Journaled(t, d) \in [Tickets -> [count : 0..StrategyCap, domain : Domains \cup {"none"}]]
<1> DEFINE epochs == strategy[t]
           next == IF epochs.count < StrategyCap THEN epochs.count + 1 ELSE StrategyCap
<1>1. epochs \in [count : 0..StrategyCap, domain : Domains \cup {"none"}]
  BY DEF TicketsTyped
<1>2. next \in 0..StrategyCap
  BY <1>1 DEF StrategyCap
<1>3. Journaled(t, d) = [strategy EXCEPT ![t] = [count |-> next, domain |-> d]]
  BY DEF Journaled
<1> QED
  BY <1>2, <1>3 DEF TicketsTyped

LEMMA JournalTyped ==
  ASSUME Typed, JournalStrategy
  PROVE  strategy' \in [Tickets -> [count : 0..StrategyCap, domain : Domains \cup {"none"}]]
<1>1. CASE run.ticket \in Tickets
  <2>1. Domain(Planned) \in Domains
    BY DEF Planned, PlannedRoute, Domain, Domains, Routes, Typed, RunTyped, RunRecord
  <2> QED
    BY <1>1, <2>1, JournaledTyped DEF JournalStrategy, Typed
<1>2. CASE run.ticket \notin Tickets
  BY <1>2 DEF JournalStrategy, Journaled, Typed, TicketsTyped
<1> QED
  BY <1>1, <1>2

LEMMA TypedStart == Typed /\ StartSteps => Typed'
<1> SUFFICES ASSUME Typed, StartSteps PROVE Typed'
  OBVIOUS
<1> USE DEF Typed
<1>1. CASE Launch
  <2>1. RunTyped' /\ FailureHeld'
    BY <1>1, IdleTyped DEF Launch, RunTyped, RunRecord, FailureHeld, Occupied, Steps,
       TicketsTyped
  <2> QED
    BY <1>1, <2>1, RunOnly DEF Launch
<1>2. CASE \E t \in Tickets : ReopenTicket(t)
  <2> PICK t \in Tickets : ReopenTicket(t)
    BY <1>2
  <2>1. TicketsTyped'
    BY DEF ReopenTicket, SetStatus, TicketsTyped, Statuses
  <2>2. RunTyped' /\ FailureHeld'
    BY DEF ReopenTicket, At, RunTyped, RunRecord, FailureHeld, Occupied
  <2> QED
    BY <2>1, <2>2, SessionKept DEF ReopenTicket
<1>3. CASE ClearIntent
  <2>1. TicketsTyped'
    BY <1>3 DEF ClearIntent, TicketsTyped
  <2>2. RunTyped' /\ FailureHeld'
    BY <1>3 DEF ClearIntent, Goto, Steps, RunTyped, RunRecord, FailureHeld, Occupied
  <2> QED
    BY <1>3, <2>1, <2>2, SessionKept DEF ClearIntent
<1>4. CASE ConsumeRollover
  <2>1. SessionTyped' /\ StopExplained'
    BY <1>4 DEF ConsumeRollover, SessionTyped, StopExplained
  <2>2. RunTyped' /\ FailureHeld'
    BY <1>4 DEF ConsumeRollover, Goto, Steps, RunTyped, RunRecord, FailureHeld, Occupied
  <2> QED
    BY <1>4, <2>1, <2>2, TicketsKept DEF ConsumeRollover
<1>5. CASE EnterPhase
  <2>1. SessionTyped' /\ StopExplained'
    BY <1>5 DEF EnterPhase, MayEnter, SessionTyped, StopExplained
  <2>2. RunTyped' /\ FailureHeld'
    BY <1>5, IdleMove DEF EnterPhase, Goto, Steps, RunTyped, RunRecord, FailureHeld, Occupied
  <2> QED
    BY <1>5, <2>1, <2>2, TicketsKept DEF EnterPhase
<1>6. CASE PlanTickets
  <2>1. RunTyped' /\ FailureHeld'
    BY <1>6, IdleTyped
    DEF PlanTickets, Awaiting, RunTyped, RunRecord, FailureHeld, Occupied, Steps
  <2> QED
    BY <1>6, <2>1, RunOnly DEF PlanTickets
<1>7. CASE PlanDiagnostic
  <2> PICK d \in Earliest(ReadyBlocked) :
        /\ SetStatus(d, "todo")
        /\ run' = [Idle EXCEPT !.pc = "select", !.pending = Awaiting \cup {d},
                               !.diagnostic = d]
    BY <1>7 DEF PlanDiagnostic
  <2>1. d \in Tickets /\ Awaiting \cup {d} \subseteq Tickets
    BY DEF Earliest, ReadyBlocked, Awaiting
  <2>2. TicketsTyped'
    BY <1>7 DEF PlanDiagnostic, SetStatus, TicketsTyped, Statuses
  <2>3. RunTyped' /\ FailureHeld'
    BY <2>1, DiagnosticMove
  <2> QED
    BY <1>7, <2>2, <2>3, SessionKept DEF PlanDiagnostic
<1> QED
  BY <1>1, <1>2, <1>3, <1>4, <1>5, <1>6, <1>7 DEF StartSteps

LEMMA TypedLoop == Typed /\ LoopSteps => Typed'
<1> SUFFICES ASSUME Typed, LoopSteps PROVE Typed'
  OBVIOUS
<1> USE DEF Typed
<1>1. CASE SelectTicket
  <2> PICK t \in Earliest(Preferred) :
        run' = [run EXCEPT !.pc = "attempt", !.ticket = t,
                           !.pending = @ \ {t}, !.repairing = @ \ {t},
                           !.domain = strategy[t].domain, !.route = "infrastructure",
                           !.repair = FALSE]
    BY <1>1 DEF SelectTicket
  <2>1. t \in Tickets
    BY DEF Earliest, Preferred, Candidates, RunTyped, RunRecord
  <2>2. strategy[t].domain \in Domains \cup {"none"}
    BY <2>1 DEF TicketsTyped
  <2>3. run.pending \ {t} \in SUBSET Tickets /\ run.repairing \ {t} \in SUBSET Tickets
    BY DEF RunTyped, RunRecord
  <2>4. RunTyped' /\ FailureHeld'
    BY <2>1, <2>2, <2>3, SelectMove DEF RunTyped
  <2> QED
    BY <1>1, <2>4, RunOnly DEF SelectTicket
<1>2. CASE NoTicketLeft
  <2>1. {"success", "error"} \subseteq Exits
    BY DEF Exits
  <2>2. RunTyped' /\ FailureHeld'
    BY <1>2, <2>1, LeaveMove DEF NoTicketLeft
  <2> QED
    BY <1>2, <2>2, RunOnly DEF NoTicketLeft
<1>3. CASE StopAttempting
  <2>1. session.reason \in Exits
    BY <1>3 DEF StopAttempting, SessionTyped, StopExplained
  <2>2. RunTyped' /\ FailureHeld'
    BY <1>3, <2>1, LeaveMove DEF StopAttempting
  <2> QED
    BY <1>3, <2>2, RunOnly DEF StopAttempting
<1>4. CASE BudgetCrossed
  <2>1. RunTyped' /\ FailureHeld'
    BY <1>4 DEF BudgetCrossed, At, Goto, Steps, RunTyped, RunRecord, FailureHeld, Occupied
  <2> QED
    BY <1>4, <2>1, RunOnly DEF BudgetCrossed
<1>5. CASE CheckAttempt
  <2>1. RunTyped' /\ FailureHeld'
    BY <1>5 DEF CheckAttempt, At, Steps, RunTyped, RunRecord, FailureHeld, Occupied
  <2> QED
    BY <1>5, <2>1, RunOnly DEF CheckAttempt
<1>6. CASE SelectStrategy
  <2>1. Domain(Planned) \in Domains
    BY DEF Planned, PlannedRoute, Domain, Domains, Routes, RunTyped, RunRecord
  <2>2. TicketsTyped'
    BY <1>6, JournalTyped DEF SelectStrategy, TicketsTyped
  <2>3. RunTyped' /\ FailureHeld'
    BY <1>6, <2>1
    DEF SelectStrategy, At, Steps, RunTyped, RunRecord, FailureHeld, Occupied
  <2> QED
    BY <1>6, <2>2, <2>3, SessionKept DEF SelectStrategy
<1>7. CASE ReconstructionFails
  <2>1. TicketsTyped'
    BY <1>7, JournalTyped DEF ReconstructionFails, TicketsTyped
  <2>2. Trouble
    BY <1>7 DEF ReconstructionFails
  <2>3. SessionTyped' /\ StopExplained'
    BY <1>7, <2>2, TroubleTyped DEF ReconstructionFails, SessionTyped, StopExplained
  <2>4. {"circuit_open", ExitOf("recovery_required")} \subseteq Exits
    BY DEF Exits, ExitOf
  <2>5. RunTyped' /\ FailureHeld'
    BY <1>7, <2>4, LeaveMove DEF ReconstructionFails
  <2> QED
    BY <2>1, <2>3, <2>5
<1>8. CASE Authorize
  <2>1. TicketsTyped'
    BY <1>8 DEF Authorize, At, TicketsTyped, NoWindow
  <2>2. RunTyped' /\ FailureHeld'
    BY <1>8 DEF Authorize, At, Goto, Steps, RunTyped, RunRecord, FailureHeld, Occupied
  <2> QED
    BY <1>8, <2>1, <2>2, SessionKept DEF Authorize
<1>9. CASE ResetCircuit
  <2>1. TicketsTyped'
    BY <1>9 DEF ResetCircuit, TicketsTyped
  <2>2. RunTyped' /\ FailureHeld'
    BY <1>9 DEF ResetCircuit, At, Steps, RunTyped, RunRecord, FailureHeld, Occupied
  <2> QED
    BY <1>9, <2>1, <2>2, SessionKept DEF ResetCircuit
<1> QED
  BY <1>1, <1>2, <1>3, <1>4, <1>5, <1>6, <1>7, <1>8, <1>9 DEF LoopSteps

LEMMA CatchMove ==
  ASSUME Typed, NEW f \in Lineages, Catch(f), run.ticket \in Tickets
  PROVE  RunTyped' /\ FailureHeld' /\ troubles' \in 0..TroubleBound
<1>1. troubles' \in 0..TroubleBound
  BY TroubleTyped DEF Catch, Typed
<1>2. CASE session.active
  BY <1>1, <1>2, FailureMove DEF Catch, Typed, RunTyped
<1>3. CASE ~session.active
  <2>1. session.reason \in Exits
    BY <1>3 DEF Typed, SessionTyped, StopExplained
  <2> QED
    BY <1>1, <1>3, <2>1, LeaveMove DEF Catch
<1> QED
  BY <1>1, <1>2, <1>3

LEMMA TypedAttempt == Typed /\ AttemptSteps => Typed'
<1> SUFFICES ASSUME Typed, AttemptSteps PROVE Typed'
  OBVIOUS
<1> USE DEF Typed
<1>1. CASE RepairContract
  <2>1. RunTyped' /\ FailureHeld'
    BY <1>1 DEF RepairContract, At, RunTyped, RunRecord, FailureHeld, Occupied
  <2>2. TicketsTyped'
    BY <1>1 DEF RepairContract, SetStatus, TicketsTyped, Statuses
  <2> QED
    BY <1>1, <2>1, <2>2, SessionKept DEF RepairContract
<1>2. CASE StartDiagnostic
  <2>1. RunTyped' /\ FailureHeld'
    BY <1>2 DEF StartDiagnostic, At, Steps, RunTyped, RunRecord, FailureHeld, Occupied
  <2> QED
    BY <1>2, <2>1, RunOnly DEF StartDiagnostic
<1>3. CASE Diagnose
  <2>1. RunTyped' /\ FailureHeld'
    BY <1>3 DEF Diagnose, At, Steps, RunTyped, RunRecord, FailureHeld, Occupied
  <2> QED
    BY <1>3, <2>1, RunOnly DEF Diagnose
<1>4. CASE FailRepair
  <2>1. run.ticket \in Tickets
    BY <1>4 DEF FailRepair, At, RunTyped, Occupied
  <2>2. RunTyped' /\ FailureHeld' /\ troubles' \in 0..TroubleBound
    BY <1>4, <2>1, CatchMove DEF FailRepair, Lineages
  <2>3. SessionTyped' /\ StopExplained'
    BY <1>4, <2>2 DEF FailRepair, SessionTyped, StopExplained
  <2> QED
    BY <1>4, <2>2, <2>3, TicketsKept DEF FailRepair
<1>5. CASE FailBeforeWork
  <2>1. run.ticket \in Tickets
    BY <1>5 DEF FailBeforeWork, Taking, At, RunTyped, Occupied
  <2>2. RunTyped' /\ FailureHeld' /\ troubles' \in 0..TroubleBound
    BY <1>5, <2>1, CatchMove DEF FailBeforeWork, Lineages
  <2>3. SessionTyped' /\ StopExplained'
    BY <1>5, <2>2 DEF FailBeforeWork, SessionTyped, StopExplained
  <2> QED
    BY <1>5, <2>2, <2>3, TicketsKept DEF FailBeforeWork
<1>6. CASE TakeTicket
  <2>1. TicketsTyped'
    BY <1>6 DEF TakeTicket, SetStatus, TicketsTyped, Statuses
  <2>2. RunTyped' /\ FailureHeld'
    BY <1>6 DEF TakeTicket, Taking, At, Goto, Steps, RunTyped, RunRecord, FailureHeld, Occupied
  <2> QED
    BY <1>6, <2>1, <2>2, SessionKept DEF TakeTicket
<1>7. CASE Complete
  <2>1. TicketsTyped'
    BY <1>7 DEF Complete, SetStatus, Iterate, TicketsTyped, Statuses
  <2>2. RunTyped' /\ FailureHeld'
    BY <1>7 DEF Complete, At, Goto, Steps, RunTyped, RunRecord, FailureHeld, Occupied
  <2> QED
    BY <1>7, <2>1, <2>2, SessionKept DEF Complete
<1>8. CASE RecordProgress
  <2>1. TicketsTyped'
    <3>1. [count |-> 0, domain |-> "none"]
            \in [count : 0..StrategyCap, domain : Domains \cup {"none"}]
      BY DEF StrategyCap
    <3> DEFINE cleared == [count |-> 0, domain |-> "none"]
    <3>2. strategy' = [strategy EXCEPT ![run.ticket] = cleared]
      BY <1>8 DEF RecordProgress
    <3> HIDE DEF cleared
    <3>3. cleared \in [count : 0..StrategyCap, domain : Domains \cup {"none"}]
      BY <3>1 DEF cleared
    <3>4. strategy' \in [Tickets -> [count : 0..StrategyCap, domain : Domains \cup {"none"}]]
      BY <3>2, <3>3 DEF TicketsTyped
    <3> QED
      BY <1>8, <3>4 DEF RecordProgress, TicketsTyped
  <2>2. RunTyped' /\ FailureHeld'
    BY <1>8, ReleaseMove DEF RecordProgress, RunTyped
  <2> QED
    BY <1>8, <2>1, <2>2, SessionKept DEF RecordProgress
<1>9. ASSUME NEW f \in Failures, Fail(f) PROVE Typed'
  <2>1. TicketsTyped'
    BY <1>9 DEF Fail, SetStatus, Parked, Iterate, TicketsTyped, Statuses
  <2>2. run.ticket \in Tickets
    BY <1>9 DEF Fail, At, RunTyped, Occupied
  <2>3. RunTyped' /\ FailureHeld' /\ troubles' \in 0..TroubleBound
    BY <1>9, <2>2, CatchMove DEF Fail, Lineages
  <2>4. SessionTyped' /\ StopExplained'
    BY <1>9, <2>3 DEF Fail, SessionTyped, StopExplained
  <2> QED
    BY <2>1, <2>3, <2>4
<1>10. ASSUME NEW f \in Failures, Refuse(f) PROVE Typed'
  <2>1. TicketsTyped'
    BY <1>10 DEF Refuse, SetStatus, Parked, Iterate, TicketsTyped, Statuses
  <2>2. RunTyped' /\ FailureHeld'
    <3>1. run.ticket \in Tickets /\ f \in Lineages
      BY <1>10 DEF Refuse, At, RunTyped, Occupied, Lineages
    <3> QED
      BY <1>10, <3>1, FailureMove DEF Refuse, RunTyped
  <2>3. troubles' \in 0..TroubleBound
    BY <1>10, TroubleTyped DEF Refuse
  <2>4. SessionTyped' /\ StopExplained'
    BY <1>10, <2>3 DEF Refuse, SessionTyped, StopExplained
  <2> QED
    BY <2>1, <2>2, <2>4
<1>11. CASE FailRollback
  <2>1. troubles' \in 0..TroubleBound
    BY <1>11, TroubleTyped DEF FailRollback
  <2>2. SessionTyped' /\ StopExplained'
    BY <1>11, <2>1 DEF FailRollback, SessionTyped, StopExplained, Exits
  <2>3. RunTyped' /\ FailureHeld'
    <3>1. CASE session.active
      <4>1. run.ticket \in Tickets /\ Broken \in Lineages
        BY <1>11 DEF FailRollback, At, RunTyped, Occupied, Lineages
      <4> QED
        BY <1>11, <3>1, <4>1, FailureMove DEF FailRollback, RunTyped
    <3>2. CASE ~session.active
      BY <1>11, <3>2, LeaveMove DEF FailRollback, Exits
    <3> QED
      BY <3>1, <3>2
  <2> QED
    BY <1>11, <2>2, <2>3, TicketsKept DEF FailRollback
<1>12. CASE AbandonWork
  <2>1. TicketsTyped'
    BY <1>12 DEF AbandonWork, SetStatus, TicketsTyped, Statuses
  <2>2. session.reason \in Exits
    BY <1>12 DEF AbandonWork, SessionTyped, StopExplained
  <2>3. RunTyped' /\ FailureHeld'
    BY <1>12, <2>2, LeaveMove DEF AbandonWork
  <2> QED
    BY <1>12, <2>1, <2>3, SessionKept DEF AbandonWork
<1> QED
  BY <1>1, <1>2, <1>3, <1>4, <1>5, <1>6, <1>7, <1>8, <1>9, <1>10, <1>11, <1>12
  DEF AttemptSteps

\* The failed ticket goes back to the pending ones.
LEMMA YieldMove ==
  ASSUME run \in RunRecord, NEW S \in SUBSET Tickets, NEW P \in SUBSET Tickets,
         run' = [run EXCEPT !.pc = "select", !.ticket = NoTicket, !.failure = NoFailure,
                            !.pending = S, !.repairing = P,
                            !.domain = "none", !.route = "infrastructure", !.repair = FALSE]
  PROVE  RunTyped' /\ FailureHeld'
<1> DEFINE moved == [pc |-> "select", ticket |-> NoTicket, pending |-> S, repairing |-> P,
                     diagnostic |-> run.diagnostic, domain |-> "none",
                     route |-> "infrastructure", failure |-> NoFailure,
                     exhausted |-> run.exhausted, repair |-> FALSE,
                     next |-> run.next, exit |-> run.exit]
<1>1. run' = moved
  BY DEF RunRecord
<1>2. moved \in RunRecord
  BY DEF RunRecord, Steps, Routes
<1> QED
  BY <1>1, <1>2 DEF RunTyped, FailureHeld, Occupied

LEMMA RecordTyped ==
  ASSUME Typed, RecordFailure
  PROVE  window' \in [Tickets -> [total : Nat, by : [Lineages -> Nat]]]
<1> DEFINE was == window[run.ticket]
           now == [total |-> was.total + 1, by |-> [was.by EXCEPT ![run.failure] = @ + 1]]
<1>1. was \in [total : Nat, by : [Lineages -> Nat]]
  BY DEF RecordFailure, At, Typed, RunTyped, Occupied, TicketsTyped
<1>2. run.failure \in Lineages /\ run.ticket \in Tickets
  BY DEF RecordFailure, At, Typed, RunTyped, RunRecord, Occupied
<1>3. was.by[run.failure] + 1 \in Nat
  BY <1>1, <1>2
<1>4. now.by \in [Lineages -> Nat]
  BY <1>1, <1>2, <1>3
<1>5. now \in [total : Nat, by : [Lineages -> Nat]]
  BY <1>1, <1>4
<1>6. window' = [window EXCEPT ![run.ticket] = now]
  BY <1>1, <1>2 DEF RecordFailure, Typed, TicketsTyped
<1> QED
  BY <1>2, <1>5, <1>6 DEF Typed, TicketsTyped

LEMMA TypedDecision == Typed /\ DecisionSteps => Typed'
<1> SUFFICES ASSUME Typed, DecisionSteps PROVE Typed'
  OBVIOUS
<1> USE DEF Typed
<1>1. CASE RecordFailure
  <2>1. TicketsTyped'
    BY <1>1, RecordTyped DEF RecordFailure, TicketsTyped
  <2>2. run.failure.route \in Routes
    BY <1>1, LineageFacts DEF RecordFailure, At, RunTyped, RunRecord
  <2>3. RunTyped' /\ FailureHeld'
    BY <1>1, <2>2 DEF RecordFailure, At, Steps, RunTyped, RunRecord, FailureHeld, Occupied
  <2> QED
    BY <1>1, <2>1, <2>3, SessionKept DEF RecordFailure
<1>2. CASE JudgeExhausted
  <2>1. TicketsTyped'
    BY <1>2 DEF JudgeExhausted, TicketsTyped
  <2>2. RunTyped' /\ FailureHeld'
    BY <1>2 DEF JudgeExhausted, At, Steps, RunTyped, RunRecord, FailureHeld, Occupied
  <2> QED
    BY <1>2, <2>1, <2>2, SessionKept DEF JudgeExhausted
<1>3. CASE JudgeFailure
  <2>1. RunTyped' /\ FailureHeld'
    BY <1>3 DEF JudgeFailure, At, Steps, RunTyped, RunRecord, FailureHeld, Occupied
  <2> QED
    BY <1>3, <2>1, RunOnly DEF JudgeFailure
<1>4. CASE WeighRecovery
  <2>1. ExitOf("recovery_required") \in Exits
    BY DEF ExitOf, Exits
  <2>2. RunTyped' /\ FailureHeld'
    BY <1>4, <2>1, LeaveMove DEF WeighRecovery
  <2> QED
    BY <1>4, <2>2, RunOnly DEF WeighRecovery
<1>5. CASE WeighBudget
  <2>1. RunTyped' /\ FailureHeld'
    BY <1>5 DEF WeighBudget, At, Goto, Steps, RunTyped, RunRecord, FailureHeld, Occupied
  <2> QED
    BY <1>5, <2>1, RunOnly DEF WeighBudget
<1>6. CASE Weigh
  <2>1. RunTyped' /\ FailureHeld'
    BY <1>6 DEF Weigh, At, Steps, RunTyped, RunRecord, FailureHeld, Occupied
  <2> QED
    BY <1>6, <2>1, RunOnly DEF Weigh
<1>7. CASE Abort
  <2>1. ExitOf("circuit_open") \in Exits /\ ExitOf("recovery_exhausted") \in Exits
    BY DEF ExitOf, Exits
  <2>2. RunTyped' /\ FailureHeld'
    BY <1>7, <2>1, LeaveMove DEF Abort
  <2> QED
    BY <1>7, <2>2, RunOnly DEF Abort
<1>8. CASE YieldTicket
  <2>1. run.ticket \in Tickets
    BY <1>8 DEF YieldTicket, Retries, At, RunTyped, Occupied
  <2>2. QueueAgain \in SUBSET Tickets /\ run.repairing \cup {run.ticket} \in SUBSET Tickets
    BY <2>1 DEF QueueAgain, RunTyped, RunRecord
  <2>3. RunTyped' /\ FailureHeld'
    BY <1>8, <2>2, YieldMove DEF YieldTicket, RunTyped
  <2> QED
    BY <1>8, <2>3, RunOnly DEF YieldTicket
<1>9. CASE RetryTicket
  <2>1. RunTyped' /\ FailureHeld'
    BY <1>9 DEF RetryTicket, Retries, At, Steps, RunTyped, RunRecord, FailureHeld, Occupied
  <2> QED
    BY <1>9, <2>1, RunOnly DEF RetryTicket
<1>10. CASE RepairInCatch
  <2>1. RunTyped' /\ FailureHeld'
    BY <1>10 DEF RepairInCatch, At, Steps, RunTyped, RunRecord, FailureHeld, Occupied
  <2>2. TicketsTyped'
    BY <1>10 DEF RepairInCatch, SetStatus, TicketsTyped, Statuses
  <2> QED
    BY <1>10, <2>1, <2>2, SessionKept DEF RepairInCatch
<1>11. CASE RepairThrows
  <2>1. RunTyped' /\ FailureHeld'
    BY <1>11, IdleMove DEF RepairThrows
  <2>2. troubles' \in 0..TroubleBound
    BY <1>11, TroubleTyped DEF RepairThrows
  <2>3. SessionTyped' /\ StopExplained'
    BY <1>11, <2>2 DEF RepairThrows, SessionTyped, StopExplained
  <2> QED
    BY <1>11, <2>1, <2>3, TicketsKept DEF RepairThrows
<1> QED
  BY <1>1, <1>2, <1>3, <1>4, <1>5, <1>6, <1>7, <1>8, <1>9, <1>10, <1>11 DEF DecisionSteps

LEMMA ReportMove ==
  ASSUME NEW reason \in Exits, Report(reason)
  PROVE  RunTyped' /\ FailureHeld'
BY IdleTyped DEF Report, RunTyped, RunRecord, FailureHeld, Occupied, Steps

\* The exit written to state.json is the one reported, or the reason that is there.
LEMMA ExitFacts ==
  ASSUME Typed, NEW reason \in Exits
  PROVE  /\ FinalReason(reason) \in Exits
         /\ ExitPhase(reason) /\ UNCHANGED terminal /\ troubles' \in 0..TroubleBound =>
              SessionTyped' /\ StopExplained'
<1>1. FinalReason(reason) \in Exits
  BY DEF FinalReason, Typed, SessionTyped, Exits
<1>2. FinalReason(reason) # "none"
  BY <1>1 DEF Exits
<1>3. ASSUME ExitPhase(reason), UNCHANGED terminal, troubles' \in 0..TroubleBound
      PROVE  SessionTyped' /\ StopExplained'
  <2> DEFINE final == FinalReason(reason)
  <2>1. final \in Exits /\ final # "none"
    BY <1>1, <1>2
  <2>2. session' = [session EXCEPT !.active = FALSE, !.reason = final]
    BY <1>3 DEF ExitPhase
  <2> HIDE DEF final
  <2>3. SessionTyped'
    BY <1>3, <2>1, <2>2 DEF Typed, SessionTyped
  <2>4. session'.active = FALSE /\ session'.reason = final
    BY <2>2 DEF Typed, SessionTyped
  <2>5. StopExplained'
    BY <2>1, <2>4 DEF StopExplained
  <2> QED
    BY <2>3, <2>5
<1> QED
  BY <1>1, <1>3

\* The owners of a failed check are reopened.
LEMMA RecheckMove ==
  ASSUME NEW S \in SUBSET Tickets, NEW e \in Exits,
         run' = [Idle EXCEPT !.pc = "recheck", !.pending = S, !.exit = e]
  PROVE  RunTyped' /\ FailureHeld'
<1> DEFINE moved == [pc |-> "recheck", ticket |-> NoTicket, pending |-> S, repairing |-> {},
                     diagnostic |-> NoTicket, domain |-> "none", route |-> "infrastructure",
                     failure |-> NoFailure, exhausted |-> FALSE, repair |-> FALSE,
                     next |-> "attempt", exit |-> e]
<1>1. run' = moved
  BY DEF Idle
<1>2. moved \in RunRecord
  BY DEF RunRecord, Steps, Routes, Exits
<1> QED
  BY <1>1, <1>2 DEF RunTyped, FailureHeld, Occupied

LEMMA TypedEnd == Typed /\ EndSteps => Typed'
<1> SUFFICES ASSUME Typed, EndSteps PROVE Typed'
  OBVIOUS
<1> USE DEF Typed
<1>0. troubles \in 0..TroubleBound
  BY DEF SessionTyped
<1>1. CASE ScheduleRollover
  <2>1. SessionTyped' /\ StopExplained'
    BY <1>1 DEF ScheduleRollover, SessionTyped, StopExplained, Exits
  <2>2. ExitOf("rollover") \in Exits
    BY DEF ExitOf, Exits
  <2>3. RunTyped' /\ FailureHeld'
    BY <1>1, <2>2, LeaveMove DEF ScheduleRollover
  <2> QED
    BY <1>1, <2>1, <2>3, TicketsKept DEF ScheduleRollover
<1>2. CASE RolloverCancelled
  <2>1. ExitOf("cancelled") \in Exits
    BY DEF ExitOf, Exits
  <2>2. RunTyped' /\ FailureHeld'
    BY <1>2, <2>1, LeaveMove DEF RolloverCancelled
  <2> QED
    BY <1>2, <2>2, RunOnly DEF RolloverCancelled
<1>3. CASE RolloverThrows
  <2>1. RunTyped' /\ FailureHeld'
    <3>1. run.ticket \in Tickets /\ Broken \in Lineages
      BY <1>3 DEF RolloverThrows, At, RunTyped, Occupied, Lineages
    <3> QED
      BY <1>3, <3>1, IdleMove, FailureMove DEF RolloverThrows, RunTyped
  <2> QED
    BY <1>3, <2>1, RunOnly DEF RolloverThrows
<1>4. CASE EnterGate
  <2>1. RunTyped' /\ FailureHeld'
    BY <1>4 DEF EnterGate, Goto, Steps, RunTyped, RunRecord, FailureHeld, Occupied
  <2> QED
    BY <1>4, <2>1, RunOnly DEF EnterGate
<1>5. CASE RollOver
  BY <1>5, IdleMove, RunOnly DEF RollOver
<1>6. CASE ExitRun
  <2>1. run.exit \in Exits
    BY DEF RunTyped, RunRecord
  <2>2. SessionTyped' /\ StopExplained'
    BY <1>0, <1>6, <2>1, ExitFacts DEF ExitRun
  <2>3. RunTyped' /\ FailureHeld'
    BY <1>6, <2>1, ExitFacts, ReportMove DEF ExitRun
  <2> QED
    BY <1>6, <2>2, <2>3, TicketsKept DEF ExitRun
<1>7. CASE Finish
  <2>1. SessionTyped' /\ StopExplained'
    BY <1>7 DEF Finish, SessionTyped, StopExplained
  <2> QED
    BY <1>7, <2>1, IdleMove, TicketsKept DEF Finish
<1>8. CASE Approve \/ CancelGate
  <2>1. {"success", "cancelled"} \subseteq Exits
    BY DEF Exits
  <2>2. SessionTyped' /\ StopExplained'
    BY <1>0, <1>8, <2>1, ExitFacts DEF Approve, CancelGate
  <2>3. RunTyped' /\ FailureHeld'
    BY <1>8, <2>1, ReportMove DEF Approve, CancelGate
  <2> QED
    BY <1>8, <2>2, <2>3, TicketsKept DEF Approve, CancelGate
<1>9. CASE BlockRelease
  <2> PICK D \in SUBSET Tickets \ {{}} :
        /\ reopen' = Affected(D)
        /\ run' = [Idle EXCEPT !.pc = "reopen", !.pending = Affected(D)]
    BY <1>9 DEF BlockRelease
  <2>1. Affected(D) \in SUBSET Tickets
    BY DEF Affected
  <2>2. RunTyped' /\ FailureHeld'
    BY <2>1, ReopenMove
  <2>3. TicketsTyped'
    BY <1>9, <2>1 DEF BlockRelease, TicketsTyped
  <2>4. SessionTyped' /\ StopExplained'
    BY <1>9, TroubleTyped DEF BlockRelease, SessionTyped, StopExplained
  <2> QED
    BY <2>2, <2>3, <2>4
<1>10. CASE RetryGate
  <2>1. RunTyped' /\ FailureHeld'
    BY <1>10, IdleTyped DEF RetryGate, Steps, RunTyped, RunRecord, FailureHeld, Occupied
  <2>2. SessionTyped' /\ StopExplained'
    BY <1>10, TroubleTyped DEF RetryGate, SessionTyped, StopExplained
  <2> QED
    BY <1>10, <2>1, <2>2, TicketsKept DEF RetryGate
<1>11. CASE StopGate
  <2> PICK reason \in {"citadel_recovery", "error"} : ExitPhase(reason) /\ Report(reason)
    BY <1>11 DEF StopGate
  <2>1. reason \in Exits
    BY DEF Exits
  <2>2. troubles' \in 0..TroubleBound
    BY <1>11, TroubleTyped DEF StopGate
  <2>3. SessionTyped' /\ StopExplained'
    BY <1>11, <2>1, <2>2, ExitFacts DEF StopGate
  <2>4. RunTyped' /\ FailureHeld'
    BY <2>1, ReportMove
  <2> QED
    BY <1>11, <2>3, <2>4, TicketsKept DEF StopGate
<1>12. CASE MapFailedChecks
  <2> PICK owners \in SUBSET Tickets \ {{}}, exit \in {"success", "citadel_recovery"} :
        run' = [Idle EXCEPT !.pc = "recheck", !.pending = owners, !.exit = exit]
    BY <1>12 DEF MapFailedChecks
  <2>1. exit \in Exits
    BY DEF Exits
  <2>2. RunTyped' /\ FailureHeld'
    BY <2>1, RecheckMove
  <2>3. SessionTyped' /\ StopExplained'
    BY <1>12, TroubleTyped DEF MapFailedChecks, SessionTyped, StopExplained
  <2> QED
    BY <1>12, <2>2, <2>3, TicketsKept DEF MapFailedChecks
<1>13. ASSUME NEW t \in Tickets, ReopenOwner(t) PROVE Typed'
  <2>1. "contract" \in Domains
    BY DEF Domains, Routes
  <2>2. strategy' \in [Tickets -> [count : 0..StrategyCap, domain : Domains \cup {"none"}]]
    BY <1>13, <2>1, JournaledTyped DEF ReopenOwner, TicketsTyped
  <2>3. TicketsTyped'
    BY <1>13, <2>2 DEF ReopenOwner, SetStatus, TicketsTyped, Statuses
  <2>4. RunTyped' /\ FailureHeld'
    BY <1>13 DEF ReopenOwner, At, RunTyped, RunRecord, FailureHeld, Occupied
  <2> QED
    BY <1>13, <2>3, <2>4, SessionKept DEF ReopenOwner
<1>14. CASE OwnersReopened
  <2>1. CASE run.exit = "success"
    <3>1. RunTyped' /\ FailureHeld'
      BY <1>14, <2>1, IdleTyped
      DEF OwnersReopened, Steps, RunTyped, RunRecord, FailureHeld, Occupied
    <3> QED
      BY <1>14, <2>1, <3>1, RunOnly DEF OwnersReopened
  <2>2. CASE run.exit # "success"
    <3>1. run.exit \in Exits
      BY DEF RunTyped, RunRecord
    <3>2. SessionTyped' /\ StopExplained'
      BY <1>0, <1>14, <2>2, <3>1, ExitFacts DEF OwnersReopened
    <3>3. RunTyped' /\ FailureHeld'
      BY <1>14, <2>2, <3>1, ReportMove DEF OwnersReopened
    <3> QED
      BY <1>14, <3>2, <3>3, TicketsKept DEF OwnersReopened
  <2> QED
    BY <2>1, <2>2
<1> QED
  BY <1>1, <1>2, <1>3, <1>4, <1>5, <1>6, <1>7, <1>8, <1>9, <1>10, <1>11, <1>12, <1>13, <1>14
  DEF EndSteps

LEMMA TypedInit == Init => Typed
<1> SUFFICES ASSUME Init PROVE Typed
  OBVIOUS
<1>1. TicketsTyped
  BY DEF Init, TicketsTyped, Statuses, NoWindow, StrategyCap
<1>2. SessionTyped
  BY LimitAssumption DEF Init, SessionTyped
<1>3. RunTyped /\ FailureHeld
  BY IdleTyped DEF Init, RunTyped, FailureHeld, Occupied
<1>4. StopExplained
  BY DEF Init, StopExplained
<1> QED
  BY <1>1, <1>2, <1>3, <1>4 DEF Typed

\* Every step of the runner, the operator and the environment keeps the types.
LEMMA TypedNext == Typed /\ [Next]_vars => Typed'
<1> SUFFICES ASSUME Typed, [Next]_vars PROVE Typed'
  OBVIOUS
<1>1. CASE RunnerSteps
  BY <1>1, TypedStart, TypedLoop, TypedAttempt, TypedDecision, TypedEnd DEF RunnerSteps
<1> USE DEF Typed
<1>2. CASE Cancel
  <2>1. SessionTyped' /\ StopExplained'
    BY <1>2 DEF Cancel, SessionTyped, StopExplained, Exits
  <2> QED
    BY <1>2, <2>1, TicketsKept DEF Cancel, RunTyped, FailureHeld
<1>3. CASE FinishCancel
  <2>1. SessionTyped' /\ StopExplained'
    BY <1>3 DEF FinishCancel, SessionTyped, StopExplained
  <2> QED
    BY <1>3, <2>1, TicketsKept DEF FinishCancel, RunTyped, FailureHeld
<1>4. CASE CrossBudget
  <2>1. SessionTyped' /\ StopExplained'
    BY <1>4, TroubleTyped DEF CrossBudget, SessionTyped, StopExplained
  <2> QED
    BY <1>4, <2>1, TicketsKept DEF CrossBudget, RunTyped, FailureHeld
<1>5. CASE Kill
  <2>1. SessionTyped' /\ StopExplained'
    BY <1>5, TroubleTyped DEF Kill, SessionTyped, StopExplained
  <2> QED
    BY <1>5, <2>1, IdleMove, TicketsKept DEF Kill
<1>6. CASE UNCHANGED vars
  BY <1>6, TicketsKept, SessionKept DEF vars, RunTyped, FailureHeld
<1> QED
  BY <1>1, <1>2, <1>3, <1>4, <1>5, <1>6 DEF Next

\* The state files and the memory of the runner keep their types.
THEOREM TypeCorrect == Spec => []TypeOK
<1>1. Typed => TypeOK
  BY TypeParts DEF Typed
<1> QED
  BY <1>1, TypedInit, TypedNext, PTL DEF Spec

-----------------------------------------------------------------------------
(* A cancelled session stays inactive                                      *)

\* No step takes a cancellation back.
LEMMA CancellationKept ==
  ASSUME Typed, [Next]_vars, session.cancelled
  PROVE  session'.cancelled
<1> USE DEF Typed, SessionTyped
<1>1. CASE EnterPhase
  BY <1>1 DEF EnterPhase, MayEnter
<1>2. CASE Approve \/ CancelGate \/ StopGate \/ ExitRun \/ OwnersReopened
  BY <1>2 DEF Approve, CancelGate, StopGate, ExitRun, OwnersReopened, ExitPhase
<1>3. CASE ConsumeRollover \/ ScheduleRollover \/ ReconstructionFails \/ FailRollback
  BY <1>3 DEF ConsumeRollover, ScheduleRollover, ReconstructionFails, FailRollback
<1>4. CASE Cancel \/ CrossBudget
  BY <1>4 DEF Cancel, CrossBudget
<1>5. CASE UNCHANGED session
  BY <1>5
<1> QED
  BY <1>1, <1>2, <1>3, <1>4, <1>5
  DEF Next, RunnerSteps, StartSteps, LoopSteps, AttemptSteps, DecisionSteps, EndSteps, vars,
      Launch, ReopenTicket, ClearIntent, PlanTickets, PlanDiagnostic, SelectTicket,
      NoTicketLeft, StopAttempting, BudgetCrossed, CheckAttempt, SelectStrategy, Authorize,
      ResetCircuit, RepairContract, StartDiagnostic, Diagnose, FailRepair, FailBeforeWork,
      TakeTicket, Complete, RecordProgress, Fail, Refuse, AbandonWork, RecordFailure,
      JudgeExhausted, JudgeFailure, WeighRecovery, WeighBudget, Weigh, Abort, YieldTicket,
      RetryTicket, RepairInCatch, RepairThrows, RolloverCancelled, RolloverThrows, EnterGate,
      RollOver, BlockRelease, RetryGate, MapFailedChecks, ReopenOwner, Finish, FinishCancel,
      Kill

\* Neither a starting runner nor a rollover nor an exit makes a cancelled session active
\* again.
THEOREM CancelledStays == Spec => CancelledStaysInactive
<1>1. Typed /\ [Next]_vars => [session.cancelled => session'.cancelled /\ ~session'.active]_vars
  <2> SUFFICES ASSUME Typed, [Next]_vars, session.cancelled
               PROVE  session'.cancelled /\ ~session'.active
    OBVIOUS
  <2>1. session'.cancelled
    BY CancellationKept
  <2> QED
    BY <2>1, TypedNext DEF Typed, StopExplained
<1> QED
  BY <1>1, TypedInit, TypedNext, PTL DEF Spec, CancelledStaysInactive

-----------------------------------------------------------------------------
(* Attempts are authorized                                                 *)

\* From the check at the top of the loop, or from a new epoch, to the attempt: the
\* circuit is closed and the window of the ticket is not used up.
Authorized ==
  /\ run.pc \in {"start", "diagnose", "work"} => circuit = "CLOSED" /\ ~Exhausted(run.ticket)
  /\ run.pc = "reset" => window[run.ticket] = NoWindow

\* An empty window is not used up.
LEMMA EmptyWindow ==
  ASSUME NEW t \in Tickets, window[t] = NoWindow
  PROVE  ~Exhausted(t)
BY LimitAssumption DEF Exhausted, LineageExhausted, TicketExhausted, NoWindow

LEMMA AuthorizedNext == Typed /\ Authorized /\ [Next]_vars => Authorized'
<1> SUFFICES ASSUME Typed, Authorized, [Next]_vars PROVE Authorized'
  OBVIOUS
<1> USE DEF Typed, RunTyped, RunRecord
<1>1. CASE CheckAttempt
  <2>1. CASE Refused
    BY <1>1, <2>1 DEF CheckAttempt, Authorized
  <2>2. CASE ~Refused
    <3>1. run'.pc = "start" /\ run'.ticket = run.ticket
      BY <1>1, <2>2 DEF CheckAttempt
    <3>2. circuit' = "CLOSED" /\ ~Exhausted(run.ticket)
      BY <1>1, <2>2 DEF CheckAttempt, Refused, TicketsTyped
    <3> QED
      BY <1>1, <3>1, <3>2
      DEF CheckAttempt, Authorized, Exhausted, LineageExhausted, TicketExhausted
  <2> QED
    BY <2>1, <2>2
<1>2. CASE Authorize
  <2>1. run.ticket \in Tickets
    BY <1>2 DEF Authorize, At, Occupied
  <2>2. run'.ticket = run.ticket /\ run'.pc = "reset"
    BY <1>2 DEF Authorize, Goto
  <2>3. window'[run.ticket] = NoWindow
    BY <1>2, <2>1 DEF Authorize, TicketsTyped
  <2> QED
    BY <2>2, <2>3 DEF Authorized
<1>3. CASE ResetCircuit
  <2>1. run.ticket \in Tickets /\ window[run.ticket] = NoWindow
    BY <1>3 DEF ResetCircuit, At, Authorized, Occupied
  <2>2. ~Exhausted(run.ticket)
    BY <2>1, EmptyWindow
  <2> QED
    BY <1>3, <2>2 DEF ResetCircuit, Authorized, Exhausted, LineageExhausted, TicketExhausted
<1>4. CASE RepairContract \/ Diagnose \/ TakeTicket
  BY <1>4 DEF RepairContract, Diagnose, TakeTicket, Taking, At, Goto, Authorized, Exhausted,
     LineageExhausted, TicketExhausted
<1>5. CASE UNCHANGED <<window, circuit, run>>
  BY <1>5 DEF Authorized, Exhausted, LineageExhausted, TicketExhausted
<1>6. CASE run'.pc \notin {"start", "diagnose", "work", "reset"}
  BY <1>6 DEF Authorized
<1>7. CASE StartSteps
  <2>1. CASE Launch
    BY <1>6, <2>1 DEF Launch, Idle
  <2>2. CASE \E t \in Tickets : ReopenTicket(t)
    BY <1>6, <2>2 DEF ReopenTicket, At
  <2>3. CASE ClearIntent \/ ConsumeRollover
    BY <1>6, <2>3 DEF ClearIntent, ConsumeRollover, Goto
  <2>4. CASE EnterPhase
    BY <1>6, <2>4 DEF EnterPhase, Goto, Idle
  <2>5. CASE PlanTickets
    BY <1>6, <2>5 DEF PlanTickets, Idle
  <2>6. CASE PlanDiagnostic
    BY <1>6, <2>6 DEF PlanDiagnostic, Idle
  <2> QED
    BY <1>7, <2>1, <2>2, <2>3, <2>4, <2>5, <2>6 DEF StartSteps
<1>8. CASE LoopSteps
  <2>1. CASE SelectTicket
    BY <1>6, <2>1 DEF SelectTicket
  <2>2. CASE NoTicketLeft \/ StopAttempting
    BY <1>6, <2>2 DEF NoTicketLeft, StopAttempting, Leave, Idle
  <2>3. CASE BudgetCrossed
    BY <1>6, <2>3 DEF BudgetCrossed, Goto
  <2>4. CASE SelectStrategy
    BY <1>6, <2>4 DEF SelectStrategy
  <2>5. CASE ReconstructionFails
    BY <1>6, <2>5 DEF ReconstructionFails, Leave, Idle
  <2> QED
    BY <1>1, <1>2, <1>3, <1>8, <2>1, <2>2, <2>3, <2>4, <2>5 DEF LoopSteps
<1>9. CASE AttemptSteps
  <2>1. RepairContract \/ Diagnose \/ TakeTicket
          \/ run'.pc \notin {"start", "diagnose", "work", "reset"}
    BY <1>9
    DEF AttemptSteps, StartDiagnostic, FailRepair, FailBeforeWork, Complete, RecordProgress,
        Fail, Refuse, FailRollback, AbandonWork, Catch, At, Goto, Leave, Idle
  <2> QED
    BY <1>4, <1>6, <2>1
<1>10. CASE DecisionSteps
  <2>1. CASE RecordFailure \/ JudgeExhausted
    BY <1>6, <2>1 DEF RecordFailure, JudgeExhausted
  <2>2. CASE JudgeFailure
    BY <1>6, <2>2 DEF JudgeFailure
  <2>3. CASE WeighRecovery \/ Abort
    BY <1>6, <2>3 DEF WeighRecovery, Abort, Leave, Idle
  <2>4. CASE WeighBudget
    BY <1>6, <2>4 DEF WeighBudget, Goto
  <2>5. CASE Weigh
    BY <1>6, <2>5 DEF Weigh
  <2>6. CASE YieldTicket
    BY <1>6, <2>6 DEF YieldTicket
  <2>7. CASE RetryTicket
    BY <1>6, <2>7 DEF RetryTicket
  <2>8. CASE RepairInCatch
    BY <1>6, <2>8 DEF RepairInCatch
  <2>9. CASE RepairThrows
    BY <1>6, <2>9 DEF RepairThrows, Idle
  <2> QED
    BY <1>10, <2>1, <2>2, <2>3, <2>4, <2>5, <2>6, <2>7, <2>8, <2>9 DEF DecisionSteps
<1>11. CASE EndSteps
  <2>1. CASE ScheduleRollover \/ RolloverCancelled
    BY <1>6, <2>1 DEF ScheduleRollover, RolloverCancelled, Leave, Idle
  <2>2. CASE RolloverThrows
    BY <1>6, <2>2 DEF RolloverThrows, Idle
  <2>3. CASE EnterGate
    BY <1>6, <2>3 DEF EnterGate, Goto
  <2>4. CASE RollOver \/ RetryGate \/ Finish
    BY <1>6, <2>4 DEF RollOver, RetryGate, Finish, Idle
  <2>5. CASE ExitRun \/ Approve \/ CancelGate \/ StopGate
    BY <1>6, <2>5 DEF ExitRun, Approve, CancelGate, StopGate, Report, Idle
  <2>6. CASE BlockRelease \/ MapFailedChecks
    BY <1>6, <2>6 DEF BlockRelease, MapFailedChecks, Idle
  <2>7. CASE \E t \in Tickets : ReopenOwner(t)
    BY <1>6, <2>7 DEF ReopenOwner, At
  <2>8. CASE OwnersReopened
    BY <1>6, <2>8 DEF OwnersReopened, Report, Idle
  <2> QED
    BY <1>11, <2>1, <2>2, <2>3, <2>4, <2>5, <2>6, <2>7, <2>8 DEF EndSteps
<1>12. CASE Cancel \/ FinishCancel \/ CrossBudget \/ UNCHANGED vars
  BY <1>5, <1>12 DEF Cancel, FinishCancel, CrossBudget, vars
<1>13. CASE Kill
  BY <1>6, <1>13 DEF Kill, Idle
<1> QED
  BY <1>7, <1>8, <1>9, <1>10, <1>11, <1>12, <1>13 DEF Next, RunnerSteps

\* No ticket is attempted with an open circuit or a used-up window, whatever an earlier
\* runner left in the two files.
THEOREM AttemptsCorrect == Spec => []AttemptsAreAuthorized
<1>1. Init => Authorized
  BY DEF Init, Idle, Authorized
<1>2. Authorized => AttemptsAreAuthorized
  BY DEF Authorized, AttemptsAreAuthorized, At
<1> QED
  BY <1>1, <1>2, TypedInit, TypedNext, AuthorizedNext, PTL DEF Spec

-----------------------------------------------------------------------------
(* Dependencies and the queue                                              *)

\* A remediation: whatever is Done and built on a ticket to reopen is reopened with it,
\* the runner's list is what remains of the intent, and no loop starts before the intent
\* is removed.
RemediationPending ==
  /\ ClosedUnderUse(reopen)
  /\ run.pc \notin {"down", "reopen"} => reopen = {}
  /\ run.pc = "reopen" => /\ run.pending \subseteq reopen
                          /\ \A t \in reopen \ run.pending : ~Done(t)

InLoop == run.pc \in Occupied \cup {"select"}

\* A ticket that waits for an attempt is on the runner's list or in its hands, and the
\* list has no Done ticket.
QueueComplete ==
  /\ InLoop => /\ \A t \in run.pending : ~Done(t)
               /\ \A t \in Tickets : Queued(t) => t \in run.pending \cup {run.ticket}
  /\ run.pc = "select" => run.ticket = NoTicket
  /\ run.pc \in Occupied => run.ticket \notin run.pending

\* The ticket in hand has its dependencies and is Done only at the end of its attempt.
TicketReady ==
  /\ InLoop /\ run.diagnostic # NoTicket => Satisfied(run.diagnostic)
  /\ run.pc \in Occupied => Satisfied(run.ticket)
  /\ run.pc \in Occupied => (Done(run.ticket) <=> run.pc = "progress")

\* The gate is reached with nothing queued, and never on a reason left by an earlier run.
GateReached ==
  /\ run.pc = "gate" => \A t \in Tickets : ~Queued(t)
  /\ run.pc = "exit" /\ run.exit = "success" => \A t \in Tickets : ~Queued(t)
  /\ InLoop \/ run.pc = "plan" => session.reason # "success"

Dispatch ==
  DoneNeedsDependencies /\ RemediationPending /\ QueueComplete /\ TicketReady /\ GateReached

\* What Citadel reopens takes along every Done ticket that is built on it.
LEMMA AffectedClosed ==
  ASSUME NEW D \in SUBSET Tickets
  PROVE  Affected(D) \in SUBSET Tickets /\ D \subseteq Affected(D) /\ ClosedUnderUse(Affected(D))
<1>1. ASSUME NEW t \in Tickets, Done(t), DependsOn[t] \cap Affected(D) # {}
      PROVE  t \in Affected(D)
  <2>1. PICK d \in DependsOn[t] : d \in Affected(D)
    BY <1>1
  <2>2. ASSUME NEW S \in SUBSET Tickets, D \subseteq S, ClosedUnderUse(S) PROVE t \in S
    <3>1. d \in S
      BY <2>1, <2>2 DEF Affected
    <3> QED
      BY <1>1, <2>1, <2>2, <3>1 DEF ClosedUnderUse
  <2> QED
    BY <2>2 DEF Affected
<1>2. D \subseteq Affected(D) /\ Affected(D) \in SUBSET Tickets
  BY DEF Affected
<1> QED
  BY <1>1, <1>2 DEF ClosedUnderUse

\* What a Done ticket needs under it.
StandsOn(t) == \A d \in DependsOn[t] : Done(d) \/ d \in rechecked

\* The same tickets are Done as before.
SameDone == \A t \in Tickets : Done(t)' <=> Done(t)

LEMMA DoneKept ==
  ASSUME SameDone, UNCHANGED <<reopen, rechecked>>, Typed, RemediationPending, DoneNeedsDependencies
  PROVE  /\ DoneNeedsDependencies' /\ ClosedUnderUse(reopen)'
         /\ \A t \in Tickets : Satisfied(t)' <=> Satisfied(t)
<1>1. ASSUME NEW t \in Tickets PROVE Satisfied(t)' <=> Satisfied(t)
  BY TicketAssumption DEF SameDone, Satisfied
<1> QED
  BY <1>1, TicketAssumption
  DEF SameDone, DoneNeedsDependencies, RemediationPending, ClosedUnderUse

\* An attempt or a decision about it goes on.
LEMMA OccupiedMove ==
  ASSUME Typed, Dispatch, UNCHANGED <<reopen, rechecked>>, SameDone, session'.reason # "success",
         run.pc \in Occupied \ {"progress"}, run'.pc \in Occupied \ {"progress"},
         \A t \in Tickets \ {run.ticket} : status'[t] = status[t],
         run'.ticket = run.ticket, run'.pending = run.pending,
         run'.diagnostic \in {run.diagnostic, NoTicket}
  PROVE  Dispatch'
<1> USE DEF Dispatch
<1>0. run.ticket \in Tickets /\ run.pending \subseteq Tickets /\ run.diagnostic \in Tickets \cup {NoTicket}
  BY DEF Typed, RunTyped, RunRecord
<1>1. /\ DoneNeedsDependencies' /\ ClosedUnderUse(reopen)'
      /\ \A t \in Tickets : Satisfied(t)' <=> Satisfied(t)
  BY DoneKept
<1>2. RemediationPending'
  BY <1>1 DEF RemediationPending, Occupied
<1>3. QueueComplete'
  BY <1>0 DEF QueueComplete, InLoop, Occupied, SameDone, Queued
<1>4. TicketReady'
  BY <1>0, <1>1 DEF TicketReady, InLoop, Occupied, SameDone
<1>5. GateReached'
  BY DEF GateReached, Occupied
<1> QED
  BY <1>1, <1>2, <1>3, <1>4, <1>5

\* The runner dies, stops or goes round without a ticket.
LEMMA OutsideMove ==
  ASSUME Typed, Dispatch, UNCHANGED <<reopen, rechecked>>, SameDone,
         \/ run'.pc = "down"
         \/ run.pc \notin {"down", "reopen"} /\ run'.pc \in {"consume", "enter", "finish", "recheck"}
         \/ run.pc \notin {"down", "reopen"} /\ run'.pc = "exit" /\ run'.exit # "success"
         \/ run.pc = "enter" /\ run'.pc = "plan" /\ session'.reason # "success"
  PROVE  Dispatch'
<1> USE DEF Dispatch
<1>1. DoneNeedsDependencies' /\ ClosedUnderUse(reopen)'
  BY DoneKept
<1>2. RemediationPending'
  BY <1>1 DEF RemediationPending
<1>3. QueueComplete' /\ TicketReady'
  BY DEF QueueComplete, TicketReady, InLoop, Occupied
<1>4. GateReached'
  BY DEF GateReached, InLoop, Occupied
<1> QED
  BY <1>1, <1>2, <1>3, <1>4

\* A step that leaves the tickets and the runner alone.
LEMMA StillMove ==
  ASSUME Dispatch, UNCHANGED <<status, reopen, rechecked, run>>,
         session'.reason \in {session.reason, "cancelled"}
  PROVE  Dispatch'
BY DEF Dispatch, DoneNeedsDependencies, RemediationPending, ClosedUnderUse, QueueComplete,
       TicketReady, GateReached, Done, Queued, Satisfied, InLoop

LEMMA StatusKept == UNCHANGED status => SameDone
BY DEF SameDone, Done

\* The ticket in hand changes its status without becoming Done.
LEMMA StatusSet ==
  ASSUME Typed, Dispatch, run.pc \in Occupied \ {"progress"}, NEW s \in Statuses \ {"done"},
         SetStatus(run.ticket, s)
  PROVE  SameDone /\ \A t \in Tickets \ {run.ticket} : status'[t] = status[t]
<1>1. run.ticket \in Tickets /\ status \in [Tickets -> Statuses]
  BY DEF Typed, RunTyped, TicketsTyped
<1>2. ~Done(run.ticket)
  BY DEF Dispatch, TicketReady
<1> QED
  BY <1>1, <1>2 DEF SetStatus, SameDone, Done

LEMMA LeaveDispatch ==
  ASSUME Typed, Dispatch, UNCHANGED <<reopen, rechecked>>, SameDone, run.pc \in Occupied \cup {"select"},
         NEW reason, reason # "success", Leave(reason)
  PROVE  Dispatch'
<1>1. run'.pc = "exit" /\ run'.exit = reason
  BY DEF Leave, Idle
<1> QED
  BY <1>1, OutsideMove DEF Occupied

LEMMA IdleDispatch ==
  ASSUME Typed, Dispatch, UNCHANGED <<reopen, rechecked>>, SameDone, run' = Idle
  PROVE  Dispatch'
BY OutsideMove DEF Idle

LEMMA CatchDispatch ==
  ASSUME Typed, Dispatch, UNCHANGED <<reopen, rechecked, session>>, SameDone,
         run.pc \in Occupied \ {"progress"},
         \A t \in Tickets \ {run.ticket} : status'[t] = status[t],
         NEW f \in Lineages, Catch(f)
  PROVE  Dispatch'
<1>1. session.reason # "success"
  BY DEF Dispatch, GateReached, InLoop
<1>2. CASE session.active
  <2>1. run' = [run EXCEPT !.pc = "record", !.failure = f]
    BY <1>2 DEF Catch
  <2>2. /\ run'.pc \in Occupied \ {"progress"} /\ run'.ticket = run.ticket
        /\ run'.pending = run.pending /\ run'.diagnostic = run.diagnostic
    BY <2>1 DEF Typed, RunTyped, RunRecord, Occupied
  <2> QED
    BY <1>1, <2>2, OccupiedMove
<1>3. CASE ~session.active
  BY <1>1, <1>3, LeaveDispatch DEF Catch
<1> QED
  BY <1>2, <1>3

LEMMA DispatchLoop == Typed /\ Dispatch /\ LoopSteps => Dispatch'
<1> SUFFICES ASSUME Typed, Dispatch, LoopSteps PROVE Dispatch'
  OBVIOUS
<1>0. run \in RunRecord /\ StrategyCap \in Nat
  BY DEF Typed, RunTyped, StrategyCap
<1>1. CASE SelectTicket
  <2> PICK t \in Earliest(Preferred) :
        run' = [run EXCEPT !.pc = "attempt", !.ticket = t,
                           !.pending = @ \ {t}, !.repairing = @ \ {t},
                           !.domain = strategy[t].domain, !.route = "infrastructure",
                           !.repair = FALSE]
    BY <1>1 DEF SelectTicket
  <2>1. t \in run.pending /\ t \in Tickets /\ (t = run.diagnostic \/ Satisfied(t))
    BY <1>0 DEF Earliest, Preferred, Candidates, RunRecord
  <2>2. /\ run.pc = "select" /\ run'.pc = "attempt" /\ run'.ticket = t
        /\ run'.pending = run.pending \ {t} /\ run'.diagnostic = run.diagnostic
    BY <1>0, <1>1 DEF SelectTicket, At, RunRecord
  <2>3. UNCHANGED <<status, reopen, rechecked, session>>
    BY <1>1 DEF SelectTicket
  <2>4. Satisfied(t) /\ ~Done(t) /\ run.ticket = NoTicket
    BY <2>1, <2>2, TicketAssumption DEF Dispatch, TicketReady, QueueComplete, InLoop
  <2>5. /\ DoneNeedsDependencies' /\ ClosedUnderUse(reopen)'
        /\ \A u \in Tickets : Satisfied(u)' <=> Satisfied(u)
    BY <2>3, DoneKept, StatusKept DEF Dispatch
  <2>6. RemediationPending'
    BY <2>2, <2>3, <2>5 DEF Dispatch, RemediationPending
  <2>7. QueueComplete'
    BY <2>1, <2>2, <2>3, <2>4, TicketAssumption
    DEF Dispatch, QueueComplete, InLoop, Occupied, Done, Queued
  <2>8. TicketReady'
    BY <2>1, <2>2, <2>3, <2>4 DEF Dispatch, TicketReady, InLoop, Occupied, Done, Satisfied
  <2>9. GateReached'
    BY <2>2, <2>3 DEF Dispatch, GateReached, InLoop, Occupied
  <2> QED
    BY <2>5, <2>6, <2>7, <2>8, <2>9 DEF Dispatch
<1>2. CASE NoTicketLeft
  <2>1. run.pc = "select" /\ UNCHANGED <<status, reopen, rechecked, session>>
    BY <1>2 DEF NoTicketLeft, At
  <2>2. CASE run.pending = {}
    <3>1. run'.pc = "exit" /\ run'.exit = "success"
      BY <1>2, <2>2 DEF NoTicketLeft, Leave, Idle
    <3>2. \A t \in Tickets : ~Queued(t)
      BY <2>1, <2>2, TicketAssumption DEF Dispatch, QueueComplete, InLoop
    <3>3. DoneNeedsDependencies' /\ ClosedUnderUse(reopen)'
      BY <2>1, DoneKept, StatusKept DEF Dispatch
    <3>4. RemediationPending' /\ QueueComplete' /\ TicketReady'
      BY <2>1, <3>1, <3>3
      DEF Dispatch, RemediationPending, QueueComplete, TicketReady, InLoop, Occupied
    <3>5. GateReached'
      BY <2>1, <3>1, <3>2 DEF GateReached, InLoop, Occupied, Queued
    <3> QED
      BY <3>3, <3>4, <3>5 DEF Dispatch
  <2>3. CASE run.pending # {}
    BY <1>2, <2>1, <2>3, LeaveDispatch, StatusKept DEF NoTicketLeft
  <2> QED
    BY <2>2, <2>3
<1>3. CASE StopAttempting
  <2>1. session.reason # "success" /\ run.pc \in Occupied
    BY <1>3 DEF StopAttempting, At, Dispatch, GateReached, InLoop, Occupied
  <2> QED
    BY <1>3, <2>1, LeaveDispatch, StatusKept DEF StopAttempting
<1>4. CASE BudgetCrossed \/ CheckAttempt \/ SelectStrategy \/ Authorize \/ ResetCircuit
  <2>1. UNCHANGED <<status, reopen, rechecked, session>>
    BY <1>4 DEF BudgetCrossed, CheckAttempt, SelectStrategy, Authorize, ResetCircuit
  <2>2. run.pc \in Occupied \ {"progress"} /\ session.reason # "success"
    BY <1>4 DEF BudgetCrossed, CheckAttempt, SelectStrategy, Authorize, ResetCircuit, At,
                Occupied, Dispatch, GateReached, InLoop
  <2>3. /\ run'.pc \in Occupied \ {"progress"}
        /\ run'.ticket = run.ticket /\ run'.pending = run.pending
        /\ run'.diagnostic = run.diagnostic
    BY <1>0, <1>4 DEF BudgetCrossed, CheckAttempt, SelectStrategy, Authorize, ResetCircuit,
                      Goto, Occupied, RunRecord
  <2> QED
    BY <2>1, <2>2, <2>3, OccupiedMove, StatusKept
<1>5. CASE ReconstructionFails
  <2>1. run.pc \in Occupied /\ UNCHANGED <<status, reopen, rechecked>>
    BY <1>5 DEF ReconstructionFails, At, Occupied
  <2> QED
    BY <1>5, <2>1, LeaveDispatch, StatusKept DEF ReconstructionFails, ExitOf
<1> QED
  BY <1>1, <1>2, <1>3, <1>4, <1>5 DEF LoopSteps

LEMMA DispatchAttempt == Typed /\ Dispatch /\ AttemptSteps => Dispatch'
<1> SUFFICES ASSUME Typed, Dispatch, AttemptSteps PROVE Dispatch'
  OBVIOUS
<1>0. /\ run \in RunRecord /\ status \in [Tickets -> Statuses]
      /\ run.pc \in Occupied => run.ticket \in Tickets
  BY DEF Typed, RunTyped, TicketsTyped
<1>1. CASE RepairContract \/ StartDiagnostic \/ Diagnose
  <2>1. UNCHANGED <<reopen, rechecked, session>>
    BY <1>1 DEF RepairContract, StartDiagnostic, Diagnose
  <2>2. run.pc \in Occupied \ {"progress"} /\ session.reason # "success"
    BY <1>1 DEF RepairContract, StartDiagnostic, Diagnose, At, Occupied, Dispatch,
                GateReached, InLoop
  <2>3. /\ run'.pc \in Occupied \ {"progress"}
        /\ run'.ticket = run.ticket /\ run'.pending = run.pending
        /\ run'.diagnostic \in {run.diagnostic, NoTicket}
    BY <1>0, <1>1 DEF RepairContract, StartDiagnostic, Diagnose, At, Occupied, RunRecord
  <2>4. SameDone /\ \A t \in Tickets \ {run.ticket} : status'[t] = status[t]
    <3>1. CASE RepairContract
      BY <2>2, <3>1, StatusSet DEF RepairContract, Statuses
    <3>2. CASE ~RepairContract
      BY <1>1, <3>2, StatusKept DEF StartDiagnostic, Diagnose
    <3> QED
      BY <3>1, <3>2
  <2> QED
    BY <2>1, <2>2, <2>3, <2>4, OccupiedMove
<1>2. CASE FailRepair \/ FailBeforeWork
  <2>1. PICK f \in Lineages : Catch(f)
    BY <1>2 DEF FailRepair, FailBeforeWork, Lineages
  <2>2. UNCHANGED <<status, reopen, rechecked, session>> /\ run.pc \in Occupied \ {"progress"}
    BY <1>2 DEF FailRepair, FailBeforeWork, Taking, At, Occupied
  <2> QED
    BY <2>1, <2>2, CatchDispatch, StatusKept
<1>3. CASE TakeTicket
  <2>1. UNCHANGED <<reopen, rechecked, session>> /\ run.pc = "start" /\ SetStatus(run.ticket, "in_progress")
    BY <1>3 DEF TakeTicket, Taking, At
  <2>2. SameDone /\ \A t \in Tickets \ {run.ticket} : status'[t] = status[t]
    BY <2>1, StatusSet DEF Occupied, Statuses
  <2>3. session.reason # "success"
    BY <2>1 DEF Dispatch, GateReached, InLoop, Occupied
  <2>4. /\ run'.pc = "work"
        /\ run'.ticket = run.ticket /\ run'.pending = run.pending
        /\ run'.diagnostic = run.diagnostic
    BY <1>0, <1>3 DEF TakeTicket, Goto, RunRecord
  <2> QED
    BY <2>1, <2>2, <2>3, <2>4, OccupiedMove DEF Occupied
<1>4. CASE Complete
  <2>1. /\ UNCHANGED <<reopen, session>> /\ run.pc = "work" /\ run.ticket \in Tickets
        /\ SetStatus(run.ticket, "done") /\ rechecked' = rechecked \ {run.ticket}
    BY <1>0, <1>4 DEF Complete, At, Occupied
  <2>2. /\ run'.pc = "progress"
        /\ run'.ticket = run.ticket /\ run'.pending = run.pending
        /\ run'.diagnostic = run.diagnostic
    BY <1>0, <1>4 DEF Complete, Goto, RunRecord
  <2>3. \A t \in Tickets : Done(t)' <=> Done(t) \/ t = run.ticket
    BY <1>0, <2>1 DEF SetStatus, Done
  <2>4. reopen = {} /\ Satisfied(run.ticket) /\ run.ticket \notin run.pending
    BY <2>1 DEF Dispatch, RemediationPending, TicketReady, QueueComplete, Occupied
  <2>5. \A t \in Tickets : Satisfied(t) => Satisfied(t)'
    BY <2>3, TicketAssumption DEF Satisfied
  <2>6. DoneNeedsDependencies'
    <3>1. ASSUME NEW t \in Tickets, NEW d \in DependsOn[t], Done(d) \/ d \in rechecked
          PROVE  Done(d)' \/ d \in rechecked'
      BY <2>1, <2>3, <3>1, TicketAssumption
    <3> QED
      BY <2>1, <2>3, <2>4, <2>5, <3>1 DEF Dispatch, DoneNeedsDependencies, Satisfied
  <2>7. RemediationPending'
    BY <2>1, <2>2, <2>4 DEF RemediationPending, ClosedUnderUse
  <2>8. QueueComplete'
    <3>1. \A t \in run.pending : ~Done(t) /\ t \in Tickets
      BY <1>0, <2>1 DEF Dispatch, QueueComplete, InLoop, Occupied, RunRecord
    <3>2. \A t \in Tickets : Queued(t)' => Queued(t) \/ t = run.ticket
      BY <1>0, <2>1 DEF SetStatus, Queued
    <3>3. \A t \in Tickets : Queued(t)' => t \in run.pending \cup {run.ticket}
      BY <2>1, <3>2 DEF Dispatch, QueueComplete, InLoop, Occupied
    <3> QED
      BY <2>2, <2>3, <2>4, <3>1, <3>3 DEF QueueComplete, InLoop, Occupied
  <2>9. TicketReady'
    <3>0. run.diagnostic # NoTicket => run.diagnostic \in Tickets /\ Satisfied(run.diagnostic)
      BY <1>0, <2>1 DEF Dispatch, TicketReady, InLoop, Occupied, RunRecord
    <3>1. run.diagnostic # NoTicket => Satisfied(run.diagnostic)'
      BY <2>2, <2>3, <3>0, TicketAssumption DEF Satisfied
    <3>2. Satisfied(run.ticket)' /\ Done(run.ticket)'
      BY <2>1, <2>2, <2>3, <2>4, <2>5 DEF Satisfied, Done
    <3> QED
      BY <2>2, <3>1, <3>2 DEF TicketReady, InLoop, Occupied
  <2>10. GateReached'
    BY <2>1, <2>2 DEF Dispatch, GateReached, InLoop, Occupied
  <2> QED
    BY <2>6, <2>7, <2>8, <2>9, <2>10 DEF Dispatch
<1>5. CASE RecordProgress
  <2>1. UNCHANGED <<status, reopen, rechecked, session>> /\ run.pc = "progress" /\ run.ticket \in Tickets
    BY <1>0, <1>5 DEF RecordProgress, At, Occupied
  <2>2. /\ run'.pc = "select" /\ run'.ticket = NoTicket
        /\ run'.pending = run.pending /\ run'.diagnostic = run.diagnostic
    BY <1>0, <1>5 DEF RecordProgress, RunRecord
  <2>3. Done(run.ticket)
    BY <2>1 DEF Dispatch, TicketReady, Occupied
  <2>4. DoneNeedsDependencies' /\ ClosedUnderUse(reopen)'
    BY <2>1, DoneKept, StatusKept DEF Dispatch
  <2>5. RemediationPending' /\ TicketReady' /\ GateReached'
    BY <2>1, <2>2, <2>4 DEF Dispatch, RemediationPending, TicketReady, GateReached, InLoop,
                            Occupied, Done, Satisfied
  <2>6. QueueComplete'
    BY <2>1, <2>2, <2>3 DEF Dispatch, QueueComplete, InLoop, Occupied, Done, Queued
  <2> QED
    BY <2>4, <2>5, <2>6 DEF Dispatch
<1>6. CASE \E f \in Failures : Fail(f) \/ Refuse(f)
  <2> PICK f \in Failures : Fail(f) \/ Refuse(f)
    BY <1>6
  <2>1. /\ UNCHANGED <<reopen, rechecked, session>> /\ run.pc = "work"
        /\ SetStatus(run.ticket, Parked(f)) /\ Parked(f) \in Statuses \ {"done"}
        /\ f \in Lineages
    BY DEF Fail, Refuse, At, Parked, Statuses, Lineages
  <2>2. SameDone /\ \A t \in Tickets \ {run.ticket} : status'[t] = status[t]
    BY <2>1, StatusSet DEF Occupied
  <2>3. CASE Fail(f)
    BY <2>1, <2>2, <2>3, CatchDispatch DEF Fail, Occupied
  <2>4. CASE Refuse(f)
    <3>1. /\ run'.pc = "record" /\ run'.ticket = run.ticket /\ run'.pending = run.pending
          /\ run'.diagnostic = run.diagnostic
      BY <1>0, <2>4 DEF Refuse, RunRecord
    <3>2. session.reason # "success"
      BY <2>1 DEF Dispatch, GateReached, InLoop, Occupied
    <3> QED
      BY <2>1, <2>2, <3>1, <3>2, OccupiedMove DEF Occupied
  <2> QED
    BY <2>3, <2>4
<1>7. CASE FailRollback
  <2>1. UNCHANGED <<status, reopen, rechecked>> /\ run.pc = "work"
    BY <1>7 DEF FailRollback, At
  <2>2. session'.reason # "success"
    BY <1>7 DEF FailRollback, Typed, SessionTyped
  <2>3. CASE session.active
    <3>1. /\ run'.pc = "record" /\ run'.ticket = run.ticket /\ run'.pending = run.pending
          /\ run'.diagnostic = run.diagnostic
      BY <1>0, <1>7, <2>3 DEF FailRollback, RunRecord
    <3> QED
      BY <2>1, <2>2, <3>1, OccupiedMove, StatusKept DEF Occupied
  <2>4. CASE ~session.active
    BY <1>7, <2>1, <2>4, LeaveDispatch, StatusKept DEF FailRollback, Occupied
  <2> QED
    BY <2>3, <2>4
<1>8. CASE AbandonWork
  <2>1. UNCHANGED <<reopen, rechecked, session>> /\ run.pc = "work" /\ SetStatus(run.ticket, "todo")
    BY <1>8 DEF AbandonWork, At
  <2>2. SameDone
    BY <2>1, StatusSet DEF Occupied, Statuses
  <2>3. session.reason # "success"
    BY <2>1 DEF Dispatch, GateReached, InLoop, Occupied
  <2> QED
    BY <1>8, <2>1, <2>2, <2>3, LeaveDispatch DEF AbandonWork, Occupied
<1> QED
  BY <1>1, <1>2, <1>3, <1>4, <1>5, <1>6, <1>7, <1>8 DEF AttemptSteps

LEMMA DispatchDecision == Typed /\ Dispatch /\ DecisionSteps => Dispatch'
<1> SUFFICES ASSUME Typed, Dispatch, DecisionSteps PROVE Dispatch'
  OBVIOUS
<1>0. run \in RunRecord
  BY DEF Typed, RunTyped
<1>1. UNCHANGED <<reopen, rechecked, session>> /\ (RepairInCatch \/ UNCHANGED status)
  BY DEF DecisionSteps, RecordFailure, JudgeExhausted, JudgeFailure, WeighRecovery, WeighBudget,
         Weigh, Abort, YieldTicket, RetryTicket, RepairInCatch, RepairThrows, Retries
<1>2. run.pc \in Occupied \ {"progress"}
  BY DEF DecisionSteps, RecordFailure, JudgeExhausted, JudgeFailure, WeighRecovery, WeighBudget,
         Weigh, Abort, YieldTicket, RetryTicket, RepairInCatch, RepairThrows, Retries, At, Occupied
<1>3. session.reason # "success"
  BY <1>2 DEF Dispatch, GateReached, InLoop
<1>8. SameDone /\ \A t \in Tickets \ {run.ticket} : status'[t] = status[t]
  <2>1. CASE RepairInCatch
    BY <1>2, <2>1, StatusSet DEF RepairInCatch, Statuses
  <2> QED
    BY <1>1, <2>1, StatusKept
<1>4. CASE RecordFailure \/ JudgeExhausted \/ JudgeFailure \/ WeighBudget \/ Weigh
             \/ RetryTicket \/ RepairInCatch
  <2>1. /\ run'.pc \in Occupied \ {"progress"}
        /\ run'.ticket = run.ticket /\ run'.pending = run.pending
        /\ run'.diagnostic = run.diagnostic
    BY <1>0, <1>4
    DEF RecordFailure, JudgeExhausted, JudgeFailure, WeighBudget, Weigh, RetryTicket,
        RepairInCatch, Goto, Occupied, RunRecord
  <2> QED
    BY <1>1, <1>2, <1>3, <1>8, <2>1, OccupiedMove
<1>5. CASE WeighRecovery \/ Abort
  <2>1. PICK reason \in {"recovery_required", "circuit_open", "recovery_exhausted",
                         "contract_blocked"} : Leave(reason)
    BY <1>5 DEF WeighRecovery, Abort, ExitOf
  <2> QED
    BY <1>1, <1>2, <1>8, <2>1, LeaveDispatch
<1>6. CASE YieldTicket
  <2>0. UNCHANGED status
    BY <1>6 DEF YieldTicket
  <2>1. /\ run'.pc = "select" /\ run'.ticket = NoTicket
        /\ run'.pending = run.pending \cup {run.ticket} /\ run'.diagnostic = run.diagnostic
    BY <1>0, <1>6 DEF YieldTicket, QueueAgain, RunRecord
  <2>2. ~Done(run.ticket)
    BY <1>2 DEF Dispatch, TicketReady
  <2>3. DoneNeedsDependencies' /\ ClosedUnderUse(reopen)'
    BY <1>1, <2>0, DoneKept, StatusKept DEF Dispatch
  <2>4. RemediationPending' /\ TicketReady' /\ GateReached'
    BY <1>1, <1>2, <2>0, <2>1, <2>3 DEF Dispatch, RemediationPending, TicketReady, GateReached,
       InLoop,
                            Occupied, Done, Satisfied
  <2>5. QueueComplete'
    BY <1>1, <1>2, <2>0, <2>1, <2>2 DEF Dispatch, QueueComplete, InLoop, Occupied, Done, Queued
  <2> QED
    BY <2>3, <2>4, <2>5 DEF Dispatch
<1>7. CASE RepairThrows
  BY <1>1, <1>7, <1>8, IdleDispatch DEF RepairThrows
<1> QED
  BY <1>4, <1>5, <1>6, <1>7 DEF DecisionSteps

LEMMA DispatchStart == Typed /\ Dispatch /\ StartSteps => Dispatch'
<1> SUFFICES ASSUME Typed, Dispatch, StartSteps PROVE Dispatch'
  OBVIOUS
<1>0. run \in RunRecord /\ status \in [Tickets -> Statuses] /\ reopen \subseteq Tickets
  BY DEF Typed, RunTyped, TicketsTyped
<1>1. CASE Launch
  <2>1. UNCHANGED <<status, reopen, rechecked>> /\ run'.pc = "reopen" /\ run'.pending = reopen
    BY <1>1 DEF Launch, Idle
  <2>2. DoneNeedsDependencies' /\ ClosedUnderUse(reopen)'
    BY <2>1, DoneKept, StatusKept DEF Dispatch
  <2> QED
    BY <2>1, <2>2 DEF Dispatch, RemediationPending, QueueComplete, TicketReady, GateReached,
                      InLoop, Occupied
<1>2. CASE \E t \in Tickets : ReopenTicket(t)
  <2> PICK t \in Tickets : ReopenTicket(t)
    BY <1>2
  <2>1. /\ run.pc = "reopen" /\ t \in run.pending /\ t \in reopen
        /\ UNCHANGED <<reopen, rechecked>> /\ SetStatus(t, "todo")
    BY DEF ReopenTicket, At, Dispatch, RemediationPending
  <2>2. run'.pc = "reopen" /\ run'.pending = run.pending \ {t}
    BY <1>0, <2>1 DEF ReopenTicket, RunRecord
  <2>3. \A u \in Tickets : Done(u)' <=> Done(u) /\ u # t
    BY <1>0, <2>1 DEF SetStatus, Done
  <2>4. DoneNeedsDependencies'
    <3> SUFFICES ASSUME NEW u \in Tickets, Done(u)', u \notin reopen
                 PROVE  StandsOn(u)'
      BY <2>1 DEF DoneNeedsDependencies, StandsOn
    <3>1. Done(u) /\ StandsOn(u)
      BY <2>3 DEF Dispatch, DoneNeedsDependencies, StandsOn
    <3>2. t \notin DependsOn[u]
      BY <2>1, <3>1 DEF Dispatch, RemediationPending, ClosedUnderUse
    <3> QED
      BY <2>1, <2>3, <3>1, <3>2, TicketAssumption DEF StandsOn
  <2>5. RemediationPending'
    <3>1. ClosedUnderUse(reopen)'
      BY <2>1, <2>3 DEF Dispatch, RemediationPending, ClosedUnderUse
    <3>2. \A u \in reopen \ (run.pending \ {t}) : ~Done(u)'
      BY <1>0, <2>1, <2>3 DEF Dispatch, RemediationPending
    <3>3. run.pending \ {t} \subseteq reopen
      BY <2>1 DEF Dispatch, RemediationPending
    <3> QED
      BY <2>1, <2>2, <3>1, <3>2, <3>3 DEF RemediationPending, Done
  <2> QED
    BY <2>2, <2>4, <2>5 DEF Dispatch, QueueComplete, TicketReady, GateReached, InLoop, Occupied
<1>3. CASE ClearIntent
  <2>1. /\ UNCHANGED <<status, rechecked>> /\ run.pc = "reopen" /\ run.pending = {} /\ reopen' = {}
        /\ run'.pc = "consume"
    BY <1>0, <1>3 DEF ClearIntent, At, Goto, RunRecord
  <2>2. DoneNeedsDependencies'
    <3>1. \A t \in Tickets : Done(t) => StandsOn(t)
      BY <2>1 DEF Dispatch, DoneNeedsDependencies, RemediationPending, StandsOn
    <3> QED
      BY <2>1, <3>1 DEF DoneNeedsDependencies, Done, StandsOn
  <2>3. RemediationPending'
    BY <2>1 DEF RemediationPending, ClosedUnderUse
  <2> QED
    BY <2>1, <2>2, <2>3 DEF Dispatch, QueueComplete, TicketReady, GateReached, InLoop, Occupied
<1>4. CASE ConsumeRollover
  <2>1. UNCHANGED <<status, reopen, rechecked>> /\ run.pc = "consume" /\ run'.pc = "enter"
    BY <1>0, <1>4 DEF ConsumeRollover, At, Goto, RunRecord
  <2> QED
    BY <2>1, OutsideMove, StatusKept
<1>5. CASE EnterPhase
  <2>1. UNCHANGED <<status, reopen, rechecked>> /\ run.pc = "enter"
    BY <1>5 DEF EnterPhase, At
  <2>2. CASE MayEnter
    <3>1. run'.pc = "plan" /\ session'.reason # "success"
      BY <1>0, <1>5, <2>2 DEF EnterPhase, Goto, RunRecord, Typed, SessionTyped
    <3> QED
      BY <2>1, <3>1, OutsideMove, StatusKept
  <2>3. CASE ~MayEnter
    BY <1>5, <2>1, <2>3, IdleDispatch, StatusKept DEF EnterPhase
  <2> QED
    BY <2>2, <2>3
<1>6. CASE PlanTickets
  <2>1. /\ UNCHANGED <<status, reopen, rechecked, session>> /\ run.pc = "plan"
        /\ run'.pc = "select" /\ run'.ticket = NoTicket
        /\ run'.pending = Awaiting /\ run'.diagnostic = NoTicket
    BY <1>6 DEF PlanTickets, At, Idle
  <2>2. DoneNeedsDependencies' /\ ClosedUnderUse(reopen)'
    BY <2>1, DoneKept, StatusKept DEF Dispatch
  <2>3. RemediationPending' /\ TicketReady' /\ GateReached'
    BY <2>1, <2>2 DEF Dispatch, RemediationPending, TicketReady, GateReached, InLoop, Occupied
  <2>4. QueueComplete'
    BY <2>1 DEF QueueComplete, InLoop, Occupied, Awaiting, Queued, Done
  <2> QED
    BY <2>2, <2>3, <2>4 DEF Dispatch
<1>7. CASE PlanDiagnostic
  <2> PICK d \in Earliest(ReadyBlocked) :
        /\ SetStatus(d, "todo")
        /\ run' = [Idle EXCEPT !.pc = "select", !.pending = Awaiting \cup {d},
                               !.diagnostic = d]
    BY <1>7 DEF PlanDiagnostic
  <2>1. d \in Tickets /\ status[d] = "blocked" /\ Satisfied(d)
    BY DEF Earliest, ReadyBlocked
  <2>2. /\ UNCHANGED <<reopen, rechecked, session>> /\ run.pc = "plan"
        /\ run'.pc = "select" /\ run'.ticket = NoTicket
        /\ run'.pending = Awaiting \cup {d} /\ run'.diagnostic = d
    BY <1>7 DEF PlanDiagnostic, At, Idle
  <2>3. SameDone
    BY <1>0, <2>1 DEF SetStatus, SameDone, Done
  <2>4. /\ DoneNeedsDependencies' /\ ClosedUnderUse(reopen)'
        /\ \A t \in Tickets : Satisfied(t)' <=> Satisfied(t)
    BY <2>2, <2>3, DoneKept DEF Dispatch
  <2>5. RemediationPending' /\ GateReached'
    BY <2>2, <2>4 DEF Dispatch, RemediationPending, GateReached, InLoop, Occupied
  <2>6. TicketReady'
    BY <2>1, <2>2, <2>4 DEF TicketReady, InLoop, Occupied, Satisfied
  <2>7. QueueComplete'
    <3>1. \A t \in Tickets : Queued(t)' => Queued(t) \/ t = d
      BY <1>0 DEF SetStatus, Queued
    <3>2. \A t \in Awaiting \cup {d} : ~Done(t)'
      BY <2>1, <2>3 DEF Awaiting, Queued, Done, SameDone
    <3> QED
      BY <2>2, <3>1, <3>2 DEF QueueComplete, InLoop, Occupied, Awaiting, Done
  <2> QED
    BY <2>4, <2>5, <2>6, <2>7 DEF Dispatch
<1> QED
  BY <1>1, <1>2, <1>3, <1>4, <1>5, <1>6, <1>7 DEF StartSteps

LEMMA DispatchEnd == Typed /\ Dispatch /\ EndSteps => Dispatch'
<1> SUFFICES ASSUME Typed, Dispatch, EndSteps PROVE Dispatch'
  OBVIOUS
<1>0. run \in RunRecord /\ status \in [Tickets -> Statuses]
  BY DEF Typed, RunTyped, TicketsTyped
<1>1. UNCHANGED status \/ \E t \in Tickets : ReopenOwner(t)
  BY DEF EndSteps, ScheduleRollover, RolloverCancelled, RolloverThrows, EnterGate, RollOver,
         ExitRun, Approve, CancelGate, BlockRelease, RetryGate, StopGate, MapFailedChecks,
         OwnersReopened, Finish
<1>8. CASE \E t \in Tickets : ReopenOwner(t)
  <2> PICK t \in Tickets : ReopenOwner(t)
    BY <1>8
  <2>1. /\ run.pc = "recheck" /\ run'.pc = "recheck" /\ UNCHANGED reopen
        /\ SetStatus(t, "todo") /\ rechecked' = rechecked \cup {t}
    BY <1>0 DEF ReopenOwner, At, RunRecord
  <2>2. \A u \in Tickets : Done(u)' <=> Done(u) /\ u # t
    BY <1>0, <2>1 DEF SetStatus, Done
  <2>3. reopen = {}
    BY <2>1 DEF Dispatch, RemediationPending
  <2>4. DoneNeedsDependencies'
    BY <2>1, <2>2, TicketAssumption DEF Dispatch, DoneNeedsDependencies
  <2>5. RemediationPending'
    BY <2>1, <2>3 DEF RemediationPending, ClosedUnderUse
  <2> QED
    BY <2>1, <2>4, <2>5 DEF Dispatch, QueueComplete, TicketReady, GateReached, InLoop, Occupied
<1> SUFFICES ASSUME UNCHANGED status PROVE Dispatch'
  BY <1>1, <1>8
<1>2. CASE ScheduleRollover \/ RolloverCancelled
  <2>1. PICK reason \in {"rollover", "cancelled", "contract_blocked"} : Leave(reason)
    BY <1>2 DEF ScheduleRollover, RolloverCancelled, ExitOf
  <2>2. UNCHANGED <<reopen, rechecked>> /\ run.pc = "rollover"
    BY <1>2 DEF ScheduleRollover, RolloverCancelled, At
  <2> QED
    BY <2>1, <2>2, LeaveDispatch, StatusKept DEF Occupied
<1>3. CASE RolloverThrows
  <2>1. UNCHANGED <<reopen, rechecked, session>> /\ run.pc = "rollover"
    BY <1>3 DEF RolloverThrows, At
  <2>2. CASE run.failure.kind = "oracle_refusal"
    <3>1. /\ run'.pc = "record" /\ run'.ticket = run.ticket /\ run'.pending = run.pending
          /\ run'.diagnostic = run.diagnostic
      BY <1>0, <1>3, <2>2 DEF RolloverThrows, RunRecord
    <3>2. session.reason # "success"
      BY <2>1 DEF Dispatch, GateReached, InLoop, Occupied
    <3> QED
      BY <2>1, <3>1, <3>2, OccupiedMove, StatusKept DEF Occupied
  <2>3. CASE run.failure.kind # "oracle_refusal"
    BY <1>3, <2>1, <2>3, IdleDispatch, StatusKept DEF RolloverThrows
  <2> QED
    BY <2>2, <2>3
<1>4. CASE EnterGate
  <2>1. /\ UNCHANGED <<status, reopen, rechecked, session>> /\ run.pc = "exit" /\ run'.pc = "gate"
        /\ run.exit = "success"
    BY <1>0, <1>4 DEF EnterGate, At, Goto, RunRecord
  <2>2. DoneNeedsDependencies' /\ ClosedUnderUse(reopen)'
    BY <2>1, DoneKept, StatusKept DEF Dispatch
  <2>3. RemediationPending' /\ QueueComplete' /\ TicketReady'
    BY <2>1, <2>2
    DEF Dispatch, RemediationPending, QueueComplete, TicketReady, InLoop, Occupied
  <2>4. GateReached'
    BY <2>1 DEF Dispatch, GateReached, InLoop, Occupied, Queued
  <2> QED
    BY <2>2, <2>3, <2>4 DEF Dispatch
<1>5. CASE RollOver \/ Finish
  BY <1>5, IdleDispatch, StatusKept DEF RollOver, Finish
<1>6. CASE ExitRun \/ Approve \/ CancelGate \/ StopGate \/ RetryGate \/ MapFailedChecks
             \/ OwnersReopened
  <2>1. UNCHANGED <<reopen, rechecked>> /\ run.pc \in {"exit", "gate", "recheck"}
    BY <1>6 DEF ExitRun, Approve, CancelGate, StopGate, RetryGate, MapFailedChecks,
                OwnersReopened, At
  <2>2. run'.pc \in {"finish", "consume", "recheck"}
    BY <1>6 DEF ExitRun, Approve, CancelGate, StopGate, RetryGate, MapFailedChecks,
                OwnersReopened, Report, Idle
  <2> QED
    BY <2>1, <2>2, OutsideMove, StatusKept
<1>7. CASE BlockRelease
  <2> PICK D \in SUBSET Tickets \ {{}} :
        /\ reopen' = Affected(D)
        /\ run' = [Idle EXCEPT !.pc = "reopen", !.pending = Affected(D)]
    BY <1>7 DEF BlockRelease
  <2>1. run.pc = "gate" /\ run'.pc = "reopen" /\ run'.pending = Affected(D)
    BY <1>7 DEF BlockRelease, At, Idle
  <2>2. Affected(D) \in SUBSET Tickets /\ ClosedUnderUse(Affected(D))
    BY AffectedClosed
  <2>3. (\A t \in Tickets : Done(t) => StandsOn(t)) /\ UNCHANGED rechecked
    BY <1>7, <2>1
    DEF BlockRelease, Dispatch, DoneNeedsDependencies, RemediationPending, StandsOn
  <2>4. DoneNeedsDependencies'
    BY <2>3 DEF DoneNeedsDependencies, Done, StandsOn
  <2>5. RemediationPending'
    BY <2>1, <2>2 DEF RemediationPending, ClosedUnderUse, Done
  <2> QED
    BY <2>1, <2>4, <2>5 DEF Dispatch, QueueComplete, TicketReady, GateReached, InLoop, Occupied
<1> QED
  BY <1>2, <1>3, <1>4, <1>5, <1>6, <1>7, <1>8 DEF EndSteps

LEMMA DispatchNext == Typed /\ Dispatch /\ [Next]_vars => Dispatch'
<1> SUFFICES ASSUME Typed, Dispatch, [Next]_vars PROVE Dispatch'
  OBVIOUS
<1>1. CASE RunnerSteps
  BY <1>1, DispatchStart, DispatchLoop, DispatchAttempt, DispatchDecision, DispatchEnd
  DEF RunnerSteps
<1>2. CASE Cancel \/ FinishCancel \/ CrossBudget \/ UNCHANGED vars
  <2>1. UNCHANGED <<status, reopen, rechecked, run>>
    BY <1>2 DEF Cancel, FinishCancel, CrossBudget, vars
  <2>2. session'.reason \in {session.reason, "cancelled"}
    BY <1>2 DEF Cancel, FinishCancel, CrossBudget, vars, Typed, SessionTyped
  <2> QED
    BY <2>1, <2>2, StillMove
<1>3. CASE Kill
  BY <1>3, IdleDispatch, StatusKept DEF Kill
<1> QED
  BY <1>1, <1>2, <1>3 DEF Next

LEMMA DispatchInit == Init => Dispatch
<1> SUFFICES ASSUME Init PROVE Dispatch
  OBVIOUS
<1>1. reopen = {} /\ run.pc = "down" /\ \A t \in Tickets : ~Done(t)
  BY DEF Init, Idle, Done
<1> QED
  BY <1>1 DEF Dispatch, DoneNeedsDependencies, RemediationPending, ClosedUnderUse,
              QueueComplete, TicketReady, GateReached, InLoop, Occupied

\* A Done ticket stands on Done tickets or is among those a pending remediation
\* reopens, wherever the runner that applies it dies; only the owner of a failed check
\* may be missing under it, until it is Done again.
THEOREM DependenciesHold == Spec => []DoneNeedsDependencies
<1>1. Dispatch => DoneNeedsDependencies
  BY DEF Dispatch
<1> QED
  BY <1>1, TypedInit, TypedNext, DispatchInit, DispatchNext, PTL DEF Spec

\* The release gate is entered only when every ticket is Done or Blocked: no ticket
\* that was taken off the queue is lost on the way.
THEOREM GateSeesAll == Spec => []ReleaseSeesNoQueuedTicket
<1>1. Typed /\ Dispatch => ReleaseSeesNoQueuedTicket
  BY DEF Typed, TicketsTyped, Dispatch, GateReached, ReleaseSeesNoQueuedTicket, At, Queued,
         Statuses
<1> QED
  BY <1>1, TypedInit, TypedNext, DispatchInit, DispatchNext, PTL DEF Spec

-----------------------------------------------------------------------------
(* When a completed session has every ticket Done                          *)

\* No run starts with a ticket that an earlier one left Blocked.
NoneLeftBlocked == At("plan") => \A t \in Tickets : status[t] # "blocked"

\* What a runner parks stays on its list, and a success leaves nothing behind.
BlockedHeld ==
  /\ InLoop => \A t \in Tickets : status[t] = "blocked" => t \in run.pending \cup {run.ticket}
  /\ run.pc = "gate" \/ (run.pc \in {"exit", "finish"} /\ run.exit = "success") => AllDone
  /\ terminal = "completed" => AllDone /\ run.pc = "down"

LEMMA HeldOutside ==
  ASSUME BlockedHeld, run.pc # "down", UNCHANGED terminal,
         run'.pc \notin Occupied \cup {"select", "gate"},
         run'.pc \in {"exit", "finish"} => run'.exit # "success"
  PROVE  BlockedHeld'
BY DEF BlockedHeld, InLoop

LEMMA HeldInside ==
  ASSUME BlockedHeld, InLoop, InLoop', UNCHANGED terminal,
         \A t \in Tickets \ {run.ticket} : status'[t] = status[t],
         \A t \in Tickets : t \in run.pending \cup {run.ticket} =>
                              t \in run'.pending \cup {run'.ticket}
  PROVE  BlockedHeld'
<1>1. run.pc # "down" /\ run'.pc \notin {"gate", "exit", "finish"}
  BY DEF InLoop, Occupied
<1>2. terminal' # "completed"
  BY <1>1 DEF BlockedHeld
<1>3. \A t \in Tickets : status'[t] = "blocked" => t \in run'.pending \cup {run'.ticket}
  BY DEF BlockedHeld
<1>. QED  BY <1>1, <1>2, <1>3 DEF BlockedHeld

LEMMA HeldLeave ==
  ASSUME BlockedHeld, InLoop, UNCHANGED terminal, NEW reason, reason # "success", Leave(reason)
  PROVE  BlockedHeld'
<1>1. run'.pc = "exit" /\ run'.exit = reason
  BY DEF Leave, Idle
<1>. QED  BY <1>1, HeldOutside DEF InLoop, Occupied

LEMMA HeldIdle ==
  ASSUME BlockedHeld, run.pc # "down", UNCHANGED terminal, run' = Idle
  PROVE  BlockedHeld'
BY HeldOutside DEF Idle, Occupied

\* The attempt or the decision about it goes on with the same tickets.
LEMMA HeldOn ==
  ASSUME BlockedHeld, run.pc \in Occupied, run'.pc \in Occupied, UNCHANGED terminal,
         \A t \in Tickets \ {run.ticket} : status'[t] = status[t],
         run'.ticket = run.ticket, run'.pending = run.pending
  PROVE  BlockedHeld'
BY HeldInside DEF InLoop

LEMMA HeldCatch ==
  ASSUME Typed, Dispatch, BlockedHeld, run.pc \in Occupied, UNCHANGED <<session, terminal>>,
         \A t \in Tickets \ {run.ticket} : status'[t] = status[t],
         NEW f \in Lineages, Catch(f)
  PROVE  BlockedHeld'
<1>1. CASE session.active
  <2>1. run'.pc = "record" /\ run'.ticket = run.ticket /\ run'.pending = run.pending
    BY <1>1 DEF Catch, Typed, RunTyped, RunRecord
  <2>. QED  BY <2>1, HeldOn DEF Occupied
<1>2. CASE ~session.active
  <2>1. session.reason # "success"
    BY DEF Dispatch, GateReached, InLoop
  <2>. QED  BY <1>2, <2>1, HeldLeave DEF Catch, InLoop
<1>. QED  BY <1>1, <1>2

LEMMA HeldStart == Typed /\ NoneLeftBlocked /\ BlockedHeld /\ StartSteps => BlockedHeld'
<1>. SUFFICES ASSUME Typed, NoneLeftBlocked, BlockedHeld, StartSteps PROVE BlockedHeld'
  OBVIOUS
<1>0. run \in RunRecord /\ status \in [Tickets -> Statuses]
  BY DEF Typed, RunTyped, TicketsTyped
<1>1. CASE Launch
  <2>1. run'.pc = "reopen" /\ terminal' = "open"
    BY <1>1 DEF Launch, Idle
  <2>. QED  BY <2>1 DEF BlockedHeld, InLoop, Occupied
<1>2. CASE ClearIntent \/ ConsumeRollover \/ EnterPhase \/ \E t \in Tickets : ReopenTicket(t)
  <2>1. run.pc # "down" /\ UNCHANGED terminal
    BY <1>2 DEF ClearIntent, ConsumeRollover, EnterPhase, ReopenTicket, At
  <2>2. run'.pc \in {"reopen", "consume", "enter", "plan", "down"}
    BY <1>0, <1>2 DEF ClearIntent, ConsumeRollover, EnterPhase, ReopenTicket, At, Goto, Idle,
                      RunRecord
  <2>. QED  BY <2>1, <2>2, HeldOutside DEF Occupied
<1>3. CASE PlanTickets \/ PlanDiagnostic
  <2>1. run.pc = "plan" /\ UNCHANGED terminal /\ run'.pc = "select"
    BY <1>3 DEF PlanTickets, PlanDiagnostic, At, Idle
  <2>2. \A t \in Tickets : status[t] # "blocked"
    BY <2>1 DEF NoneLeftBlocked, At
  <2>3. \A t \in Tickets : status'[t] # "blocked"
    BY <1>0, <1>3, <2>2 DEF PlanTickets, PlanDiagnostic, SetStatus
  <2>. QED  BY <2>1, <2>3 DEF BlockedHeld, InLoop, Occupied
<1>. QED  BY <1>1, <1>2, <1>3 DEF StartSteps

LEMMA HeldLoop == Typed /\ Dispatch /\ BlockedHeld /\ LoopSteps => BlockedHeld'
<1>. SUFFICES ASSUME Typed, Dispatch, BlockedHeld, LoopSteps PROVE BlockedHeld'
  OBVIOUS
<1>0. run \in RunRecord /\ status \in [Tickets -> Statuses]
  BY DEF Typed, RunTyped, TicketsTyped
<1>1. UNCHANGED <<status, terminal>> /\ InLoop
  BY DEF LoopSteps, SelectTicket, NoTicketLeft, StopAttempting, BudgetCrossed, CheckAttempt,
         SelectStrategy, ReconstructionFails, Authorize, ResetCircuit, At, InLoop, Occupied
<1>2. CASE SelectTicket
  <2>1. run.ticket \notin Tickets
    BY <1>2, TicketAssumption DEF SelectTicket, At, Dispatch, QueueComplete
  <2>2. PICK t \in Tickets : run' = [run EXCEPT !.pc = "attempt", !.ticket = t,
           !.pending = @ \ {t}, !.repairing = @ \ {t}, !.domain = strategy[t].domain,
           !.route = "infrastructure", !.repair = FALSE]
    BY <1>0, <1>2 DEF SelectTicket, Earliest, Preferred, Candidates, RunRecord
  <2>3. run'.pc = "attempt" /\ run'.ticket = t /\ run'.pending = run.pending \ {t}
    BY <1>0, <2>2 DEF RunRecord
  <2>. QED  BY <1>1, <2>1, <2>3, HeldInside DEF InLoop, Occupied
<1>3. CASE NoTicketLeft
  <2>1. CASE run.pending = {}
    <3>1. run.pc = "select" /\ run.ticket \notin Tickets
      BY <1>3, TicketAssumption DEF NoTicketLeft, At, Dispatch, QueueComplete
    <3>2. \A t \in Tickets : ~Queued(t) /\ status[t] # "blocked"
      BY <1>1, <2>1, <3>1 DEF Dispatch, QueueComplete, BlockedHeld
    <3>3. AllDone'
      BY <1>0, <1>1, <3>2 DEF AllDone, Done, Queued, Statuses
    <3>4. run'.pc = "exit"
      BY <1>3 DEF NoTicketLeft, Leave, Idle
    <3>. QED  BY <1>1, <3>1, <3>3, <3>4 DEF BlockedHeld, InLoop, Occupied
  <2>2. CASE run.pending # {}
    BY <1>1, <1>3, <2>2, HeldLeave DEF NoTicketLeft
  <2>. QED  BY <2>1, <2>2
<1>4. CASE StopAttempting
  BY <1>1, <1>4, HeldLeave DEF StopAttempting, Dispatch, GateReached
<1>5. CASE ReconstructionFails
  <2>1. PICK reason \in {"circuit_open", "recovery_required", "contract_blocked"} : Leave(reason)
    BY <1>5 DEF ReconstructionFails, ExitOf
  <2>. QED  BY <1>1, <2>1, HeldLeave
<1>6. CASE BudgetCrossed \/ CheckAttempt \/ SelectStrategy \/ Authorize \/ ResetCircuit
  <2>1. run.pc \in Occupied /\ run'.ticket = run.ticket /\ run'.pending = run.pending
    BY <1>0, <1>6 DEF BudgetCrossed, CheckAttempt, SelectStrategy, Authorize, ResetCircuit, At,
                      Goto, Occupied, RunRecord
  <2>2. run'.pc \in Occupied
    BY <1>0, <1>6 DEF BudgetCrossed, CheckAttempt, SelectStrategy, Authorize, ResetCircuit,
                      Goto, Occupied, RunRecord
  <2>. QED  BY <1>1, <2>1, <2>2, HeldOn
<1>. QED  BY <1>2, <1>3, <1>4, <1>5, <1>6 DEF LoopSteps

LEMMA HeldAttempt == Typed /\ Dispatch /\ BlockedHeld /\ AttemptSteps => BlockedHeld'
<1>. SUFFICES ASSUME Typed, Dispatch, BlockedHeld, AttemptSteps PROVE BlockedHeld'
  OBVIOUS
<1>0. run \in RunRecord /\ status \in [Tickets -> Statuses]
  BY DEF Typed, RunTyped, TicketsTyped
<1>1. UNCHANGED terminal /\ run.pc \in Occupied
  BY DEF AttemptSteps, RepairContract, StartDiagnostic, Diagnose, FailRepair, FailBeforeWork,
         TakeTicket, Complete, RecordProgress, Fail, Refuse, FailRollback, AbandonWork, Taking,
         At, Occupied
<1>2. session.reason # "success"
  BY <1>1 DEF Dispatch, GateReached, InLoop
<1>3. CASE RecordProgress
  <2>1. run.pc = "progress" /\ Done(run.ticket) /\ UNCHANGED status
    BY <1>1, <1>3 DEF RecordProgress, At, Dispatch, TicketReady
  <2>2. run'.pc = "select" /\ run'.pending = run.pending
    BY <1>0, <1>3 DEF RecordProgress, RunRecord
  <2>3. \A t \in Tickets : status[t] = "blocked" => t \in run.pending
    BY <1>1, <2>1 DEF BlockedHeld, InLoop, Done
  <2>. QED  BY <1>1, <2>1, <2>2, <2>3 DEF BlockedHeld, InLoop, Occupied
<1>4. CASE AttemptSteps /\ ~RecordProgress
  <2>1. \A t \in Tickets \ {run.ticket} : status'[t] = status[t]
    BY <1>0, <1>4
    DEF AttemptSteps, RepairContract, StartDiagnostic, Diagnose, FailRepair, FailBeforeWork,
        TakeTicket, Complete, Fail, Refuse, FailRollback, AbandonWork, SetStatus
  <2>2. CASE RepairContract \/ StartDiagnostic \/ Diagnose \/ TakeTicket \/ Complete
             \/ \E f \in Failures : Refuse(f)
    <3>1. run'.pc \in Occupied /\ run'.ticket = run.ticket /\ run'.pending = run.pending
      BY <1>0, <1>1, <2>2
      DEF RepairContract, StartDiagnostic, Diagnose, TakeTicket, Complete, Refuse, Goto,
          Occupied, RunRecord
    <3>. QED  BY <1>1, <2>1, <3>1, HeldOn
  <2>3. CASE FailRepair
    BY <1>1, <2>1, <2>3, HeldCatch DEF FailRepair, Lineages
  <2>4. CASE FailBeforeWork
    BY <1>1, <2>1, <2>4, HeldCatch DEF FailBeforeWork, Lineages
  <2>5. CASE \E f \in Failures : Fail(f)
    BY <1>1, <2>1, <2>5, HeldCatch DEF Fail, Lineages
  <2>6. CASE FailRollback
    <3>1. CASE session.active
      <4>1. run'.pc = "record" /\ run'.ticket = run.ticket /\ run'.pending = run.pending
        BY <1>0, <2>6, <3>1 DEF FailRollback, RunRecord
      <4>. QED  BY <1>1, <2>1, <4>1, HeldOn DEF Occupied
    <3>2. CASE ~session.active
      BY <1>1, <2>6, <3>2, HeldLeave DEF FailRollback, InLoop
    <3>. QED  BY <3>1, <3>2
  <2>7. CASE AbandonWork
    BY <1>1, <1>2, <2>7, HeldLeave DEF AbandonWork, InLoop
  <2>. QED  BY <1>4, <2>2, <2>3, <2>4, <2>5, <2>6, <2>7 DEF AttemptSteps
<1>. QED  BY <1>3, <1>4

LEMMA HeldDecision == Typed /\ Dispatch /\ BlockedHeld /\ DecisionSteps => BlockedHeld'
<1>. SUFFICES ASSUME Typed, Dispatch, BlockedHeld, DecisionSteps PROVE BlockedHeld'
  OBVIOUS
<1>0. run \in RunRecord /\ status \in [Tickets -> Statuses]
  BY DEF Typed, RunTyped, TicketsTyped
<1>1. UNCHANGED terminal /\ run.pc \in Occupied
  BY DEF DecisionSteps, RecordFailure, JudgeExhausted, JudgeFailure, WeighRecovery, WeighBudget,
         Weigh, Abort, YieldTicket, RetryTicket, RepairInCatch, RepairThrows, Retries, At, Occupied
<1>6. \A t \in Tickets \ {run.ticket} : status'[t] = status[t]
  BY <1>0
  DEF DecisionSteps, RecordFailure, JudgeExhausted, JudgeFailure, WeighRecovery, WeighBudget,
      Weigh, Abort, YieldTicket, RetryTicket, RepairInCatch, RepairThrows, SetStatus
<1>2. CASE RecordFailure \/ JudgeExhausted \/ JudgeFailure \/ WeighBudget \/ Weigh
             \/ RetryTicket \/ RepairInCatch
  <2>1. run'.pc \in Occupied /\ run'.ticket = run.ticket /\ run'.pending = run.pending
    BY <1>0, <1>2
    DEF RecordFailure, JudgeExhausted, JudgeFailure, WeighBudget, Weigh, RetryTicket,
        RepairInCatch, Goto, Occupied, RunRecord
  <2>. QED  BY <1>1, <1>6, <2>1, HeldOn
<1>3. CASE WeighRecovery \/ Abort
  <2>1. PICK reason \in {"recovery_required", "circuit_open", "recovery_exhausted",
                         "contract_blocked"} : Leave(reason)
    BY <1>3 DEF WeighRecovery, Abort, ExitOf
  <2>. QED  BY <1>1, <2>1, HeldLeave DEF InLoop
<1>4. CASE YieldTicket
  <2>1. run'.pc = "select" /\ run'.pending = run.pending \cup {run.ticket}
    BY <1>0, <1>4 DEF YieldTicket, QueueAgain, RunRecord
  <2>. QED  BY <1>1, <1>6, <2>1, HeldInside DEF InLoop, Occupied
<1>5. CASE RepairThrows
  BY <1>1, <1>5, HeldIdle DEF RepairThrows, Occupied
<1>. QED  BY <1>2, <1>3, <1>4, <1>5 DEF DecisionSteps

LEMMA HeldEnd == Typed /\ Dispatch /\ BlockedHeld /\ EndSteps => BlockedHeld'
<1>. SUFFICES ASSUME Typed, Dispatch, BlockedHeld, EndSteps PROVE BlockedHeld'
  OBVIOUS
<1>0. run \in RunRecord
  BY DEF Typed, RunTyped
<1>10. CASE (\E t \in Tickets : ReopenOwner(t)) \/ OwnersReopened
  <2>1. /\ UNCHANGED terminal /\ run.pc # "down"
        /\ run'.pc \in {"recheck", "consume"} \/ (run'.pc = "finish" /\ run'.exit # "success")
    BY <1>0, <1>10 DEF ReopenOwner, OwnersReopened, At, Report, Idle, RunRecord
  <2>. QED  BY <2>1, HeldOutside DEF Occupied
<1>. SUFFICES ASSUME ~\E t \in Tickets : ReopenOwner(t), ~OwnersReopened
              PROVE  BlockedHeld'
  BY <1>10
<1>1. UNCHANGED status /\ run.pc # "down"
  BY DEF EndSteps, ScheduleRollover, RolloverCancelled, RolloverThrows, EnterGate, RollOver,
         ExitRun, Approve, CancelGate, BlockRelease, RetryGate, StopGate, MapFailedChecks,
         Finish, At
<1>2. CASE ScheduleRollover \/ RolloverCancelled
  <2>1. PICK reason \in {"rollover", "cancelled", "contract_blocked"} : Leave(reason)
    BY <1>2 DEF ScheduleRollover, RolloverCancelled, ExitOf
  <2>. QED  BY <1>2, <2>1, HeldLeave
       DEF ScheduleRollover, RolloverCancelled, At, InLoop, Occupied
<1>3. CASE RolloverThrows
  <2>1. UNCHANGED terminal /\ run.pc = "rollover"
    BY <1>3 DEF RolloverThrows, At
  <2>2. CASE run.failure.kind = "oracle_refusal"
    <3>1. run'.pc = "record" /\ run'.ticket = run.ticket /\ run'.pending = run.pending
      BY <1>0, <1>3, <2>2 DEF RolloverThrows, RunRecord
    <3>. QED  BY <1>1, <2>1, <3>1, HeldOn DEF Occupied
  <2>3. CASE run.failure.kind # "oracle_refusal"
    BY <1>1, <1>3, <2>1, <2>3, HeldIdle DEF RolloverThrows
  <2>. QED  BY <2>2, <2>3
<1>4. CASE EnterGate
  <2>1. UNCHANGED terminal /\ run'.pc = "gate" /\ AllDone
    BY <1>0, <1>4 DEF EnterGate, At, Goto, RunRecord, BlockedHeld
  <2>. QED  BY <1>1, <2>1 DEF BlockedHeld, InLoop, Occupied, AllDone, Done
<1>5. CASE RollOver
  BY <1>1, <1>5, HeldIdle DEF RollOver
<1>6. CASE Approve
  <2>1. UNCHANGED terminal /\ run'.pc = "finish" /\ AllDone
    BY <1>6 DEF Approve, At, Report, Idle, BlockedHeld
  <2>. QED  BY <1>1, <2>1 DEF BlockedHeld, InLoop, Occupied, AllDone, Done
<1>7. CASE ExitRun
  <2>1. UNCHANGED terminal /\ run'.pc = "finish" /\ run'.exit # "success"
    BY <1>7 DEF ExitRun, Report, Idle, FinalReason
  <2>. QED  BY <1>1, <2>1, HeldOutside DEF Occupied
<1>8. CASE CancelGate \/ StopGate \/ RetryGate \/ BlockRelease \/ MapFailedChecks
  <2>1. /\ UNCHANGED terminal
        /\ \/ run'.pc \in {"consume", "reopen", "recheck"}
           \/ run'.pc = "finish" /\ run'.exit # "success"
    BY <1>8 DEF CancelGate, StopGate, RetryGate, BlockRelease, MapFailedChecks, Report, Idle
  <2>. QED  BY <1>1, <2>1, HeldOutside DEF Occupied
<1>9. CASE Finish
  <2>1. terminal' = "completed" => AllDone
    <3>1. CASE run.exit = "success"
      BY <1>9, <3>1 DEF Finish, At, BlockedHeld
    <3>2. CASE run.exit # "success" /\ run.exit # "cancelled"
      <4>1. terminal' = terminal
        BY <1>9, <3>2, Zenon DEF Finish
      <4>. QED  BY <1>1, <4>1 DEF BlockedHeld
    <3>3. CASE run.exit = "cancelled"
      BY <1>9, <3>3 DEF Finish
    <3>. QED  BY <3>1, <3>2, <3>3
  <2>2. run'.pc = "down"
    BY <1>9 DEF Finish, Idle
  <2>. QED  BY <1>1, <2>1, <2>2 DEF BlockedHeld, InLoop, Occupied, AllDone, Done
<1>. QED  BY <1>2, <1>3, <1>4, <1>5, <1>6, <1>7, <1>8, <1>9 DEF EndSteps

LEMMA HeldNext ==
  Typed /\ Dispatch /\ NoneLeftBlocked /\ BlockedHeld /\ [Next]_vars => BlockedHeld'
<1>. SUFFICES ASSUME Typed, Dispatch, NoneLeftBlocked, BlockedHeld, [Next]_vars
              PROVE  BlockedHeld'
  OBVIOUS
<1>1. CASE RunnerSteps
  BY <1>1, HeldStart, HeldLoop, HeldAttempt, HeldDecision, HeldEnd DEF RunnerSteps
<1>2. CASE Cancel \/ CrossBudget \/ UNCHANGED vars
  <2>1. UNCHANGED <<status, terminal, run>>
    BY <1>2 DEF Cancel, CrossBudget, vars
  <2>. QED  BY <2>1 DEF BlockedHeld, InLoop, AllDone, Done
<1>3. CASE FinishCancel
  <2>1. UNCHANGED <<status, run>> /\ terminal' = "cancelled"
    BY <1>3 DEF FinishCancel
  <2>. QED  BY <2>1 DEF BlockedHeld, InLoop, AllDone, Done
<1>4. CASE Kill
  BY <1>4, HeldIdle DEF Kill, At
<1>. QED  BY <1>1, <1>2, <1>3, <1>4 DEF Next

\* A session completes with every ticket Done as long as no run starts with a ticket
\* Blocked by an earlier one: the runner itself never leaves the loop for the gate with a
\* ticket it has parked.
THEOREM CompletionNeedsCleanStarts ==
  Spec /\ []NoneLeftBlocked => []CompletedMeansDone
<1>1. Init => BlockedHeld
  BY DEF Init, Idle, BlockedHeld, InLoop, Occupied
<1>2. BlockedHeld => CompletedMeansDone
  BY DEF BlockedHeld, CompletedMeansDone
<1>. QED
  BY <1>1, <1>2, TypedInit, TypedNext, DispatchInit, DispatchNext, HeldNext, PTL DEF Spec

-----------------------------------------------------------------------------
(* Rollovers are consumed                                                  *)

\* No failure is reported under its own kind.
NoContractFailures == \A f \in Failures : ~Contractual(f)

\* A rollover intent waits for the runner that consumes it, in an active session or in a
\* cancelled one.
IntentWaits ==
  session.rollover => \/ session.cancelled
                      \/ /\ session.active
                         /\ \/ run.pc \in {"down", "reopen", "consume"}
                            \/ run.pc = "exit" /\ run.exit = "rollover"

LEMMA IntentNext ==
  ASSUME NoContractFailures, Typed, IntentWaits, [Next]_vars
  PROVE  IntentWaits'
<1>0. /\ run \in RunRecord
      /\ session \in [active : BOOLEAN, cancelled : BOOLEAN, reason : Exits \cup {"none"},
                      overBudget : BOOLEAN, rollover : BOOLEAN, recovery : BOOLEAN]
  BY DEF Typed, RunTyped, SessionTyped
<1>1. CASE ScheduleRollover
  <2>1. ~Contractual(run.failure)
    BY <1>0 DEF RunRecord, Lineages, Broken, NoFailure, NoContractFailures, Contractual
  <2>2. run'.pc = "exit" /\ run'.exit = "rollover"
    BY <1>1, <2>1 DEF ScheduleRollover, ExitOf, Leave, Idle
  <2>3. session'.active
    BY <1>0, <1>1 DEF ScheduleRollover
  <2>. QED  BY <2>2, <2>3 DEF IntentWaits
<1>2. CASE Cancel
  BY <1>0, <1>2 DEF Cancel, IntentWaits
<1>3. CASE Launch
  BY <1>3 DEF Launch, Idle, IntentWaits, At
<1>4. CASE RollOver \/ Kill
  BY <1>4 DEF RollOver, Kill, Idle, IntentWaits
<1>5. CASE (\E t \in Tickets : ReopenTicket(t)) \/ ClearIntent
  BY <1>0, <1>5 DEF ReopenTicket, ClearIntent, Goto, IntentWaits, At, RunRecord
<1>6. CASE ConsumeRollover
  BY <1>0, <1>6 DEF ConsumeRollover, IntentWaits
<1>7. CASE FinishCancel \/ CrossBudget \/ UNCHANGED vars
  BY <1>0, <1>7 DEF FinishCancel, CrossBudget, IntentWaits, vars
<1>8. ASSUME run.pc \notin {"down", "reopen", "consume"},
             run.pc = "exit" => run.exit # "rollover",
             session'.rollover = session.rollover,
             session.cancelled => session'.cancelled
      PROVE  IntentWaits'
  BY <1>8 DEF IntentWaits
<1>9. session.cancelled => session'.cancelled
  BY CancellationKept
<1>10. CASE EnterPhase
  BY <1>0, <1>8, <1>9, <1>10 DEF EnterPhase, At
<1>11. CASE PlanTickets \/ PlanDiagnostic
  BY <1>8, <1>9, <1>11 DEF PlanTickets, PlanDiagnostic, At
<1>12. CASE LoopSteps
  BY <1>0, <1>8, <1>9, <1>12
  DEF LoopSteps, SelectTicket, NoTicketLeft, StopAttempting, BudgetCrossed, CheckAttempt,
      SelectStrategy, ReconstructionFails, Authorize, ResetCircuit, At
<1>13. CASE AttemptSteps
  BY <1>0, <1>8, <1>9, <1>13
  DEF AttemptSteps, RepairContract, StartDiagnostic, Diagnose, FailRepair, FailBeforeWork,
      TakeTicket, Complete, RecordProgress, Fail, Refuse, FailRollback, AbandonWork, Taking, At
<1>14. CASE DecisionSteps
  BY <1>8, <1>9, <1>14
  DEF DecisionSteps, RecordFailure, JudgeExhausted, JudgeFailure, WeighRecovery, WeighBudget,
      Weigh, Abort, YieldTicket, RetryTicket, RepairInCatch, RepairThrows, Retries, At
<1>15. CASE RolloverCancelled \/ RolloverThrows \/ EnterGate \/ BlockRelease \/ RetryGate
            \/ MapFailedChecks \/ (\E t \in Tickets : ReopenOwner(t)) \/ Finish
  BY <1>8, <1>9, <1>15
  DEF RolloverCancelled, RolloverThrows, EnterGate, BlockRelease, RetryGate, MapFailedChecks,
      ReopenOwner, Finish, At
<1>16. CASE ExitRun \/ Approve \/ CancelGate \/ StopGate \/ OwnersReopened
  BY <1>0, <1>8, <1>9, <1>16
  DEF ExitRun, Approve, CancelGate, StopGate, OwnersReopened, ExitPhase, At
<1>. QED
  BY <1>1, <1>2, <1>3, <1>4, <1>5, <1>6, <1>7, <1>10, <1>11, <1>12, <1>13, <1>14, <1>15, <1>16
  DEF Next, RunnerSteps, StartSteps, EndSteps

\* Without failures that are reported under their own kind, no budget rollover is
\* scheduled over an intent that nobody has consumed.
THEOREM RolloversAreConsumed ==
  ASSUME NoContractFailures
  PROVE  Spec => []RolloverConsumedFirst
<1>1. Init => IntentWaits
  BY DEF Init, IntentWaits
<1>2. IntentWaits => RolloverConsumedFirst
  BY DEF IntentWaits, RolloverConsumedFirst, At
<1>3. Typed /\ IntentWaits /\ [Next]_vars => IntentWaits'
  BY IntentNext
<1>. QED  BY <1>1, <1>2, <1>3, TypedInit, TypedNext, PTL DEF Spec

=============================================================================
