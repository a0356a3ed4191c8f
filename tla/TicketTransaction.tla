-------------------------- MODULE TicketTransaction --------------------------
(***************************************************************************)
(* The undo ledger of ticket-transaction.ts: processes change the ticket   *)
(* files of a session under a lock file, after the contents they found are *)
(* in ticket-transaction-ledger.json; whoever enters next replays what a   *)
(* dead process left there.  state.json may be among the files, and an     *)
(* operator cancels by writing it at any time.                             *)
(*                                                                         *)
(* A content is the process that wrote it.  A live process has written its *)
(* pid into the lock it created before the lock is 50 ms old, so a lock is *)
(* its owner.  StateManager.update is one step.                            *)
(***************************************************************************)
EXTENDS Naturals, FiniteSets

CONSTANTS
  Processes, Files,
  StateJson,        \* the one of Files that is state.json
  Requests,         \* what calls change: sets of files; none by a recovery
  Original,         \* what a file held at first, absence included
  NoProcess,
  MaxChanges,       \* bound: calls that change files
  MaxDeaths         \* bound: processes that die

ASSUME FileAssumption == StateJson \in Files /\ Requests \subseteq SUBSET Files
ASSUME ProcessAssumption == NoProcess \notin Processes /\ Original \notin Processes
ASSUME BoundAssumption == MaxChanges \in Nat /\ MaxDeaths \in Nat

VARIABLES
  changes,   \* calls that change files so far
  lock,      \* the owner of the lock file
  robbed,    \* history: the lock of a live owner has been removed by another process
  files,     \* [Files -> content]
  cancel,    \* of state.json: cancel_requested_at is set, a recovery intent is recorded
  ledger,    \* the active transaction
  mine,      \* [Processes -> the transaction or recovery in its memory]
  pc,        \* [Processes -> where the call stands]
  wants,     \* [Processes -> the files its call is to change; none: it only recovers]
  todo       \* [Processes -> files it has still to write or to restore]

vars == <<changes, lock, robbed, files, cancel, ledger, mine, pc, wants, todo>>

Contents == Processes \cup {Original}
Marks == [marker : BOOLEAN, intent : BOOLEAN]
Transactions == [by : Processes, reverse : UNION {[S -> Contents] : S \in SUBSET Files},
                 marks : Marks]
NoTransaction == [by |-> NoProcess, reverse |-> [f \in {} |-> Original],
                  marks |-> [marker |-> FALSE, intent |-> FALSE]]

Inside == {"enter", "prepare", "record", "mutate", "recover", "rollback", "release"}
Steps == Inside \cup {"idle", "try", "judge", "remove", "dead"}

TypeOK ==
  /\ lock \in Processes \cup {NoProcess} /\ robbed \in BOOLEAN
  /\ changes \in 0..MaxChanges
  /\ files \in [Files -> Contents]
  /\ cancel \in Marks
  /\ ledger \in Transactions \cup {NoTransaction}
  /\ mine \in [Processes -> Transactions \cup {NoTransaction}]
  /\ pc \in [Processes -> Steps]
  /\ wants \in [Processes -> SUBSET Files]
  /\ todo \in [Processes -> SUBSET Files]
  /\ \A p \in Processes : pc[p] \in {"record", "mutate", "rollback"} =>
       mine[p].by = p /\ todo[p] \subseteq DOMAIN mine[p].reverse

Goto(p, step) == pc' = [pc EXCEPT ![p] = step]
Alive(p) == pc[p] # "dead"

-----------------------------------------------------------------------------
(* acquireLock, releaseLock                                                *)

\* runTicketTransaction over the files S; with none,
\* recoverInterruptedTicketTransaction.
Call(p) ==
  /\ pc[p] = "idle"
  /\ \E S \in Requests :
       /\ wants' = [wants EXCEPT ![p] = S]
       /\ IF S = {} THEN UNCHANGED changes
                    ELSE changes < MaxChanges /\ changes' = changes + 1
  /\ Goto(p, "try")
  /\ UNCHANGED <<lock, robbed, files, cancel, ledger, mine, todo>>

\* Fault: the file is created whether it is there or not.
Overwritable == TRUE

Creatable == lock = NoProcess

CreateLock(p) ==
  /\ pc[p] = "try" /\ Creatable
  /\ lock' = p
  /\ Goto(p, "enter")
  /\ UNCHANGED <<changes, robbed, files, cancel, ledger, mine, todo, wants>>

Collide(p) ==
  /\ pc[p] = "try" /\ ~Creatable
  /\ Goto(p, "judge")
  /\ UNCHANGED <<changes, lock, robbed, files, cancel, ledger, mine, todo, wants>>

\* A lock that is gone by now reads as owner 0 of infinite age.
Abandoned == lock # NoProcess => ~Alive(lock)

Judge(p) ==
  /\ pc[p] = "judge" /\ Abandoned
  /\ Goto(p, "remove")
  /\ UNCHANGED <<changes, lock, robbed, files, cancel, ledger, mine, todo, wants>>

\* rmSync of the name, whatever file has that name by now.
Unlink(p) ==
  /\ lock' = NoProcess
  /\ robbed' = (robbed \/ (lock \notin {p, NoProcess} /\ Alive(lock)))

RemoveLock(p) ==
  /\ pc[p] = "remove"
  /\ Unlink(p)
  /\ Goto(p, "try")
  /\ UNCHANGED <<changes, files, cancel, ledger, mine, todo, wants>>

Wait(p) ==
  /\ pc[p] = "judge" /\ ~Abandoned
  /\ Goto(p, "try")
  /\ UNCHANGED <<changes, lock, robbed, files, cancel, ledger, mine, todo, wants>>

TimeOut(p) ==
  /\ pc[p] = "judge" /\ ~Abandoned
  /\ Goto(p, "idle")
  /\ wants' = [wants EXCEPT ![p] = {}]
  /\ UNCHANGED <<changes, lock, robbed, files, cancel, ledger, mine, todo>>

ReleaseLock(p) ==
  /\ pc[p] = "release"
  /\ Unlink(p)
  /\ mine' = [mine EXCEPT ![p] = NoTransaction]
  /\ wants' = [wants EXCEPT ![p] = {}]
  /\ todo' = [todo EXCEPT ![p] = {}]
  /\ Goto(p, "idle")
  /\ UNCHANGED <<changes, files, cancel, ledger>>

-----------------------------------------------------------------------------
(* recoverWhileLocked, prepareWhileLocked, runTicketTransaction            *)

\* What the call does once nothing interrupted is left.
Proper(p) == IF wants[p] = {} THEN "release" ELSE "prepare"

\* Fault: only an own interrupted transaction is recovered.
InterruptedOwn(p) == ledger.by = p

Interrupted(p) == ledger.by # NoProcess

Enter(p) ==
  /\ pc[p] = "enter"
  /\ IF Interrupted(p)
       THEN /\ mine' = [mine EXCEPT ![p] = ledger]
            /\ todo' = [todo EXCEPT ![p] = DOMAIN ledger.reverse]
            /\ Goto(p, "recover")
       ELSE Goto(p, Proper(p)) /\ UNCHANGED <<mine, todo>>
  /\ UNCHANGED <<changes, lock, robbed, files, cancel, ledger, wants>>

\* A transaction that another process has recorded meanwhile is an error.
RefuseToPrepare(p) ==
  /\ pc[p] = "prepare" /\ Interrupted(p)
  /\ Goto(p, "release")
  /\ UNCHANGED <<changes, lock, robbed, files, cancel, ledger, mine, wants, todo>>

\* The transaction reads the contents it may have to restore.
Prepare(p) ==
  /\ pc[p] = "prepare" /\ ~Interrupted(p)
  /\ mine' = [mine EXCEPT ![p] = [by |-> p, reverse |-> [f \in wants[p] |-> files[f]],
                                  marks |-> cancel]]
  /\ todo' = [todo EXCEPT ![p] = wants[p]]
  /\ Goto(p, "record")
  /\ UNCHANGED <<changes, lock, robbed, files, cancel, ledger, wants>>

Record(p) ==
  /\ pc[p] = "record"
  /\ ledger' = mine[p]
  /\ Goto(p, "mutate")
  /\ UNCHANGED <<changes, lock, robbed, files, cancel, mine, todo, wants>>

\* Files are replaced one at a time; state.json comes last and not after a
\* cancellation.
WriteFile(p) ==
  /\ pc[p] = "mutate"
  /\ \E f \in todo[p] :
       /\ f = StateJson => todo[p] = {f} /\ ~cancel.marker
       /\ files' = [files EXCEPT ![f] = p]
       /\ todo' = [todo EXCEPT ![p] = @ \ {f}]
  /\ UNCHANGED <<changes, lock, robbed, cancel, ledger, mine, pc, wants>>

\* Fault: the ledger is cleared as soon as one file is written.
MayCommitEarly(p) == todo[p] # DOMAIN mine[p].reverse

MayCommit(p) == todo[p] = {}

Commit(p) ==
  /\ pc[p] = "mutate" /\ MayCommit(p)
  /\ ledger' = NoTransaction
  /\ Goto(p, "release")
  /\ UNCHANGED <<changes, lock, robbed, files, cancel, mine, todo, wants>>

\* The mutation, or the commit, throws.
Throw(p) ==
  /\ pc[p] = "mutate"
  /\ todo' = [todo EXCEPT ![p] = DOMAIN mine[p].reverse]
  /\ Goto(p, "rollback")
  /\ UNCHANGED <<changes, lock, robbed, files, cancel, ledger, mine, wants>>

\* Fault: state.json is restored without a look at what it holds now.
UnmarkedByUndo(p) == mine[p].marks

\* A cancellation since the preparation stays; the rest is as it was.
MarksAfterUndo(p) ==
  [mine[p].marks EXCEPT !.marker = @ \/ cancel.marker]

\* replayReverseEntries, by the recovery and by the rollback.
UndoFile(p) ==
  /\ pc[p] \in {"recover", "rollback"}
  /\ \E f \in todo[p] :
       /\ files' = [files EXCEPT ![f] = mine[p].reverse[f]]
       /\ cancel' = IF f = StateJson THEN MarksAfterUndo(p) ELSE cancel
       /\ todo' = [todo EXCEPT ![p] = @ \ {f}]
  /\ UNCHANGED <<changes, lock, robbed, ledger, mine, pc, wants>>

\* Fault: the entries stay when the transaction is closed.
ClosedLedger == [ledger EXCEPT !.by = NoProcess]

EmptyLedger == NoTransaction

\* finish, with status recovered or rolled_back.
Undone(p) ==
  /\ pc[p] \in {"recover", "rollback"} /\ todo[p] = {}
  /\ ledger' = EmptyLedger
  /\ Goto(p, IF pc[p] = "recover" THEN Proper(p) ELSE "release")
  /\ UNCHANGED <<changes, lock, robbed, files, cancel, mine, wants, todo>>

\* A file, the ledger or the lock of state.json cannot be had: the call throws and
\* the ledger stays.
UndoFails(p) ==
  /\ pc[p] \in {"recover", "rollback"}
  /\ Goto(p, "release")
  /\ UNCHANGED <<changes, lock, robbed, files, cancel, ledger, mine, wants, todo>>

-----------------------------------------------------------------------------
(* The environment                                                         *)

\* bin/cancel.ts, in one StateManager.update.
OperatorCancels ==
  /\ ~cancel.marker
  /\ cancel' = [marker |-> TRUE, intent |-> TRUE]
  /\ UNCHANGED <<changes, lock, robbed, files, ledger, mine, pc, wants, todo>>

Die(p) ==
  /\ Alive(p)
  /\ Cardinality({q \in Processes : ~Alive(q)}) < MaxDeaths
  /\ Goto(p, "dead")
  /\ mine' = [mine EXCEPT ![p] = NoTransaction]
  /\ wants' = [wants EXCEPT ![p] = {}]
  /\ todo' = [todo EXCEPT ![p] = {}]
  /\ UNCHANGED <<changes, lock, robbed, files, cancel, ledger>>

Init ==
  /\ changes = 0
  /\ lock = NoProcess /\ robbed = FALSE
  /\ files = [f \in Files |-> Original]
  /\ cancel = [marker |-> FALSE, intent |-> FALSE]
  /\ ledger = NoTransaction
  /\ mine = [p \in Processes |-> NoTransaction]
  /\ pc = [p \in Processes |-> "idle"]
  /\ wants = [p \in Processes |-> {}]
  /\ todo = [p \in Processes |-> {}]

Proceed(p) ==
  \/ CreateLock(p) \/ Collide(p) \/ Judge(p) \/ RemoveLock(p) \/ Wait(p) \/ TimeOut(p)
  \/ Enter(p) \/ RefuseToPrepare(p) \/ Prepare(p) \/ Record(p) \/ WriteFile(p) \/ Commit(p) \/ Throw(p)
  \/ UndoFile(p) \/ Undone(p) \/ ReleaseLock(p)

Next ==
  \/ \E p \in Processes : Call(p) \/ Proceed(p) \/ UndoFails(p) \/ Die(p)
  \/ OperatorCancels

Spec == Init /\ [][Next]_vars

\* A call runs on; the runner and the commands come back to the session, and who
\* comes back finds the lock free or judges it.
FairSpec == /\ Spec
            /\ \A p \in Processes : /\ WF_vars(Proceed(p)) /\ WF_vars(Call(p))
                                    /\ SF_vars(CreateLock(p))

-----------------------------------------------------------------------------
(* Properties                                                              *)

\* Two processes are never inside at once, and the one that changes files has its
\* undo entries in the ledger, until a contender has removed a lock whose owner it had
\* not seen: the removal is of a name.
OneTransaction ==
  robbed \/ /\ \A p, q \in Processes : pc[p] \in Inside /\ pc[q] \in Inside => p = q
            /\ \A p \in Processes : pc[p] \in {"mutate", "rollback"} => ledger = mine[p]

\* The files as the next caller will have them.
Settled == [f \in Files |-> IF f \in DOMAIN ledger.reverse THEN ledger.reverse[f] ELSE files[f]]

Atomic == INSTANCE AtomicFiles
            WITH value <- Settled, asked <- wants, cancelled <- cancel.marker,
                 exclusive <- ~robbed

\* Seen through the ledger every transaction happens at once or not at all, across
\* crashes in the mutation, in a rollback and in a recovery, as long as no live owner
\* has been robbed of its lock; and no rollback takes back a cancellation, whoever else
\* is inside.
ImplementsAtomicFiles == Atomic!Spec

\* What a dead process left in the ledger is undone, unless undoing fails for ever
\* or nobody is left.
InterruptedIsUndone ==
  <>[][\A p \in Processes : ~UndoFails(p)]_vars =>
    []<>(ledger.by = NoProcess \/ \A p \in Processes : ~Alive(p))

\* A recorded recovery intent stays with the cancellation it belongs to.
IntentSurvives == [][cancel.intent => cancel'.intent]_vars

\* The lock of a live owner is its own until it releases it.
LiveOwnerKeepsLock == \A p \in Processes : pc[p] \in Inside => lock = p

=============================================================================
