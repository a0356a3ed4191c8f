----------------------- MODULE TicketTransactionProofs -----------------------
(***************************************************************************)
(* TicketTransaction implements AtomicFiles for any number of processes,   *)
(* files, calls and deaths: transactions exclude one another and are       *)
(* atomic until a live owner is robbed of its lock, and cancellations stay *)
(* even then.                                                              *)
(***************************************************************************)
EXTENDS TicketTransaction, TLAPS

\* Who is inside owns the lock.
LockInv == \A p \in Processes : pc[p] \in Inside => lock = p

\* The one inside knows the ledger.
LedgerInv ==
  /\ \A p \in Processes : pc[p] \in {"mutate", "rollback", "recover"} => ledger = mine[p]
  /\ \A p \in Processes : pc[p] \in {"prepare", "record"} => ledger = NoTransaction

\* How far the files have come.
FilesInv == \A p \in Processes :
  /\ pc[p] = "record" => \A f \in DOMAIN mine[p].reverse : mine[p].reverse[f] = files[f]
  /\ pc[p] = "mutate" => \A f \in DOMAIN mine[p].reverse \ todo[p] : files[f] = p
  /\ pc[p] = "record" => todo[p] = wants[p]
  /\ pc[p] \in {"record", "mutate"} => DOMAIN mine[p].reverse = wants[p]
  /\ pc[p] \in {"recover", "rollback"} =>
       \A f \in DOMAIN mine[p].reverse \ todo[p] : files[f] = mine[p].reverse[f]

\* A call is over when its process is idle; an undo has only its own entries to restore.
CallInv == \A p \in Processes :
  /\ pc[p] \in {"idle", "dead"} => wants[p] = {}
  /\ pc[p] \in {"recover", "rollback"} => todo[p] \subseteq DOMAIN mine[p].reverse

\* A cancellation older than a preparation is in force.
MarksInv ==
  /\ ledger.marks.marker => cancel.marker
  /\ \A p \in Processes : mine[p].marks.marker => cancel.marker

\* What holds whoever is inside, and what holds as long as nobody has been robbed.
Kept == TypeOK /\ CallInv /\ MarksInv
Exclusive == LockInv /\ LedgerInv /\ FilesInv
Inv == Kept /\ (~robbed => Exclusive)

\* What SMT needs to know of transactions.
LEMMA TransactionTyped ==
  ASSUME NEW t \in Transactions \cup {NoTransaction}
  PROVE  /\ DOMAIN t.reverse \subseteq Files
         /\ \A f \in DOMAIN t.reverse : t.reverse[f] \in Contents
         /\ t.marks \in Marks
         /\ t.by \in Processes \cup {NoProcess}
<1>1. CASE t = NoTransaction
  BY <1>1 DEF NoTransaction, Marks
<1>2. CASE t \in Transactions
  <2>1. /\ t.reverse \in UNION {[S -> Contents] : S \in SUBSET Files}
        /\ t.marks \in Marks /\ t.by \in Processes
    BY <1>2 DEF Transactions
  <2>2. PICK S \in SUBSET Files : t.reverse \in [S -> Contents]
    BY <2>1
  <2>. QED  BY <2>1, <2>2
<1>. QED  BY <1>1, <1>2

LEMMA NoTransactionEmpty == DOMAIN NoTransaction.reverse = {}
BY DEF NoTransaction

LEMMA InitInv == Init => Inv
<1>. SUFFICES ASSUME Init PROVE Inv
  OBVIOUS
<1>1. TypeOK
  <2>1. changes \in 0..MaxChanges
    BY BoundAssumption DEF Init
  <2>2. cancel \in Marks /\ files \in [Files -> Contents]
    BY DEF Init, Marks, Contents
  <2>. QED  BY <2>1, <2>2 DEF Init, TypeOK, Steps
<1>2. Exclusive /\ CallInv
  BY DEF Init, Exclusive, LockInv, LedgerInv, FilesInv, CallInv, Inside
<1>3. MarksInv
  BY DEF Init, MarksInv, NoTransaction, TypeOK
<1>. QED  BY <1>1, <1>2, <1>3 DEF Inv, Kept

\* Steps that touch neither files nor ledger nor any memory of a transaction.
LEMMA OutsideStepInv ==
  ASSUME Inv, NEW p \in Processes,
         \/ Call(p) \/ CreateLock(p) \/ Collide(p) \/ Judge(p) \/ RemoveLock(p)
         \/ Wait(p) \/ TimeOut(p)
  PROVE  Inv'
<1>. USE ProcessAssumption, BoundAssumption DEF Inv, Kept, Goto
<1>1. TypeOK'
  <2>1. changes' \in 0..MaxChanges
    BY DEF Call, CreateLock, Creatable, Collide, Judge, RemoveLock, Unlink, Wait, TimeOut, TypeOK
  <2>2. wants' \in [Processes -> SUBSET Files]
    <3>1. CASE Call(p)
      BY <3>1, FileAssumption DEF Call, TypeOK
    <3>2. CASE ~Call(p)
      BY <3>2 DEF Call, CreateLock, Creatable, Collide, Judge, RemoveLock, Unlink, Wait, TimeOut, TypeOK
    <3>. QED  BY <3>1, <3>2
  <2>3. lock' \in Processes \cup {NoProcess} /\ robbed' \in BOOLEAN
    BY DEF Call, CreateLock, Creatable, Collide, Judge, RemoveLock, Unlink, Wait, TimeOut, TypeOK
  <2>4. pc' \in [Processes -> Steps]
    BY DEF Call, CreateLock, Creatable, Collide, Judge, RemoveLock, Unlink, Wait, TimeOut, TypeOK, Steps, Inside
  <2>. QED  BY <2>1, <2>2, <2>3, <2>4 DEF Call, CreateLock, Creatable, Collide, Judge, RemoveLock, Unlink, Wait, TimeOut, TypeOK
<1>2. CallInv'
  BY DEF Call, CreateLock, Creatable, Collide, Judge, RemoveLock, Unlink, Wait, TimeOut, TypeOK, CallInv, Steps
<1>3. MarksInv'
  BY DEF Call, CreateLock, Creatable, Collide, Judge, RemoveLock, Unlink, Wait, TimeOut, MarksInv
<1>4. ASSUME ~robbed' PROVE Exclusive'
  <2>1. ~robbed
    BY <1>4 DEF Call, CreateLock, Creatable, Collide, Judge, RemoveLock, Unlink, Wait, TimeOut
  <2>2. LockInv'
    <3>1. CASE RemoveLock(p)
      <4>1. \A q \in Processes : pc'[q] \in Inside => q # p /\ pc[q] \in Inside
        BY <3>1 DEF RemoveLock, TypeOK, Inside
      <4>2. ASSUME NEW q \in Processes, pc'[q] \in Inside PROVE FALSE
        <5>1. lock = q /\ q # p /\ pc[q] \in Inside
          BY <2>1, <4>1, <4>2 DEF Exclusive, LockInv
        <5>2. Alive(q)
          BY <5>1 DEF Alive, Inside
        <5>. QED  BY <1>4, <3>1, <5>1, <5>2 DEF RemoveLock, Unlink
      <4>. QED  BY <4>2 DEF LockInv
    <3>2. CASE ~RemoveLock(p)
      BY <2>1, <3>2 DEF Call, CreateLock, Creatable, Collide, Judge, Wait, TimeOut, TypeOK, Exclusive, LockInv, Inside
    <3>. QED  BY <3>1, <3>2
  <2>3. LedgerInv' /\ FilesInv'
    BY <2>1 DEF Call, CreateLock, Creatable, Collide, Judge, RemoveLock, Unlink, Wait, TimeOut, TypeOK, Exclusive, LedgerInv, FilesInv, Steps
  <2>. QED  BY <2>2, <2>3 DEF Exclusive
<1>. QED  BY <1>1, <1>2, <1>3, <1>4

\* A step of the one inside: nobody else is, so nobody else's part of the
\* invariant speaks of the files or the ledger.
LEMMA Alone ==
  ASSUME Exclusive, NEW p \in Processes, pc[p] \in Inside,
         NEW q \in Processes, pc[q] \in Inside
  PROVE  q = p
BY DEF Exclusive, LockInv

\* What the steps inside keep, whoever else is inside.
LEMMA InsideStepKept ==
  ASSUME Kept, NEW p \in Processes,
         \/ Enter(p) \/ RefuseToPrepare(p) \/ Prepare(p) \/ Record(p) \/ WriteFile(p)
         \/ Commit(p) \/ Throw(p) \/ UndoFile(p) \/ Undone(p) \/ UndoFails(p)
         \/ ReleaseLock(p) \/ Die(p)
  PROVE  Kept'
<1>. USE ProcessAssumption, FileAssumption, NoTransactionEmpty DEF Kept, Goto
<1>0. \A t \in Transactions \cup {NoTransaction} :
        /\ DOMAIN t.reverse \subseteq Files
        /\ \A f \in DOMAIN t.reverse : t.reverse[f] \in Contents
        /\ t.marks \in Marks
  BY TransactionTyped
<1>c. CallInv'
  BY DEF Enter, RefuseToPrepare, Prepare, Record, WriteFile, Commit, Throw, UndoFile, Undone,
     UndoFails, ReleaseLock, Die, Alive, Proper, TypeOK, CallInv
<1>1. CASE Enter(p)
  <2>1. TypeOK'
    BY <1>0, <1>1 DEF Enter, Proper, Interrupted, TypeOK, Steps, Inside, Contents
  <2>2. MarksInv'
    BY <1>1 DEF Enter, TypeOK, MarksInv
  <2>. QED  BY <1>c, <2>1, <2>2
<1>2. CASE RefuseToPrepare(p)
  <2>1. TypeOK'
    BY <1>0, <1>2 DEF RefuseToPrepare, TypeOK, Steps, Inside, Contents
  <2>2. MarksInv'
    BY <1>2 DEF RefuseToPrepare, TypeOK, MarksInv
  <2>. QED  BY <1>c, <2>1, <2>2
<1>3. CASE Prepare(p)
  <2>. DEFINE t == [by |-> p, reverse |-> [f \in wants[p] |-> files[f]], marks |-> cancel]
  <2>0. t \in Transactions /\ DOMAIN t.reverse = wants[p]
    <3>1. [f \in wants[p] |-> files[f]] \in UNION {[S -> Contents] : S \in SUBSET Files}
      <4>1. wants[p] \in SUBSET Files
        BY DEF TypeOK
      <4>2. [f \in wants[p] |-> files[f]] \in [wants[p] -> Contents]
        BY <4>1 DEF TypeOK
      <4>. QED  BY <4>1, <4>2
    <3>. QED  BY <3>1 DEF Transactions, TypeOK
  <2>1. TypeOK'
    BY <2>0, <1>3 DEF Prepare, TypeOK, Steps, Inside, Contents
  <2>2. MarksInv'
    BY <1>3 DEF Prepare, TypeOK, MarksInv
  <2>. QED  BY <1>c, <2>1, <2>2
<1>4. CASE Record(p)
  <2>1. TypeOK'
    BY <1>0, <1>4 DEF Record, TypeOK, Steps, Inside, Contents
  <2>2. MarksInv'
    BY <1>4 DEF Record, TypeOK, MarksInv
  <2>. QED  BY <1>c, <2>1, <2>2
<1>5. CASE WriteFile(p)
  <2>1. TypeOK'
    BY <1>0, <1>5 DEF WriteFile, TypeOK, Steps, Inside, Contents
  <2>2. MarksInv'
    BY <1>5 DEF WriteFile, TypeOK, MarksInv
  <2>. QED  BY <1>c, <2>1, <2>2
<1>6. CASE Commit(p)
  <2>1. TypeOK'
    BY <1>0, <1>6 DEF Commit, TypeOK, Steps, Inside, Contents
  <2>2. MarksInv'
    BY <1>6 DEF Commit, TypeOK, MarksInv, NoTransaction
  <2>. QED  BY <1>c, <2>1, <2>2
<1>7. CASE Throw(p)
  <2>1. TypeOK'
    BY <1>0, <1>7 DEF Throw, TypeOK, Steps, Inside, Contents
  <2>2. MarksInv'
    BY <1>7 DEF Throw, TypeOK, MarksInv
  <2>. QED  BY <1>c, <2>1, <2>2
<1>8. CASE UndoFile(p)
  <2>0. /\ mine[p] \in Transactions \cup {NoTransaction}
        /\ todo[p] \subseteq DOMAIN mine[p].reverse
        /\ mine[p].marks \in Marks
    BY <1>0, <1>8 DEF UndoFile, TypeOK, CallInv
  <2>m. cancel' \in Marks /\ (cancel.marker => cancel'.marker)
    BY <1>8, <2>0 DEF UndoFile, MarksAfterUndo, Marks, TypeOK
  <2>1. TypeOK'
    BY <1>0, <2>0, <2>m, <1>8 DEF UndoFile, TypeOK, Steps, Inside, Contents
  <2>2. MarksInv'
    BY <2>m, <1>8 DEF UndoFile, TypeOK, MarksInv
  <2>. QED  BY <1>c, <2>1, <2>2
<1>9. CASE Undone(p)
  <2>1. TypeOK'
    BY <1>0, <1>9 DEF Undone, Proper, EmptyLedger, TypeOK, Steps, Inside, Contents
  <2>2. MarksInv'
    BY <1>9 DEF Undone, TypeOK, MarksInv, EmptyLedger, NoTransaction
  <2>. QED  BY <1>c, <2>1, <2>2
<1>10. CASE UndoFails(p)
  <2>1. TypeOK'
    BY <1>0, <1>10 DEF UndoFails, TypeOK, Steps, Inside, Contents
  <2>2. MarksInv'
    BY <1>10 DEF UndoFails, TypeOK, MarksInv
  <2>. QED  BY <1>c, <2>1, <2>2
<1>11. CASE ReleaseLock(p) \/ Die(p)
  <2>0. robbed' \in BOOLEAN
    BY <1>11 DEF ReleaseLock, Unlink, Die, TypeOK
  <2>1. TypeOK'
    BY <2>0, <1>0, <1>11 DEF ReleaseLock, Unlink, Die, TypeOK, Steps, Inside, Contents
  <2>2. MarksInv'
    BY <1>11 DEF ReleaseLock, Unlink, Die, Alive, TypeOK, MarksInv, NoTransaction
  <2>. QED  BY <1>c, <2>1, <2>2
<1>. QED  BY <1>1, <1>2, <1>3, <1>4, <1>5, <1>6, <1>7, <1>8, <1>9, <1>10, <1>11

\* What they keep as long as nobody has been robbed.
LEMMA InsideStepExclusive ==
  ASSUME Kept, Exclusive, NEW p \in Processes,
         \/ Enter(p) \/ RefuseToPrepare(p) \/ Prepare(p) \/ Record(p) \/ WriteFile(p)
         \/ Commit(p) \/ Throw(p) \/ UndoFile(p) \/ Undone(p) \/ UndoFails(p)
         \/ ReleaseLock(p) \/ Die(p)
  PROVE  Exclusive'
<1>. USE ProcessAssumption, FileAssumption, NoTransactionEmpty DEF Kept, Goto
<1>0. \A t \in Transactions \cup {NoTransaction} :
        /\ DOMAIN t.reverse \subseteq Files
        /\ \A f \in DOMAIN t.reverse : t.reverse[f] \in Contents
        /\ t.marks \in Marks
  BY TransactionTyped
<1>1. CASE Enter(p)
  <2>1. LockInv'
    BY <1>1 DEF Enter, Proper, Interrupted, TypeOK, Exclusive, LockInv, Inside
  <2>2. LedgerInv'
    BY <1>1, Alone DEF Enter, Proper, Interrupted, Transactions, NoTransaction, TypeOK, Exclusive, LedgerInv, Inside
  <2>3. FilesInv'
    BY <1>0, <1>1, Alone DEF Enter, Proper, Interrupted, TypeOK, Exclusive, FilesInv, Inside
  <2>. QED  BY <2>1, <2>2, <2>3 DEF Exclusive
<1>2. CASE RefuseToPrepare(p)
  <2>1. LockInv'
    BY <1>2 DEF RefuseToPrepare, TypeOK, Exclusive, LockInv, Inside
  <2>2. LedgerInv'
    BY <1>2, Alone DEF RefuseToPrepare, TypeOK, Exclusive, LedgerInv, Inside
  <2>3. FilesInv'
    BY <1>0, <1>2, Alone DEF RefuseToPrepare, TypeOK, Exclusive, FilesInv, Inside
  <2>. QED  BY <2>1, <2>2, <2>3 DEF Exclusive
<1>3. CASE Prepare(p)
  <2>. DEFINE t == [by |-> p, reverse |-> [f \in wants[p] |-> files[f]], marks |-> cancel]
  <2>0. t \in Transactions /\ DOMAIN t.reverse = wants[p]
    <3>1. [f \in wants[p] |-> files[f]] \in UNION {[S -> Contents] : S \in SUBSET Files}
      <4>1. wants[p] \in SUBSET Files
        BY DEF TypeOK
      <4>2. [f \in wants[p] |-> files[f]] \in [wants[p] -> Contents]
        BY <4>1 DEF TypeOK
      <4>. QED  BY <4>1, <4>2
    <3>. QED  BY <3>1 DEF Transactions, TypeOK
  <2>1. LockInv'
    BY <1>3 DEF Prepare, TypeOK, Exclusive, LockInv, Inside
  <2>2. LedgerInv'
    BY <1>3, Alone DEF Prepare, TypeOK, Exclusive, LedgerInv, Inside
  <2>3. FilesInv'
    BY <2>0, <1>3, Alone DEF Prepare, TypeOK, Exclusive, FilesInv, Inside
  <2>. QED  BY <2>1, <2>2, <2>3 DEF Exclusive
<1>4. CASE Record(p)
  <2>1. LockInv'
    BY <1>4 DEF Record, TypeOK, Exclusive, LockInv, Inside
  <2>2. LedgerInv'
    BY <1>4, Alone DEF Record, TypeOK, Exclusive, LedgerInv, Inside
  <2>3. FilesInv'
    BY <1>0, <1>4, Alone DEF Record, TypeOK, Exclusive, FilesInv, Inside
  <2>. QED  BY <2>1, <2>2, <2>3 DEF Exclusive
<1>5. CASE WriteFile(p)
  <2>1. LockInv'
    BY <1>5 DEF WriteFile, TypeOK, Exclusive, LockInv, Inside
  <2>2. LedgerInv'
    BY <1>5, Alone DEF WriteFile, TypeOK, Exclusive, LedgerInv, Inside
  <2>3. FilesInv'
    BY <1>0, <1>5, Alone DEF WriteFile, TypeOK, Exclusive, FilesInv, Inside
  <2>. QED  BY <2>1, <2>2, <2>3 DEF Exclusive
<1>6. CASE Commit(p)
  <2>1. LockInv'
    BY <1>6 DEF Commit, TypeOK, Exclusive, LockInv, Inside
  <2>2. LedgerInv'
    BY <1>6, Alone DEF Commit, TypeOK, Exclusive, LedgerInv, Inside
  <2>3. FilesInv'
    BY <1>0, <1>6, Alone DEF Commit, TypeOK, Exclusive, FilesInv, Inside
  <2>. QED  BY <2>1, <2>2, <2>3 DEF Exclusive
<1>7. CASE Throw(p)
  <2>1. LockInv'
    BY <1>7 DEF Throw, TypeOK, Exclusive, LockInv, Inside
  <2>2. LedgerInv'
    BY <1>7, Alone DEF Throw, TypeOK, Exclusive, LedgerInv, Inside
  <2>3. FilesInv'
    BY <1>0, <1>7, Alone DEF Throw, TypeOK, Exclusive, FilesInv, Inside
  <2>. QED  BY <2>1, <2>2, <2>3 DEF Exclusive
<1>8. CASE UndoFile(p)
  <2>0. /\ mine[p] \in Transactions \cup {NoTransaction}
        /\ todo[p] \subseteq DOMAIN mine[p].reverse
    BY <1>8 DEF UndoFile, TypeOK, CallInv
  <2>1. LockInv'
    BY <1>8 DEF UndoFile, TypeOK, Exclusive, LockInv, Inside
  <2>2. LedgerInv'
    BY <1>8, Alone DEF UndoFile, TypeOK, Exclusive, LedgerInv, Inside
  <2>3. FilesInv'
    BY <1>0, <2>0, <1>8, Alone DEF UndoFile, TypeOK, Exclusive, FilesInv, Inside
  <2>. QED  BY <2>1, <2>2, <2>3 DEF Exclusive
<1>9. CASE Undone(p)
  <2>1. LockInv'
    BY <1>9 DEF Undone, Proper, EmptyLedger, TypeOK, Exclusive, LockInv, Inside
  <2>2. LedgerInv'
    BY <1>9, Alone DEF Undone, Proper, EmptyLedger, TypeOK, Exclusive, LedgerInv, Inside
  <2>3. FilesInv'
    BY <1>0, <1>9, Alone DEF Undone, Proper, EmptyLedger, TypeOK, Exclusive, FilesInv, Inside
  <2>. QED  BY <2>1, <2>2, <2>3 DEF Exclusive
<1>10. CASE UndoFails(p)
  <2>1. LockInv'
    BY <1>10 DEF UndoFails, TypeOK, Exclusive, LockInv, Inside
  <2>2. LedgerInv'
    BY <1>10, Alone DEF UndoFails, TypeOK, Exclusive, LedgerInv, Inside
  <2>3. FilesInv'
    BY <1>0, <1>10, Alone DEF UndoFails, TypeOK, Exclusive, FilesInv, Inside
  <2>. QED  BY <2>1, <2>2, <2>3 DEF Exclusive
<1>11. CASE ReleaseLock(p) \/ Die(p)
  <2>1. LockInv'
    BY <1>11 DEF ReleaseLock, Unlink, Die, Alive, TypeOK, Exclusive, LockInv, Inside
  <2>2. LedgerInv'
    BY <1>11, Alone DEF ReleaseLock, Unlink, Die, Alive, TypeOK, Exclusive, LedgerInv, Inside
  <2>3. FilesInv'
    BY <1>0, <1>11, Alone DEF ReleaseLock, Unlink, Die, Alive, TypeOK, Exclusive, FilesInv, Inside
  <2>. QED  BY <2>1, <2>2, <2>3 DEF Exclusive
<1>. QED  BY <1>1, <1>2, <1>3, <1>4, <1>5, <1>6, <1>7, <1>8, <1>9, <1>10, <1>11

LEMMA CancelInv ==
  ASSUME Inv, OperatorCancels
  PROVE  Inv'
BY DEF OperatorCancels, Inv, Kept, Exclusive, TypeOK, LockInv, LedgerInv, FilesInv, CallInv,
   MarksInv, Marks

LEMMA StepInv == Inv /\ [Next]_vars => Inv'
<1>. SUFFICES ASSUME Inv, [Next]_vars PROVE Inv'
  OBVIOUS
<1>1. CASE UNCHANGED vars
  BY <1>1
  DEF vars, Inv, Kept, Exclusive, TypeOK, LockInv, LedgerInv, FilesInv, CallInv, MarksInv
<1>2. ASSUME NEW p \in Processes,
             \/ Enter(p) \/ RefuseToPrepare(p) \/ Prepare(p) \/ Record(p) \/ WriteFile(p)
             \/ Commit(p) \/ Throw(p) \/ UndoFile(p) \/ Undone(p) \/ UndoFails(p)
             \/ ReleaseLock(p) \/ Die(p)
      PROVE  Inv'
  <2>1. robbed => robbed'
    BY <1>2 DEF Enter, RefuseToPrepare, Prepare, Record, WriteFile, Commit, Throw, UndoFile,
       Undone, UndoFails, ReleaseLock, Unlink, Die
  <2>. QED  BY <1>2, <2>1, InsideStepKept, InsideStepExclusive DEF Inv
<1>. QED  BY <1>1, <1>2, OutsideStepInv, CancelInv DEF Next, Proceed

\* Until a live owner has been robbed of its lock, no second process is inside, and
\* what the one inside changes it can undo.
THEOREM OneTransactionAtATime == Spec => []OneTransaction
<1>1. Inv => OneTransaction
  BY DEF Inv, Exclusive, LockInv, LedgerInv, OneTransaction, Inside
<1>. QED  BY InitInv, StepInv, <1>1, PTL DEF Spec

-----------------------------------------------------------------------------

LEMMA InitAtomic ==
  ASSUME Init
  PROVE  Atomic!Init
BY NoTransactionEmpty DEF Init, Atomic!Init, Settled

\* Only the ledger and the files under it make up the settled files.
LEMMA SettledUnchanged ==
  ASSUME ledger' = ledger, files' = files
  PROVE  Settled' = Settled
BY DEF Settled

LEMMA StepAtomic ==
  ASSUME Inv, Inv', [Next]_vars
  PROVE  [Atomic!Next]_(Atomic!vars)
<1>. USE DEF Goto
<1>r. CASE robbed'
  <2>1. cancel.marker => cancel'.marker
    <3>1. CASE \E p \in Processes : UndoFile(p)
      <4>. PICK p \in Processes : UndoFile(p)
        BY <3>1
      <4>1. mine[p].marks \in Marks /\ cancel \in Marks
        BY TransactionTyped DEF Inv, Kept, TypeOK
      <4>. QED  BY <4>1 DEF UndoFile, MarksAfterUndo, Marks
    <3>2. CASE ~\E p \in Processes : UndoFile(p)
      BY <3>2
      DEF Next, Proceed, Call, CreateLock, Collide, Judge, RemoveLock, Wait, TimeOut, Enter,
          RefuseToPrepare, Prepare, Record, WriteFile, Commit, Throw, Undone, UndoFails,
          ReleaseLock, Die, OperatorCancels, vars
    <3>. QED  BY <3>1, <3>2
  <2>. QED  BY <1>r, <2>1 DEF Atomic!Next, Atomic!Overlap
<1>. SUFFICES ASSUME ~robbed' PROVE [Atomic!Next]_(Atomic!vars)
  BY <1>r
<1>x. ~robbed
  BY DEF Next, Proceed, Call, CreateLock, Collide, Judge, RemoveLock, Unlink, Wait, TimeOut,
     Enter, RefuseToPrepare, Prepare, Record, WriteFile, Commit, Throw, UndoFile, Undone,
     UndoFails, ReleaseLock, Die, OperatorCancels, vars
<1>y. UNCHANGED robbed
  BY <1>x DEF Inv, Kept, TypeOK
<1>k. Kept /\ Exclusive
  BY <1>x DEF Inv
<1>. HIDE DEF Inv
<1>c. CASE UNCHANGED vars
  BY <1>c, SettledUnchanged, <1>y DEF vars, Atomic!vars
<1>d. CASE OperatorCancels
  <2>1. Settled' = Settled
    BY <1>d, SettledUnchanged DEF OperatorCancels
  <2>2. Atomic!Cancel
    BY <1>d, <2>1, <1>y DEF OperatorCancels, Atomic!Cancel
  <2>. QED  BY <2>2 DEF Atomic!Next
<1>e. ASSUME NEW p \in Processes,
             Call(p) \/ Proceed(p) \/ UndoFails(p) \/ Die(p)
      PROVE  [Atomic!Next]_(Atomic!vars)
  <2>1. CASE Call(p)
    <3>1. Settled' = Settled
      BY <2>1, SettledUnchanged DEF Call
    <3>2. wants[p] = {}
      BY <1>k, <2>1 DEF Call, Kept, CallInv
    <3>3. PICK S \in SUBSET Files : wants' = [wants EXCEPT ![p] = S]
      BY <2>1, FileAssumption DEF Call
    <3>4. UNCHANGED <<cancel, robbed>>
      BY <2>1 DEF Call
    <3>5. Atomic!Ask(p, S)
      BY <3>1, <3>2, <3>3, <3>4 DEF Atomic!Ask
    <3>. QED  BY <3>5 DEF Atomic!Next
  <2>2. CASE TimeOut(p) \/ ReleaseLock(p) \/ Die(p)
    <3>1. Settled' = Settled
      BY <2>2, SettledUnchanged DEF TimeOut, ReleaseLock, Die
    <3>2. Atomic!End(p)
      BY <2>2, <3>1, <1>y DEF TimeOut, ReleaseLock, Die, Atomic!End
    <3>. QED  BY <3>2 DEF Atomic!Next
  <2>3. CASE CreateLock(p) \/ Collide(p) \/ Judge(p) \/ RemoveLock(p) \/ Wait(p) \/ Enter(p)
             \/ RefuseToPrepare(p) \/ Prepare(p) \/ Throw(p) \/ UndoFails(p)
    BY <1>y, <2>3, SettledUnchanged DEF CreateLock, Collide, Judge, RemoveLock, Wait, Enter,
       RefuseToPrepare, Prepare, Throw, UndoFails, Atomic!vars
  <2>4. CASE Record(p)
    <3>1. ledger = NoTransaction /\ \A f \in DOMAIN mine[p].reverse : mine[p].reverse[f] = files[f]
      BY <1>k, <2>4 DEF Record, Exclusive, LedgerInv, FilesInv
    <3>2. Settled' = Settled
      BY <2>4, <3>1, NoTransactionEmpty DEF Record, Settled
    <3>. QED  BY <2>4, <3>2, <1>y DEF Record, Atomic!vars
  <2>5. CASE WriteFile(p)
    <3>1. ledger = mine[p] /\ todo[p] \subseteq DOMAIN ledger.reverse
      BY <1>k, <2>5 DEF WriteFile, Kept, Exclusive, TypeOK, LedgerInv
    <3>2. PICK f \in todo[p] : files' = [files EXCEPT ![f] = p]
      BY <2>5 DEF WriteFile
    <3>3. Settled' = Settled
      BY <1>k, <2>5, <3>1, <3>2 DEF WriteFile, Settled, Kept, TypeOK
    <3>. QED  BY <2>5, <3>3, <1>y DEF WriteFile, Atomic!vars
  <2>6. CASE Commit(p)
    <3>1. /\ ledger = mine[p] /\ todo[p] = {}
          /\ DOMAIN ledger.reverse = wants[p]
          /\ \A f \in wants[p] : files[f] = p
      BY <1>k, <2>6 DEF Commit, MayCommit, Exclusive, LedgerInv, FilesInv
    <3>2. Settled' = [f \in Files |-> IF f \in wants[p] THEN p ELSE Settled[f]]
      BY <1>k, <2>6, <3>1, NoTransactionEmpty DEF Commit, Settled, Kept, TypeOK
    <3>3. Atomic!TakeEffect(p)
      BY <2>6, <3>2, <1>y DEF Commit, Atomic!TakeEffect
    <3>. QED  BY <3>3 DEF Atomic!Next
  <2>7. CASE UndoFile(p)
    <3>1. ledger = mine[p] /\ todo[p] \subseteq DOMAIN ledger.reverse
      BY <1>k, <2>7 DEF UndoFile, Kept, Exclusive, CallInv, LedgerInv
    <3>2. PICK f \in todo[p] : /\ files' = [files EXCEPT ![f] = mine[p].reverse[f]]
                               /\ cancel' = IF f = StateJson THEN MarksAfterUndo(p) ELSE cancel
      BY <2>7 DEF UndoFile
    <3>3. Settled' = Settled
      BY <1>k, <2>7, <3>1, <3>2 DEF UndoFile, Settled, Kept, TypeOK
    <3>4. cancel'.marker = cancel.marker
      <4>1. /\ mine[p].marks \in Marks /\ cancel \in Marks
            /\ mine[p].marks.marker => cancel.marker
        BY <1>k, TransactionTyped DEF Kept, TypeOK, MarksInv
      <4>2. MarksAfterUndo(p).marker = cancel.marker
        BY <4>1 DEF MarksAfterUndo, Marks
      <4>. QED  BY <3>2, <4>2
    <3>. QED  BY <2>7, <3>3, <3>4, <1>y DEF UndoFile, Atomic!vars
  <2>8. CASE Undone(p)
    <3>1. ledger = mine[p] /\ \A f \in DOMAIN ledger.reverse : files[f] = ledger.reverse[f]
      BY <1>k, <2>8 DEF Undone, Exclusive, LedgerInv, FilesInv
    <3>2. Settled' = Settled
      BY <1>k, <2>8, <3>1, NoTransactionEmpty DEF Undone, EmptyLedger, Settled, Kept, TypeOK
    <3>. QED  BY <2>8, <3>2, <1>y DEF Undone, Atomic!vars
  <2>. QED
    BY <1>e, <2>1, <2>2, <2>3, <2>4, <2>5, <2>6, <2>7, <2>8 DEF Proceed
<1>. QED  BY <1>c, <1>d, <1>e DEF Next

\* The files a call asks for change all at once or not at all, whoever dies where,
\* until a live owner has been robbed of its lock; no undo ever takes back a
\* cancellation.
THEOREM TransactionsAreAtomic == Spec => ImplementsAtomicFiles
<1>1. Init => Atomic!Init
  BY InitAtomic
<1>2. Inv /\ Inv' /\ [Next]_vars => [Atomic!Next]_(Atomic!vars)
  BY StepAtomic
<1>. QED
  BY InitInv, StepInv, <1>1, <1>2, PTL DEF Spec, ImplementsAtomicFiles, Atomic!Spec

=============================================================================
