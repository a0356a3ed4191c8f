------------------------- MODULE DurabilityProofs -------------------------
(***************************************************************************)
(* What no crash, interruption or other writer takes away again: the       *)
(* update of a state file a writer reported (StateFile), for any number of *)
(* processes, files and deaths, and the changes an attempt of a ticket has *)
(* made (WorkerAttempt), for any changes, any scope and any number of      *)
(* attempts, interruptions and commits.                                    *)
(*                                                                         *)
(* Of a file, what the lock and the recovery of temporary files guarantee  *)
(* to writers and lock-free readers that die anywhere.  A contender may    *)
(* remove the lock of a live owner; what holds regardless is kept apart    *)
(* from what holds until then.                                             *)
(*                                                                         *)
(* Of an attempt one invariant carries three results.  It says what each   *)
(* position may rely on: the work tree grows from the boundary to the      *)
(* gate, the gate's tree stays until Done, everything is anchored before   *)
(* the rollback removes it, and an attempt that was neither interrupted    *)
(* nor left for recovery began at the accepted repository.                 *)
(***************************************************************************)
EXTENDS StateFile, WorkerAttempt, FiniteSetTheorems, TLAPS

-----------------------------------------------------------------------------
(* State files.                                                            *)

\* A writer between opening the lock file and removing it.
Holds(p) == p \in Writers /\ pc[p] \in Critical \cup {"fill"}

\* The lock file is its holder's unless that was robbed.
LockIsHolders == \A p \in Processes : Holds(p) /\ p \notin robbed => lock.owner = p

\* A read promotes temporary files of the dead only.
FoundDead ==
  \A p \in Processes :
    /\ p \in Readers => pc[p] \in {"idle", "read", "scan", "promote"}
    /\ pc[p] = "scan" => seen[p].winner = NoProcess
    /\ pc[p] = "promote" /\ seen[p].winner # NoProcess => pc[seen[p].winner] = "dead"

\* What holds whoever was robbed.
Kept == TypeOK /\ LockIsHolders /\ FoundDead

\* There is one temporary file at most; it is not older than the file and has every
\* update that returned.
OneTmp ==
  /\ base.mtime <= clock
  /\ \A q \in Processes : tmp[q].present =>
       base.mtime <= tmp[q].mtime /\ tmp[q].mtime <= clock /\ done \subseteq tmp[q].updates
  /\ \A q, r \in Processes : tmp[q].present /\ tmp[r].present => q = r

NoTmp == \A q \in Processes : ~tmp[q].present

\* What a lock holder carries from its read to its rename has every update that returned,
\* and no temporary file outlives its promotion.
CarriesReturned ==
  \A p \in Writers :
    /\ pc[p] \in {"scan", "promote", "write"} => done \subseteq seen[p].updates
    /\ pc[p] = "promote" =>
         \A q \in Processes : tmp[q].present => q = seen[p].winner
    /\ pc[p] \in {"write", "release"} => NoTmp
    /\ pc[p] = "rename" => tmp[p].present /\ p \in tmp[p].updates
    /\ pc[p] = "release" => p \in base.updates

Safe == OneTmp /\ CarriesReturned /\ done \subseteq base.updates

Inv == Kept /\ (robbed = {} => Safe)

Locks == [owner : Processes \cup {NoProcess}, filled : BOOLEAN, old : BOOLEAN]
Temps == [updates : SUBSET Writers, mtime : Nat, present : BOOLEAN]
Seens == [updates : SUBSET Writers, winner : Processes \cup {NoProcess}]

LEMMA InitInv == Init => Inv
<1>. SUFFICES ASSUME Init PROVE Inv
  OBVIOUS
<1>1. TypeOK
  BY DEF Init, TypeOK, NoLock, NoFile, NothingSeen, Files, Steps
<1>2. LockIsHolders /\ FoundDead
  BY DEF Init, LockIsHolders, FoundDead, Holds, Critical
<1>3. Safe
  BY DEF Init, Safe, OneTmp, CarriesReturned, NoFile, Processes
<1>. QED  BY <1>1, <1>2, <1>3 DEF Inv, Kept

\* As long as nobody was robbed there is one holder.
LEMMA OneHolder ==
  ASSUME Kept, robbed = {}, NEW p \in Processes, Holds(p), NEW q \in Processes, Holds(q)
  PROVE  p = q
BY DEF Kept, LockIsHolders

\* Only a dead process leaves a temporary file behind, and until a robbery none is
\* discarded.
LEMMA OrphansRecoverable ==
  ASSUME Kept, OneTmp
  PROVE  Recoverable = Orphans
BY DEF Kept, TypeOK, OneTmp, Orphans, Recoverable, Files

LEMMA OrphansDead ==
  ASSUME Kept, NEW q \in Orphans
  PROVE  q \in Processes /\ pc[q] = "dead" /\ tmp[q].present
BY DEF Kept, TypeOK, Orphans, Alive

\* A holder that scans sees every temporary file there is.
LEMMA HolderSeesAll ==
  ASSUME Kept, robbed = {}, NEW p \in Writers, pc[p] = "scan",
         NEW q \in Processes, tmp[q].present
  PROVE  q \in Orphans
<1>1. Holds(p) /\ Writers \subseteq Processes
  BY DEF Holds, Critical, Processes
<1>2. pc[q] \in {"rename", "dead"}
  BY DEF Kept, TypeOK
<1>3. pc[q] = "rename" => Holds(q)
  BY DEF Kept, FoundDead, Holds, Critical, Processes
<1>4. Holds(q) => q = p
  BY <1>1, OneHolder
<1>. QED  BY <1>2, <1>3, <1>4 DEF Orphans, Alive

LEMMA ScanKept ==
  ASSUME Kept, NEW p \in Processes, Scan(p)
  PROVE  Kept'
<1>0. /\ pc[p] = "scan" /\ pc' = [pc EXCEPT ![p] = "promote"]
      /\ UNCHANGED <<lock, base, clock, done, robbed>>
      /\ tmp \in [Processes -> Temps] /\ seen \in [Processes -> Seens]
  BY DEF Scan, Goto, Kept, TypeOK, Temps, Seens
<1>1. /\ tmp' \in [Processes -> Temps]
      /\ \A q \in Processes : tmp'[q].present => tmp[q].present
  BY <1>0 DEF Scan, NoFile, Temps
<1>2. \/ seen' = seen
      \/ \E q \in Orphans : seen' = [seen EXCEPT ![p].winner = q]
  BY DEF Scan, Recoverable
<1>3. NoProcess \notin Processes /\ pc[p] # "dead"
  BY <1>0, ProcessAssumption
<1>4. /\ seen' \in [Processes -> Seens]
      /\ \A q \in Processes : q # p => seen'[q] = seen[q]
      /\ seen'[p].winner # NoProcess => pc[seen'[p].winner] = "dead"
  <2>1. CASE seen' = seen
    BY <1>0, <2>1 DEF Kept, FoundDead
  <2>2. ASSUME NEW q \in Orphans, seen' = [seen EXCEPT ![p].winner = q]
        PROVE  /\ seen' \in [Processes -> Seens]
               /\ \A r \in Processes : r # p => seen'[r] = seen[r]
               /\ seen'[p].winner # NoProcess => pc[seen'[p].winner] = "dead"
    BY <1>0, <2>2, OrphansDead DEF Seens
  <2>. QED  BY <1>2, <2>1, <2>2
<1>5. TypeOK'
  BY <1>0, <1>1, <1>4 DEF Kept, TypeOK, Steps, Temps, Seens, Critical
<1>6. LockIsHolders'
  BY <1>0 DEF Kept, TypeOK, LockIsHolders, Holds, Critical
<1>7. FoundDead'
  <2>1. ASSUME NEW q \in Processes, q # p
        PROVE  /\ q \in Readers => pc'[q] \in {"idle", "read", "scan", "promote"}
               /\ pc'[q] = "scan" => seen'[q].winner = NoProcess
               /\ pc'[q] = "promote" /\ seen'[q].winner # NoProcess =>
                    pc'[seen'[q].winner] = "dead"
    BY <1>0, <1>3, <1>4, <2>1 DEF Kept, TypeOK, FoundDead
  <2>2. pc'[p] = "promote" /\ (seen'[p].winner # NoProcess => pc'[seen'[p].winner] = "dead")
    BY <1>0, <1>3, <1>4 DEF Kept, TypeOK
  <2>. QED  BY <2>1, <2>2 DEF FoundDead
<1>. QED  BY <1>5, <1>6, <1>7 DEF Kept

LEMMA ScanSafe ==
  ASSUME Kept, Safe, robbed = {}, NEW p \in Processes, Scan(p)
  PROVE  Safe'
<1>0. /\ pc[p] = "scan" /\ pc' = [pc EXCEPT ![p] = "promote"]
      /\ UNCHANGED <<lock, base, clock, done, robbed>>
      /\ seen \in [Processes -> Seens] /\ Writers \subseteq Processes
  BY DEF Scan, Goto, Kept, TypeOK, Seens, Processes
<1>1. tmp' = tmp /\ Recoverable = Orphans
  BY OrphansRecoverable DEF Scan, Promotes, Kept, TypeOK, Safe
<1>2. \/ Orphans = {} /\ seen' = seen
      \/ \E q \in Orphans : seen' = [seen EXCEPT ![p].winner = q]
  BY <1>1 DEF Scan, Promotes
<1>3. /\ \A q \in Writers : q # p => seen'[q] = seen[q] /\ pc'[q] = pc[q]
      /\ pc'[p] = "promote" /\ seen'[p].updates = seen[p].updates
  BY <1>0, <1>2 DEF Kept, TypeOK, Seens
<1>4. ASSUME p \in Writers, NEW q \in Processes, tmp[q].present
      PROVE  q = seen'[p].winner
  <2>1. q \in Orphans
    BY <1>0, <1>4, HolderSeesAll
  <2>2. PICK r \in Orphans : seen' = [seen EXCEPT ![p].winner = r]
    BY <1>2, <2>1
  <2>3. r = q
    BY <1>4, <2>2, OrphansDead DEF Safe, OneTmp
  <2>. QED  BY <1>0, <2>2, <2>3 DEF Seens
<1>5. OneTmp' /\ done' \subseteq base'.updates
  BY <1>0, <1>1 DEF Safe, OneTmp
<1>6. CarriesReturned'
  BY <1>0, <1>1, <1>3, <1>4 DEF Safe, CarriesReturned, NoTmp
<1>. QED  BY <1>5, <1>6 DEF Safe

LEMMA PromoteKept ==
  ASSUME Kept, NEW p \in Processes, Promote(p)
  PROVE  Kept'
<1>. DEFINE q == seen[p].winner
<1>0. /\ pc[p] = "promote" /\ UNCHANGED <<lock, clock, done, robbed>>
      /\ pc' = [pc EXCEPT ![p] = IF p \in Writers THEN "write" ELSE "idle"]
      /\ tmp \in [Processes -> Temps] /\ seen \in [Processes -> Seens]
      /\ q \in Processes \cup {NoProcess}
  BY DEF Promote, Goto, Kept, TypeOK, Temps, Seens
<1>1. /\ base' \in Files /\ tmp' \in [Processes -> Temps] /\ seen' \in [Processes -> Seens]
      /\ \A r \in Processes : /\ tmp'[r].present => tmp[r].present
                              /\ seen'[r].winner = seen[r].winner
  <2>1. CASE q # NoProcess /\ tmp[q].present
    <3>1. /\ base' = [updates |-> tmp[q].updates, mtime |-> tmp[q].mtime]
          /\ tmp' = [tmp EXCEPT ![q] = NoFile]
          /\ seen' = [seen EXCEPT ![p].updates = tmp[q].updates]
      BY <2>1 DEF Promote
    <3>2. tmp[q] \in Temps /\ NoFile \in Temps /\ ~NoFile.present
      BY <1>0, <2>1 DEF NoFile, Temps
    <3>3. base' \in Files /\ seen' \in [Processes -> Seens]
          /\ \A r \in Processes : seen'[r].winner = seen[r].winner
      BY <1>0, <3>1, <3>2 DEF Temps, Seens, Files
    <3>4. tmp' \in [Processes -> Temps] /\ \A r \in Processes : tmp'[r].present => tmp[r].present
      BY <1>0, <3>1, <3>2
    <3>. QED  BY <3>3, <3>4
  <2>2. CASE ~(q # NoProcess /\ tmp[q].present)
    BY <1>0, <2>2 DEF Promote, Kept, TypeOK
  <2>. QED  BY <2>1, <2>2
<1>2. /\ pc' \in [Processes -> Steps] /\ \A r \in Processes : r # p => pc'[r] = pc[r]
      /\ pc'[p] = IF p \in Writers THEN "write" ELSE "idle"
  BY <1>0 DEF Kept, TypeOK, Steps, Critical
<1>3. Writers \cap Readers = {} /\ Processes = Writers \cup Readers
  BY ProcessAssumption DEF Processes
<1>4. TypeOK'
  BY <1>0, <1>1, <1>2 DEF Kept, TypeOK, Temps, Seens
<1>5. LockIsHolders'
  BY <1>0, <1>2 DEF Kept, LockIsHolders, Holds, Critical
<1>6. FoundDead'
  BY <1>0, <1>1, <1>2, <1>3, ProcessAssumption DEF Kept, TypeOK, FoundDead, Seens
<1>. QED  BY <1>4, <1>5, <1>6 DEF Kept

LEMMA PromoteSafe ==
  ASSUME Kept, Safe, robbed = {}, NEW p \in Processes, Promote(p)
  PROVE  Safe'
<1>. DEFINE q == seen[p].winner
<1>0. /\ pc[p] = "promote" /\ UNCHANGED <<lock, clock, done, robbed>>
      /\ pc' = [pc EXCEPT ![p] = IF p \in Writers THEN "write" ELSE "idle"]
      /\ tmp \in [Processes -> Temps] /\ seen \in [Processes -> Seens]
      /\ q \in Processes \cup {NoProcess} /\ Writers \subseteq Processes
  BY DEF Promote, Goto, Kept, TypeOK, Temps, Seens, Processes
<1>1. /\ \A r \in Processes : r # p => pc'[r] = pc[r]
      /\ pc'[p] = IF p \in Writers THEN "write" ELSE "idle"
  BY <1>0 DEF Kept, TypeOK
<1>2. CASE q # NoProcess /\ tmp[q].present
  <2>1. /\ base' = [updates |-> tmp[q].updates, mtime |-> tmp[q].mtime]
        /\ tmp' = [tmp EXCEPT ![q] = NoFile]
        /\ seen' = [seen EXCEPT ![p].updates = tmp[q].updates]
    BY <1>2 DEF Promote
  <2>2. q \in Processes /\ q # p /\ pc[q] = "dead" /\ done \subseteq tmp[q].updates
    BY <1>0, <1>2 DEF Kept, FoundDead, Safe, OneTmp
  <2>3. \A r \in Processes : ~tmp'[r].present
    BY <1>0, <1>2, <2>1, <2>2 DEF Safe, OneTmp, NoFile
  <2>4. OneTmp' /\ done' \subseteq base'.updates
    BY <1>0, <1>2, <2>1, <2>2, <2>3 DEF Safe, OneTmp
  <2>5. ASSUME NEW r \in Writers, r # p
        PROVE  /\ seen'[r] = seen[r] /\ pc'[r] = pc[r]
               /\ pc[r] \notin {"write", "rename", "release"}
    BY <1>0, <1>1, <1>2, <2>1, <2>2, <2>5 DEF Safe, CarriesReturned, NoTmp, OneTmp
  <2>6. p \in Writers => pc'[p] = "write" /\ done' \subseteq seen'[p].updates
    BY <1>0, <1>1, <2>1, <2>2 DEF Seens
  <2>7. CarriesReturned'
    BY <1>0, <2>3, <2>5, <2>6 DEF Safe, CarriesReturned, NoTmp
  <2>. QED  BY <2>4, <2>7 DEF Safe
<1>3. CASE ~(q # NoProcess /\ tmp[q].present)
  <2>1. UNCHANGED <<base, seen, tmp>>
    BY <1>3 DEF Promote
  <2>2. p \in Writers => NoTmp
    BY <1>0, <1>3, ProcessAssumption DEF Safe, CarriesReturned, NoTmp
  <2>3. OneTmp' /\ done' \subseteq base'.updates
    BY <1>0, <2>1 DEF Safe, OneTmp
  <2>4. CarriesReturned'
    BY <1>0, <1>1, <2>1, <2>2 DEF Safe, CarriesReturned, NoTmp
  <2>. QED  BY <2>3, <2>4 DEF Safe
<1>. QED  BY <1>2, <1>3

\* The steps on the lock file.
Locking(p) ==
  Start(p) \/ CreateLock(p) \/ Collide(p) \/ FillLock(p) \/ Judge(p) \/ JudgeAgain(p)
    \/ StealLock(p) \/ Retry(p) \/ TimeOut(p) \/ ReleaseLock(p) \/ Die(p)

LEMMA LockingKept ==
  ASSUME Kept, NEW p \in Processes, Locking(p)
  PROVE  Kept'
<1>0. NoProcess \notin Processes /\ Writers \cap Readers = {} /\ Processes = Writers \cup Readers
      /\ pc \in [Processes -> Steps] /\ lock \in Locks
  BY ProcessAssumption DEF Processes, Kept, TypeOK, Locks
<1>1. /\ UNCHANGED <<base, tmp, clock, seen>>
      /\ \A r \in Processes : r # p => pc'[r] = pc[r]
      /\ pc' \in [Processes -> Steps]
      /\ pc'[p] \notin {"scan", "promote"}
      /\ pc[p] # "dead" /\ (pc[p] = "rename" => pc'[p] = "dead")
      /\ p \in Readers => pc'[p] \in {"idle", "read"}
  BY <1>0 DEF Locking, Start, CreateLock, Collide, FillLock, Judge, JudgeAgain, StealLock, Retry,
     TimeOut, ReleaseLock, Die, Goto, Steps, Critical, Kept, FoundDead
<1>2. done' \subseteq Writers /\ robbed' \subseteq Processes /\ lock' \in Locks
  <2>1. NoLock \in Locks /\ [owner |-> p, filled |-> FALSE, old |-> FALSE] \in Locks
    BY DEF NoLock, Locks
  <2>2. [lock EXCEPT !.filled = TRUE] \in Locks
    BY <1>0 DEF Locks
  <2>3. lock' \in Locks
    BY <1>0, <2>1, <2>2
    DEF Locking, Start, CreateLock, Collide, FillLock, Judge, JudgeAgain, StealLock, Unlink,
        Retry, TimeOut, ReleaseLock, Die
  <2>4. pc[p] = "release" => p \in Writers
    BY <1>0 DEF Kept, FoundDead
  <2>5. robbed' \subseteq Processes
    <3>1. robbed' \subseteq robbed \cup ({lock.owner} \ {NoProcess})
      BY DEF Locking, Start, CreateLock, Collide, FillLock, Judge, JudgeAgain, StealLock, Unlink,
         Retry, TimeOut, ReleaseLock, Die
    <3>2. lock.owner \in Processes \cup {NoProcess} /\ robbed \subseteq Processes
      BY <1>0 DEF Locks, Kept, TypeOK
    <3>. QED  BY <3>1, <3>2
  <2>6. done' \subseteq Writers
    BY <2>4 DEF Locking, Start, CreateLock, Collide, FillLock, Judge, JudgeAgain, StealLock,
       Retry, TimeOut, ReleaseLock, Die, Kept, TypeOK
  <2>. QED  BY <2>3, <2>5, <2>6
<1>3. TypeOK'
  BY <1>1, <1>2 DEF Kept, TypeOK, Locks
<1>4. FoundDead'
  <2>1. ASSUME NEW r \in Processes, r # p
        PROVE  /\ r \in Readers => pc'[r] \in {"idle", "read", "scan", "promote"}
               /\ pc'[r] = "scan" => seen'[r].winner = NoProcess
               /\ pc'[r] = "promote" /\ seen'[r].winner # NoProcess =>
                    pc'[seen'[r].winner] = "dead"
    <3>1. seen[r].winner \in Processes \cup {NoProcess}
      BY DEF Kept, TypeOK
    <3>. QED  BY <1>1, <2>1, <3>1 DEF Kept, FoundDead
  <2>2. /\ p \in Readers => pc'[p] \in {"idle", "read", "scan", "promote"}
        /\ pc'[p] \notin {"scan", "promote"}
    BY <1>1
  <2>. QED  BY <2>1, <2>2 DEF FoundDead
<1>5. LockIsHolders'
  <2>1. CASE CreateLock(p)
    BY <1>0, <1>1, <2>1 DEF CreateLock, Creatable, NoLock, Goto, Kept, LockIsHolders, Holds
  <2>2. CASE FillLock(p)
    BY <1>0, <1>1, <2>2 DEF FillLock, Goto, Kept, LockIsHolders, Holds, Locks
  <2>3. CASE StealLock(p) \/ ReleaseLock(p)
    <3>1. ~Holds(p)'
      BY <1>0, <2>3 DEF StealLock, ReleaseLock, Goto, Holds, Critical
    <3>2. ASSUME NEW r \in Processes, Holds(r)', r \notin robbed' PROVE FALSE
      <4>1. r # p /\ Holds(r) /\ r \notin robbed
        BY <1>1, <2>3, <3>1, <3>2 DEF StealLock, ReleaseLock, Unlink, Holds
      <4>2. lock.owner = r /\ Alive(r)
        BY <4>1 DEF Kept, LockIsHolders, Holds, Critical, Alive
      <4>. QED  BY <1>0, <2>3, <3>2, <4>1, <4>2 DEF StealLock, ReleaseLock, Unlink
    <3>. QED  BY <3>2 DEF LockIsHolders
  <2>4. CASE Start(p) \/ Collide(p) \/ Judge(p) \/ JudgeAgain(p) \/ Retry(p) \/ TimeOut(p) \/ Die(p)
    BY <1>0, <1>1, <2>4
    DEF Start, Collide, Judge, JudgeAgain, Retry, TimeOut, Die, Goto, Kept, LockIsHolders,
        Holds, Critical
  <2>. QED  BY <2>1, <2>2, <2>3, <2>4 DEF Locking
<1>. QED  BY <1>3, <1>4, <1>5 DEF Kept

LEMMA LockingSafe ==
  ASSUME Kept, Safe, robbed = {}, NEW p \in Processes, Locking(p)
  PROVE  Safe'
<1>0. pc \in [Processes -> Steps] /\ Writers \subseteq Processes
  BY DEF Kept, TypeOK, Processes
<1>1. /\ UNCHANGED <<base, tmp, clock, seen>>
      /\ \A r \in Processes : r # p => pc'[r] = pc[r]
      /\ pc'[p] \notin {"scan", "promote", "write", "rename", "release"}
  BY <1>0 DEF Locking, Start, CreateLock, Collide, FillLock, Judge, JudgeAgain, StealLock, Retry,
     TimeOut, ReleaseLock, Die, Goto, Steps, Critical
<1>2. CASE ReleaseLock(p)
  <2>1. pc[p] = "release" /\ done' = done \cup {p}
    BY <1>2 DEF ReleaseLock
  <2>2. p \in Writers /\ Holds(p)
    BY <1>0, <2>1 DEF Kept, FoundDead, Processes, Holds, Critical
  <2>3. NoTmp /\ p \in base.updates
    BY <2>1, <2>2 DEF Safe, CarriesReturned
  <2>4. \A r \in Writers : r # p => pc[r] \notin Critical
    BY <1>0, <2>2, OneHolder DEF Holds
  <2>5. CarriesReturned'
    BY <1>0, <1>1, <2>4 DEF CarriesReturned, Critical
  <2>. QED  BY <1>1, <2>1, <2>3, <2>5 DEF Safe, OneTmp, NoTmp
<1>3. CASE ~ReleaseLock(p)
  <2>1. done' = done
    BY <1>3 DEF Locking, Start, CreateLock, Collide, FillLock, Judge, JudgeAgain, StealLock,
       Retry, TimeOut, Die
  <2>2. CarriesReturned'
    BY <1>0, <1>1, <2>1 DEF Safe, CarriesReturned, NoTmp
  <2>. QED  BY <1>1, <2>1, <2>2 DEF Safe, OneTmp
<1>. QED  BY <1>2, <1>3

\* The first half of a read.
LEMMA ReadInv ==
  ASSUME Kept, NEW p \in Processes, Read(p)
  PROVE  Kept' /\ (Safe /\ robbed = {} => Safe')
<1>0. /\ pc[p] = "read" /\ pc' = [pc EXCEPT ![p] = "scan"]
      /\ seen' = [seen EXCEPT ![p] = [updates |-> base.updates, winner |-> NoProcess]]
      /\ UNCHANGED <<lock, base, tmp, clock, done, robbed>>
      /\ Writers \subseteq Processes
  BY DEF Read, Goto, Processes
<1>1. TypeOK'
  BY <1>0 DEF Kept, TypeOK, Steps, Critical, Files
<1>2. LockIsHolders' /\ FoundDead'
  BY <1>0, ProcessAssumption DEF Kept, TypeOK, LockIsHolders, FoundDead, Holds, Critical
<1>3. Safe => Safe'
  BY <1>0 DEF Kept, TypeOK, Safe, OneTmp, CarriesReturned, NoTmp
<1>. QED  BY <1>1, <1>2, <1>3 DEF Kept

\* A writer with the lock writes its temporary file and renames it.
LEMMA WriteKept ==
  ASSUME Kept, NEW p \in Processes, WriteTmp(p) \/ Rename(p)
  PROVE  Kept'
<1>0. /\ p \in Writers /\ pc[p] \in {"write", "rename"}
      /\ tmp \in [Processes -> Temps] /\ seen \in [Processes -> Seens]
  BY DEF WriteTmp, Rename, Kept, FoundDead, TypeOK, Temps, Seens, Processes
<1>1. CASE WriteTmp(p)
  <2>. PICK t \in {clock, clock + 1} :
         /\ tmp' = [tmp EXCEPT ![p] = [updates |-> seen[p].updates \cup {p}, mtime |-> t,
                                       present |-> TRUE]]
         /\ clock' = t
    BY <1>1 DEF WriteTmp
  <2>1. /\ pc' = [pc EXCEPT ![p] = "rename"]
        /\ UNCHANGED <<lock, base, seen, done, robbed>> /\ t \in Nat
    BY <1>1 DEF WriteTmp, Goto, Kept, TypeOK
  <2>2. tmp' \in [Processes -> Temps] /\ (\A r \in Processes : r # p => tmp'[r] = tmp[r])
    BY <1>0, <2>1 DEF Temps, Seens
  <2>3. TypeOK'
    BY <1>0, <2>1, <2>2 DEF Kept, TypeOK, Temps, Steps, Critical
  <2>4. LockIsHolders' /\ FoundDead'
    BY <1>0, <2>1, ProcessAssumption
    DEF Kept, TypeOK, LockIsHolders, FoundDead, Holds, Critical
  <2>. QED  BY <2>3, <2>4 DEF Kept
<1>2. CASE Rename(p)
  <2>1. /\ pc' = [pc EXCEPT ![p] = "release"]
        /\ base' = [updates |-> tmp[p].updates, mtime |-> tmp[p].mtime]
        /\ tmp' = [tmp EXCEPT ![p] = NoFile]
        /\ UNCHANGED <<lock, clock, seen, done, robbed>>
    BY <1>2 DEF Rename, Goto
  <2>2. tmp' \in [Processes -> Temps] /\ (\A r \in Processes : r # p => tmp'[r] = tmp[r])
        /\ ~tmp'[p].present /\ base' \in Files
    BY <1>0, <2>1 DEF Temps, NoFile, Files
  <2>3. TypeOK'
    BY <1>0, <2>1, <2>2 DEF Kept, TypeOK, Temps, Steps, Critical
  <2>4. LockIsHolders' /\ FoundDead'
    BY <1>0, <2>1, ProcessAssumption
    DEF Kept, TypeOK, LockIsHolders, FoundDead, Holds, Critical
  <2>. QED  BY <2>3, <2>4 DEF Kept
<1>. QED  BY <1>1, <1>2

LEMMA WriteSafe ==
  ASSUME Kept, Safe, robbed = {}, NEW p \in Processes, WriteTmp(p) \/ Rename(p)
  PROVE  Safe'
<1>0. /\ p \in Writers /\ pc[p] \in {"write", "rename"} /\ Holds(p) /\ Writers \subseteq Processes
      /\ tmp \in [Processes -> Temps] /\ pc \in [Processes -> Steps]
      /\ clock \in Nat /\ base.mtime \in Nat
  BY DEF WriteTmp, Rename, Kept, FoundDead, TypeOK, Temps, Processes, Holds, Critical, Files
<1>1. \A r \in Writers : r # p => pc[r] \notin Critical
  BY <1>0, OneHolder DEF Holds
<1>2. CASE WriteTmp(p)
  <2>. PICK t \in {clock, clock + 1} :
         /\ tmp' = [tmp EXCEPT ![p] = [updates |-> seen[p].updates \cup {p}, mtime |-> t,
                                       present |-> TRUE]]
         /\ clock' = t
    BY <1>2 DEF WriteTmp
  <2>1. /\ pc[p] = "write" /\ pc' = [pc EXCEPT ![p] = "rename"]
        /\ UNCHANGED <<lock, base, seen, done, robbed>>
    BY <1>2 DEF WriteTmp, Goto
  <2>2. NoTmp /\ done \subseteq seen[p].updates
    BY <1>0, <2>1 DEF Safe, CarriesReturned
  <2>3. base.mtime <= t /\ t \in Nat
    BY <1>0 DEF Safe, OneTmp
  <2>4. /\ \A r \in Processes : r # p => pc'[r] = pc[r] /\ ~tmp'[r].present
        /\ pc'[p] = "rename" /\ tmp'[p].present /\ tmp'[p].mtime = t
        /\ tmp'[p].updates = seen[p].updates \cup {p}
    BY <1>0, <2>1, <2>2 DEF NoTmp
  <2>5. OneTmp' /\ done' \subseteq base'.updates
    BY <2>1, <2>2, <2>3, <2>4 DEF Safe, OneTmp
  <2>6. CarriesReturned'
    BY <1>0, <1>1, <2>1, <2>4 DEF CarriesReturned, Critical
  <2>. QED  BY <2>5, <2>6 DEF Safe
<1>3. CASE Rename(p)
  <2>1. /\ pc[p] = "rename" /\ pc' = [pc EXCEPT ![p] = "release"]
        /\ base' = [updates |-> tmp[p].updates, mtime |-> tmp[p].mtime]
        /\ tmp' = [tmp EXCEPT ![p] = NoFile]
        /\ UNCHANGED <<lock, clock, seen, done, robbed>>
    BY <1>3 DEF Rename, Goto
  <2>2. tmp[p].present /\ p \in tmp[p].updates /\ done \subseteq tmp[p].updates
        /\ tmp[p].mtime <= clock
    BY <1>0, <2>1 DEF Safe, CarriesReturned, OneTmp
  <2>3. \A r \in Processes : ~tmp'[r].present
    BY <1>0, <2>1, <2>2 DEF Safe, OneTmp, NoFile
  <2>4. OneTmp' /\ done' \subseteq base'.updates
    BY <2>1, <2>2, <2>3 DEF OneTmp
  <2>5. CarriesReturned'
    BY <1>0, <1>1, <2>1, <2>2, <2>3 DEF CarriesReturned, Critical, NoTmp
  <2>. QED  BY <2>4, <2>5 DEF Safe
<1>. QED  BY <1>2, <1>3

LEMMA AgeInv ==
  ASSUME Kept, AgeLock
  PROVE  Kept' /\ (Safe => Safe')
<1>1. /\ UNCHANGED <<base, tmp, clock, pc, seen, done, robbed>>
      /\ lock' = [lock EXCEPT !.old = TRUE]
  BY DEF AgeLock
<1>2. lock'.owner = lock.owner /\ lock' \in Locks
  BY <1>1 DEF Kept, TypeOK, Locks
<1>3. Kept'
  BY <1>1, <1>2 DEF Kept, TypeOK, Locks, LockIsHolders, Holds, FoundDead
<1>4. Safe => Safe'
  BY <1>1 DEF Safe, OneTmp, CarriesReturned, NoTmp
<1>. QED  BY <1>3, <1>4

LEMMA StepInv == Inv /\ [Next]_vars => Inv'
<1>. SUFFICES ASSUME Inv, [Next]_vars PROVE Inv'
  OBVIOUS
<1>0. Kept /\ (robbed = {} => Safe)
  BY DEF Inv
<1>1. CASE UNCHANGED vars
  BY <1>1 DEF vars, Inv, Kept, TypeOK, LockIsHolders, Holds, FoundDead, Safe, OneTmp,
              CarriesReturned, NoTmp
<1>2. ASSUME NEW p \in Processes, Locking(p)
      PROVE  Inv'
  <2>1. robbed \subseteq robbed'
    BY <1>2 DEF Locking, Start, CreateLock, Collide, FillLock, Judge, JudgeAgain, StealLock,
       Unlink, Retry, TimeOut, ReleaseLock, Die
  <2>2. Kept'
    BY <1>0, <1>2, LockingKept
  <2>3. robbed' = {} => Safe'
    BY <1>0, <1>2, <2>1, LockingSafe
  <2>. QED  BY <2>2, <2>3 DEF Inv
<1>3. ASSUME NEW p \in Processes, Read(p) \/ Scan(p) \/ Promote(p) \/ WriteTmp(p) \/ Rename(p)
      PROVE  Inv'
  <2>1. robbed' = robbed
    BY <1>3 DEF Read, Scan, Promote, WriteTmp, Rename
  <2>2. Kept'
    BY <1>0, <1>3, ReadInv, ScanKept, PromoteKept, WriteKept
  <2>3. robbed = {} => Safe'
    BY <1>0, <1>3, ReadInv, ScanSafe, PromoteSafe, WriteSafe
  <2>. QED  BY <2>1, <2>2, <2>3 DEF Inv
<1>4. CASE AgeLock
  <2>1. robbed' = robbed
    BY <1>4 DEF AgeLock
  <2>. QED  BY <1>0, <1>4, <2>1, AgeInv DEF Inv
<1>. QED  BY <1>1, <1>2, <1>3, <1>4 DEF Next, Proceed, Locking

\* With any number of writers, readers and deaths a second writer is let in only while a
\* live owner is robbed of its lock.
THEOREM LockExcludes == Spec => []MutualExclusion
<1>1. Inv => MutualExclusion
  BY DEF Inv, Kept, LockIsHolders, Holds, Inside, MutualExclusion, Processes
<1>. QED  BY InitInv, StepInv, <1>1, PTL DEF Spec

\* And until then no update that returned is lost, whichever writers die and whichever
\* leftovers readers promote, early or late.
THEOREM UpdatesSurvive == Spec => []NoLostUpdate
<1>1. Inv => NoLostUpdate
  BY DEF Inv, Safe, NoLostUpdate
<1>. QED  BY InitInv, StepInv, <1>1, PTL DEF Spec

-----------------------------------------------------------------------------
(* Attempts of a ticket.                                                   *)

Commits  == [tree : SUBSET Changes, by : {"none", "own", "other"}, id : Nat]
Advances == [phase : {"none", "started", "verified"}, base : Seq(Commits),
             vlog : Seq(Commits), vfiles : SUBSET Changes, paths : SUBSET Changes]

(* The part of type correctness that the trees need.                       *)
RepoTypes ==
  /\ log \in Seq(Commits) /\ boundary \in Seq(Commits) /\ advance \in Advances
  /\ files \in SUBSET Changes /\ cand.ids \in SUBSET Changes
  /\ made \in SUBSET Changes /\ approved \in SUBSET Changes /\ late \in SUBSET Changes
  /\ objects \in Nat
  /\ ctl = "amend" => log # <<>>

-----------------------------------------------------------------------------
(* Commits. *)

(* A commit on top of a history leaves its own tree.                       *)
LEMMA TreeOfAppend ==
  ASSUME NEW l \in Seq(Commits), NEW c \in Commits
  PROVE  Append(l, c) \in Seq(Commits) /\ TreeOf(Append(l, c)) = c.tree
BY DEF TreeOf

(* An amended history leaves the tree of the amended commit.               *)
LEMMA TreeOfAmended ==
  ASSUME NEW l \in Seq(Commits), l # <<>>, NEW n \in Nat, NEW t \in SUBSET Changes,
         NEW m, m = [l EXCEPT ![Len(l)] = [tree |-> t, by |-> "own", id |-> n]]
  PROVE  m \in Seq(Commits) /\ TreeOf(m) = t
<1> DEFINE c == [tree |-> t, by |-> "own", id |-> n]
<1>1. c \in Commits /\ c.tree = t
  BY DEF Commits
<1>2. m = [l EXCEPT ![Len(l)] = c] /\ Len(l) \in 1..Len(l)
  OBVIOUS
<1> HIDE DEF c
<1>3. m \in Seq(Commits) /\ Len(m) = Len(l) /\ m[Len(l)] = c
  BY <1>1, <1>2
<1>4. m # <<>>
  BY <1>2, <1>3
<1> QED
  BY <1>1, <1>3, <1>4 DEF TreeOf

(* A history leaves a tree of changes.                                     *)
LEMMA TreeInChanges ==
  ASSUME NEW l \in Seq(Commits)
  PROVE  TreeOf(l) \in SUBSET Changes
<1>1. CASE l = <<>>
  BY <1>1 DEF TreeOf
<1>2. CASE l # <<>>
  <2>1. l[Len(l)] \in Commits
    BY <1>2
  <2>2. l[Len(l)].tree \in SUBSET Changes
    BY <2>1 DEF Commits
  <2> QED
    BY <1>2, <2>2 DEF TreeOf
<1> QED
  BY <1>1, <1>2

-----------------------------------------------------------------------------
(* The invariant. *)

Gating     == {"record", "commit", "trailer", "evidence", "finalize"}
Settling   == Gating \cup {"amend", "closing"}
Delivering == {"trailer", "evidence", "finalize", "amend", "closing"}
Working    == {"baseline", "restore", "phases", "call", "verify", "gate"} \cup Gating
Rejecting  == {"failing", "move", "files", "park"}
Undoing    == {"move", "files", "reset move", "reset files"}

Positions ==
  ctl \in Working \cup Rejecting \cup Undoing
           \cup {"idle", "down", "clear", "reset", "reset done", "recommit", "amend", "closing"}

\* Nothing is removed before what the attempt made is anchored.
Archived == ctl \in Undoing => made \subseteq refs

\* Up to the verdict commits and the work tree only grow from the boundary on.
Grown ==
  /\ ctl \in Working \ Gating => TreeOf(boundary) \subseteq TreeOf(log) /\ TreeOf(log) \subseteq files
  /\ ctl = "record" => TreeOf(boundary) \subseteq TreeOf(log)

\* From the verdict to Done the gate's tree stays, but for the later changes: as the
\* verified one, as the work tree, and in a detached session as the commit.
VerifiedTree  == advance.phase = "verified" => Differ(advance.vfiles, approved) \subseteq late
GateTree      == ctl \in Settling => Differ(files, approved) \subseteq late
FencedDelta   == ctl = "commit" => approved \subseteq advance.paths \cup TreeOf(log)
DeliveredTree == ctl \in Delivering /\ tmux => approved \ late \subseteq TreeOf(log)
Gated == VerifiedTree /\ GateTree /\ FencedDelta /\ DeliveredTree

\* An executor without its lease was interrupted, or left for recovery.
Fencing ==
  /\ ctl \in Working \cup Rejecting /\ ~owned => interrupted \/ recovery
  /\ ctl = "idle" /\ ~owned => recovery \/ status = "Done"

\* Where the repository is, unless the attempt was interrupted.
Settled ==
  /\ ctl \in {"idle", "down", "clear"} /\ ~interrupted /\ ~recovery =>
       Identity = accepted /\ advance = NoAdvance
  /\ ctl \in Working \cup Rejecting /\ ~interrupted /\ ~recovery => accepted = At(boundary)
  /\ ctl = "park" => Restored(boundary)
  /\ ctl = "clear" => status = "Done"

\* A reset goes back to the accepted repository, and a completion starts from it.
Resets ==
  /\ Resetting \/ Reconciling => accepted = At(advance.base)
  /\ (Resetting /\ ctl # "reset done") \/ Reconciling => interrupted \/ recovery
  /\ ctl = "reset done" => Restored(advance.base)

IInv == /\ RepoTypes /\ Positions /\ AttemptPreserved /\ Archived /\ Grown /\ Gated
        /\ Fencing /\ Settled /\ Resets

-----------------------------------------------------------------------------
(* Types. *)

(* Every step keeps the types.                                             *)
LEMMA TypesKept ==
  ASSUME RepoTypes, [WANext]_waVars
  PROVE  RepoTypes'
<1> USE DEF RepoTypes
<1>0. <<>> \in Seq(Commits) /\ NoAdvance \in Advances /\ TreeOf(log) \in SUBSET Changes
      /\ TreeOf(boundary) \in SUBSET Changes /\ TreeOf(advance.base) \in SUBSET Changes
  <2>1. advance.base \in Seq(Commits)
    BY DEF Advances
  <2> QED
    BY <2>1, TreeInChanges DEF NoAdvance, Advances
<1>1. ASSUME NEW t \in SUBSET Changes, NEW by \in {"none", "own", "other"}
      PROVE  Commit(t, by) \in Seq(Commits)
  <2>1. [tree |-> t, by |-> by, id |-> objects + 1] \in Commits
    BY DEF Commits
  <2> QED
    BY <2>1, TreeOfAppend DEF Commit
<1>2. ASSUME log # <<>>, NEW t \in SUBSET Changes PROVE Amended(t) \in Seq(Commits)
  BY <1>2, objects + 1 \in Nat, TreeOfAmended DEF Amended
<1>staged. ASSUME NEW p PROVE Staged(p) \in SUBSET Changes
  BY <1>0 DEF Staged
<1>window. ASSUME NEW l \in Seq(Commits), Window(l) = 1 PROVE log # <<>>
  <2>1. Len(log) \in Nat /\ Len(l) \in Nat /\ Len(log) - Len(l) = 1
    BY <1>window DEF Window
  <2> QED
    BY <2>1
<1>3. CASE Preflight \/ Resume \/ Baseline \/ SkipSimplify \/ CallModel \/ PhaseAccepted
           \/ PhaseRetried \/ PhaseFails \/ Verify \/ CancelledBetween \/ ScopeCheck
  BY <1>0, <1>3 DEF Preflight, Resume, Baseline, SkipSimplify, CallModel, PhaseAccepted, PhaseRetried,
       PhaseFails, Verify, CancelledBetween, ScopeCheck, MayStart, Fail,
       repoVars, ticket, session, local, history, counters
<1>4. CASE Begin
  <2>1. [NoAdvance EXCEPT !.phase = "started", !.base = log] \in Advances
    BY <1>0 DEF Advances
  <2> QED
    BY <1>0, <1>4, <2>1 DEF Begin, session, history
<1>5. CASE RestoreCandidate \/ Edit \/ LateEdit
  BY <1>5 DEF RestoreCandidate, Edit, LateEdit, Fail, ticket, session, local, counters
<1>6. CASE Gate \/ Record
  <2>1. CASE Gate
    BY <2>1 DEF Gate, Fail, repoVars, ticket, session, counters
  <2>2. CASE Record
    <3>1. [phase |-> "verified", base |-> advance.base, vlog |-> log, vfiles |-> files,
           paths |-> approved \ TreeOf(boundary)] \in Advances
      BY DEF Advances
    <3> QED
      BY <2>2, <3>1 DEF Record, repoVars, session, local, history, counters
  <2> QED
    BY <1>6, <2>1, <2>2
<1>7. CASE AutoCommit
  <2>1. \/ \E swept \in SUBSET late : log' = Commit(Staged(advance.paths \cup swept), "own")
        \/ log' = log
    BY <1>7, Zenon DEF AutoCommit
  <2>2. log' \in Seq(Commits)
    BY <1>1, <1>staged, <2>1
  <2>3. objects' \in {objects, objects + 1} /\ ctl' # "amend"
        /\ UNCHANGED <<files, advance, cand, boundary, made, approved, late>>
    BY <1>7 DEF AutoCommit, Fail, ticket, session, history, counters
  <2> QED
    BY <2>2, <2>3
<1>8. CASE Trailer \/ Amend
  <2>1. advance.base \in Seq(Commits)
    BY DEF Advances
  <2>2. \/ log # <<>> /\ \E swept \in SUBSET late : log' = Amended(Staged(swept))
        \/ log' = log
    <3>1. CASE Trailer
      BY <1>window, <3>1 DEF Trailer
    <3>2. CASE Amend
      BY <3>2 DEF Amend
    <3> QED
      BY <1>8, <3>1, <3>2
  <2>3. log' \in Seq(Commits)
    BY <1>2, <1>staged, <2>2
  <2>4. objects' \in {objects, objects + 1} /\ ctl' # "amend"
        /\ UNCHANGED <<files, advance, cand, boundary, made, approved, late>>
    BY <1>8 DEF Trailer, Amend, ticket, session, local, history, counters
  <2> QED
    BY <2>3, <2>4
<1>9. CASE Evidence \/ Finalize \/ FinalizeFails \/ ClearCandidate
  <2>1. NoCand.ids = {}
    BY DEF NoCand
  <2>2. CASE Evidence \/ FinalizeFails
    BY <2>2 DEF Evidence, FinalizeFails, Fail, repoVars, ticket, session, history, counters
  <2>3. CASE Finalize \/ ClearCandidate
    BY <1>0, <2>1, <2>3 DEF Finalize, ClearCandidate, Forget, repoVars, ticket, local, history, counters
  <2> QED
    BY <1>9, <2>2, <2>3
<1>10. CASE SelfCommit
  BY <1>1, <1>10 DEF SelfCommit, ticket, session, history
<1>11. CASE MoveHead
  <2>1. Target \in Seq(Commits)
    BY DEF Target, Advances
  <2>2. TreeOf(log) \ (OwnedPaths \ TreeOf(Target)) \in SUBSET Changes
    BY <1>0
  <2>3. Commit(TreeOf(log) \ (OwnedPaths \ TreeOf(Target)), "none") \in Seq(Commits)
    BY <1>1, <2>2
  <2>4. /\ log' = log \/ log' = Target
           \/ log' = Commit(TreeOf(log) \ (OwnedPaths \ TreeOf(Target)), "none")
        /\ objects' = objects \/ objects' = objects + 1
    BY <1>11, Zenon DEF MoveHead
  <2>5. log' \in Seq(Commits)
    BY <2>1, <2>3, <2>4, Zenon
  <2>6. objects' \in Nat
    BY <2>4
  <2>7. UNCHANGED <<files, advance, cand, boundary, made, approved, late>> /\ ctl' # "amend"
    BY <1>11 DEF MoveHead, ticket, session, local, history
  <2> QED
    BY <2>5, <2>6, <2>7
<1>23. CASE RestorePath
  <2>1. files' \in SUBSET Changes
    BY <1>0, <1>23 DEF RestorePath, Misplaced, Differ
  <2> QED
    BY <1>23, <2>1 DEF RestorePath, ticket, session, local, history, counters
<1>12. CASE Archive \/ NothingToRollBack \/ RollbackFails
  BY <1>0, <1>12 DEF Archive, NothingToRollBack, RollbackFails,
       Forget, repoVars, ticket, session, local, history, counters
<1>20. CASE PersistCandidate
  <2>1. [head |-> HeadOf(boundary), ids |-> made].ids = made
    OBVIOUS
  <2> QED
    BY <1>20, <2>1 DEF PersistCandidate, repoVars, ticket, local, history, counters
<1>13. CASE Park
  BY <1>0, <1>13 DEF Park, Forget, repoVars, session, history, counters
<1>14. CASE Cancel \/ LoseLease \/ Crash \/ NextExecutor \/ Bootstrap
  BY <1>0, <1>14 DEF Cancel, LoseLease, Crash, NextExecutor, Bootstrap, Forget,
       repoVars, ticket, session, local, history, counters
<1>15. CASE Drain
  BY <1>0, <1>15 DEF Drain, Fail, Forget, repoVars, ticket, session, history, counters
<1>16. CASE Recommit
  <2>1. \/ \E swept \in SUBSET late : log' = Commit(Staged(advance.paths \cup swept), "own")
        \/ log' = log
    BY <1>16, Zenon DEF Recommit
  <2>2. log' \in Seq(Commits)
    BY <1>1, <1>staged, <2>1
  <2>3. objects' \in {objects, objects + 1} /\ ctl' # "amend"
        /\ UNCHANGED <<files, advance, cand, boundary, made, approved, late>>
    BY <1>16 DEF Recommit, ticket, session, local, history, counters
  <2> QED
    BY <2>2, <2>3
<1>21. CASE ReconcileAmend
  <2>1. log # <<>>
    BY <1>window, <1>21 DEF ReconcileAmend, Advances
  <2> QED
    BY <1>21, <2>1 DEF ReconcileAmend, repoVars, ticket, session, local, history, counters
<1>17. CASE ReconcileCommit \/ ReconcileChecked \/ ReconcileDone
            \/ ReconcileReset \/ ResetRestored \/ ResetToTodo
  BY <1>0, <1>17 DEF ReconcileCommit, ReconcileChecked, ReconcileDone, ReconcileReset,
       ResetRestored, ResetToTodo, repoVars, ticket, session, local, history, counters
<1>18. CASE OtherTicket
  BY <1>1, <1>18 DEF OtherTicket, ticket, local, history
<1>19. CASE UNCHANGED waVars
  BY <1>19 DEF waVars, repoVars, ticket, session, local, history, counters
<1> QED
  BY <1>3, <1>4, <1>5, <1>6, <1>7, <1>8, <1>9, <1>10, <1>11, <1>12, <1>13, <1>14, <1>15, <1>16,
     <1>17, <1>18, <1>19, <1>20, <1>21, <1>23 DEF WANext, AttemptStep, RollbackStep, ReconcileStep

-----------------------------------------------------------------------------
(* The invariant is kept. *)

(* The invariant holds before the first attempt.                           *)
LEMMA AttemptInit == WAInit => IInv
<1> SUFFICES ASSUME WAInit PROVE IInv
  OBVIOUS
<1>1. RepoTypes
  <2>1. <<>> \in Seq(Commits) /\ NoAdvance \in Advances /\ NoCand.ids = {}
    BY DEF NoAdvance, Advances, NoCand
  <2> QED
    BY <2>1 DEF WAInit, RepoTypes
<1> QED
  BY <1>1 DEF WAInit, IInv, Positions, Working, Gating, Rejecting, Undoing, AttemptPreserved, Archived, Grown,
     Gated, VerifiedTree, GateTree, FencedDelta, DeliveredTree, Settling, Delivering,
     Fencing, Settled, Resets, Resetting, Reconciling, Identity, At, NoAdvance, TreeOf

(* Every step of an attempt, of its rollback and of its reconciliation     *)
(* keeps the invariant.                                                    *)
LEMMA StepKept ==
  ASSUME IInv, [WANext]_waVars
  PROVE  IInv'
<1>0. RepoTypes /\ RepoTypes'
  BY TypesKept DEF IInv
<1>1. ASSUME NEW t \in SUBSET Changes, NEW by \in {"none", "own", "other"}
      PROVE  TreeOf(Commit(t, by)) = t
  <2>1. [tree |-> t, by |-> by, id |-> objects + 1] \in Commits
    BY <1>0 DEF Commits, RepoTypes
  <2> QED
    BY <1>0, <2>1, TreeOfAppend DEF Commit, RepoTypes
<1>2. TreeOf(log) \in SUBSET Changes /\ TreeOf(boundary) \in SUBSET Changes
  BY <1>0, TreeInChanges DEF RepoTypes
<1>none. NoAdvance.phase # "verified"
  BY DEF NoAdvance
<1>amended. ASSUME NEW t \in SUBSET Changes, log # <<>> PROVE TreeOf(Amended(t)) = t
  <2>1. log \in Seq(Commits) /\ objects + 1 \in Nat
    BY <1>0 DEF RepoTypes
  <2> QED
    BY <1>amended, <2>1, TreeOfAmended DEF Amended
<1>staged. ASSUME NEW p PROVE Staged(p) \in SUBSET Changes
  BY <1>0, <1>2 DEF Staged, RepoTypes
<1>window. Window(boundary) = 1 => log # <<>>
  <2> SUFFICES ASSUME Len(log) - Len(boundary) = 1 PROVE log # <<>>
    BY DEF Window
  <2>1. log \in Seq(Commits) /\ boundary \in Seq(Commits)
    BY <1>0 DEF RepoTypes
  <2>2. Len(log) \in Nat /\ Len(boundary) \in Nat
    BY <2>1
  <2> QED
    BY <2>2
\* What the gate saw and nobody changed since is in the work tree.
<1>there. ctl \in Settling => approved \ late \subseteq files
  BY DEF IInv, Gated, GateTree, Differ
<1> USE DEF IInv, Positions, Working, Gating, Settling, Delivering, Rejecting, Undoing, AttemptPreserved,
            Archived, Grown, Gated, VerifiedTree, GateTree, FencedDelta, DeliveredTree,
            Fencing, Settled, Resets, Resetting, Reconciling, Identity, Restored, At, Dirty
(* The start of an attempt. *)
<1>3. CASE Preflight
  BY <1>0, <1>3 DEF Preflight, MayStart, NoAdvance, repoVars, session, local, history
<1>4. CASE Begin
  <2>1. CASE Identity = accepted
    <3>1. Positions' /\ AttemptPreserved' /\ Archived' /\ Grown'
      BY <1>0, <1>4, <2>1 DEF Begin, MayStart, NoAdvance, session
    <3>2. Gated'
      <4>1. VerifiedTree'
        <5>1. advance' = [NoAdvance EXCEPT !.phase = "started", !.base = log]
          BY <1>4, <2>1 DEF Begin
        <5>2. advance'.phase = "started"
          BY ONLY <5>1 DEF NoAdvance
        <5> QED
          BY <5>2
      <4>2. GateTree'
        BY <1>0, <1>4, <2>1 DEF Begin, MayStart, NoAdvance, session
      <4>3. FencedDelta' /\ DeliveredTree'
        BY <1>0, <1>4, <2>1 DEF Begin, MayStart, NoAdvance, session
      <4> QED
        BY <4>1, <4>2, <4>3 DEF Gated
    <3>3. Fencing'
      BY <1>0, <1>4, <2>1 DEF Begin, MayStart, NoAdvance, session
    <3>4. Settled'
      BY <1>0, <1>4, <2>1 DEF Begin, MayStart, NoAdvance, session
    <3>5. Resets'
      BY <1>0, <1>4, <2>1 DEF Begin, MayStart, NoAdvance, session
    <3> QED
      BY <1>0, <3>1, <3>2, <3>3, <3>4, <3>5 DEF IInv
  <2>2. CASE Identity # accepted
    BY <1>0, <1>4, <2>2 DEF Begin, MayStart, session, history
  <2> QED
    BY <2>1, <2>2
<1>5. CASE Resume \/ Baseline \/ RestoreCandidate
  BY <1>0, <1>5 DEF Resume, Baseline, RestoreCandidate, MayStart, Fail, NoAdvance,
       repoVars, ticket, session, local, history, counters
(* The phases. *)
<1>6. CASE SkipSimplify \/ CallModel \/ PhaseAccepted \/ PhaseRetried \/ PhaseFails
           \/ Verify \/ CancelledBetween \/ ScopeCheck
  BY <1>0, <1>6 DEF SkipSimplify, CallModel, PhaseAccepted, PhaseRetried, PhaseFails, Verify,
       CancelledBetween, ScopeCheck, Fail, repoVars, ticket, session, local, history, counters
<1>7. CASE Edit
  BY <1>0, <1>7 DEF Edit, ticket, session, counters
<1>21. CASE LateEdit
  <2>1. PICK c \in Changes :
          /\ late' = late \cup {c}
          /\ IF c \in files THEN files' = files \ {c} /\ made' = made \ {c}
                            ELSE files' = files \cup {c} /\ made' = made \cup {c}
    BY <1>21 DEF LateEdit
  <2>2. UNCHANGED <<log, refs, status, advance, accepted, recovery, owned, ctl, boundary, approved,
                    interrupted, tmux>>
        /\ ctl \in Gating \cup {"recommit", "amend", "closing"}
    BY <1>21 DEF LateEdit, ticket, session, local, counters
  <2>3. AttemptPreserved'
    BY <2>1, <2>2
  <2>4. Positions' /\ Archived' /\ Grown'
    BY <2>2
  <2>5. VerifiedTree'
    BY <2>1, <2>2
  <2>6. GateTree'
    BY <2>1, <2>2 DEF Differ
  <2>7. FencedDelta' /\ DeliveredTree'
    BY <2>1, <2>2
  <2>8. Fencing' /\ Settled' /\ Resets'
    BY <2>2
  <2> QED
    BY <1>0, <2>3, <2>4, <2>5, <2>6, <2>7, <2>8
<1>8. CASE SelfCommit
  <2>1. TreeOf(log') = files
    BY <1>0, <1>1, <1>8 DEF SelfCommit, RepoTypes
  <2> QED
    BY <1>0, <1>8, <2>1 DEF SelfCommit, ticket, session, history
(* From the gate to Done. *)
<1>9. CASE Gate
  <2>1. CASE ctl' = "failing"
    BY <1>0, <1>9, <2>1 DEF Gate, Fail, repoVars, ticket, session, counters
  <2>2. CASE ctl' = "record"
    <3>1. approved' = files /\ files' = files /\ advance'.phase = "started"
      BY <1>9, <2>2 DEF Gate, Fail, repoVars, ticket
    <3>2. GateTree'
      BY <3>1 DEF Differ
    <3> QED
      BY <1>0, <1>9, <2>2, <3>1, <3>2 DEF Gate, Fail, repoVars, ticket, session, counters
  <2> QED
    BY <1>9, <2>1, <2>2 DEF Gate, Fail
<1>22. CASE Record
  <2>1. advance' = [phase |-> "verified", base |-> advance.base, vlog |-> log, vfiles |-> files,
                    paths |-> approved \ TreeOf(boundary)]
    BY <1>22 DEF Record
  <2>2. advance'.vfiles = files /\ advance'.paths = approved \ TreeOf(boundary)
    BY ONLY <2>1
  <2>3. UNCHANGED <<log, files, refs, status, accepted, recovery, owned, boundary, made, approved, late,
                    interrupted, tmux>>
        /\ ctl = "record" /\ ctl' = "commit"
    BY <1>22 DEF Record, repoVars, session, local, history, counters
  <2>4. Positions' /\ AttemptPreserved' /\ Archived' /\ Grown'
    BY <2>3
  <2>5. VerifiedTree' /\ GateTree'
    BY <2>2, <2>3
  <2>6. FencedDelta' /\ DeliveredTree'
    BY <2>2, <2>3
  <2>7. Fencing' /\ Settled' /\ Resets'
    BY <2>3
  <2> QED
    BY <1>0, <2>4, <2>5, <2>6, <2>7
<1>10. CASE AutoCommit
  <2>0. UNCHANGED <<files, refs, status, advance, accepted, recovery, owned, boundary, made, approved,
                    late, interrupted, tmux>>
        /\ ctl = "commit" /\ ctl' \in {"trailer", "failing"}
    BY <1>10 DEF AutoCommit, Fail, ticket, session, history, counters
  <2>1. DeliveredTree'
    <3> SUFFICES ASSUME ctl' = "trailer", tmux PROVE approved \ late \subseteq TreeOf(log')
      BY <2>0
    <3>1. CASE Dirty
      <4>1. PICK swept \in SUBSET late : log' = Commit(Staged(advance.paths \cup swept), "own")
        BY <1>10, <3>1, Zenon DEF AutoCommit, Fail
      <4>2. TreeOf(log') = Staged(advance.paths \cup swept)
        BY <1>1, <1>staged, <4>1
      <4>3. approved \ late \subseteq advance.paths \cup swept \cup TreeOf(log)
        BY <2>0
      <4>4. approved \ late \subseteq files
        BY <1>there, <2>0
      <4>5. approved \ late \subseteq Staged(advance.paths \cup swept)
        BY <4>3, <4>4 DEF Staged
      <4> QED
        BY <4>2, <4>5
    <3>2. CASE ~Dirty
      BY <1>10, <1>there, <2>0, <3>2 DEF AutoCommit
    <3> QED
      BY <3>1, <3>2
  <2>2. Positions' /\ AttemptPreserved' /\ Archived' /\ Grown'
    BY <2>0
  <2>3. VerifiedTree' /\ GateTree' /\ FencedDelta'
    BY <2>0
  <2>4. Fencing' /\ Settled' /\ Resets'
    BY <2>0
  <2> QED
    BY <1>0, <2>1, <2>2, <2>3, <2>4
<1>11. CASE Trailer
  <2>0. UNCHANGED <<files, refs, status, advance, accepted, recovery, owned, boundary, made, approved,
                    late, interrupted, tmux>>
        /\ ctl = "trailer" /\ ctl' = "evidence"
    BY <1>11 DEF Trailer, ticket, session, local, history, counters
  <2>1. DeliveredTree'
    <3> SUFFICES ASSUME tmux PROVE approved \ late \subseteq TreeOf(log')
      BY <2>0
    <3>1. CASE \E swept \in SUBSET late : Window(boundary) = 1 /\ log' = Amended(Staged(swept))
      <4>1. PICK swept \in SUBSET late : Window(boundary) = 1 /\ log' = Amended(Staged(swept))
        BY <3>1
      <4>2. log # <<>>
        BY <1>window, <4>1
      <4>3. TreeOf(log') = Staged(swept)
        BY <1>amended, <1>staged, <4>1, <4>2
      <4>4. approved \ late \subseteq swept \cup TreeOf(log) /\ approved \ late \subseteq files
        BY <1>there, <2>0
      <4> QED
        BY <2>0, <4>3, <4>4 DEF Staged
    <3>2. CASE log' = log
      BY <2>0, <3>2
    <3> QED
      BY <1>11, <3>1, <3>2 DEF Trailer
  <2>2. Positions' /\ AttemptPreserved' /\ Archived' /\ Grown'
    BY <2>0
  <2>3. VerifiedTree' /\ GateTree' /\ FencedDelta'
    BY <2>0
  <2>4. Fencing' /\ Settled' /\ Resets'
    BY <2>0
  <2> QED
    BY <1>0, <2>1, <2>2, <2>3, <2>4
<1>12. CASE Evidence \/ FinalizeFails \/ Finalize \/ ClearCandidate
  <2>1. CASE Evidence \/ FinalizeFails
    <3>1. Positions' /\ AttemptPreserved' /\ Archived' /\ Grown'
      BY <1>0, <2>1 DEF Evidence, FinalizeFails, Fail, repoVars, ticket, session, local, history, counters
    <3>2. Gated'
      <4>1. VerifiedTree'
        BY <1>0, <2>1 DEF Evidence, FinalizeFails, Fail, repoVars, ticket, session, local, history, counters
      <4>2. GateTree'
        BY <1>0, <2>1 DEF Evidence, FinalizeFails, Fail, repoVars, ticket, session, local, history, counters
      <4>3. FencedDelta' /\ DeliveredTree'
        <5>1. UNCHANGED <<log, advance, approved, late, tmux>>
          BY <2>1 DEF Evidence, FinalizeFails, repoVars, ticket, history, counters
        <5>2. \/ ctl = "finalize" /\ ctl' = "failing"
              \/ ctl = "evidence" /\ ctl' \in {"finalize", "failing"}
          <6>1. CASE Evidence
            BY <6>1, Zenon DEF Evidence, Fail
          <6>2. CASE FinalizeFails
            BY <6>2 DEF FinalizeFails, Fail
          <6> QED
            BY <2>1, <6>1, <6>2
        <5> QED
          BY <5>1, <5>2
      <4> QED
        BY <4>1, <4>2, <4>3 DEF Gated
    <3>3. Fencing'
      BY <1>0, <2>1 DEF Evidence, FinalizeFails, Fail, repoVars, ticket, session, local, history, counters
    <3>4. Settled'
      BY <1>0, <2>1 DEF Evidence, FinalizeFails, Fail, repoVars, ticket, session, local, history, counters
    <3>5. Resets'
      BY <1>0, <2>1 DEF Evidence, FinalizeFails, Fail, repoVars, ticket, session, local, history, counters
    <3> QED
      BY <1>0, <3>1, <3>2, <3>3, <3>4, <3>5 DEF IInv
  <2>2. CASE Finalize \/ ClearCandidate
    <3>1. Positions' /\ AttemptPreserved' /\ Archived' /\ Grown'
      BY <1>0, <2>2 DEF Finalize, ClearCandidate, Forget, NoAdvance, repoVars, ticket, session, local, history, counters
    <3>2. Gated'
      <4>1. VerifiedTree'
        <5>1. CASE Finalize
          <6>1. advance' = NoAdvance
            BY <5>1 DEF Finalize
          <6> QED
            BY <1>none, <6>1
        <5>2. CASE ClearCandidate
          BY <5>2 DEF ClearCandidate, ticket, history
        <5> QED
          BY <2>2, <5>1, <5>2
      <4>2. GateTree'
        BY <1>0, <2>2 DEF Finalize, ClearCandidate, Forget, NoAdvance, repoVars, ticket, session, local, history, counters
      <4>3. FencedDelta' /\ DeliveredTree'
        BY <1>0, <2>2 DEF Finalize, ClearCandidate, Forget, NoAdvance, repoVars, ticket, session, local, history, counters
      <4> QED
        BY <4>1, <4>2, <4>3 DEF Gated
    <3>3. Fencing'
      BY <1>0, <2>2 DEF Finalize, ClearCandidate, Forget, NoAdvance, repoVars, ticket, session, local, history, counters
    <3>4. Settled'
      BY <1>0, <2>2 DEF Finalize, ClearCandidate, Forget, NoAdvance, repoVars, ticket, session, local, history, counters
    <3>5. Resets'
      BY <1>0, <2>2 DEF Finalize, ClearCandidate, Forget, NoAdvance, repoVars, ticket, session, local, history, counters
    <3> QED
      BY <1>0, <3>1, <3>2, <3>3, <3>4, <3>5 DEF IInv
  <2> QED
    BY <1>12, <2>1, <2>2
(* Rollback. *)
<1>13. CASE Archive
  <2>1. CASE ctl = "failing"
    <3>1. made \subseteq refs'
      BY <1>13, <2>1 DEF Archive, Anchored, Target
    <3> QED
      BY <1>0, <1>13, <2>1, <3>1 DEF Archive, ticket, session, local, history, counters
  <2>2. CASE ctl = "reset"
    <3>1. made \subseteq refs'
      BY <1>13, <2>2 DEF Archive, Anchored, Target
    <3> QED
      BY <1>0, <1>13, <2>2, <3>1 DEF Archive, ticket, session, local, history, counters
  <2> QED
    BY <1>13, <2>1, <2>2 DEF Archive
<1>14. CASE MoveHead \/ RestorePath \/ PersistCandidate \/ NothingToRollBack \/ RollbackFails
  BY <1>0, <1>14 DEF MoveHead, RestorePath, Misplaced, PersistCandidate, NothingToRollBack, RollbackFails,
       Forget, repoVars, ticket, session, local, history, counters
<1>15. CASE Park
  <2>1. CASE owned
    <3>1. Positions' /\ AttemptPreserved' /\ Archived' /\ Grown'
      BY <1>0, <1>15, <2>1 DEF Park, Forget, NoAdvance, repoVars, session, history, counters
    <3>2. Gated'
      <4>1. VerifiedTree'
        <5>1. advance' = NoAdvance
          BY <1>15, <2>1 DEF Park
        <5> QED
          BY <1>none, <5>1
      <4>2. GateTree'
        BY <1>0, <1>15, <2>1 DEF Park, Forget, NoAdvance, repoVars, session, history, counters
      <4>3. FencedDelta' /\ DeliveredTree'
        BY <1>0, <1>15, <2>1 DEF Park, Forget, NoAdvance, repoVars, session, history, counters
      <4> QED
        BY <4>1, <4>2, <4>3 DEF Gated
    <3>3. Fencing'
      BY <1>0, <1>15, <2>1 DEF Park, Forget, NoAdvance, repoVars, session, history, counters
    <3>4. Settled'
      BY <1>0, <1>15, <2>1 DEF Park, Forget, NoAdvance, repoVars, session, history, counters
    <3>5. Resets'
      BY <1>0, <1>15, <2>1 DEF Park, Forget, NoAdvance, repoVars, session, history, counters
    <3> QED
      BY <1>0, <3>1, <3>2, <3>3, <3>4, <3>5 DEF IInv
  <2>2. CASE ~owned
    BY <1>0, <1>15, <2>2 DEF Park, Forget, repoVars, session, history, counters
  <2> QED
    BY <2>1, <2>2
(* Interruptions and reconciliation. *)
<1>16. CASE Cancel \/ LoseLease \/ Drain \/ Crash \/ NextExecutor
  <2>1. CASE Cancel \/ LoseLease
    <3>1. Positions' /\ AttemptPreserved' /\ Archived' /\ Grown'
      BY <1>0, <2>1 DEF Cancel, LoseLease, Running, repoVars, ticket, session, local, history, counters
    <3>2. Gated'
      <4>1. VerifiedTree'
        BY <1>0, <2>1 DEF Cancel, LoseLease, Running, repoVars, ticket, session, local, history, counters
      <4>2. GateTree'
        BY <1>0, <2>1 DEF Cancel, LoseLease, Running, repoVars, ticket, session, local, history, counters
      <4>3. FencedDelta' /\ DeliveredTree'
        <5>1. UNCHANGED <<log, advance, approved, late, tmux>>
          BY <2>1 DEF Cancel, LoseLease, Running, repoVars, ticket, session, local, history, counters
        <5>2. ctl' = ctl
          BY <2>1 DEF Cancel, LoseLease, Running, repoVars, ticket, session, local, history, counters
        <5> QED
          BY <5>1, <5>2
      <4> QED
        BY <4>1, <4>2, <4>3 DEF Gated
    <3>3. Fencing'
      BY <1>0, <2>1 DEF Cancel, LoseLease, Running, repoVars, ticket, session, local, history, counters
    <3>4. Settled'
      BY <1>0, <2>1 DEF Cancel, LoseLease, Running, repoVars, ticket, session, local, history, counters
    <3>5. Resets'
      BY <1>0, <2>1 DEF Cancel, LoseLease, Running, repoVars, ticket, session, local, history, counters
    <3> QED
      BY <1>0, <3>1, <3>2, <3>3, <3>4, <3>5 DEF IInv
  <2>2. CASE Drain
    BY <1>0, <2>2 DEF Drain, Fail, Forget, repoVars, ticket, session, local, history, counters
  <2>3. CASE Crash \/ NextExecutor
    BY <1>0, <2>3 DEF Crash, NextExecutor, Forget, repoVars, ticket, session, local, history, counters
  <2> QED
    BY <1>16, <2>1, <2>2, <2>3
<1>17. CASE Bootstrap \/ ReconcileReset \/ ResetRestored \/ ResetToTodo
  <2>1. CASE Bootstrap \/ ReconcileReset
    BY <1>0, <2>1 DEF Bootstrap, ReconcileReset, Between, Reconcilable, NoAdvance, repoVars, ticket, session, local, history, counters
  <2>2. CASE ResetRestored \/ ResetToTodo
    <3>1. Positions' /\ AttemptPreserved' /\ Archived' /\ Grown'
      BY <1>0, <2>2 DEF ResetRestored, ResetToTodo, NoAdvance, repoVars, ticket, session, local, history, counters
    <3>2. Gated'
      <4>1. VerifiedTree'
        <5>1. CASE ResetRestored
          BY <5>1 DEF ResetRestored, ticket, history
        <5>2. CASE ResetToTodo
          <6>1. advance' = NoAdvance
            BY <5>2 DEF ResetToTodo
          <6> QED
            BY <1>none, <6>1
        <5> QED
          BY <2>2, <5>1, <5>2
      <4>2. GateTree'
        BY <1>0, <2>2 DEF ResetRestored, ResetToTodo, NoAdvance, repoVars, ticket, session, local, history, counters
      <4>3. FencedDelta' /\ DeliveredTree'
        BY <1>0, <2>2 DEF ResetRestored, ResetToTodo, NoAdvance, repoVars, ticket, session, local, history, counters
      <4> QED
        BY <4>1, <4>2, <4>3 DEF Gated
    <3>3. Fencing'
      BY <1>0, <2>2 DEF ResetRestored, ResetToTodo, NoAdvance, repoVars, ticket, session, local, history, counters
    <3>4. Settled'
      BY <1>0, <2>2 DEF ResetRestored, ResetToTodo, NoAdvance, repoVars, ticket, session, local, history, counters
    <3>5. Resets'
      BY <1>0, <2>2 DEF ResetRestored, ResetToTodo, NoAdvance, repoVars, ticket, session, local, history, counters
    <3> QED
      BY <1>0, <3>1, <3>2, <3>3, <3>4, <3>5 DEF IInv
  <2> QED
    BY <1>17, <2>1, <2>2
<1>18. CASE ReconcileCommit \/ Recommit \/ ReconcileAmend \/ Amend \/ ReconcileChecked \/ ReconcileDone
  <2>1. CASE ReconcileCommit
    BY <1>0, <2>1 DEF ReconcileCommit, Between, Reconcilable, NoAdvance, repoVars, ticket, session, local, history, counters
  <2>2. CASE Recommit
    BY <1>0, <2>2 DEF Recommit, ticket, session, local, history, counters
  <2>3. CASE ReconcileAmend \/ ReconcileChecked
    <3>0. UNCHANGED <<log, files, refs, status, advance, accepted, recovery, owned, boundary, made, approved,
                      late, interrupted, tmux>>
          /\ ctl \in {"idle", "down"} /\ ctl' \in {"amend", "closing"}
          /\ advance # NoAdvance /\ accepted = At(advance.base)
      BY <2>3 DEF ReconcileAmend, ReconcileChecked, Between, Reconcilable, repoVars, ticket, session,
           local, history, counters
    <3>1. advance.phase = "verified" /\ files = advance.vfiles /\ (tmux => files = TreeOf(log))
      BY <2>3 DEF ReconcileAmend, ReconcileChecked, Committed, VerifiedClean, NoOp, HasChanges
    <3>2. VerifiedTree' /\ GateTree'
      BY <3>0, <3>1
    <3>3. FencedDelta' /\ DeliveredTree'
      BY <3>0, <3>1, <3>2 DEF Differ
    <3>4. Positions' /\ AttemptPreserved' /\ Archived' /\ Grown'
      BY <3>0
    <3>5. Fencing' /\ Settled' /\ Resets'
      BY <3>0
    <3> QED
      BY <1>0, <3>2, <3>3, <3>4, <3>5
  <2>4. CASE Amend
    <3>0. UNCHANGED <<files, refs, status, advance, accepted, recovery, owned, boundary, made, approved,
                      late, interrupted, tmux>>
          /\ ctl = "amend" /\ ctl' \in {"closing", "reset", "reset done"}
      BY <2>4 DEF Amend, ticket, session, local, history, counters
    <3>1. DeliveredTree'
      <4> SUFFICES ASSUME ctl' = "closing" PROVE tmux => approved \ late \subseteq TreeOf(log')
        BY <3>0
      <4>1. PICK swept \in SUBSET late : log' = Amended(Staged(swept))
        BY <2>4 DEF Amend
      <4>2. TreeOf(log') = Staged(swept)
        BY <1>0, <1>amended, <1>staged, <3>0, <4>1 DEF RepoTypes
      <4>3. approved \ late \subseteq files
        BY <1>there, <3>0
      <4> QED
        BY <3>0, <4>2, <4>3 DEF Staged
    <3>2. VerifiedTree' /\ GateTree' /\ FencedDelta'
      BY <3>0
    <3>3. Positions' /\ AttemptPreserved' /\ Archived' /\ Grown'
      BY <3>0
    <3>4. Fencing' /\ Settled'
      BY <3>0
    <3>5. Resets'
      BY <2>4, <3>0 DEF Amend
    <3> QED
      BY <1>0, <3>1, <3>2, <3>3, <3>4, <3>5
  <2>5. CASE ReconcileDone
    <3>1. advance' = NoAdvance
      BY <2>5 DEF ReconcileDone
    <3>2. VerifiedTree'
      BY <1>none, <3>1
    <3> QED
      BY <1>0, <2>5, <3>2 DEF ReconcileDone, repoVars, local, history, counters
  <2> QED
    BY <1>18, <2>1, <2>2, <2>3, <2>4, <2>5
<1>19. CASE OtherTicket
  BY <1>0, <1>19 DEF OtherTicket, ticket, local, history, NoAdvance
<1>20. CASE UNCHANGED waVars
  <2>1. UNCHANGED <<log, files, refs, status, advance, accepted, recovery, owned, ctl, boundary,
                    made, approved, late, interrupted, tmux>>
    BY <1>20 DEF waVars, repoVars, ticket, session, local, history, counters
  <2>2. Positions' /\ AttemptPreserved' /\ Archived' /\ Grown'
    BY <1>0, <2>1
  <2>3. Gated'
    <3>1. VerifiedTree'
      BY <1>0, <2>1
    <3>2. GateTree'
      BY <1>0, <2>1
    <3>3. FencedDelta' /\ DeliveredTree'
      BY <1>0, <2>1
    <3> QED
      BY <3>1, <3>2, <3>3 DEF Gated
  <2>4. Fencing'
    BY <1>0, <2>1
  <2>5. Settled'
    BY <1>0, <2>1
  <2>6. Resets'
    BY <1>0, <2>1
  <2> QED
    BY <1>0, <2>2, <2>3, <2>4, <2>5, <2>6 DEF IInv
<1> QED
  BY <1>3, <1>4, <1>5, <1>6, <1>7, <1>8, <1>9, <1>10, <1>11, <1>12, <1>13, <1>14, <1>15, <1>16, <1>17,
     <1>18, <1>19, <1>20, <1>21, <1>22 DEF WANext, AttemptStep, RollbackStep, ReconcileStep

(* The invariant holds in every behaviour: what a position of the attempt  *)
(* relies on is true whenever control is there.                            *)
THEOREM InvariantHolds == WASpec => []IInv
<1>1. WAInit => IInv
  BY AttemptInit
<1>2. IInv /\ [WANext]_waVars => IInv'
  BY StepKept
<1> QED
  BY <1>1, <1>2, PTL DEF WASpec

-----------------------------------------------------------------------------
(* Results. *)

(* Whatever a worker made in an attempt is in the work tree or under an    *)
(* anchored ref at every point: the archive of recoverableHardReset comes  *)
(* before every removal.                                                   *)
THEOREM NothingMadeIsLost == WASpec => []AttemptPreserved
<1>1. IInv => AttemptPreserved
  BY DEF IInv
<1> QED
  BY <1>1, InvariantHolds, PTL

(* An attempt that was neither interrupted nor left for recovery ends with *)
(* the accepted repository and without an open boundary.                   *)
THEOREM RejectionIsClean == WASpec => []RejectedLeavesNothing
<1>1. IInv => RejectedLeavesNothing
  BY DEF IInv, Settled, RejectedLeavesNothing
<1> QED
  BY <1>1, InvariantHolds, PTL

(* Done is reached, by finalizeSuccess and by the reconciliation of an     *)
(* interrupted attempt, over the gate's tree but for what was changed      *)
(* after its verdict, and in a detached session with the rest committed.   *)
THEOREM DoneMeansDelivered == WASpec => DoneIsDelivered
<1>1. ASSUME IInv, [WANext]_waVars
      PROVE  [status # "Done" /\ status' = "Done"
                => /\ Differ(files', approved') \subseteq late'
                   /\ tmux => approved' \ late' \subseteq TreeOf(log')]_waVars
  <2> SUFFICES ASSUME WANext, status # "Done", status' = "Done"
               PROVE  /\ Differ(files', approved') \subseteq late'
                      /\ tmux => approved' \ late' \subseteq TreeOf(log')
    BY <1>1
  <2>1. Finalize \/ ReconcileDone
    BY DEF WANext, AttemptStep, RollbackStep, ReconcileStep, Preflight, Begin, Resume, Baseline,
       RestoreCandidate, SkipSimplify, CallModel, PhaseAccepted, PhaseRetried, PhaseFails, Verify,
       CancelledBetween, ScopeCheck, Gate, Record, AutoCommit, Trailer, Evidence, FinalizeFails, ClearCandidate,
       Edit, LateEdit, SelfCommit, Archive, MoveHead, RestorePath, PersistCandidate, NothingToRollBack,
       RollbackFails, Park, Cancel, LoseLease, Drain, Crash, NextExecutor, Bootstrap, ReconcileCommit,
       Recommit, ReconcileAmend, Amend, ReconcileChecked, ReconcileReset, ResetRestored, ResetToTodo,
       OtherTicket, ticket
  <2>2. ctl \in {"finalize", "closing"} /\ UNCHANGED <<log, files, approved, late>>
    BY <2>1 DEF Finalize, ReconcileDone, repoVars, history
  <2> QED
    BY <1>1, <2>2 DEF IInv, Gated, GateTree, DeliveredTree, Settling, Gating, Delivering
<1> QED
  BY <1>1, InvariantHolds, PTL DEF WASpec, DoneIsDelivered

=============================================================================
