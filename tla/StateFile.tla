------------------------------ MODULE StateFile ------------------------------
(***************************************************************************)
(* One JSON file shared by processes of a session: the lock file of        *)
(* StateManager (state-manager.ts; withSessionMapLock takes the same       *)
(* steps), the temporary file and rename of atomicWriteJson                *)
(* (pickle-utils.ts) and the recovery of orphaned temporary files by every *)
(* reader (recoverable-json.ts).  Processes die anywhere.                  *)
(*                                                                         *)
(* The content of a file is the set of updates it includes.  A lock's age  *)
(* is one flag, old, for "older than staleLockThresholdMs"; modification   *)
(* times are drawn from a clock that need not advance between two writes.  *)
(* A contender looks at a lock, may look again, and removes whatever has   *)
(* the name by then, so it may rob a live owner of its lock.               *)
(***************************************************************************)
EXTENDS Integers, FiniteSets

CONSTANTS
  Writers,      \* processes that run StateManager.update once
  Readers,      \* processes that run readRecoverableJsonObject without the lock
  NoProcess,
  StaleAtOnce,  \* staleLockThresholdMs is 0
  MaxDeaths     \* bound: processes that die

Processes == Writers \cup Readers

ASSUME ProcessAssumption == Writers \cap Readers = {} /\ NoProcess \notin Processes
ASSUME BoundAssumption == StaleAtOnce \in BOOLEAN /\ MaxDeaths \in Nat

VARIABLES
  lock,      \* the .lock file: its creator, payload written, old; owner NoProcess if none
  base,      \* the file: its updates and modification time
  tmp,       \* [Processes -> the process's temporary file, present or not]
  clock,     \* the latest modification time
  pc,        \* [Processes -> where the process stands]
  seen,      \* [Processes -> what the read found: updates, and the tmp to promote]
  done,      \* processes whose update returned
  robbed     \* history: live owners whose lock another process has removed

vars == <<lock, base, tmp, clock, pc, seen, done, robbed>>

Files == [updates : SUBSET Writers, mtime : Nat]
NoFile == [updates |-> {}, mtime |-> 0, present |-> FALSE]
NoLock == [owner |-> NoProcess, filled |-> FALSE, old |-> FALSE]
NothingSeen == [updates |-> {}, winner |-> NoProcess]

Critical == {"read", "scan", "promote", "write", "rename", "release"}
Steps == Critical \cup {"idle", "try", "judge", "again", "steal", "retry", "fill", "done", "dead"}

TypeOK ==
  /\ lock \in [owner : Processes \cup {NoProcess}, filled : BOOLEAN, old : BOOLEAN]
  /\ base \in Files
  /\ tmp \in [Processes -> [updates : SUBSET Writers, mtime : Nat, present : BOOLEAN]]
  /\ clock \in Nat
  /\ pc \in [Processes -> Steps]
  /\ seen \in [Processes -> [updates : SUBSET Writers, winner : Processes \cup {NoProcess}]]
  /\ done \subseteq Writers /\ robbed \subseteq Processes
  /\ \A p \in Processes : tmp[p].present => pc[p] \in {"rename", "dead"}

Alive(p) == pc[p] \notin {"done", "dead"}
Inside(p) == p \in Writers /\ pc[p] \in Critical
Goto(p, step) == pc' = [pc EXCEPT ![p] = step]

-----------------------------------------------------------------------------
(* acquireLock, tryStealStaleLock, releaseLock                             *)

Start(p) ==
  /\ pc[p] = "idle"
  /\ Goto(p, IF p \in Writers THEN "try" ELSE "read")
  /\ UNCHANGED <<lock, base, tmp, clock, seen, done, robbed>>

\* Fault: open without O_EXCL takes the file that is there.
Overwritable == TRUE

Creatable == lock = NoLock

\* open with O_CREAT | O_EXCL: the file is there before its payload.
CreateLock(p) ==
  /\ pc[p] = "try" /\ Creatable
  /\ lock' = [owner |-> p, filled |-> FALSE, old |-> FALSE]
  /\ Goto(p, "fill")
  /\ UNCHANGED <<base, tmp, clock, seen, done, robbed>>

Collide(p) ==
  /\ pc[p] = "try" /\ ~Creatable
  /\ Goto(p, "judge")
  /\ UNCHANGED <<lock, base, tmp, clock, seen, done, robbed>>

\* The payload goes to the file that was opened, also when its name is gone.
FillLock(p) ==
  /\ pc[p] = "fill"
  /\ lock' = IF lock.owner = p THEN [lock EXCEPT !.filled = TRUE] ELSE lock
  /\ Goto(p, "read")
  /\ UNCHANGED <<base, tmp, clock, seen, done, robbed>>

Aged == lock.old \/ StaleAtOnce

\* The first look: a payload names a process that must be dead; a lock without payload,
\* or none at all, is looked at again.
Judge(p) ==
  /\ pc[p] = "judge"
  /\ Goto(p, IF ~lock.filled THEN "again"
             ELSE IF Aged /\ ~Alive(lock.owner) THEN "steal" ELSE "retry")
  /\ UNCHANGED <<lock, base, tmp, clock, seen, done, robbed>>

\* Fault: a lock without payload names nobody and is left alone.
StaleWithPayload == lock.filled

\* The second look: a payload that was written meanwhile is no number and makes the lock
\* stale; without payload it goes by its age.
Stale == lock # NoLock /\ (lock.filled \/ Aged)

JudgeAgain(p) ==
  /\ pc[p] = "again"
  /\ Goto(p, IF Stale THEN "steal" ELSE "retry")
  /\ UNCHANGED <<lock, base, tmp, clock, seen, done, robbed>>

\* rmSync of the name, whatever file has that name by now.
Unlink(p) ==
  /\ lock' = NoLock
  /\ robbed' = IF lock.owner \notin {p, NoProcess} /\ Alive(lock.owner)
                 THEN robbed \cup {lock.owner} ELSE robbed

StealLock(p) ==
  /\ pc[p] = "steal"
  /\ Unlink(p)
  /\ Goto(p, "retry")
  /\ UNCHANGED <<base, tmp, clock, seen, done>>

Retry(p) ==
  /\ pc[p] = "retry"
  /\ Goto(p, "try")
  /\ UNCHANGED <<lock, base, tmp, clock, seen, done, robbed>>

\* LockError after acquireTimeoutMs; the caller may come back or not.
TimeOut(p) ==
  /\ pc[p] = "retry"
  /\ Goto(p, "idle")
  /\ UNCHANGED <<lock, base, tmp, clock, seen, done, robbed>>

ReleaseLock(p) ==
  /\ pc[p] = "release"
  /\ Unlink(p)
  /\ done' = done \cup {p}
  /\ Goto(p, "done")
  /\ UNCHANGED <<base, tmp, clock, seen>>

-----------------------------------------------------------------------------
(* readRecoverableJsonObject and atomicWriteJson                           *)

\* Fault: the read under the lock takes the file as it is.
PromotesUnlocked(p) == p \in Readers

\* Every read through StateManager or readJsonFile recovers.
Promotes(p) == p \in Processes

\* The temporary files of dead processes.
Orphans == {q \in Processes : tmp[q].present /\ ~Alive(q)}

\* Only a strictly older one is discarded.
Recoverable == {q \in Orphans : tmp[q].mtime >= base.mtime}

\* The file is parsed before the directory is listed.
Read(p) ==
  /\ pc[p] = "read"
  /\ seen' = [seen EXCEPT ![p] = [updates |-> base.updates, winner |-> NoProcess]]
  /\ Goto(p, "scan")
  /\ UNCHANGED <<lock, base, tmp, clock, done, robbed>>

\* parseDeadTmp over the directory: older orphans are unlinked, the newest of the
\* others wins, the first seen among equals.
Scan(p) ==
  /\ pc[p] = "scan"
  /\ IF Promotes(p) /\ Recoverable # {}
       THEN \E q \in Recoverable :
              /\ \A r \in Recoverable : tmp[r].mtime <= tmp[q].mtime
              /\ seen' = [seen EXCEPT ![p].winner = q]
       ELSE UNCHANGED seen
  /\ tmp' = IF Promotes(p)
              THEN [q \in Processes |-> IF q \in Orphans \ Recoverable THEN NoFile ELSE tmp[q]]
              ELSE tmp
  /\ Goto(p, "promote")
  /\ UNCHANGED <<lock, base, clock, done, robbed>>

\* The winner is renamed over the file; if another reader was faster, the result is the
\* file as it was parsed at first.
Promote(p) ==
  /\ pc[p] = "promote"
  /\ LET q == seen[p].winner IN
       IF q # NoProcess /\ tmp[q].present
         THEN /\ base' = [updates |-> tmp[q].updates, mtime |-> tmp[q].mtime]
              /\ seen' = [seen EXCEPT ![p].updates = tmp[q].updates]
              /\ tmp' = [tmp EXCEPT ![q] = NoFile]
         ELSE UNCHANGED <<base, seen, tmp>>
  /\ Goto(p, IF p \in Writers THEN "write" ELSE "idle")
  /\ UNCHANGED <<lock, clock, done, robbed>>

WriteTmp(p) ==
  /\ pc[p] = "write"
  /\ \E t \in {clock, clock + 1} :
       /\ tmp' = [tmp EXCEPT ![p] = [updates |-> seen[p].updates \cup {p}, mtime |-> t,
                                     present |-> TRUE]]
       /\ clock' = t
  /\ Goto(p, "rename")
  /\ UNCHANGED <<lock, base, seen, done, robbed>>

Rename(p) ==
  /\ pc[p] = "rename"
  /\ base' = [updates |-> tmp[p].updates, mtime |-> tmp[p].mtime]
  /\ tmp' = [tmp EXCEPT ![p] = NoFile]
  /\ Goto(p, "release")
  /\ UNCHANGED <<lock, clock, seen, done, robbed>>

-----------------------------------------------------------------------------
(* The host                                                                *)

\* A live process fills the lock it opened within the threshold.
AgeLock ==
  /\ lock.owner # NoProcess /\ ~lock.old
  /\ lock.filled \/ ~Alive(lock.owner)
  /\ lock' = [lock EXCEPT !.old = TRUE]
  /\ UNCHANGED <<base, tmp, clock, pc, seen, done, robbed>>

Die(p) ==
  /\ p \in Writers /\ pc[p] \notin {"done", "dead"}
  /\ Cardinality({q \in Processes : pc[q] = "dead"}) < MaxDeaths
  /\ Goto(p, "dead")
  /\ UNCHANGED <<lock, base, tmp, clock, seen, done, robbed>>

Init ==
  /\ lock = NoLock
  /\ base = [updates |-> {}, mtime |-> 0]
  /\ tmp = [p \in Processes |-> NoFile]
  /\ clock = 0
  /\ pc = [p \in Processes |-> "idle"]
  /\ seen = [p \in Processes |-> NothingSeen]
  /\ done = {} /\ robbed = {}

Proceed(p) ==
  \/ CreateLock(p) \/ Collide(p) \/ FillLock(p) \/ Judge(p) \/ JudgeAgain(p) \/ StealLock(p)
  \/ Retry(p) \/ TimeOut(p)
  \/ Read(p) \/ Scan(p) \/ Promote(p) \/ WriteTmp(p) \/ Rename(p) \/ ReleaseLock(p)

Next ==
  \/ \E p \in Processes : Start(p) \/ Proceed(p) \/ Die(p)
  \/ AgeLock

Spec == Init /\ [][Next]_vars

FairSpec == Spec /\ (\A p \in Processes : WF_vars(Proceed(p))) /\ WF_vars(AgeLock)

-----------------------------------------------------------------------------
(* Properties                                                              *)

\* Of two processes in their critical sections one has been robbed of its lock: nothing
\* else, no death, time-out, empty lock or late release, lets a second one in.
MutualExclusion ==
  \A p, q \in Writers : Inside(p) /\ Inside(q) => p = q \/ p \in robbed \/ q \in robbed

\* As long as no live owner was robbed, an update that returned stays: neither another
\* writer nor a reader that promotes an orphaned temporary file, early or late, takes it
\* back.
NoLostUpdate == robbed = {} => done \subseteq base.updates

\* Nobody asks for the lock for ever, also when its owner died before it wrote the
\* payload: a caller gets in and finishes, gives up, or dies.
CallersFinish == \A p \in Writers : <>[](pc[p] \in {"idle", "done", "dead"})

\* A live owner keeps its lock until it releases it.
LiveOwnerKeepsStateLock == robbed = {}

\* What has been in the file stays in it, the recovered update of a dead writer included.
FileOnlyGrows == [][robbed' = {} => base.updates \subseteq base'.updates]_vars

=============================================================================
