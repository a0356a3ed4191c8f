--------------------------- MODULE FencedOwnership ---------------------------
(***************************************************************************)
(* What the durable control plane promises the executors of one pipeline,  *)
(* without journal, clock or processes: an owner at a time, a new epoch    *)
(* for every owner, writes only by the owner of the current epoch and each *)
(* of them once, an ownership reserved while a handoff is pending, and an  *)
(* end after which nothing is granted or written.                          *)
(***************************************************************************)
EXTENDS Integers

CONSTANTS Owners, NoOwner, Handoffs, NoHandoff, Writes

VARIABLES owner, epoch, reserved, written, closed

vars == <<owner, epoch, reserved, written, closed>>

Init ==
  /\ owner = NoOwner
  /\ epoch = 0
  /\ reserved = NoHandoff
  /\ written = {}
  /\ closed = FALSE

\* The next epoch goes to o, also when the owner before is lost.
Grant(o) ==
  /\ ~closed /\ reserved = NoHandoff
  /\ owner' = o /\ epoch' = epoch + 1
  /\ UNCHANGED <<reserved, written, closed>>

\* The owner names a handoff: until it is settled nobody else is granted.
Reserve(h) ==
  /\ ~closed /\ owner # NoOwner /\ reserved = NoHandoff
  /\ reserved' = h
  /\ UNCHANGED <<owner, epoch, written, closed>>

\* The target of the reservation takes the next epoch.
Transfer(o) ==
  /\ ~closed /\ reserved # NoHandoff
  /\ owner' = o /\ epoch' = epoch + 1
  /\ reserved' = NoHandoff
  /\ UNCHANGED <<written, closed>>

\* The reservation lapses, and with it an owner that is gone.
Abandon ==
  /\ ~closed /\ reserved # NoHandoff
  /\ owner' = NoOwner /\ reserved' = NoHandoff
  /\ UNCHANGED <<epoch, written, closed>>

\* The owner gives the ownership back or is relieved of it.
Revoke ==
  /\ ~closed /\ owner # NoOwner
  /\ owner' = NoOwner
  /\ UNCHANGED <<epoch, reserved, written, closed>>

\* The owner writes, under its own epoch, what nobody wrote before.
Write(w) ==
  /\ ~closed /\ owner # NoOwner
  /\ \A e \in 0..epoch : <<e, w>> \notin written
  /\ written' = written \cup {<<epoch, w>>}
  /\ UNCHANGED <<owner, epoch, reserved, closed>>

Close ==
  /\ ~closed
  /\ closed' = TRUE /\ owner' = NoOwner
  /\ UNCHANGED <<epoch, reserved, written>>

Next ==
  \/ \E o \in Owners : Grant(o) \/ Transfer(o)
  \/ \E h \in Handoffs : Reserve(h)
  \/ \E w \in Writes : Write(w)
  \/ Abandon \/ Revoke \/ Close

Spec == Init /\ [][Next]_vars

=============================================================================
