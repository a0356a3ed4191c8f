----------------------------- MODULE AtomicFiles -----------------------------
(***************************************************************************)
(* What a ticket transaction promises: the files a call asks for change    *)
(* all at once or not at all, as long as calls exclude one another; an     *)
(* operator's cancellation is never taken back.                            *)
(***************************************************************************)
CONSTANTS
  Files, Processes,
  Original    \* the content of a file nobody has written yet

VARIABLES
  value,      \* [Files -> the process whose call wrote it last]
  asked,      \* [Processes -> the files its call is to change]
  cancelled,
  exclusive   \* calls have excluded one another so far

vars == <<value, asked, cancelled, exclusive>>

Init ==
  /\ value = [f \in Files |-> Original]
  /\ asked = [p \in Processes |-> {}]
  /\ cancelled = FALSE
  /\ exclusive = TRUE

Ask(p, S) ==
  /\ asked[p] = {}
  /\ asked' = [asked EXCEPT ![p] = S]
  /\ UNCHANGED <<value, cancelled, exclusive>>

TakeEffect(p) ==
  /\ value' = [f \in Files |-> IF f \in asked[p] THEN p ELSE value[f]]
  /\ UNCHANGED <<asked, cancelled, exclusive>>

\* The call returns, throws or dies, with or without effect.
End(p) ==
  /\ asked' = [asked EXCEPT ![p] = {}]
  /\ UNCHANGED <<value, cancelled, exclusive>>

Cancel == cancelled' = TRUE /\ UNCHANGED <<value, asked, exclusive>>

\* Without exclusion nothing is said about the files.
Overlap == ~exclusive' /\ (cancelled => cancelled')

Next ==
  \/ Cancel \/ Overlap
  \/ \E p \in Processes : TakeEffect(p) \/ End(p) \/ \E S \in SUBSET Files : Ask(p, S)

Spec == Init /\ [][Next]_vars

=============================================================================
