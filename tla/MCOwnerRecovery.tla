-------------------------- MODULE MCOwnerRecovery --------------------------
(***************************************************************************)
(* Model values for TLC: a detached session may roll over twice, the one   *)
(* in a tmux pane once.                                                    *)
(***************************************************************************)
EXTENDS OwnerRecovery

Rollovers == [m \in Modes |-> IF m = "process" THEN 2 ELSE 1]

=============================================================================
