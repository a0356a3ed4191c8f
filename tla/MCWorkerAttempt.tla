-------------------------- MODULE MCWorkerAttempt --------------------------
(* Two changes inside the scope, one outside; the two are interchangeable. *)
EXTENDS WorkerAttempt, TLC

CONSTANTS a, b, x

MCChanges == {a, b, x}
MCInScope == {a, b}
MCSymmetry == Permutations({a, b})
=============================================================================
