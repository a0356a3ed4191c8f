-------------------------- MODULE MCTicketScheduler --------------------------
(***************************************************************************)
(* Model values for TLC: a ticket, one that depends on it, an independent  *)
(* one, and failures of three kinds.                                       *)
(***************************************************************************)
EXTENDS TicketScheduler

CONSTANTS first, second, other

Dependencies == [t \in {first, second, other} |-> IF t = second THEN {first} ELSE {}]
ManifestOrder == [t \in {first, second, other} |->
  IF t = first THEN 1 ELSE IF t = second THEN 2 ELSE 3]
SomeFailures == {[kind |-> "worker_failure", route |-> "workspace"],
                 [kind |-> "verification_contract", route |-> "contract"],
                 [kind |-> "oracle_refusal", route |-> "conformance"]}

=============================================================================
