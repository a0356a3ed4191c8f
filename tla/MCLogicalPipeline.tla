--------------------------- MODULE MCLogicalPipeline ---------------------------
(***************************************************************************)
(* Model values for TLC.                                                   *)
(***************************************************************************)
EXTENDS LogicalPipeline, TLC

CONSTANTS blue, green, handoff1, handoff2, receipt1, payload1, payload2

\* Request ids and payloads are only compared, so their names do not matter; the
\* lanes are told apart by FirstLane.
Names == Permutations(Requests) \cup Permutations(Payloads)

=============================================================================
