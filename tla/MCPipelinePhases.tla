-------------------------- MODULE MCPipelinePhases --------------------------
(* A pipeline of two tickets, the second of which depends on the first.    *)
EXTENDS PipelinePhases

CONSTANTS first, second

MCNeeds == [t \in Tickets |-> IF t = second THEN {first} ELSE {}]
=============================================================================
