------------------------- MODULE MCTicketTransaction -------------------------
(***************************************************************************)
(* Model values for TLC.                                                   *)
(***************************************************************************)
EXTENDS TicketTransaction

CONSTANTS process1, process2, process3, manifest, stateJson

MCRequests == {{}, {manifest}, Files}

=============================================================================
