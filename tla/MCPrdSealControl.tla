-------------------------- MODULE MCPrdSealControl --------------------------
(***************************************************************************)
(* Model values for TLC.                                                   *)
(***************************************************************************)
EXTENDS PrdSealControl

CONSTANTS original, revised, launcher, operator

=============================================================================
