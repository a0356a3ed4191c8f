----------------------------- MODULE MCStateFile -----------------------------
(***************************************************************************)
(* Model values for TLC.                                                   *)
(***************************************************************************)
EXTENDS StateFile

CONSTANTS writer1, writer2, writer3, reader

=============================================================================
