-------------------------- MODULE MCManagedRunner --------------------------
(***************************************************************************)
(* Two sessions for TLC.                                                   *)
(***************************************************************************)
EXTENDS ManagedRunner

CONSTANTS a, b
=============================================================================
