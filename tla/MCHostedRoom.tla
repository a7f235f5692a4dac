---------------------------- MODULE MCHostedRoom ----------------------------
(* A small hosted room for TLC: one daemon and one dashboard. *)
EXTENDS HostedRoom, TLC

CONSTANTS d, only, x, file

OneSession == d :> only

OneSymbol == x :> file
=============================================================================
