-------------------------- MODULE MCCollisionWatch --------------------------
(***************************************************************************)
(* Up to three agents, one file and a symbol in it for TLC.                *)
(***************************************************************************)
EXTENDS CollisionWatch, TLC

CONSTANTS a, b, c

OneSymbol == {<<1, 1>>}
NewOrReading == {<<{}, {}>>, <<Files, Symbols>>}
Symmetric == Permutations({b, c})
=============================================================================
