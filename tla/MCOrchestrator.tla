--------------------------- MODULE MCOrchestrator ---------------------------
(***************************************************************************)
(* Small negotiations for TLC.                                             *)
(***************************************************************************)
EXTENDS Orchestrator, TLC

CONSTANTS a, b, c1, c2, k1, k2, userId

\* Two sessions; a second collision has their roles swapped.
Writers  == (c1 :> a) @@ (c2 :> b)
Affected == (c1 :> {b}) @@ (c2 :> {a})

Writer1   == c1 :> a
Affected1 == c1 :> {b}

\* Both contracts are about one symbol.
Symbol  == (k1 :> userId) @@ (k2 :> userId)
Primary == c1 :> userId
Primaries == (c1 :> userId) @@ (c2 :> userId)
=============================================================================
