----------------------------- MODULE MCRoomCore -----------------------------
(***************************************************************************)
(* Small rooms for TLC.                                                    *)
(***************************************************************************)
EXTENDS RoomCore, TLC

CONSTANTS s1, s2, whole, part, file

\* Two keys of one file: the file itself and a symbol in it.
OneFile == (whole :> file) @@ (part :> file)

OneSymbol == whole :> file

Symmetry == Permutations(Sessions) \cup Permutations(Symbols)
=============================================================================
