----------------------------- MODULE LeaseTable -----------------------------
(***************************************************************************)
(* What the room promises about leases, whatever it takes to keep it: a    *)
(* lease is granted on symbols nobody holds, under a token newer than      *)
(* every token issued before, and ends only as a whole.  RoomCore          *)
(* implements this: see Leases in RoomCore.                                *)
(***************************************************************************)
EXTENDS Integers

CONSTANTS Sessions, Symbols, Tokens

VARIABLES
    held,   \* the leases in force: [token, session, symbols]
    issued  \* every fencing token ever issued

vars == <<held, issued>>

Init == held = {} /\ issued = {}

Grant(s, S, t) ==
    /\ \A h \in held : h.symbols \cap S = {}
    /\ \A u \in issued : u < t
    /\ held' = held \cup {[token |-> t, session |-> s, symbols |-> S]}
    /\ issued' = issued \cup {t}

Free(H) ==
    /\ held' = held \ H
    /\ UNCHANGED issued

Next ==
    \/ \E s \in Sessions, S \in SUBSET Symbols, t \in Tokens : Grant(s, S, t)
    \/ \E H \in SUBSET held : Free(H)

Spec == Init /\ [][Next]_vars
=============================================================================
