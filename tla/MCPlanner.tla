----------------------------- MODULE MCPlanner -----------------------------
(***************************************************************************)
(* Two sessions, a file and a symbol in it for TLC; the model may prefer   *)
(* the second session, interested or not, which comes last in the order.   *)
(***************************************************************************)
EXTENDS Planner

CONSTANTS ann, bob

InOrder == <<ann, bob>>
OneSymbol == {<<1, 1>>}
OneDraft == {[prefer |-> 1 :> bob, text |-> <<"model", "said">>]}
=============================================================================
