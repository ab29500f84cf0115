-------------------------- MODULE MC_CookieForward --------------------------
(* Two management calls on one rule, two refreshes and an edit by hand.      *)
EXTENDS CookieForward

CONSTANTS c1, c2, NoCall
MC_Calls == {c1, c2}
=============================================================================
