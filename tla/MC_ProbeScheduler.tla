------------------------- MODULE MC_ProbeScheduler -------------------------
(* Two credentials that share nothing but the scan, two models, two changes. *)
EXTENDS ProbeScheduler, TLC

CONSTANTS a1, a2, w1, w2
MC_Two == {a1, a2}
MC_One == {a1}
MC_Workers == {w1, w2}
=============================================================================
