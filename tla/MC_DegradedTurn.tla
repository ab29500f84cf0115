-------------------------- MODULE MC_DegradedTurn --------------------------
(* Two requests over one retry slot, so that the second finds it taken, and   *)
(* series of two attempts.                                                    *)
EXTENDS DegradedTurn

CONSTANTS r1, r2
MC_Requests == {r1, r2}
=============================================================================
