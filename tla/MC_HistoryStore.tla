-------------------------- MODULE MC_HistoryStore --------------------------
(* Two live requests, a scheduled probe and a test request, over a queue of  *)
(* one: it overflows, the batch fills, and each family evicts.               *)
EXTENDS HistoryStore, TLC

CONSTANTS r1, r2, p1, t1

MC_Records == {r1, r2, p1, t1}
MC_Family  == (p1 :> "probe") @@ [r \in {r1, r2, t1} |-> "request"]
MC_Tracked == {r1, r2, p1}
MC_Limit   == [f \in {"request", "probe"} |-> IF f = "request" THEN 2 ELSE 1]
=============================================================================
