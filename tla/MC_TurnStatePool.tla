-------------------------- MODULE MC_TurnStatePool --------------------------
(* One credential, which the host may stop listing, and two models: two states *)
(* of different age for one model, none for the other.  A sweep drops nothing *)
(* or everything else.                                                        *)
EXTENDS TurnStatePool, TLC

CONSTANTS a1, m1, m2, b1, b2

MC_Auths    == {a1}
MC_Models   == {m1, m2}
MC_Blobs    == {b1, b2}
MC_IssuedAt == (b1 :> 1) @@ (b2 :> 2)
MC_Owner    == [b \in MC_Blobs |-> <<a1, m1>>]
MC_Sweeps   == {{}, MC_Blobs}

Base == [maintain |-> TRUE, inject |-> TRUE, retry |-> FALSE, probe |-> FALSE,
         header |-> "free"]
Retrying == [Base EXCEPT !.retry = TRUE]
Probing  == [Base EXCEPT !.probe = TRUE]
Frozen   == [Base EXCEPT !.maintain = FALSE]
PinSet   == [Probing EXCEPT !.header = "set"]
PinDrop  == [Base EXCEPT !.header = "remove"]

MC_Rules    == {Retrying, Probing, Frozen}
MC_PinRules == {Retrying, PinSet, PinDrop, Frozen}
=============================================================================
