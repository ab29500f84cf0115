--------------------------- MODULE MC_SessionJar ---------------------------
(* Which probes a run has: straight out, through a proxy, or both; and that  *)
(* requests and backends are interchangeable.                                *)
EXTENDS SessionJar, TLC

CONSTANTS l1, l2, p1, h1, h2

MC_AllSetups == AllSetups
MC_Direct    == {<<"credential", "direct">>}
MC_Proxied   == {<<"static", "proxy">>, <<"credential", "proxy">>}

Interchangeable == Permutations({l1, l2}) \cup Permutations({h1, h2})
=============================================================================
