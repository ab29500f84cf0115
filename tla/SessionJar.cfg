CONSTANTS
    l1 = l1
    l2 = l2
    p1 = p1
    h1 = h1
    h2 = h2
    Lives = {l1, l2}
    Probes = {p1}
    Hosts = {h1, h2}
    Setups <- MC_AllSetups
    MaxCookies = 1
    MaxProbes = 1
    ForwardCookie = FALSE
SPECIFICATION Spec
SYMMETRY Interchangeable
INVARIANTS TypeOK PooledOnEvidence JarsKeepToTheirEgress ClockIsARealStart
