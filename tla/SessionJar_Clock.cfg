CONSTANTS
    l1 = l1
    l2 = l2
    p1 = p1
    h1 = h1
    h2 = h2
    Lives = {l1}
    Probes = {p1}
    Hosts = {h1}
    Setups <- MC_Direct
    MaxCookies = 1
    MaxProbes = 1
    ForwardCookie = FALSE
SPECIFICATION Spec
PROPERTY OnlyLifeMovesTheClock
