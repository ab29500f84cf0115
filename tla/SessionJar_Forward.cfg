CONSTANTS
    l1 = l1
    l2 = l2
    p1 = p1
    h1 = h1
    h2 = h2
    Lives = {l1}
    Probes = {p1}
    Hosts = {h1}
    Setups <- MC_Proxied
    MaxCookies = 1
    MaxProbes = 1
    ForwardCookie = TRUE
SPECIFICATION Spec
INVARIANT JarsKeepToTheirEgress
