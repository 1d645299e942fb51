SPECIFICATION Spec
CONSTANTS
    c1 = c1
    c2 = c2
    c3 = c3
    a1 = a1
    a2 = a2
    gw1 = gw1
    gw2 = gw2
    lo1 = lo1
    Free = Free
    Conts = {c1, c2}
    Conf <- SameNet
    Addr <- MCAddr
    Gateways <- MCGateways
    LinkLocal <- MCLinkLocal
    HostMac <- MCHostMac
    IPv6 = TRUE
    Bridges = {"none"}
    IPAMGiven = {TRUE, FALSE}
    Parallel = 2
    Faults = {}
SYMMETRY AddrSymmetry
INVARIANT DelNeedsNoIPAM
