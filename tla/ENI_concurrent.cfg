SPECIFICATION FairSpec
CONSTANTS
    e1 = e1
    e2 = e2
    c1 = c1
    c2 = c2
    g4 = g4
    h4 = h4
    g6 = g6
    Host = Host
    Nowhere = Nowhere
    None = None
    Malformed = Malformed
    Enis = {e1, e2}
    Conts = {c1, c2}
    Conf <- MCConf
    Gateways = {g4, h4, g6}
    GwFam <- MCGwFam
    LinkLocal = {g6}
    Advertised = Advertised
    Names = {0, 1, 2, 3}
    Busy = {0}
    Parallel = 2
    Faults = {"stop"}
INVARIANTS
    TypeOK
    ReportedIsReady
    ForeignOnlyTaken
    BlockedFirst
PROPERTY ENIReturns
