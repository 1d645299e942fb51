SPECIFICATION FairSpec
CONSTANTS
    p1 = p1
    p2 = p2
    c1 = c1
    c2 = c2
    NoId = NoId
    None = None
    Free = Free
    Procs = {p1, p2}
    Ids = {c1, c2}
    Addr <- MCLargeAddr
    Confs <- SharedConfs
    Faults = {"crash", "store", "update"}
    StaleDel = TRUE
INVARIANTS
    IdsUnique
    ExhaustedMeansFull
PROPERTIES
    KeyLifecycle
    CommandsEndOrSearch
