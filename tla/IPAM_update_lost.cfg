SPECIFICATION FairSpec
CONSTANTS
    p1 = p1
    p2 = p2
    c1 = c1
    c2 = c2
    NoId = NoId
    None = None
    Free = Free
    Procs = {p1}
    Ids = {c1, c2}
    Addr <- MCAddr
    Confs <- SearchConfs
    Faults = {"update"}
    StaleDel = FALSE
PROPERTIES
    CommandsEnd
