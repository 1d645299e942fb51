SPECIFICATION FairSpec
CONSTANTS
    NoId = NoId
    None = None
    Ids = {}
    Addr <- MCAddr
    Confs = {}
    Subnets <- MCSubnets
    Whole = 4
INVARIANTS
    TypeOK
    ReturnsNextIP
PROPERTIES
    LoopEnds
