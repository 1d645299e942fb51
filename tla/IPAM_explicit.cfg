SPECIFICATION Spec
CONSTANTS
    p1 = p1
    p2 = p2
    c1 = c1
    c2 = c2
    NoId = NoId
    None = None
    Free = Free
    Procs = {p1, p2}
    Ids = {c1, c2}
    Addr <- MCAddr
    Confs <- ExplicitConfs
    Faults = {"crash", "store", "update"}
    StaleDel = FALSE
SYMMETRY ProcSymmetry
INVARIANTS
    AddressesNeverShared
    TypeOK
    IdsUnique
    ResultRecorded
    DelByIdClean
    DelNamedClean
PROPERTIES
    KeyLifecycle
    ImplementsLedger
