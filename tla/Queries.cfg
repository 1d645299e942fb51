SPECIFICATION FairSpec
CONSTANTS
    m1 = m1
    m2 = m2
    g1 = g1
    g2 = g2
    NoGw = NoGw
    Macs = {m1, m2}
    Mac = m1
    Blocks <- MCBlocks
    Routes <- MCRoutes
    Attempts = 3
    Ticks = 2
    Start = 2
    Max = 7
    Multiple <- MCMultiple
    Jitter <- MCJitter
    Hiccups = TRUE
INVARIANTS
    TypeOK
    AnswerWasRight
    GivesUpLast
    LateOnce
    DelaysInRange
PROPERTY CallsEnd
