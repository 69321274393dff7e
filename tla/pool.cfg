SPECIFICATION FairSpec
CONSTANTS
    Threads = {t1, t2}
    Pushers = {p1, p2}
    Tasks = {x1, x2}
    NoTask = NoTask
    Sizes = {0, 1, 2}
INVARIANTS
    TypeOK
    NoLostWakeup
    PromiseKept
PROPERTIES
    EveryTaskServed
    StopReturns
CHECK_DEADLOCK FALSE
