SPECIFICATION Spec
CONSTANTS
    Items = {i1, i2}
    Channels = {c1, c2}
    Threads = {t1, t2}
    LoopThread = loop
    NoItem = none
    pQueCh_ = que
    pIntrCh_ = intr
    MaxEvents = 2
    MaxQuits = 1
    MaxLoops = 1
SYMMETRY Symmetry
INVARIANTS ReadsToken NoLostWakeup FifoNoLoss QuitRunsEarlierWork DispatchEnrolled
PROPERTY ImplementsWorkService
CHECK_DEADLOCK FALSE
