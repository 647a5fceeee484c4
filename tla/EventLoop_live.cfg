SPECIFICATION FairSpec
CONSTANTS
    Items = {i1, i2}
    Channels = {c1}
    Threads = {t1}
    LoopThread = loop
    NoItem = none
    pQueCh_ = que
    pIntrCh_ = intr
    MaxEvents = 1
    MaxQuits = 2
    MaxLoops = 2
PROPERTIES WorkServed QuitServed
CHECK_DEADLOCK FALSE
