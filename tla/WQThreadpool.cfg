SPECIFICATION FairSpec
CONSTANTS
    Workers = {w1, w2, w3}
    Posters = {p1, p2}
    Items = {i1, i2}
    quitFunc = quitFunc
    NoItem = none
    MaxThreads = 3
INVARIANTS TypeOK NoIdleWhileWork EarlierWorkDone
PROPERTIES QuitReturns
CHECK_DEADLOCK FALSE
