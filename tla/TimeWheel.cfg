SPECIFICATION FairSpec
CONSTANTS
    Tasks = {t1, t2}
    SLOTNUM = 3
    Requests <- Mixed
    MaxExp = 2
INVARIANTS ListedOnce FiresWhenDue FiresExactlyTimes
PROPERTIES TaskFires
CHECK_DEADLOCK FALSE
