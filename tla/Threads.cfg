SPECIFICATION MCSpec
CONSTANTS
    Takers = {t1, t2, t3, t4, t5}
    Units = {1}
    MaxUnits = 6
    Processors = 2
    Limits = {0, 1, 2, 3, 5}
    MaxLoops = 5
    Tasks = {d1, d2}
    Names <- MCNames
    Answers <- MCAnswers
    DNS_BUCKET_SIZE = 2
    IdCount = 8
    MaxRequests = 3
    MaxSocket = 1
INVARIANTS TypeOK NoSleeperBesideUnits PostedOnce
PROPERTIES UnitsUsed HandedOutInTurn PoolQuitReturns
CHECK_DEADLOCK FALSE
