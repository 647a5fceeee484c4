SPECIFICATION Spec
CONSTANTS
    Tasks = {t1, t2}
    SLOTNUM = 3
    Requests <- SeveralTurns
    MaxExp = 2
SYMMETRY Symmetry
INVARIANTS FiresOnTick
CHECK_DEADLOCK FALSE
