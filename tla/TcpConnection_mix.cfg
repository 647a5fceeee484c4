SPECIFICATION Spec
CONSTANTS
    Msgs = {m1, m2, m3}
    MsgLen = 2
    SndBuf = 3
SYMMETRY Symmetry
INVARIANTS StreamIntact
CHECK_DEADLOCK FALSE
