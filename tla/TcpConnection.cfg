SPECIFICATION FairSpec
CONSTANTS
    Msgs = {m1, m2, m3}
    MsgLen = 2
    SndBuf = 3
INVARIANTS CallbackMeansSent RecvArmed
PROPERTIES CloseReported
CHECK_DEADLOCK FALSE
