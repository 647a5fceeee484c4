SPECIFICATION Spec
CONSTANTS
  Msgs <- MCMsgs
  Size <- MCSize
  Room = 4
  MaxLine = 2
  MaxIn = 3
  Clients = {c1, c2, c3}
  Requests = {r1, r2, r3}
  Signals = {s1, s2}
  Registered = {s1}
  RealTime = {s2}
  MaxQueued = 2
  Never = {s3}
  Counts = {1, 2}
  MaxCount = 3
  MaxTotal = 5
  Messages <- MCMessages
  HeadId <- MCHeadId
  Dest <- MCDest
  Length <- MCLength
  Entities = {1, 2}
  RecvSize = 6
  Junk = 3
INVARIANTS CallbackAfterBytes RequestMeetsClient FramesIntact RegisteredAlive
PROPERTIES DispatchReturns DatagramsServed FifoIpcOpens PendingNotFatal
CHECK_DEADLOCK FALSE
