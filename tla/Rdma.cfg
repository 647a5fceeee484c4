SPECIFICATION Spec
CONSTANTS
  Buffers = {b1, b2}
  MaxPending = 2
  MaxPosts = 3
  Unreliable = {"recv"}
  Peers = {c1, c2}
  Conns = {r1, r2}
INVARIANTS CallbacksCovered EachItsConnection
PROPERTY CompletionsPolled
CHECK_DEADLOCK FALSE
