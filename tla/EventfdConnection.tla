------------------------- MODULE EventfdConnection -------------------------
(***************************************************************************)
(* EventfdConnection: a counter in the kernel that onWrite adds to and a     *)
(* read empties, edge triggered.  Nothing can set errorHandle_, so an error  *)
(* goes wherever it points.  write() on an eventfd takes all eight bytes or   *)
(* fails: onWrite's third branch, which queues, and handleWrite's loop over   *)
(* that queue are never reached.                                             *)
(***************************************************************************)
EXTENDS Naturals

CONSTANTS Counts,   \* values given to onWrite
          MaxCount, \* largest value of the counter
          MaxTotal  \* bound: all that is written

VARIABLES
  counter,   \* kernel: value of the eventfd
  efdEdge,   \* epoll: it is on the ready list
  waitingCb, \* onRead has stored a callback in RecvInfo_
  taken,     \* read by the caller of onRead
  readBuf_,  \* the value in RecvInfo_.readBuf_, which nobody looks at
  dropped,   \* earlier values of it
  written,   \* history: sum of the values that were written
  crashed

efdVars == <<counter, efdEdge, waitingCb, taken, readBuf_, dropped, written, crashed>>

EventfdInit ==
  /\ counter = 0 /\ efdEdge = TRUE /\ waitingCb = FALSE
  /\ taken = 0 /\ readBuf_ = 0 /\ dropped = 0 /\ written = 0 /\ crashed = FALSE

(* Above the counter's limit write() fails with EAGAIN. *)
onWrite(n) ==
  /\ ~crashed /\ written + n <= MaxTotal
  /\ IF counter + n <= MaxCount
     THEN /\ counter' = counter + n /\ written' = written + n /\ efdEdge' = TRUE
          /\ UNCHANGED crashed
     ELSE crashed' \in BOOLEAN /\ UNCHANGED <<counter, written, efdEdge>>
  /\ UNCHANGED <<waitingCb, taken, readBuf_, dropped>>

onRead ==
  /\ ~crashed
  /\ IF counter > 0 THEN taken' = taken + counter /\ counter' = 0 /\ UNCHANGED waitingCb
     ELSE waitingCb' = TRUE /\ UNCHANGED <<taken, counter>>
  /\ UNCHANGED <<efdEdge, readBuf_, dropped, written, crashed>>

(* The event: the value goes to RecvInfo_.readBuf_, and the callback is not
   called.  Without a value the event is for writing. *)
efdHandleRead ==
  /\ ~crashed /\ efdEdge /\ counter > 0
  /\ readBuf_' = counter /\ dropped' = dropped + readBuf_ /\ counter' = 0 /\ efdEdge' = FALSE
  /\ UNCHANGED <<waitingCb, taken, written, crashed>>

efdHandleWrite ==
  /\ ~crashed /\ efdEdge /\ counter = 0 /\ efdEdge' = FALSE
  /\ UNCHANGED <<counter, waitingCb, taken, readBuf_, dropped, written, crashed>>

EventfdNext == (\E n \in Counts : onWrite(n)) \/ onRead \/ efdHandleRead \/ efdHandleWrite

=============================================================================
