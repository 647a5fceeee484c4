---------------------------- MODULE PipeAndFifo ----------------------------
(***************************************************************************)
(* PipeAndFifo's sends and receives, over a socket pair (createPipe) or over *)
(* the descriptors of two FIFOs (createAndOpenFifo), which send() and recv()  *)
(* refuse.  The opening of the FIFOs is in FifoOpen.                         *)
(***************************************************************************)
EXTENDS Endpoint

(* The result of send() is kept unsigned: an error is not seen as one but
   queued, at offset -1. *)
onSend(m) ==
  /\ alive /\ m \notin Offered
  /\ LET n == Accepted(Size[m])
     IN /\ Passes(m, 0, n)
        /\ called' = IF n = Size[m] THEN called \cup {m} ELSE called
        /\ queue' = IF n = Size[m] THEN queue ELSE Append(queue, [m |-> m, offset |-> n])
  /\ UNCHANGED <<kind, registered, handler, alive, failed, in, arrived, edge, revents>>

(* n is the outcome of the comparison with 0: whatever was sent, the offset
   goes on by one, and what was sent beyond it is sent again.  An error leaves
   the item where it is. *)
handleWrite ==
  /\ Handle("out") /\ queue # <<>>
  /\ LET item == Head(queue)
         n == Accepted(Size[item.m] - item.offset)
         done == n > 0 /\ item.offset + 1 = Size[item.m]
     IN /\ Passes(item.m, item.offset, n)
        /\ called' = IF done THEN called \cup {item.m} ELSE called
        /\ queue' = IF done THEN Tail(queue)
                    ELSE IF n > 0 THEN [queue EXCEPT ![1].offset = @ + 1] ELSE queue
  /\ UNCHANGED <<kind, registered, handler, alive, failed, in, arrived, edge>>

handleWriteIdle == queue = <<>> /\ NoWriteHandler

(* On a FIFO recv() fails at once. *)
onRecv ==
  /\ alive
  /\ IF kind = "fifo" THEN CallErrorHandle /\ UNCHANGED <<in, registered>>
     ELSE /\ in' = in - Taken
          /\ registered' = (registered \/ in = 0)
          /\ alive' = alive
  /\ UNCHANGED <<kind, queue, handler, free, arrived, edge, revents, histVars>>

handleRead ==
  /\ Handle("in")
  /\ IF kind = "fifo" THEN CallErrorHandle /\ UNCHANGED in
     ELSE IF ~registered THEN BadReceive
     ELSE /\ in' = in - Taken
          /\ IF in = 0 THEN CallErrorHandle ELSE alive' = alive
  /\ UNCHANGED <<kind, queue, registered, handler, free, arrived, edge, histVars>>

Next ==
  /\ kind \in {"pipe", "fifo"}
  /\ \/ \E m \in Msgs : onSend(m)
     \/ handleWrite \/ handleWriteIdle \/ onRecv \/ handleRead
     \/ InputArrives \/ PeerReads \/ EpollWait \/ onError

=============================================================================
