--------------------------- MODULE UnixConnection ---------------------------
(***************************************************************************)
(* UnixConnection: a stream socket, edge triggered for reading and writing. *)
(***************************************************************************)
EXTENDS Endpoint

(* A send that is not accepted at all, for whatever reason, is an error; only
   one that is cut short is queued.  Nothing looks at the queue first. *)
onSend(m) ==
  /\ alive /\ m \notin Offered
  /\ LET n == Accepted(Size[m])
     IN /\ Passes(m, 0, n)
        /\ called' = IF n = Size[m] THEN called \cup {m} ELSE called
        /\ failed' = IF n < 0 THEN failed \cup {m} ELSE failed
        /\ IF n < 0 THEN CallErrorHandle ELSE alive' = alive
        /\ queue' = IF n \in 0..Size[m] - 1 THEN Append(queue, [m |-> m, offset |-> n]) ELSE queue
  /\ UNCHANGED <<kind, registered, handler, in, arrived, edge, revents>>

(* A bug: the callback is called as soon as something was sent. *)
handleWriteEager ==
  /\ Handle("out") /\ queue # <<>>
  /\ LET item == Head(queue)
         n == Accepted(Size[item.m] - item.offset)
     IN /\ n > 0
        /\ Passes(item.m, item.offset, n)
        /\ called' = called \cup {item.m}
        /\ queue' = Tail(queue)
  /\ UNCHANGED <<kind, registered, handler, alive, in, arrived, edge, failed>>

(* The send at the front of the queue goes on; an error drops it. *)
handleWrite ==
  /\ Handle("out") /\ queue # <<>>
  /\ LET item == Head(queue)
         n == Accepted(Size[item.m] - item.offset)
     IN /\ Passes(item.m, item.offset, n)
        /\ called' = IF item.offset + n = Size[item.m] THEN called \cup {item.m} ELSE called
        /\ failed' = IF n < 0 THEN failed \cup {item.m} ELSE failed
        /\ IF n < 0 THEN CallErrorHandle ELSE alive' = alive
        /\ queue' = IF n < 0 \/ item.offset + n = Size[item.m] THEN Tail(queue)
                    ELSE [queue EXCEPT ![1].offset = @ + n]
  /\ UNCHANGED <<kind, registered, handler, in, arrived, edge>>

handleWriteIdle == queue = <<>> /\ NoWriteHandler

(* Input that is there is taken at once and the callback called, without a
   length; otherwise the receive is registered, for every event to come. *)
onRecv ==
  /\ alive
  /\ in' = in - Taken
  /\ registered' = (registered \/ in = 0)
  /\ UNCHANGED <<kind, queue, handler, alive, free, arrived, edge, revents, histVars>>

(* The input may be gone since epoll_wait: then EAGAIN is an error. *)
handleRead ==
  /\ Handle("in")
  /\ IF ~registered THEN BadReceive
     ELSE /\ in' = in - Taken
          /\ IF in = 0 THEN CallErrorHandle ELSE alive' = alive
  /\ UNCHANGED <<kind, queue, registered, handler, free, arrived, edge, histVars>>

Next ==
  /\ kind = "unix"
  /\ \/ \E m \in Msgs : onSend(m)
     \/ handleWrite \/ handleWriteIdle \/ onRecv \/ handleRead
     \/ InputArrives \/ PeerReads \/ EpollWait \/ onError

=============================================================================
