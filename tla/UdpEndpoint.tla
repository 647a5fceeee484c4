---------------------------- MODULE UdpEndpoint ----------------------------
(***************************************************************************)
(* UdpEndpoint: a client's socket (UdpClient::begin, createChannel: edge      *)
(* triggered) or a server's (start: level triggered, no write handler).      *)
(***************************************************************************)
EXTENDS Endpoint

(* As in PipeAndFifo, an error is queued at offset -1. *)
onSend(m) ==
  /\ alive /\ m \notin Offered
  /\ LET n == Accepted(Size[m])
     IN /\ Passes(m, 0, n)
        /\ called' = IF n = Size[m] THEN called \cup {m} ELSE called
        /\ queue' = IF n = Size[m] THEN queue ELSE Append(queue, [m |-> m, offset |-> n])
  /\ UNCHANGED <<kind, registered, handler, alive, failed, in, arrived, edge, revents>>

(* One datagram, with the byte in front of the buffer; an error leaves the
   item where it is. *)
handleWrite ==
  /\ kind = "udp" /\ Handle("out") /\ queue # <<>>
  /\ LET item == Head(queue)
         n == Accepted(Size[item.m] - item.offset)
     IN /\ Passes(item.m, item.offset, n)
        /\ called' = IF item.offset + n = Size[item.m] THEN called \cup {item.m} ELSE called
        /\ queue' = IF item.offset + n = Size[item.m] THEN Tail(queue) ELSE queue
  /\ UNCHANGED <<kind, registered, handler, alive, failed, in, arrived, edge>>

handleWriteIdle == (kind = "udpserver" \/ queue = <<>>) /\ NoWriteHandler

onRecv ==
  /\ alive
  /\ in' = IF in = 0 THEN in ELSE in - Taken
  /\ registered' = (registered \/ in = 0)
  /\ UNCHANGED <<kind, queue, handler, alive, free, arrived, edge, revents, histVars>>

(* Without a registered receive the datagram stays.  If it is gone since
   epoll_wait the callback is called all the same, the length being -1. *)
handleRead ==
  /\ Handle("in")
  /\ in' = IF ~registered \/ in = 0 THEN in ELSE in - Taken
  /\ UNCHANGED <<kind, queue, registered, handler, alive, free, arrived, edge, histVars>>

Next ==
  /\ Datagram
  /\ \/ \E m \in Msgs : onSend(m)
     \/ handleWrite \/ handleWriteIdle \/ onRecv \/ handleRead
     \/ InputArrives \/ PeerReads \/ EpollWait

=============================================================================
