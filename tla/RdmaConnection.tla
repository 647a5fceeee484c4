--------------------------- MODULE RdmaConnection ---------------------------
(***************************************************************************)
(* RdmaConnection: work requests are posted to a queue pair, complete in the  *)
(* order of posting, and are found again by their wr_id, the address of the   *)
(* buffer.  A completion queue signals its channel once for each time it was  *)
(* armed; the loop's channel is level triggered.  The device, and the peer    *)
(* whose messages complete the receives, are external.                       *)
(***************************************************************************)
EXTENDS Naturals, SequencesExt

CONSTANTS Buffers,   \* addresses
          MaxPending, \* max_pending_send_req, max_pending_recv_req
          MaxPosts,  \* bound: work requests posted
          Unreliable \* bound: queues that the device may refuse to arm or poll

VARIABLES
  exists,    \* the object: "open", "closing" (shutdown called), "deleted"; "crashed"
  mrMap_,    \* registered buffers
  posted,    \* device: requests of each queue in progress, <<wr_id, number>>
  cq,        \* device: completions [wr, ok] not polled
  armed,     \* device: the next completion signals the channel
  channel,   \* device: signals not fetched with ibv_get_cq_event
  handlers,  \* sendHandlerQueue and recvHandlerQueue, <<wr_id, number>>
  pc,        \* step of the handler that runs, and which
  dataList,  \* wr_ids it has polled
  failed,    \* history: queues whose last pollIncomingData met an error
  posts,     \* number of requests posted
  good,      \* history: successful completions of each buffer
  called     \* history: requests whose callback was called

rdmaVars == <<exists, mrMap_, posted, cq, armed, channel, handlers, pc, dataList, failed,
              posts, good, called>>
deviceVars == <<posted, cq, armed, channel>>

Queues == {"send", "recv"}
Idle == <<"idle", "">>

(* createPassiveConnection and createActiveConnection have armed both queues. *)
RdmaInit ==
  /\ exists = "open" /\ mrMap_ = {}
  /\ posted = [q \in Queues |-> <<>>] /\ cq = [q \in Queues |-> <<>>]
  /\ armed = [q \in Queues |-> TRUE] /\ channel = [q \in Queues |-> 0]
  /\ handlers = [q \in Queues |-> <<>>]
  /\ pc = Idle /\ dataList = <<>> /\ failed = {} /\ posts = 0
  /\ good = [b \in Buffers |-> 0] /\ called = {}

Usable == exists \in {"open", "closing"}

(* The user's code runs between handlers and in callbacks. *)
UserTurn == Usable /\ pc[1] \in {"idle", "run"}

-----------------------------------------------------------------------------
(* The user *)

registerMemory(b) ==
  /\ UserTurn /\ b \notin mrMap_ /\ mrMap_' = mrMap_ \cup {b}
  /\ UNCHANGED <<exists, deviceVars, handlers, pc, dataList, failed, posts, good, called>>

deregisterMemory(b) ==
  /\ UserTurn /\ b \in mrMap_ /\ mrMap_' = mrMap_ \ {b}
  /\ UNCHANGED <<exists, deviceVars, handlers, pc, dataList, failed, posts, good, called>>

(* ibv_post_send or ibv_post_recv of a registered buffer; a full queue pair
   refuses it and the function returns S_FALSE. *)
Post(q, b) ==
  /\ UserTurn /\ b \in mrMap_ /\ Len(posted[q]) < MaxPending /\ posts < MaxPosts
  /\ posts' = posts + 1 /\ posted' = [posted EXCEPT ![q] = Append(@, <<b, posts>>)]
  /\ UNCHANGED <<exists, mrMap_, cq, armed, channel, pc, dataList, failed, good, called>>

Remember(q, b) == handlers' = [handlers EXCEPT ![q] = Append(@, <<b, posts>>)]

onSend(b) == Post("send", b) /\ Remember("send", b)
onRecv(b) == Post("recv", b) /\ Remember("recv", b)

(* The atomic operations complete on the send queue; nobody waits for them. *)
FetchAndAdd(b) == Post("send", b) /\ UNCHANGED handlers
CmpAndSwp(b) == Post("send", b) /\ UNCHANGED handlers

(* A work item deletes the connection and all it holds.  disconnect() is in
   RdmaAcceptor. *)
shutdown ==
  /\ UserTurn /\ exists = "open" /\ exists' = "closing"
  /\ UNCHANGED <<mrMap_, deviceVars, handlers, pc, dataList, failed, posts, good, called>>

destroyConnection ==
  /\ exists = "closing" /\ pc = Idle /\ exists' = "deleted" /\ mrMap_' = {}
  /\ posted' = [q \in Queues |-> <<>>] /\ cq' = [q \in Queues |-> <<>>]
  /\ armed' = [q \in Queues |-> FALSE] /\ channel' = [q \in Queues |-> 0]
  /\ handlers' = [q \in Queues |-> <<>>] /\ dataList' = <<>>
  /\ UNCHANGED <<pc, failed, posts, good, called>>

-----------------------------------------------------------------------------
(* The device: the oldest request completes, badly if its buffer is not
   registered any more, and perhaps otherwise. *)
Complete(q) ==
  /\ Usable /\ posted[q] # <<>>
  /\ LET wr == Head(posted[q])
     IN \E ok \in (IF wr[1] \in mrMap_ THEN BOOLEAN ELSE {FALSE}) :
          /\ cq' = [cq EXCEPT ![q] = Append(@, [wr |-> wr, ok |-> ok])]
          /\ good' = IF ok THEN [good EXCEPT ![wr[1]] = @ + 1] ELSE good
  /\ posted' = [posted EXCEPT ![q] = Tail(@)]
  /\ armed' = [armed EXCEPT ![q] = FALSE]
  /\ channel' = [channel EXCEPT ![q] = IF armed[q] THEN @ + 1 ELSE @]
  /\ UNCHANGED <<exists, mrMap_, handlers, pc, dataList, failed, posts, called>>

-----------------------------------------------------------------------------
(* handleSend and handleRecv: pollIncomingData fetches the signal, arms the
   queue, polls until it is empty and skips what has failed.  With nobody
   waiting, or when it cannot be fetched, the signal stays where it is. *)

handle(q) ==
  /\ Usable /\ pc = Idle /\ channel[q] > 0 /\ handlers[q] # <<>>
  /\ channel' = [channel EXCEPT ![q] = @ - 1]
  /\ pc' = <<"notify", q>> /\ dataList' = <<>> /\ failed' = failed \ {q}
  /\ UNCHANGED <<exists, mrMap_, posted, cq, armed, handlers, posts, good, called>>
handleSend == handle("send")
handleRecv == handle("recv")

(* A bug: the queue is not armed again. *)
armNever(q) ==
  /\ pc = <<"notify", q>> /\ pc' = <<"poll", q>>
  /\ UNCHANGED <<exists, mrMap_, deviceVars, handlers, dataList, failed, posts, good, called>>

arm(q) ==
  /\ pc = <<"notify", q>> /\ pc' = <<"poll", q>>
  /\ armed' = [armed EXCEPT ![q] = TRUE]
  /\ UNCHANGED <<exists, mrMap_, posted, cq, channel, handlers, dataList, failed, posts, good, called>>

(* ibv_req_notify_cq fails: the signal is used up, the queue is not armed and
   nothing is polled. *)
armFails(q) ==
  /\ q \in Unreliable /\ pc = <<"notify", q>> /\ pc' = <<"run", q>> /\ failed' = failed \cup {q}
  /\ UNCHANGED <<exists, mrMap_, deviceVars, handlers, dataList, posts, good, called>>

pollIncomingData(q) ==
  /\ pc = <<"poll", q>>
  /\ IF cq[q] = <<>> THEN pc' = <<"run", q>> /\ UNCHANGED <<cq, dataList>>
     ELSE /\ cq' = [cq EXCEPT ![q] = Tail(@)]
          /\ dataList' = IF Head(cq[q]).ok THEN Append(dataList, Head(cq[q]).wr[1]) ELSE dataList
          /\ pc' = pc
  /\ UNCHANGED <<exists, mrMap_, posted, armed, channel, handlers, failed, posts, good, called>>

(* ibv_poll_cq fails: the completions that are left wait for the next signal.
   With none left an error is like an empty queue. *)
pollFails(q) ==
  /\ q \in Unreliable /\ pc = <<"poll", q>> /\ cq[q] # <<>> /\ pc' = <<"run", q>> /\ failed' = failed \cup {q}
  /\ UNCHANGED <<exists, mrMap_, deviceVars, handlers, dataList, posts, good, called>>

(* A bug: the front is taken for every completion. *)
ForFront(q, b) == {i \in 1..Len(handlers[q]) : i = 1}

(* The handlers of a wr_id. *)
For(q, b) == {i \in 1..Len(handlers[q]) : handlers[q][i][1] = b}

(* The first handler of the wr_id is called; a completion without one is
   dropped.  front() of an empty queue is undefined. *)
callback(q) ==
  /\ pc = <<"run", q>> /\ dataList # <<>> /\ dataList' = Tail(dataList)
  /\ LET found == For(q, Head(dataList))
     IN IF handlers[q] = <<>> THEN exists' \in {exists, "crashed"} /\ UNCHANGED <<handlers, called>>
        ELSE IF found = {} THEN UNCHANGED <<exists, handlers, called>>
        ELSE /\ handlers' = [handlers EXCEPT ![q] = RemoveAt(@, Min(found))]
             /\ called' = called \cup {handlers[q][Min(found)]}
             /\ UNCHANGED exists
  /\ UNCHANGED <<mrMap_, deviceVars, pc, failed, posts, good>>

handleReturn(q) ==
  /\ pc = <<"run", q>> /\ dataList = <<>> /\ pc' = Idle
  /\ UNCHANGED <<exists, mrMap_, deviceVars, handlers, dataList, failed, posts, good, called>>

HandlerStep(q) ==
  arm(q) \/ armFails(q) \/ pollIncomingData(q) \/ pollFails(q) \/ callback(q) \/ handleReturn(q)

RdmaNext ==
  /\ exists # "crashed"
  /\ \/ \E b \in Buffers : \/ registerMemory(b) \/ deregisterMemory(b)
                           \/ onSend(b) \/ onRecv(b) \/ FetchAndAdd(b) \/ CmpAndSwp(b)
     \/ shutdown \/ destroyConnection
     \/ \E q \in Queues : Complete(q) \/ HandlerStep(q)
     \/ handleSend \/ handleRecv

(* The data path alone. *)
RdmaSpec == RdmaInit /\ [][RdmaNext]_rdmaVars

-----------------------------------------------------------------------------
(* A callback runs for a completion of its buffer, never for another's: there
   are no more callbacks for a buffer than successful completions, whatever
   order completions, failures and atomic operations come in. *)
CallbacksCovered ==
  \A b \in Buffers : Cardinality({h \in called : h[1] = b}) <= good[b]

(* No wake-up is lost: a completion in the queue, with somebody waiting, is
   polled, though it may arrive between any two steps of pollIncomingData,
   unless the device refuses to be armed or polled; what such an error leaves
   behind is polled if a signal comes again. *)
CompletionsPolled ==
  \A q \in Queues :
    (exists = "open" /\ cq[q] # <<>> /\ handlers[q] # <<>>)
      ~> (cq[q] = <<>> \/ handlers[q] = <<>> \/ exists # "open" \/ q \in failed)

=============================================================================
