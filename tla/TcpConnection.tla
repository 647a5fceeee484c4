---------------------------- MODULE TcpConnection ----------------------------
(***************************************************************************)
(* ndsl::net::TcpConnection over an edge-triggered channel: onSend and     *)
(* onRecv try the socket at once and leave the rest to handleWrite and     *)
(* handleRead, which BaseChannel::handleEvent calls.  Everything of the    *)
(* connection runs on its loop's thread; other callbacks of the same batch *)
(* of events, which may call onSend and onRecv, run between epoll_wait and *)
(* handleEvent.                                                            *)
(*                                                                         *)
(* The socket and epoll are external.  A byte is the message it is of and its  *)
(* position there; the send buffer holds SndBuf bytes; edge says that the  *)
(* kernel will report the socket, with the readiness it has at that        *)
(* moment.                                                                 *)
(***************************************************************************)
EXTENDS Integers, Sequences, FiniteSets

CONSTANTS
    Msgs,        \* buffers given to onSend, each once
    MsgLen,      \* their length
    SndBuf       \* capacity of the kernel's send buffer

ASSUME SizesAssumption == MsgLen \in Nat \ {0} /\ SndBuf \in Nat \ {0}

VARIABLES
    qSendInfo_,  \* queue of [msg, offset]; offset is size_t, its -1 is kept as -1
    recvInUse_,  \* RecvInfo_.recvInUse_
    unacked,     \* kernel: bytes in the send buffer
    nospace,     \* kernel: a send fell short, so freed space is an event
    rcv,         \* kernel: there is unread input
    eof, rst,    \* kernel: the peer closed, or reset, the connection
    edge,        \* epoll: the socket is on the ready list
    revents,     \* the event epoll_wait returned and handleEvent has not seen
    sent,        \* history: the bytes accepted by the kernel, in order
    completed,   \* history: messages whose callback was called
    failed,      \* history: messages given up with an error
    notified     \* history: errorHandle_ was called

vars == <<qSendInfo_, recvInUse_, unacked, nospace, rcv, eof, rst, edge, revents,
          sent, completed, failed, notified>>
peerVars == <<rcv, eof, rst>>
histVars == <<sent, completed, failed, notified>>

None == [in |-> FALSE, out |-> FALSE, hup |-> FALSE]
Space == SndBuf - unacked
Smaller(a, b) == IF a < b THEN a ELSE b

(* The bytes a send of n bytes from position off of m passes to the kernel. *)
Bytes(m, off, n) == [k \in 1 .. n |-> [msg |-> m, pos |-> off + k - 1]]

Queued == {qSendInfo_[k].msg : k \in 1 .. Len(qSendInfo_)}
Offered == Queued \cup completed \cup failed

(* createChannel: the enrolled socket is writable, which is the first edge;
   input may have come before, and onRecv called before createChannel only
   registers the request. *)
Init ==
    /\ qSendInfo_ = <<>> /\ recvInUse_ \in BOOLEAN
    /\ unacked = 0 /\ nospace = FALSE
    /\ rcv \in BOOLEAN /\ eof = FALSE /\ rst = FALSE
    /\ edge = TRUE /\ revents = None
    /\ sent = <<>> /\ completed = {} /\ failed = {} /\ notified = FALSE

-----------------------------------------------------------------------------
(* The kernel and the peer *)

PeerSends ==
    /\ ~eof /\ ~rst
    /\ rcv' = TRUE /\ edge' = TRUE
    /\ UNCHANGED <<qSendInfo_, recvInUse_, unacked, nospace, eof, rst, revents, histVars>>

PeerCloses ==
    /\ ~eof /\ ~rst
    /\ eof' = TRUE /\ edge' = TRUE
    /\ UNCHANGED <<qSendInfo_, recvInUse_, unacked, nospace, rcv, rst, revents, histVars>>

PeerResets ==
    /\ ~rst
    /\ rst' = TRUE /\ edge' = TRUE
    /\ UNCHANGED <<qSendInfo_, recvInUse_, unacked, nospace, rcv, eof, revents, histVars>>

(* The peer acknowledges bytes; only after a short send is that an event. *)
PeerReads ==
    /\ unacked > 0 /\ ~rst
    /\ unacked' \in 0 .. unacked - 1
    /\ nospace' = FALSE
    /\ edge' = (edge \/ nospace)
    /\ UNCHANGED <<qSendInfo_, recvInUse_, peerVars, revents, histVars>>

(* epoll_wait reports the readiness of the moment; when there is none the
   entry is dropped. *)
EpollWait ==
    /\ edge /\ revents = None
    /\ edge' = FALSE
    /\ revents' = [in |-> rcv \/ eof \/ rst, out |-> Space > 0 \/ rst, hup |-> eof \/ rst]
    /\ UNCHANGED <<qSendInfo_, recvInUse_, unacked, nospace, peerVars, histVars>>

-----------------------------------------------------------------------------
(* onSend *)

(* send() fails for good: the user's error handler, S_FALSE. *)
onSendError(m) ==
    /\ m \notin Offered
    /\ rst
    /\ failed' = failed \cup {m}
    /\ notified' = TRUE
    /\ UNCHANGED <<qSendInfo_, recvInUse_, unacked, nospace, peerVars, edge, revents, sent, completed>>

(* send() took everything: the callback. *)
onSendAll(m) ==
    /\ m \notin Offered
    /\ ~rst /\ Space >= MsgLen
    /\ unacked' = unacked + MsgLen
    /\ sent' = sent \o Bytes(m, 0, MsgLen)
    /\ completed' = completed \cup {m}
    /\ UNCHANGED <<qSendInfo_, recvInUse_, nospace, peerVars, edge, revents, failed, notified>>

(* A bug: the callback is called although the rest is only queued. *)
onSendPartEager(m) ==
    /\ m \notin Offered
    /\ ~rst /\ Space < MsgLen
    /\ unacked' = SndBuf
    /\ nospace' = TRUE
    /\ sent' = sent \o Bytes(m, 0, Space)
    /\ completed' = completed \cup {m}
    /\ qSendInfo_' = Append(qSendInfo_, [msg |-> m, offset |-> Space])
    /\ UNCHANGED <<recvInUse_, peerVars, edge, revents, failed, notified>>

(* send() took a part, n bytes, or nothing (EAGAIN, n = -1): the message is
   queued with offset_ = n. *)
onSendPart(m) ==
    /\ m \notin Offered
    /\ ~rst /\ Space < MsgLen
    /\ unacked' = SndBuf
    /\ nospace' = TRUE
    /\ sent' = sent \o Bytes(m, 0, Space)
    /\ qSendInfo_' = Append(qSendInfo_,
                            [msg |-> m, offset |-> IF Space > 0 THEN Space ELSE -1])
    /\ UNCHANGED <<recvInUse_, peerVars, edge, revents, completed, failed, notified>>

onSend(m) == onSendError(m) \/ onSendAll(m) \/ onSendPart(m)

-----------------------------------------------------------------------------
(* onRecv *)

(* recv() takes input, all of it or MAXLINE bytes: the callback.  A request
   registered before stays registered. *)
onRecvData ==
    /\ rcv
    /\ rcv' \in BOOLEAN
    /\ UNCHANGED <<qSendInfo_, recvInUse_, unacked, nospace, eof, rst, edge, revents, histVars>>

(* recv() fails for good: the user's error handler, S_FALSE. *)
onRecvError ==
    /\ ~rcv /\ rst
    /\ notified' = TRUE
    /\ UNCHANGED <<qSendInfo_, recvInUse_, unacked, nospace, peerVars, edge, revents,
                   sent, completed, failed>>

(* recv() returns 0 after the peer's close, and after a reset that was
   reported: S_FALSE, and no request is left. *)
onRecvClosed ==
    /\ ~rcv /\ (eof \/ rst)
    /\ recvInUse_' = FALSE
    /\ UNCHANGED <<qSendInfo_, unacked, nospace, peerVars, edge, revents, histVars>>

(* EAGAIN: the request is registered, in place of an earlier one. *)
onRecvWait ==
    /\ ~rcv /\ ~eof /\ ~rst
    /\ recvInUse_' = TRUE
    /\ UNCHANGED <<qSendInfo_, unacked, nospace, peerVars, edge, revents, histVars>>

onRecv == onRecvData \/ onRecvError \/ onRecvClosed \/ onRecvWait

-----------------------------------------------------------------------------
(* A bug: handleRead gives the request up and leaves the input, and the
   close, for an event that has been consumed. *)
handleReadDropped ==
    /\ revents.in
    /\ revents' = None
    /\ UNCHANGED <<qSendInfo_, recvInUse_, unacked, nospace, peerVars, edge, histVars>>

(* Whether handleRead's recv() may fail: never without a request or with
   input; with neither input, close nor reset it does, with EAGAIN. *)
RecvFails ==
    IF ~recvInUse_ \/ rcv THEN {FALSE} ELSE IF rst THEN BOOLEAN ELSE {~eof}

(* BaseChannel::handleEvent, the EPOLLIN branch: handleRead when a request is
   registered; recv() takes input, or returns 0 (closed), or fails, EAGAIN
   included (another callback of the batch took the input): the request ends
   in each case, and every failure reaches the error handler.  Then the error
   handler on EPOLLHUP, EPOLLRDHUP or EPOLLERR. *)
handleRead ==
    /\ revents.in
    /\ revents' = None
    /\ recvInUse_' = FALSE
    /\ rcv' \in IF recvInUse_ /\ rcv THEN BOOLEAN ELSE {rcv}
    /\ notified' \in {notified \/ revents.hup \/ failing : failing \in RecvFails}
    /\ UNCHANGED <<qSendInfo_, unacked, nospace, eof, rst, edge, sent, completed, failed>>

(* handleEvent, EPOLLOUT alone: handleWrite tries the first queued message
   once. *)
handleWriteIdle ==
    /\ revents.out /\ ~revents.in
    /\ revents' = None
    /\ qSendInfo_ = <<>>
    /\ UNCHANGED <<qSendInfo_, recvInUse_, unacked, nospace, peerVars, edge, histVars>>

(* send() took n bytes from offset_ on: the callback and the end of the
   request when that was the rest. *)
handleWriteSend ==
    LET m == Head(qSendInfo_).msg
        off == Head(qSendInfo_).offset
        n == Smaller(Space, MsgLen - off)
    IN  /\ revents.out /\ ~revents.in
        /\ revents' = None
        /\ qSendInfo_ # <<>>
        /\ ~rst /\ Space > 0
        /\ unacked' = unacked + n
        /\ nospace' = (nospace \/ n < MsgLen - off)
        /\ sent' = sent \o Bytes(m, off, n)
        /\ IF off + n = MsgLen
           THEN qSendInfo_' = Tail(qSendInfo_) /\ completed' = completed \cup {m}
           ELSE /\ qSendInfo_' = [qSendInfo_ EXCEPT ![1].offset = off + n]
                /\ UNCHANGED completed
        /\ UNCHANGED <<recvInUse_, peerVars, edge, failed, notified>>

(* send() failed, EAGAIN included: the error handler, the request is dropped. *)
handleWriteError ==
    /\ revents.out /\ ~revents.in
    /\ revents' = None
    /\ qSendInfo_ # <<>>
    /\ rst \/ Space = 0
    /\ failed' = failed \cup {Head(qSendInfo_).msg}
    /\ qSendInfo_' = Tail(qSendInfo_)
    /\ notified' = TRUE
    /\ nospace' = (nospace \/ ~rst)
    /\ UNCHANGED <<recvInUse_, unacked, peerVars, edge, sent, completed>>

(* One event of the socket dispatched: EPOLLIN, or else EPOLLOUT. *)
handleEvent == handleRead \/ handleWriteIdle \/ handleWriteSend \/ handleWriteError

-----------------------------------------------------------------------------
Next ==
    \/ PeerSends \/ PeerCloses \/ PeerResets \/ PeerReads
    \/ EpollWait \/ handleEvent
    \/ \E m \in Msgs : onSend(m)
    \/ onRecv

Spec == Init /\ [][Next]_vars

(* The loop serves its events and the peer keeps reading. *)
FairSpec == Spec /\ WF_vars(EpollWait) /\ WF_vars(handleEvent) /\ WF_vars(PeerReads)

-----------------------------------------------------------------------------
(* Properties *)

(* Every variable has its type. *)
TypeOK ==
    /\ qSendInfo_ \in Seq([msg : Msgs, offset : -1 .. MsgLen - 1])
    /\ {recvInUse_, nospace, rcv, eof, rst, edge, notified} \subseteq BOOLEAN
    /\ unacked \in 0 .. SndBuf
    /\ revents \in [in : BOOLEAN, out : BOOLEAN, hup : BOOLEAN]
    /\ sent \in Seq([msg : Msgs, pos : -1 .. MsgLen - 1])
    /\ completed \subseteq Msgs /\ failed \subseteq Msgs

(* The places of the bytes of m in s; what was read from before the buffer is
   none of its bytes. *)
Places(s, m) == {p \in 1 .. Len(s) : s[p].msg = m /\ s[p].pos >= 0}

(* The bytes of m in s are its first n, each of them once and in order. *)
SentExactly(s, m, n) ==
    /\ \A k \in 0 .. n - 1 : \E p \in Places(s, m) : s[p].pos = k
    /\ \A p \in Places(s, m) : s[p].pos < n
    /\ \A p, q \in Places(s, m) : p < q => s[p].pos < s[q].pos

(* The bytes of a message that are sent when its offset_ is off. *)
Gone(off) == IF off < 0 THEN 0 ELSE off

(* A completed send is complete (onSend, handleWrite): when the callback of a
   message has been called, each of its bytes was accepted by the kernel once
   and in order; a queued one has sent exactly the bytes before its offset. *)
CallbackMeansSent ==
    /\ \A m \in completed : SentExactly(sent, m, MsgLen)
    /\ \A k \in 1 .. Len(qSendInfo_) :
          SentExactly(sent, qSendInfo_[k].msg, Gone(qSendInfo_[k].offset))

(* No lost input edge (onRecv, handleRead): while a receive is registered and
   there is something to receive, the event is on its way. *)
RecvArmed ==
    recvInUse_ /\ (rcv \/ eof \/ rst) => edge \/ revents.in

(* Messages do not mix: the bytes of one message are contiguous and nothing
   else is sent, in particular no byte from before a buffer (TcpConnection.h line 108: several users may call onSend at
   the same time, which is what the queue is for). *)
StreamIntact ==
    \A k \in 2 .. Len(sent) :
        sent[k].msg # sent[k - 1].msg => sent[k - 1].pos = MsgLen - 1 /\ sent[k].pos = 0

(* The peer's close or reset reaches the user's error handler. *)
CloseReported ==
    eof \/ rst ~> notified

(* Every send is answered: while the peer reads, a queued message is sent and
   its callback called, or it fails, or the connection ends (TcpConnection.h
   line 104: onSend notifies asynchronously). *)
SendCompletes ==
    \A m \in Msgs : m \in Queued ~> m \in completed \cup failed \/ eof \/ rst

(* A full send buffer is not an error: handleWrite waits for its next call
   (comment of TcpConnection.cc line 108), so a message is given up only after
   a reset. *)
GivenUpMeansReset ==
    failed # {} => rst
=============================================================================
