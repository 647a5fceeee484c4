------------------------- MODULE TcpConnectionProofs -------------------------
(* Proofs about TcpConnection, for any number and length of messages and any
   size of the send buffer.  RecvArmed is inductive once revents is known
   to be an event: an edge leaves the ready list only into revents, and
   revents is cleared with EPOLLIN set only by handleRead, which ends the
   registered request. *)
EXTENDS TcpConnection, SequenceTheorems, TLAPS

(* What the induction needs of the types. *)
EventType == revents \in [in : BOOLEAN, out : BOOLEAN, hup : BOOLEAN]

(* A registered receive never misses its edge, for every number and length of
   messages and every size of the send buffer (onRecv, handleRead and
   BaseChannel::handleEvent on an edge-triggered channel). *)
THEOREM RecvArmedHolds == Spec => []RecvArmed
<1>. DEFINE IInv == EventType /\ RecvArmed
<1>1. Init => IInv
  BY DEF Init, EventType, RecvArmed, None
<1>2. IInv /\ [Next]_vars => IInv'
  <2>. SUFFICES ASSUME EventType, RecvArmed, [Next]_vars PROVE EventType' /\ RecvArmed'
    OBVIOUS
  <2>. USE DEF EventType, RecvArmed
  <2>1. CASE PeerSends
    BY <2>1 DEF PeerSends
  <2>2. CASE PeerCloses
    BY <2>2 DEF PeerCloses
  <2>3. CASE PeerResets
    BY <2>3 DEF PeerResets
  <2>4. CASE PeerReads
    BY <2>4 DEF PeerReads, peerVars
  <2>5. CASE EpollWait
    BY <2>5 DEF EpollWait, peerVars
  <2>6. ASSUME NEW m \in Msgs, onSend(m) PROVE EventType' /\ RecvArmed'
    BY <2>6 DEF onSend, onSendError, onSendAll, onSendPart, peerVars
  <2>7. CASE onRecv
    <3>1. CASE onRecvData
      BY <3>1 DEF onRecvData
    <3>2. CASE onRecvError
      BY <3>2 DEF onRecvError, peerVars
    <3>3. CASE onRecvClosed
      BY <3>3 DEF onRecvClosed
    <3>4. CASE onRecvWait
      BY <3>4 DEF onRecvWait, peerVars
    <3>. QED BY <2>7, <3>1, <3>2, <3>3, <3>4 DEF onRecv
  <2>8. CASE handleRead
    BY <2>8 DEF handleRead, None
  <2>9. CASE handleWriteIdle
    BY <2>9 DEF handleWriteIdle, peerVars, None
  <2>10. CASE handleWriteSend
    BY <2>10 DEF handleWriteSend, peerVars, None
  <2>11. CASE handleWriteError
    BY <2>11 DEF handleWriteError, peerVars, None
  <2>12. CASE UNCHANGED vars
    BY <2>12 DEF vars
  <2>. QED
    BY <2>1, <2>2, <2>3, <2>4, <2>5, <2>6, <2>7, <2>8, <2>9, <2>10, <2>11, <2>12
    DEF Next, handleEvent
<1>3. IInv => RecvArmed
  OBVIOUS
<1>. QED BY <1>1, <1>2, <1>3, PTL DEF Spec

-----------------------------------------------------------------------------
Info == [msg : Msgs, offset : -1 .. MsgLen - 1]
Byte == [msg : Msgs, pos : -1 .. MsgLen - 1]

(* t is s followed by n bytes of m from position off on. *)
Adds(s, t, m, off, n) ==
    /\ t \in Seq(Byte)
    /\ Len(s) \in Nat /\ Len(t) = Len(s) + n
    /\ \A k \in 1 .. Len(s) : t[k] = s[k]
    /\ \A k \in 1 .. Len(t) : k > Len(s) => t[k] = [msg |-> m, pos |-> off + (k - Len(s)) - 1]

(* What a send of n bytes of m from position off adds to the stream. *)
LEMMA SendFacts ==
    ASSUME NEW s \in Seq(Byte), NEW m \in Msgs, NEW off \in Int, NEW n \in Nat,
           off >= -1, off + n <= MsgLen
    PROVE  Adds(s, s \o Bytes(m, off, n), m, off, n)
  <1> DEFINE b == Bytes(m, off, n)
             t == s \o b
  <1>1. b \in [1 .. n -> Byte] /\ \A k \in 1 .. n : b[k] = [msg |-> m, pos |-> off + k - 1]
    BY SizesAssumption DEF Bytes, Byte
  <1>2. b \in Seq(Byte) /\ Len(b) = n
    BY <1>1
  <1> HIDE DEF b
  <1>3. /\ t \in Seq(Byte) /\ Len(t) = Len(s) + Len(b)
        /\ \A i \in 1 .. Len(s) + Len(b) : t[i] = IF i <= Len(s) THEN s[i] ELSE b[i - Len(s)]
    BY <1>2, ConcatProperties
  <1>4. Len(s) \in Nat
    BY LenProperties
  <1> HIDE DEF t
  <1>5. ASSUME NEW k \in 1 .. Len(t), k > Len(s)
        PROVE  t[k] = [msg |-> m, pos |-> off + (k - Len(s)) - 1]
    <2>1. k - Len(s) \in 1 .. n /\ t[k] = b[k - Len(s)]
      BY <1>2, <1>3, <1>4, <1>5
    <2>2. QED
      BY <1>1, <2>1
  <1>6. \A k \in 1 .. Len(s) : t[k] = s[k]
    BY <1>2, <1>3, <1>4
  <1>7. Adds(s, t, m, off, n)
    BY <1>2, <1>3, <1>4, <1>5, <1>6 DEF Adds
  <1>8. QED
    BY <1>7 DEF t, b

(* What is new in the stream is of the message that is sent. *)
LEMMA AddsOwn ==
    ASSUME NEW s, NEW t, NEW m, NEW off \in Int, NEW n, Adds(s, t, m, off, n), NEW p \in 1 .. Len(t)
    PROVE  t[p].msg = m \/ (p \in 1 .. Len(s) /\ t[p] = s[p])
  <1>1. CASE p <= Len(s)
    BY <1>1 DEF Adds
  <1>2. CASE p > Len(s)
    BY <1>2 DEF Adds
  <1>3. QED
    BY <1>1, <1>2 DEF Adds

(* Where the bytes of o are after that: where they were and, when o is m, at
   the end. *)
Grows(s, t, m, off, n, o) ==
    /\ t \in Seq(Byte) /\ Len(s) \in Nat
    /\ \A p \in Places(s, o) : /\ p \in Places(t, o) /\ t[p] = s[p]
                               /\ p \in 1 .. Len(s) /\ s[p].pos \in Nat
    /\ \A p \in Places(t, o) : \/ p \in Places(s, o)
                               \/ /\ o = m /\ p \in Nat /\ p > Len(s)
                                  /\ t[p].pos = off + (p - Len(s)) - 1 /\ t[p].pos >= 0
    /\ \A j \in 1 .. n : off + j - 1 >= 0 => /\ Len(s) + j \in Places(t, m)
                                             /\ t[Len(s) + j].pos = off + j - 1

(* Where the bytes of a send go. *)
LEMMA SendPlaces ==
    ASSUME NEW s \in Seq(Byte), NEW t, NEW m \in Msgs, NEW off \in Int, NEW n \in Nat,
           Adds(s, t, m, off, n), NEW o
    PROVE  Grows(s, t, m, off, n, o)
  <1>1. /\ t \in Seq(Byte)
        /\ Len(s) \in Nat /\ Len(t) = Len(s) + n
        /\ \A k \in 1 .. Len(s) : t[k] = s[k]
        /\ \A k \in 1 .. Len(t) : k > Len(s) => t[k] = [msg |-> m, pos |-> off + (k - Len(s)) - 1]
    BY DEF Adds
  <1>2. \A p \in 1 .. Len(s) : s[p].pos \in Int
    <2>1. \A p \in 1 .. Len(s) : s[p] \in Byte
      BY ElementOfSeq
    <2>2. QED
      BY <2>1 DEF Byte
  <1>3. ASSUME NEW p \in Places(s, o)
        PROVE  /\ p \in Places(t, o) /\ t[p] = s[p]
               /\ p \in 1 .. Len(s) /\ s[p].pos \in Nat
    BY <1>1, <1>2 DEF Places
  <1>4. ASSUME NEW p \in Places(t, o), p \notin Places(s, o)
        PROVE  /\ o = m /\ p \in Nat /\ p > Len(s)
               /\ t[p].pos = off + (p - Len(s)) - 1 /\ t[p].pos >= 0
    BY <1>1, <1>4 DEF Places
  <1>5. ASSUME NEW j \in 1 .. n, off + j - 1 >= 0
        PROVE  Len(s) + j \in Places(t, m) /\ t[Len(s) + j].pos = off + j - 1
    <2>1. Len(s) + j \in 1 .. Len(t) /\ Len(s) + j > Len(s) /\ (Len(s) + j) - Len(s) = j
      BY <1>1
    <2>2. t[Len(s) + j] = [msg |-> m, pos |-> off + j - 1]
      BY <1>1, <2>1
    <2>3. QED
      BY <1>5, <2>1, <2>2 DEF Places
  <1>6. QED
    BY <1>1, <1>3, <1>4, <1>5 DEF Grows

(* A send from the offset of m on extends the prefix of m that is sent. *)
LEMMA SendExtends ==
    ASSUME NEW s \in Seq(Byte), NEW m \in Msgs, NEW off \in Int, NEW n \in Nat,
           off >= -1, off + n <= MsgLen, off + n >= 0, NEW t, Adds(s, t, m, off, n),
           SentExactly(s, m, Gone(off))
    PROVE  SentExactly(t, m, off + n)
  <1>0. Grows(s, t, m, off, n, m)
    BY SendPlaces
  <1>1. /\ \A p \in Places(s, m) : /\ p \in Places(t, m) /\ t[p] = s[p]
                                   /\ p \in 1 .. Len(s) /\ s[p].pos \in Nat
        /\ \A p \in Places(t, m) : \/ p \in Places(s, m)
                                   \/ /\ p \in Nat /\ p > Len(s)
                                      /\ t[p].pos = off + (p - Len(s)) - 1 /\ t[p].pos >= 0
        /\ Len(s) \in Nat
        /\ \A j \in 1 .. n : off + j - 1 >= 0 => /\ Len(s) + j \in Places(t, m)
                                                 /\ t[Len(s) + j].pos = off + j - 1
    BY <1>0 DEF Grows
  <1>2. Gone(off) \in Nat /\ Gone(off) <= off + n /\ off <= Gone(off) /\ (off >= 0 => Gone(off) = off)
    BY DEF Gone
  <1>3. /\ \A k \in 0 .. Gone(off) - 1 : \E p \in Places(s, m) : s[p].pos = k
        /\ \A p \in Places(s, m) : s[p].pos < Gone(off)
        /\ \A p, q \in Places(s, m) : p < q => s[p].pos < s[q].pos
    BY DEF SentExactly
  <1>4. ASSUME NEW k \in 0 .. off + n - 1 PROVE \E p \in Places(t, m) : t[p].pos = k
    <2>1. CASE k < Gone(off)
      <3>1. PICK p \in Places(s, m) : s[p].pos = k
        BY <1>2, <1>3, <2>1
      <3>2. QED
        BY <1>1, <3>1
    <2>2. CASE k >= Gone(off)
      <3>1. PICK j \in 1 .. n : off + j - 1 = k
        <4>1. k - off + 1 \in 1 .. n /\ off + (k - off + 1) - 1 = k
          BY <1>2, <2>2
        <4>2. QED
          BY <4>1
      <3>2. Len(s) + j \in Places(t, m) /\ t[Len(s) + j].pos = k
        <4>1. \A i \in 1 .. n : off + i - 1 >= 0 => /\ Len(s) + i \in Places(t, m)
                                                   /\ t[Len(s) + i].pos = off + i - 1
          BY <1>1
        <4>2. off + j - 1 >= 0
          BY <3>1
        <4>3. QED
          BY <3>1, <4>1, <4>2
      <3>3. QED
        BY <3>2
    <2>3. QED
      BY <1>2, <2>1, <2>2
  <1>5. ASSUME NEW p \in Places(t, m) PROVE t[p].pos < off + n
    <2>1. CASE p \in Places(s, m)
      BY <1>1, <1>2, <1>3, <2>1
    <2>2. CASE p \notin Places(s, m)
      <3>1. t \in Seq(Byte) /\ Len(t) = Len(s) + n
        BY DEF Adds
      <3>2. p <= Len(s) + n
        BY <3>1 DEF Places
      <3>3. QED
        BY <1>1, <2>2, <3>2
    <2>3. QED
      BY <2>1, <2>2
  <1>6. ASSUME NEW p \in Places(t, m), NEW q \in Places(t, m), p < q PROVE t[p].pos < t[q].pos
    <2>1. CASE p \in Places(s, m) /\ q \in Places(s, m)
      BY <1>1, <1>3, <1>6, <2>1
    <2>2. CASE p \notin Places(s, m) /\ q \in Places(s, m)
      BY <1>1, <1>6, <2>2
    <2>3. CASE p \in Places(s, m) /\ q \notin Places(s, m)
      <3>1. t[p].pos < Gone(off) /\ t[p].pos \in Nat
        BY <1>1, <1>3, <2>3
      <3>2. t[q].pos \in Int /\ t[q].pos >= Gone(off)
        BY <1>1, <2>3 DEF Gone
      <3>3. QED
        BY <1>2, <3>1, <3>2
    <2>4. CASE p \notin Places(s, m) /\ q \notin Places(s, m)
      BY <1>1, <1>6, <2>4
    <2>5. QED
      BY <2>1, <2>2, <2>3, <2>4
  <1>7. QED
    BY <1>4, <1>5, <1>6 DEF SentExactly

(* It changes nothing for the other messages. *)
LEMMA SendOthers ==
    ASSUME NEW s \in Seq(Byte), NEW m \in Msgs, NEW off \in Int, NEW n \in Nat,
           off >= -1, off + n <= MsgLen, NEW t, Adds(s, t, m, off, n),
           NEW o, o # m, NEW j, SentExactly(s, o, j)
    PROVE  SentExactly(t, o, j)
  <1>0. Grows(s, t, m, off, n, o)
    BY SendPlaces
  <1>1. Places(t, o) = Places(s, o) /\ \A p \in Places(s, o) : t[p] = s[p]
    BY <1>0 DEF Grows
  <1>2. QED
    BY <1>1 DEF SentExactly

-----------------------------------------------------------------------------
(* A message is queued once, and not after its callback. *)
Distinct ==
    /\ \A a, b \in 1 .. Len(qSendInfo_) : qSendInfo_[a].msg = qSendInfo_[b].msg => a = b
    /\ \A a \in 1 .. Len(qSendInfo_) : qSendInfo_[a].msg \notin completed

(* Nothing is sent of a message before onSend. *)
OwnBytes == \A p \in 1 .. Len(sent) : sent[p].msg \in Offered

(* The inductive invariant of the stream. *)
StreamInv == TypeOK /\ Distinct /\ OwnBytes /\ CallbackMeansSent

(* The steps that leave the queue, the stream and the outcomes alone. *)
LEMMA QuietStream ==
    ASSUME StreamInv, TypeOK',
           qSendInfo_' = qSendInfo_, sent' = sent, completed' = completed, failed \subseteq failed'
    PROVE  StreamInv'
  <1>1. Queued' = Queued
    BY DEF Queued
  <1>2. Offered \subseteq Offered'
    BY <1>1 DEF Offered
  <1>3. QED
    BY <1>2 DEF StreamInv, Distinct, OwnBytes, CallbackMeansSent


(* Every step of the kernel, of the peer, of onRecv and handleRead keeps the
   types, and so do the sends without bytes. *)
LEMMA QuietTypes ==
    ASSUME TypeOK,
           \/ PeerSends \/ PeerCloses \/ PeerResets \/ PeerReads \/ EpollWait \/ onRecv
           \/ handleRead \/ handleWriteIdle \/ (\E m \in Msgs : onSendError(m)) \/ UNCHANGED vars
    PROVE  /\ TypeOK'
           /\ qSendInfo_' = qSendInfo_ /\ sent' = sent /\ completed' = completed /\ failed \subseteq failed'
  <1> USE DEF TypeOK, histVars, peerVars
  <1>1. CASE PeerSends \/ PeerCloses \/ PeerResets
    BY <1>1 DEF PeerSends, PeerCloses, PeerResets
  <1>2. CASE PeerReads
    <2>1. unacked' \in 0 .. SndBuf
      BY <1>2, SizesAssumption DEF PeerReads
    <2>2. nospace' \in BOOLEAN /\ edge' \in BOOLEAN
      BY <1>2 DEF PeerReads
    <2> HIDE DEF peerVars, histVars
    <2>3. rcv' = rcv /\ eof' = eof /\ rst' = rst /\ UNCHANGED <<sent, completed, failed, notified>>
      BY <1>2 DEF PeerReads, peerVars, histVars
    <2>4. qSendInfo_' = qSendInfo_ /\ recvInUse_' = recvInUse_ /\ revents' = revents
      BY <1>2 DEF PeerReads
    <2>5. QED
      BY <2>1, <2>2, <2>3, <2>4
  <1>3. CASE EpollWait
    BY <1>3 DEF EpollWait
  <1>4. CASE onRecv
    BY <1>4 DEF onRecv, onRecvData, onRecvError, onRecvClosed, onRecvWait
  <1>5. CASE handleRead
    <2>1. rcv' \in BOOLEAN
      BY <1>5 DEF handleRead
    <2>2. notified' \in BOOLEAN
      BY <1>5 DEF handleRead, RecvFails
    <2>3. QED
      BY <1>5, <2>1, <2>2 DEF handleRead, None
  <1>6. CASE handleWriteIdle
    BY <1>6 DEF handleWriteIdle, None
  <1>7. CASE \E m \in Msgs : onSendError(m)
    BY <1>7 DEF onSendError
  <1>8. CASE UNCHANGED vars
    BY <1>8 DEF vars
  <1>9. QED
    BY <1>1, <1>2, <1>3, <1>4, <1>5, <1>6, <1>7, <1>8

(* A message that was not offered has no byte in the stream. *)
LEMMA FreshExact ==
    ASSUME StreamInv, NEW m, m \notin Offered
    PROVE  SentExactly(sent, m, 0)
  <1>1. Places(sent, m) = {}
    BY DEF StreamInv, OwnBytes, Places
  <1>2. QED
    BY <1>1 DEF SentExactly

(* t is s after the first k bytes of m are sent. *)
After(s, t, m, k) ==
    /\ t \in Seq(Byte)
    /\ SentExactly(t, m, k)
    /\ \A o, j : o # m /\ SentExactly(s, o, j) => SentExactly(t, o, j)
    /\ \A p \in 1 .. Len(t) : t[p].msg = m \/ (p \in 1 .. Len(s) /\ t[p] = s[p])

(* The stream after a send of m from its offset off on. *)
LEMMA AddsAfter ==
    ASSUME NEW s \in Seq(Byte), NEW t, NEW m \in Msgs, NEW off \in Int, NEW n \in Nat,
           off >= -1, off + n >= 0, off + n <= MsgLen,
           Adds(s, t, m, off, n), SentExactly(s, m, Gone(off))
    PROVE  After(s, t, m, off + n)
  <1>1. SentExactly(t, m, off + n)
    BY SendExtends
  <1>2. ASSUME NEW o, NEW j, o # m, SentExactly(s, o, j) PROVE SentExactly(t, o, j)
    BY <1>2, SendOthers
  <1>3. t \in Seq(Byte)
    BY DEF Adds
  <1>4. ASSUME NEW p \in 1 .. Len(t)
        PROVE  t[p].msg = m \/ (p \in 1 .. Len(s) /\ t[p] = s[p])
    BY AddsOwn
  <1>5. QED
    BY <1>1, <1>2, <1>3, <1>4 DEF After

(* A send that goes on where the message stood. *)
LEMMA StreamAfter ==
    ASSUME TypeOK, NEW m \in Msgs, NEW off \in Int, NEW n \in Nat,
           off >= -1, off + n >= 0, off + n <= MsgLen,
           sent' = sent \o Bytes(m, off, n), SentExactly(sent, m, Gone(off))
    PROVE  After(sent, sent', m, off + n)
  <1>1. sent \in Seq(Byte)
    BY DEF TypeOK, Byte
  <1>2. Adds(sent, sent', m, off, n)
    BY <1>1, SendFacts
  <1>3. QED
    BY <1>1, <1>2, AddsAfter

(* A message that fits is sent whole. *)
LEMMA OnSendAllStream ==
    ASSUME StreamInv, NEW m \in Msgs, onSendAll(m)
    PROVE  StreamInv'
  <1>1. SentExactly(sent, m, Gone(0)) /\ MsgLen \in Nat /\ 0 + MsgLen = MsgLen
    BY FreshExact, SizesAssumption DEF onSendAll, Gone
  <1>2. sent' = sent \o Bytes(m, 0, MsgLen) /\ TypeOK
    BY DEF onSendAll, StreamInv
  <1>3. /\ sent' \in Seq(Byte)
        /\ SentExactly(sent', m, MsgLen)
        /\ \A o, j : o # m /\ SentExactly(sent, o, j) => SentExactly(sent', o, j)
        /\ \A p \in 1 .. Len(sent') : sent'[p].msg = m
                                      \/ (p \in 1 .. Len(sent) /\ sent'[p] = sent[p])
    <2>0. 0 \in Int /\ 0 >= -1 /\ 0 + MsgLen >= 0 /\ 0 + MsgLen <= MsgLen
      BY <1>1
    <2>1. After(sent, sent', m, MsgLen)
      <3>1. After(sent, sent', m, 0 + MsgLen)
        BY <1>1, <1>2, <2>0, StreamAfter, Zenon
      <3>2. QED
        BY <1>1, <3>1
    <2>2. QED
      BY <2>1 DEF After
  <1>4. /\ qSendInfo_' = qSendInfo_ /\ completed' = completed \cup {m} /\ failed' = failed
        /\ \A k \in 1 .. Len(qSendInfo_) : qSendInfo_[k].msg # m
    BY DEF onSendAll, Offered, Queued
  <1>5. TypeOK'
    <2>1. unacked' \in 0 .. SndBuf
      BY <1>2, SizesAssumption DEF onSendAll, TypeOK, Space
    <2>2. QED
      BY <1>2, <1>3, <1>4, <2>1 DEF onSendAll, TypeOK, Byte, peerVars
  <1>6. Distinct'
    BY <1>4 DEF StreamInv, Distinct
  <1>7. Offered' = Offered \cup {m}
    BY <1>4 DEF Offered, Queued
  <1>8. OwnBytes'
    BY <1>3, <1>7 DEF StreamInv, OwnBytes
  <1>9. CallbackMeansSent'
    BY <1>3, <1>4 DEF StreamInv, CallbackMeansSent
  <1>10. QED
    BY <1>5, <1>6, <1>8, <1>9 DEF StreamInv

(* A send that falls short leaves the message at the end of the queue, with
   the number of its bytes that are gone, or -1. *)
LEMMA OnSendPartStream ==
    ASSUME StreamInv, NEW m \in Msgs, onSendPart(m)
    PROVE  StreamInv'
  <1> DEFINE info == [msg |-> m, offset |-> IF Space > 0 THEN Space ELSE -1]
  <1>1. Space \in Nat /\ Space < MsgLen /\ MsgLen \in Nat /\ 0 + Space = Space /\ TypeOK
    BY SizesAssumption DEF onSendPart, StreamInv, TypeOK, Space
  <1>2. SentExactly(sent, m, Gone(0))
    BY FreshExact DEF onSendPart, Gone
  <1>3. sent' = sent \o Bytes(m, 0, Space)
    BY DEF onSendPart
  <1>4. /\ sent' \in Seq(Byte)
        /\ SentExactly(sent', m, Space)
        /\ \A o, j : o # m /\ SentExactly(sent, o, j) => SentExactly(sent', o, j)
        /\ \A p \in 1 .. Len(sent') : sent'[p].msg = m
                                      \/ (p \in 1 .. Len(sent) /\ sent'[p] = sent[p])
    <2>0. 0 \in Int /\ 0 >= -1 /\ 0 + Space >= 0 /\ 0 + Space <= MsgLen
      BY <1>1
    <2>1. After(sent, sent', m, Space)
      <3>1. After(sent, sent', m, 0 + Space)
        BY <1>1, <1>2, <1>3, <2>0, StreamAfter, Zenon
      <3>2. QED
        BY <1>1, <3>1
    <2>2. QED
      BY <2>1 DEF After
  <1>5. info \in Info /\ info.msg = m /\ Gone(info.offset) = Space
    BY <1>1 DEF Info, Gone
  <1> HIDE DEF info
  <1>6. qSendInfo_' = Append(qSendInfo_, info) /\ qSendInfo_ \in Seq(Info)
    BY <1>1 DEF onSendPart, info, TypeOK, Info
  <1>7. /\ qSendInfo_' \in Seq(Info) /\ Len(qSendInfo_) \in Nat
        /\ Len(qSendInfo_') = Len(qSendInfo_) + 1 /\ qSendInfo_'[Len(qSendInfo_) + 1] = info
        /\ \A k \in 1 .. Len(qSendInfo_) : qSendInfo_'[k] = qSendInfo_[k]
    BY <1>5, <1>6, AppendProperties, LenProperties
  <1>8. /\ completed' = completed /\ failed' = failed /\ m \notin completed
        /\ \A k \in 1 .. Len(qSendInfo_) : qSendInfo_[k].msg # m
    BY DEF onSendPart, Offered, Queued
  <1>9. \A k \in 1 .. Len(qSendInfo_') : \/ k \in 1 .. Len(qSendInfo_) /\ qSendInfo_'[k] = qSendInfo_[k]
                                         \/ k = Len(qSendInfo_) + 1 /\ qSendInfo_'[k] = info
    BY <1>7
  <1>10. TypeOK'
    <2>1. unacked' \in 0 .. SndBuf
      BY SizesAssumption DEF onSendPart
    <2>2. QED
      BY <1>1, <1>4, <1>7, <1>8, <2>1 DEF onSendPart, TypeOK, Byte, Info, peerVars
  <1>11. Distinct'
    BY <1>5, <1>7, <1>8, <1>9 DEF StreamInv, Distinct
  <1>12. Offered \cup {m} \subseteq Offered'
    <2>1. \A k \in 1 .. Len(qSendInfo_) : k \in 1 .. Len(qSendInfo_') /\ qSendInfo_'[k] = qSendInfo_[k]
      BY <1>7
    <2>2. Queued \subseteq Queued'
      BY <2>1 DEF Queued
    <2>3. Len(qSendInfo_) + 1 \in 1 .. Len(qSendInfo_')
      BY <1>7
    <2>4. m \in Queued'
      BY <1>5, <1>7, <2>3 DEF Queued
    <2>5. QED
      BY <1>8, <2>2, <2>4 DEF Offered
  <1>13. OwnBytes'
    BY <1>4, <1>12 DEF StreamInv, OwnBytes
  <1>14. CallbackMeansSent'
    <2>1. ASSUME NEW o \in completed PROVE SentExactly(sent', o, MsgLen)
      BY <1>4, <1>8 DEF StreamInv, CallbackMeansSent
    <2>2. ASSUME NEW k \in 1 .. Len(qSendInfo_')
          PROVE  SentExactly(sent', qSendInfo_'[k].msg, Gone(qSendInfo_'[k].offset))
      BY <1>4, <1>5, <1>8, <1>9 DEF StreamInv, CallbackMeansSent
    <2>3. QED
      BY <1>8, <2>1, <2>2 DEF CallbackMeansSent
  <1>15. QED
    BY <1>10, <1>11, <1>13, <1>14 DEF StreamInv

(* The queue without its head. *)
LEMMA Dequeued ==
    ASSUME StreamInv, qSendInfo_ # <<>>, qSendInfo_' = Tail(qSendInfo_)
    PROVE  /\ qSendInfo_' \in Seq(Info) /\ Len(qSendInfo_) \in Nat \ {0}
           /\ Head(qSendInfo_) = qSendInfo_[1] /\ qSendInfo_[1] \in Info
           /\ Len(qSendInfo_') = Len(qSendInfo_) - 1
           /\ \A k \in 1 .. Len(qSendInfo_') : /\ k + 1 \in 1 .. Len(qSendInfo_)
                                               /\ qSendInfo_'[k] = qSendInfo_[k + 1]
           /\ Queued \subseteq Queued' \cup {qSendInfo_[1].msg}
  <1>1. qSendInfo_ \in Seq(Info)
    BY DEF StreamInv, TypeOK, Info
  <1>2. Len(qSendInfo_) \in Nat \ {0} /\ Head(qSendInfo_) = qSendInfo_[1]
    BY <1>1, EmptySeq
  <1>3. /\ qSendInfo_' \in Seq(Info) /\ Len(qSendInfo_') = Len(qSendInfo_) - 1
        /\ \A k \in 1 .. Len(qSendInfo_') : qSendInfo_'[k] = qSendInfo_[k + 1]
        /\ qSendInfo_[1] \in Info
    BY <1>1, <1>2, HeadTailProperties
  <1>4. \A k \in 1 .. Len(qSendInfo_') : k + 1 \in 1 .. Len(qSendInfo_)
    BY <1>2, <1>3
  <1>5. ASSUME NEW k \in 1 .. Len(qSendInfo_), k # 1
        PROVE  k - 1 \in 1 .. Len(qSendInfo_') /\ qSendInfo_'[k - 1] = qSendInfo_[k]
    BY <1>2, <1>3, <1>5
  <1>6. ASSUME NEW x \in Queued PROVE x \in Queued' \cup {qSendInfo_[1].msg}
    <2>1. PICK k \in 1 .. Len(qSendInfo_) : x = qSendInfo_[k].msg
      BY DEF Queued
    <2>2. CASE k = 1
      BY <2>1, <2>2
    <2>3. CASE k # 1
      BY <1>5, <2>1, <2>3 DEF Queued
    <2>4. QED
      BY <2>2, <2>3
  <1>7. QED
    BY <1>2, <1>3, <1>4, <1>6

(* handleWrite gives the head up. *)
LEMMA HandleWriteErrorStream ==
    ASSUME StreamInv, handleWriteError
    PROVE  StreamInv'
  <1>1. qSendInfo_ # <<>> /\ qSendInfo_' = Tail(qSendInfo_)
    BY DEF handleWriteError
  <1>2. /\ qSendInfo_' \in Seq(Info) /\ Len(qSendInfo_) \in Nat \ {0}
        /\ Head(qSendInfo_) = qSendInfo_[1] /\ qSendInfo_[1] \in Info
        /\ Len(qSendInfo_') = Len(qSendInfo_) - 1
        /\ \A k \in 1 .. Len(qSendInfo_') : /\ k + 1 \in 1 .. Len(qSendInfo_)
                                            /\ qSendInfo_'[k] = qSendInfo_[k + 1]
        /\ Queued \subseteq Queued' \cup {qSendInfo_[1].msg}
    BY <1>1, Dequeued
  <1>3. /\ failed' = failed \cup {qSendInfo_[1].msg} /\ completed' = completed /\ sent' = sent
        /\ qSendInfo_[1].msg \in Msgs
    BY <1>2 DEF handleWriteError, Info
  <1>4. TypeOK'
    <2>1. nospace' \in BOOLEAN
      BY DEF handleWriteError, StreamInv, TypeOK
    <2>2. QED
      BY <1>2, <1>3, <2>1 DEF handleWriteError, StreamInv, TypeOK, Info, None, peerVars
  <1>5. Distinct'
    <2>1. ASSUME NEW a \in 1 .. Len(qSendInfo_'), NEW b \in 1 .. Len(qSendInfo_'),
                 qSendInfo_'[a].msg = qSendInfo_'[b].msg
          PROVE  a = b
      <3>1. a + 1 = b + 1
        BY <1>2, <2>1, SMTT(20) DEF StreamInv, Distinct
      <3>2. QED
        BY <3>1
    <2>2. QED
      BY <1>2, <1>3, <2>1 DEF StreamInv, Distinct
  <1>6. Offered \subseteq Offered'
    BY <1>2, <1>3 DEF Offered
  <1>7. OwnBytes' /\ CallbackMeansSent'
    BY <1>2, <1>3, <1>6 DEF StreamInv, OwnBytes, CallbackMeansSent
  <1>8. QED
    BY <1>4, <1>5, <1>7 DEF StreamInv

(* What handleWrite's send() takes. *)
LEMMA WriteAmount ==
    ASSUME StreamInv, handleWriteSend
    PROVE  LET i == qSendInfo_[1]
               n == Smaller(Space, MsgLen - i.offset)
           IN  /\ i \in Info /\ 1 \in 1 .. Len(qSendInfo_) /\ Len(qSendInfo_) \in Nat
               /\ n \in Nat /\ n > 0 /\ i.offset + n \in 0 .. MsgLen
               /\ unacked + n \in 0 .. SndBuf
               /\ Head(qSendInfo_) = i
  <1>1. qSendInfo_ \in Seq(Info) /\ qSendInfo_ # <<>>
    BY DEF handleWriteSend, StreamInv, TypeOK, Info
  <1>2. Len(qSendInfo_) \in Nat \ {0} /\ Head(qSendInfo_) = qSendInfo_[1]
    BY <1>1, EmptySeq
  <1>3. 1 \in 1 .. Len(qSendInfo_)
    BY <1>2
  <1>4. qSendInfo_[1] \in Info
    BY <1>1, <1>3, ElementOfSeq
  <1>5. qSendInfo_[1].offset \in -1 .. MsgLen - 1
    BY <1>4 DEF Info
  <1>6. Space > 0 /\ Space = SndBuf - unacked /\ unacked \in 0 .. SndBuf
    BY DEF handleWriteSend, StreamInv, TypeOK, Space
  <1> DEFINE off == qSendInfo_[1].offset
             n == Smaller(Space, MsgLen - off)
  <1>7. n \in Nat /\ n > 0 /\ off + n \in 0 .. MsgLen /\ unacked + n \in 0 .. SndBuf
    BY <1>5, <1>6, SizesAssumption DEF Smaller
  <1>8. QED
    BY <1>2, <1>3, <1>4, <1>7

(* handleWrite sends the head from its offset on. *)
LEMMA HandleWriteSendStream ==
    ASSUME StreamInv, handleWriteSend
    PROVE  StreamInv'
  <1> DEFINE i == qSendInfo_[1]
             n == Smaller(Space, MsgLen - i.offset)
  <1>1. /\ i \in Info /\ 1 \in 1 .. Len(qSendInfo_) /\ Len(qSendInfo_) \in Nat
        /\ n \in Nat /\ n > 0 /\ i.offset + n \in 0 .. MsgLen
        /\ unacked + n \in 0 .. SndBuf
        /\ Head(qSendInfo_) = i
    BY WriteAmount
  <1>2. i.msg \in Msgs /\ i.offset \in Int /\ i.offset >= -1
    BY <1>1, SizesAssumption DEF Info
  <1>3. SentExactly(sent, i.msg, Gone(i.offset)) /\ i.msg \notin completed /\ TypeOK
    BY <1>1 DEF StreamInv, CallbackMeansSent, Distinct
  <1>4. sent' = sent \o Bytes(i.msg, i.offset, n) /\ unacked' = unacked + n
    BY <1>1 DEF handleWriteSend
  <1>5. /\ sent' \in Seq(Byte)
        /\ SentExactly(sent', i.msg, i.offset + n)
        /\ \A o, j : o # i.msg /\ SentExactly(sent, o, j) => SentExactly(sent', o, j)
        /\ \A p \in 1 .. Len(sent') : sent'[p].msg = i.msg
                                      \/ (p \in 1 .. Len(sent) /\ sent'[p] = sent[p])
    <2> DEFINE m == i.msg
               off == i.offset
    <2>0. /\ m \in Msgs /\ off \in Int /\ n \in Nat /\ off >= -1 /\ off + n >= 0 /\ off + n <= MsgLen
          /\ sent' = sent \o Bytes(m, off, n) /\ SentExactly(sent, m, Gone(off)) /\ TypeOK
      BY <1>1, <1>2, <1>3, <1>4, SizesAssumption
    <2> HIDE DEF i, n, m, off
    <2>1. After(sent, sent', m, off + n)
      BY <2>0, StreamAfter
    <2>2. QED
      BY <2>1 DEF After, m, off
  <1>6. failed' = failed /\ nospace' \in BOOLEAN
    BY <1>1 DEF handleWriteSend, StreamInv, TypeOK
  <1>7. ASSUME qSendInfo_' \in Seq(Info), completed' \subseteq Msgs
        PROVE  TypeOK'
    BY <1>1, <1>4, <1>5, <1>6, <1>7 DEF handleWriteSend, StreamInv, TypeOK, Info, Byte, None, peerVars
  <1>8. CASE i.offset + n = MsgLen
    <2>1. qSendInfo_' = Tail(qSendInfo_) /\ completed' = completed \cup {i.msg} /\ qSendInfo_ # <<>>
      BY <1>1, <1>8 DEF handleWriteSend
    <2> HIDE DEF n
    <2>2. /\ qSendInfo_' \in Seq(Info)
          /\ \A k \in 1 .. Len(qSendInfo_') : /\ k + 1 \in 1 .. Len(qSendInfo_)
                                              /\ qSendInfo_'[k] = qSendInfo_[k + 1]
          /\ Queued \subseteq Queued' \cup {i.msg}
      BY <2>1, Dequeued
    <2>3. TypeOK'
      BY <1>2, <1>3, <1>7, <2>1, <2>2 DEF TypeOK
    <2>4. \A k \in 1 .. Len(qSendInfo_') : qSendInfo_'[k].msg # i.msg
      <3>1. SUFFICES ASSUME NEW k \in 1 .. Len(qSendInfo_'), qSendInfo_'[k].msg = i.msg PROVE FALSE
        OBVIOUS
      <3>2. k + 1 = 1
        BY <1>1, <2>2, <3>1 DEF StreamInv, Distinct
      <3>3. QED
        BY <3>2
    <2>5. Distinct'
      <3>1. ASSUME NEW a \in 1 .. Len(qSendInfo_'), NEW b \in 1 .. Len(qSendInfo_'),
                   qSendInfo_'[a].msg = qSendInfo_'[b].msg
            PROVE  a = b
        <4>1. a + 1 = b + 1
          BY <2>2, <3>1 DEF StreamInv, Distinct
        <4>2. QED
          BY <4>1
      <3>2. QED
        BY <2>1, <2>2, <2>4, <3>1 DEF StreamInv, Distinct
    <2>6. Offered \cup {i.msg} \subseteq Offered'
      BY <1>6, <2>1, <2>2 DEF Offered
    <2>7. OwnBytes'
      BY <1>5, <2>6 DEF StreamInv, OwnBytes
    <2>8. CallbackMeansSent'
      BY <1>5, <1>8, <2>1, <2>2, <2>4 DEF StreamInv, CallbackMeansSent
    <2>9. QED
      BY <2>3, <2>5, <2>7, <2>8 DEF StreamInv
  <1>9. CASE i.offset + n # MsgLen
    <2> DEFINE e == [i EXCEPT !.offset = i.offset + n]
    <2>1. e \in Info /\ e.msg = i.msg /\ Gone(e.offset) = i.offset + n
      BY <1>1, <1>2, <1>9, SizesAssumption, SMTT(20) DEF Info, Gone
    <2>2. qSendInfo_' = [qSendInfo_ EXCEPT ![1] = e] /\ completed' = completed
      BY <1>1, <1>9 DEF handleWriteSend
    <2> HIDE DEF e, n
    <2>3. /\ qSendInfo_' \in Seq(Info) /\ Len(qSendInfo_') = Len(qSendInfo_)
          /\ \A k \in 1 .. Len(qSendInfo_) : qSendInfo_'[k] = IF k = 1 THEN e ELSE qSendInfo_[k]
      <3>1. qSendInfo_ \in Seq(Info)
        BY <1>3 DEF TypeOK, Info
      <3>2. QED
        BY <1>1, <2>1, <2>2, <3>1, ExceptSeq
    <2>4. TypeOK'
      BY <1>3, <1>7, <2>2, <2>3 DEF TypeOK
    <2>5. \A k \in 1 .. Len(qSendInfo_) : qSendInfo_'[k].msg = qSendInfo_[k].msg
      BY <2>1, <2>3
    <2>6. Distinct'
      BY <2>2, <2>3, <2>5 DEF StreamInv, Distinct
    <2>7. Offered' = Offered
      BY <1>6, <2>2, <2>3, <2>5 DEF Offered, Queued
    <2>8. i.msg \in Offered
      BY <1>1 DEF Offered, Queued
    <2>9. OwnBytes'
      BY <1>5, <2>7, <2>8 DEF StreamInv, OwnBytes
    <2>10. ASSUME NEW k \in 1 .. Len(qSendInfo_)
           PROVE  SentExactly(sent', qSendInfo_'[k].msg, Gone(qSendInfo_'[k].offset))
      <3>1. CASE k = 1
        BY <1>5, <2>1, <2>3, <3>1
      <3>2. CASE k # 1
        BY <1>1, <1>5, <2>3, <3>2 DEF StreamInv, Distinct, CallbackMeansSent
      <3>3. QED
        BY <3>1, <3>2
    <2>11. CallbackMeansSent'
      BY <1>3, <1>5, <2>2, <2>3, <2>10 DEF StreamInv, CallbackMeansSent
    <2>12. QED
      BY <2>4, <2>6, <2>9, <2>11 DEF StreamInv
  <1>10. QED
    BY <1>8, <1>9

(* Before anything is sent. *)
LEMMA InitStream == Init => StreamInv
  <1> SUFFICES ASSUME Init PROVE StreamInv
    OBVIOUS
  <1> USE DEF Init
  <1>1. <<>> \in Seq(Info) /\ <<>> \in Seq(Byte) /\ Len(<<>>) = 0
    BY EmptySeq
  <1>2. TypeOK
    <2>1. unacked \in 0 .. SndBuf
      BY SizesAssumption
    <2>2. revents \in [in : BOOLEAN, out : BOOLEAN, hup : BOOLEAN]
      BY DEF None
    <2>3. {recvInUse_, nospace, rcv, eof, rst, edge, notified} \subseteq BOOLEAN
      OBVIOUS
    <2>4. qSendInfo_ \in Seq(Info) /\ sent \in Seq(Byte) /\ completed \subseteq Msgs /\ failed \subseteq Msgs
      BY <1>1
    <2>5. QED
      BY <2>1, <2>2, <2>3, <2>4 DEF TypeOK, Info, Byte
  <1>3. Distinct /\ OwnBytes /\ CallbackMeansSent
    BY <1>1 DEF Distinct, OwnBytes, CallbackMeansSent
  <1>4. QED
    BY <1>2, <1>3 DEF StreamInv

(* Every step keeps the stream in order. *)
LEMMA NextStream == StreamInv /\ [Next]_vars => StreamInv'
  <1> SUFFICES ASSUME StreamInv, [Next]_vars PROVE StreamInv'
    OBVIOUS
  <1>1. CASE \/ PeerSends \/ PeerCloses \/ PeerResets \/ PeerReads \/ EpollWait \/ onRecv
             \/ handleRead \/ handleWriteIdle \/ (\E m \in Msgs : onSendError(m)) \/ UNCHANGED vars
    <2>1. TypeOK
      BY DEF StreamInv
    <2>2. QED
      BY <1>1, <2>1, QuietTypes, QuietStream
  <1>2. ASSUME NEW m \in Msgs, onSendAll(m) PROVE StreamInv'
    BY <1>2, OnSendAllStream
  <1>3. ASSUME NEW m \in Msgs, onSendPart(m) PROVE StreamInv'
    BY <1>3, OnSendPartStream
  <1>4. CASE handleWriteSend
    BY <1>4, HandleWriteSendStream
  <1>5. CASE handleWriteError
    BY <1>5, HandleWriteErrorStream
  <1>6. QED
    BY <1>1, <1>2, <1>3, <1>4, <1>5 DEF Next, handleEvent, onSend

(* Type correctness: the send buffer never holds more than its size, and an
   offset_ in the queue is -1 or a position of its message (onSend,
   handleWrite). *)
THEOREM TypeCorrect == Spec => []TypeOK
  <1>1. StreamInv => TypeOK
    BY DEF StreamInv
  <1>2. QED
    BY <1>1, InitStream, NextStream, PTL DEF Spec

(* The callback of onSend or handleWrite means that each byte of the message
   was accepted once and in order, however the sends of the messages and the
   short sends interleave. *)
THEOREM CallbackMeansSentHolds == Spec => []CallbackMeansSent
  <1>1. StreamInv => CallbackMeansSent
    BY DEF StreamInv
  <1>2. QED
    BY <1>1, InitStream, NextStream, PTL DEF Spec
=============================================================================
