---------------------------- MODULE Multiplexer ----------------------------
(***************************************************************************)
(* Multiplexer and Entity: several entities share one connection.  A        *)
(* message is a header (the id of an entity, the length of the payload) and *)
(* the payload; id 0 marks a control message, whose entity is named in the  *)
(* payload.  dispatch() cuts the inbound into messages again, whatever       *)
(* pieces recv() returns, and keeps what is incomplete in icbuf.  Entities  *)
(* come and go through work items of the loop.                              *)
(*                                                                          *)
(* The two fields of the header have one byte each here.  A payload holds   *)
(* no zero byte: the control messages of protobuf 3 have none, and          *)
(* dispatch() relies on it when it takes strlen() for the bytes received.   *)
(***************************************************************************)
EXTENDS Integers, Sequences

CONSTANTS Messages,  \* messages the peer may send, as numbers above 9
          HeadId,    \* the id in the header: 0, or an entity
          Dest,      \* the entity named in a control message
          Length,    \* the length of a message's payload
          Entities,  \* ids of the entities of this connection, above 0
          RecvSize,   \* size of the receive buffer
          Junk       \* a byte beyond that buffer, if it is not 0

ASSUME MessagesAssumption ==
  /\ Messages \subseteq Nat \ 0..9 /\ Entities \subseteq 1..9
  /\ HeadId \in [Messages -> Entities \cup {0}] /\ Dest \in [Messages -> Entities]
  /\ Length \in [Messages -> 1..9] /\ RecvSize \in Nat \ {0} /\ Junk \in 1..9

VARIABLES
  framesSent,             \* messages framesSent so far, in order
  inbound,           \* their bytes that were not received yet
  muxPc,               \* "idle": a receive is registered; "loop": in dispatch; "dead"
  recvBuf, recvOffset,      \* the bytes of this call of dispatch, and its position
  head, body, bufSize, \* incompleteBuf: head, buf and bufSize
  overread,         \* a header took bytes not yet received, or a payload bytes behind the buffer
  solved,           \* control messages given to solve(), 0 if not one of them
  handed,           \* <<entity, message>> given to a DTPClient
  muxConnected,        \* the connection is in connMp_
  connMp_,          \* the entities in its map
  entity,           \* life of each Entity
  muxWork              \* work items of the loop: <<"insert" or "remove", id>>

dispatchVars == <<muxPc, recvBuf, recvOffset, head, body, bufSize, overread, solved, handed>>
entityVars == <<muxConnected, connMp_, entity, muxWork>>
muxVars == <<framesSent, inbound, dispatchVars, entityVars>>

HeadSize == 2
Payload(m) == [i \in 1..Length[m] |-> m]
Frame(m) == <<HeadId[m], Length[m]>> \o Payload(m)

MuxInit ==
  /\ framesSent = <<>> /\ inbound = <<>>
  /\ muxPc = "idle" /\ recvBuf = <<>> /\ recvOffset = 0 /\ head = <<>> /\ body = <<>> /\ bufSize = 0
  /\ overread = FALSE /\ solved = <<>> /\ handed = {}
  /\ muxConnected = FALSE /\ connMp_ = {}
  /\ entity = [e \in Entities |-> "new"] /\ muxWork = <<>>

-----------------------------------------------------------------------------
(* Entities *)

(* Entity::start: a DTPClient, and a work item that registers it. *)
registEntity(e) ==
  /\ entity[e] = "new"
  /\ entity' = [entity EXCEPT ![e] = "started"]
  /\ muxWork' = Append(muxWork, <<"insert", e>>)
  /\ UNCHANGED <<framesSent, inbound, dispatchVars, muxConnected, connMp_>>

(* A bug: the destructor lets its work item overtake the others. *)
addRemoveWorkFirst(e) ==
  /\ entity[e] = "started"
  /\ entity' = [entity EXCEPT ![e] = "gone"]
  /\ muxWork' = <<<<"remove", e>>>> \o muxWork
  /\ UNCHANGED <<framesSent, inbound, dispatchVars, muxConnected, connMp_>>

(* Entity::~Entity. *)
addRemoveWork(e) ==
  /\ entity[e] = "started"
  /\ entity' = [entity EXCEPT ![e] = "gone"]
  /\ muxWork' = Append(muxWork, <<"remove", e>>)
  /\ UNCHANGED <<framesSent, inbound, dispatchVars, muxConnected, connMp_>>

(* The work item of registEntity.  The first one of a connection registers
   the receive.  scb_ is read from the entity, which may be gone by now. *)
insert ==
  /\ muxPc = "idle" /\ muxWork # <<>> /\ Head(muxWork)[1] = "insert"
  /\ connMp_' = connMp_ \cup {Head(muxWork)[2]} /\ muxConnected' = TRUE
  /\ IF entity[Head(muxWork)[2]] = "gone" THEN muxPc' \in {"idle", "dead"} ELSE muxPc' = muxPc
  /\ muxWork' = Tail(muxWork)
  /\ UNCHANGED <<framesSent, inbound, recvBuf, recvOffset, head, body, bufSize, overread, solved, handed,
                 entity>>

(* The work item of addRemoveWork deletes the client. *)
muxRemove ==
  /\ muxPc = "idle" /\ muxWork # <<>> /\ Head(muxWork)[1] = "remove"
  /\ connMp_' = connMp_ \ {Head(muxWork)[2]}
  /\ muxWork' = Tail(muxWork)
  /\ UNCHANGED <<framesSent, inbound, dispatchVars, muxConnected, entity>>

-----------------------------------------------------------------------------
(* Messages *)

(* The peer's sendMessage puts the header before the payload. *)
sendMessage(m) ==
  /\ \A i \in DOMAIN framesSent : framesSent[i] # m
  /\ framesSent' = Append(framesSent, m)
  /\ inbound' = inbound \o Frame(m)
  /\ UNCHANGED <<dispatchVars, entityVars>>

(* dispatch() is called with the k bytes of a recv(). *)
dispatch(k) ==
  /\ muxPc = "idle" /\ muxConnected /\ k <= Len(inbound) /\ k <= RecvSize
  /\ muxPc' = "loop" /\ recvOffset' = 0
  /\ recvBuf' = SubSeq(inbound, 1, k) /\ inbound' = SubSeq(inbound, k + 1, Len(inbound))
  /\ UNCHANGED <<framesSent, head, body, bufSize, overread, solved, handed, entityVars>>

(* n bytes of the receive buffer from position o: it was cleared before the
   receive, and what lies behind it is whatever the heap holds. *)
BytesAt(o, n, beyond) ==
  [i \in 1..n |-> IF o + i <= Len(recvBuf) THEN recvBuf[o + i]
                  ELSE IF o + i <= RecvSize THEN 0 ELSE beyond]

(* strlen(): the bytes before the first zero. *)
UpToZero(s) ==
  SubSeq(s, 1, CHOOSE n \in 0..Len(s) : /\ \A i \in 1..n : s[i] # 0
                                        /\ n < Len(s) => s[n + 1] = 0)

(* The bytes that the header still needs; the test is against all that was
   received, not against what is left of it. *)
HeadNeeds == HeadSize - Len(head)

HeadStaysOpen == Len(recvBuf) < HeadNeeds

(* A bug: the bytes of a short header are left for the next round. *)
keepHeadWait(beyond) ==
  /\ muxPc = "loop" /\ recvOffset < Len(recvBuf) /\ HeadStaysOpen
  /\ UNCHANGED muxVars

(* The header is still incomplete.  len has no value yet; if it happens to be
   0 there is "a complete message" and solve() is given a null pointer. *)
keepHead(beyond) ==
  /\ muxPc = "loop" /\ recvOffset < Len(recvBuf) /\ HeadStaysOpen
  /\ head' = head \o BytesAt(recvOffset, Len(recvBuf), beyond) /\ recvOffset' = recvOffset + Len(recvBuf)
  /\ overread' = (overread \/ recvOffset > 0)
  /\ muxPc' \in {"loop", "dead"}
  /\ UNCHANGED <<framesSent, inbound, recvBuf, body, bufSize, solved, handed, entityVars>>

FullHead(beyond) == head \o BytesAt(recvOffset, HeadNeeds, beyond)
HeadFilled == muxPc = "loop" /\ recvOffset < Len(recvBuf) /\ ~HeadStaysOpen
HeadOverread == recvOffset + HeadNeeds > Len(recvBuf)

(* A message of the user: its entity is called with the bytes behind the
   header.  Neither the header nor the position changes, so that the loop
   finds the same message again.  An id that is not in the map, or a len that
   happens to be 0, ends the process. *)
passToUser(beyond) ==
  /\ HeadFilled /\ FullHead(beyond)[1] # 0
  /\ overread' = (overread \/ HeadOverread)
  /\ head' = FullHead(beyond) /\ recvOffset' = recvOffset + HeadNeeds
  /\ IF FullHead(beyond)[1] \in connMp_ THEN muxPc' \in {"loop", "dead"} ELSE muxPc' = "dead"
  /\ UNCHANGED <<framesSent, inbound, recvBuf, body, bufSize, solved, handed, entityVars>>

(* solve(): find the entity the control message names and give it the
   message; one that is not in the map is only logged. *)
MessageOf(bytes) ==
  IF \E m \in Messages : bytes = Payload(m)
  THEN CHOOSE m \in Messages : bytes = Payload(m) ELSE 0
solve(bytes) ==
  LET m == MessageOf(bytes)
  IN /\ solved' = Append(solved, m)
     /\ handed' = IF m # 0 /\ Dest[m] \in connMp_ THEN handed \cup {<<Dest[m], m>>} ELSE handed

(* A bug: the bytes of an earlier call are not counted. *)
PayloadSoFarLost(n, beyond) ==
  UpToZero(BytesAt(recvOffset + HeadNeeds, n, beyond))

(* The payload as it is after copying the n bytes that are missing. *)
PayloadSoFar(n, beyond) == UpToZero(body \o BytesAt(recvOffset + HeadNeeds, n, beyond))

(* A control message: len - bufSize bytes are copied whether received or not,
   and strlen() tells how many they were.  It may count one more, from behind
   the copy, when that is complete; then the next copy has a negative size. *)
fillPayload(beyond, extra) ==
  /\ HeadFilled /\ FullHead(beyond)[1] = 0
  /\ LET len == FullHead(beyond)[2]
         n == len - bufSize
         payload == PayloadSoFar(n, beyond)
         size == Len(payload) + IF Len(payload) = len /\ len > 0 THEN extra ELSE 0
     IN /\ overread' = (overread \/ HeadOverread \/ recvOffset + HeadNeeds + n > RecvSize)
        /\ IF bufSize > len
           THEN muxPc' = "dead" /\ UNCHANGED <<head, recvOffset, body, bufSize, solved, handed>>
           ELSE /\ recvOffset' = recvOffset + HeadNeeds + n
                /\ IF size = len
                   THEN /\ solve(payload)
                        /\ head' = <<>> /\ body' = <<>> /\ bufSize' = 0
                   ELSE /\ head' = FullHead(beyond) /\ body' = payload /\ bufSize' = size
                        /\ UNCHANGED <<solved, handed>>
                /\ muxPc' = muxPc
  /\ UNCHANGED <<framesSent, inbound, recvBuf, entityVars>>

(* The end of dispatch(): the buffer is cleared and the receive registered. *)
dispatchReturn ==
  /\ muxPc = "loop" /\ recvOffset >= Len(recvBuf)
  /\ muxPc' = "idle" /\ recvBuf' = <<>> /\ recvOffset' = 0
  /\ UNCHANGED <<framesSent, inbound, head, body, bufSize, overread, solved, handed, entityVars>>

DispatchStep ==
  \/ dispatchReturn
  \/ \E beyond \in {0, Junk} : \/ keepHead(beyond) \/ passToUser(beyond)
                              \/ \E x \in {0, 1} : fillPayload(beyond, x)

MuxNext ==
  \/ \E e \in Entities : registEntity(e) \/ addRemoveWork(e)
  \/ insert \/ muxRemove
  \/ \E m \in Messages : sendMessage(m)
  \/ \E k \in 1..RecvSize : dispatch(k)
  \/ DispatchStep

MuxSpec == MuxInit /\ [][MuxNext]_muxVars

-----------------------------------------------------------------------------
(* However recv() cuts the inbound, dispatch() gives solve() the control
   messages whole, in order, each once; the two exceptions are a header that
   begins behind another message and is not all there (the test of recvLen
   lets it be completed with zeros), and a payload that reaches beyond a full
   receive buffer. *)
FramesIntact ==
  overread \/ (Len(solved) <= Len(framesSent) /\ solved = SubSeq(framesSent, 1, Len(solved)))

(* The map never outlives an entity by more than the work item that removes
   it: a client found by dispatch() belongs to an entity that is alive or
   whose removal is queued (registEntity, addRemoveWork, insert, remove). *)
RegisteredAlive ==
  \A e \in connMp_ : entity[e] = "started" \/ \E i \in DOMAIN muxWork : muxWork[i] = <<"remove", e>>

(* dispatch() comes to an end with the bytes it was given, unless one of them
   begins a message for the user (the loop of dispatch). *)
DispatchReturns ==
  muxPc = "loop" ~> muxPc # "loop" \/ (Len(head) = HeadSize /\ head[1] # 0)

=============================================================================
