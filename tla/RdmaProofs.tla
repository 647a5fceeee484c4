----------------------------- MODULE RdmaProofs -----------------------------
(* Proofs about the RDMA classes, for any clients, connections and buffers: that
   every client gets a connection of its own, and that a callback runs for a
   completion of its own buffer. *)
EXTENDS RdmaConnection, RdmaAcceptor, SequenceTheorems, FiniteSetTheorems, WellFoundedInduction, TLAPS

-----------------------------------------------------------------------------
(* Set-up and tear-down *)

Pending(it) == \E i \in 1..Len(cmEvents) : cmEvents[i] = it
Asks(c) == Pending(<<"CONNECT_REQUEST", c>>)
Leaves(c) == Pending(<<"DISCONNECTED", c>>)
Own(c) == {r \in Conns : peer[r] = c}
Gone == deleted \cup doomed
Parting(c) == {end \in Ends : <<end, c>> \in hangups}

(* Events of the acceptor. *)
CmEvent == {"CONNECT_REQUEST", "DISCONNECTED"} \X Peers
CmType ==
  /\ client = [c \in Peers |-> client[c]] /\ isConnected \in [Peers -> BOOLEAN]
  /\ clientEvents = [c \in Peers |-> clientEvents[c]]
  /\ cmEvents \in Seq(CmEvent)
  /\ peer \in [Conns -> Peers \cup {NoPeer}]
  /\ valid => rc \in Conns
  /\ \A r \in Conns : r \in Gone => peer[r] # NoPeer

(* How far a client has come: not yet connecting; *)
Fresh(c) ==
  /\ client[c] \in {"new", "addr", "ready", "failed", "stuck"} /\ ~isConnected[c]
  /\ clientEvents[c] = <<>> /\ ~Asks(c) /\ ~Leaves(c) /\ Own(c) = {} /\ Parting(c) = {}

(* its request waits, or was answered with nothing or a rejection; *)
Asked(c) ==
  /\ client[c] = "connecting" /\ ~isConnected[c]
  /\ clientEvents[c] = <<>> /\ ~Leaves(c) /\ Own(c) = {} /\ Parting(c) = {}
Rejected(c) ==
  /\ client[c] = "connecting" /\ ~isConnected[c]
  /\ clientEvents[c] = <<"REJECTED">> /\ ~Asks(c) /\ ~Leaves(c) /\ Own(c) = {} /\ Parting(c) = {}

(* it has a connection, of which it does not know, and of which it knows; *)
Granted(c) ==
  /\ client[c] = "connecting" /\ ~isConnected[c] /\ clientEvents[c] = <<"ESTABLISHED">>
  /\ ~Asks(c) /\ ~Leaves(c) /\ Own(c) # {} /\ Own(c) \cap Gone = {} /\ Parting(c) = {}
Connected(c) ==
  /\ client[c] = "established" /\ isConnected[c] /\ clientEvents[c] = <<>>
  /\ ~Asks(c) /\ ~Leaves(c) /\ Own(c) # {} /\ Own(c) \cap Gone = {} /\ Parting(c) = {}

(* one of the ends has disconnected: the client hears of it or is about to, and
   so does the server, or its connection is gone; and the client has gone. *)
Told(c) ==
  \/ clientEvents[c] = <<>> /\ "client" \in Parting(c)
  \/ clientEvents[c] = <<"DISCONNECTED">> /\ "client" \notin Parting(c)
Disconnecting(c) ==
  /\ client[c] = "established" /\ isConnected[c] /\ Told(c) /\ ~Asks(c) /\ Own(c) # {}
  /\ "server" \in Parting(c) \/ Leaves(c) \/ Own(c) \subseteq Gone
Disconnected(c) ==
  /\ client[c] \in {"closing", "deleted"} /\ ~isConnected[c] /\ clientEvents[c] = <<>>
  /\ ~Asks(c) /\ "client" \notin Parting(c)

Phase(c) ==
  \/ Fresh(c) \/ Asked(c) \/ Rejected(c) \/ Granted(c)
  \/ Connected(c) \/ Disconnecting(c) \/ Disconnected(c)

(* A client asks at most once. *)
AsksOnce ==
  \A c \in Peers : \A i, k \in 1..Len(cmEvents) :
    cmEvents[i] = <<"CONNECT_REQUEST", c>> /\ cmEvents[k] = <<"CONNECT_REQUEST", c>> => i = k

CmInv == CmType /\ AsksOnce /\ \A c \in Peers : Phase(c)

(* What a step leaves of a client's concerns. *)
Same(d) ==
  /\ client'[d] = client[d] /\ isConnected'[d] = isConnected[d]
  /\ clientEvents'[d] = clientEvents[d]
  /\ (Asks(d)' <=> Asks(d)) /\ (Leaves(d)' <=> Leaves(d))
  /\ Own(d)' = Own(d) /\ Own(d) \cap Gone' = Own(d) \cap Gone
  /\ Parting(d)' = Parting(d)

(* A client with which the step has nothing to do stays where it is. *)
LEMMA PhaseKept ==
  ASSUME NEW d, Phase(d), Same(d)
  PROVE  Phase(d)'
  <1>1. Own(d) \subseteq Gone => (Own(d) \subseteq Gone)'
    BY DEF Same
  <1>2. (Own(d) \cap Gone = {}) => (Own(d) \cap Gone = {})'
    BY DEF Same
  <1>3. Fresh(d) => Fresh(d)'
    BY DEF Fresh, Same
  <1>4. Asked(d) => Asked(d)'
    BY DEF Asked, Same
  <1>5. Rejected(d) => Rejected(d)'
    BY DEF Rejected, Same
  <1>6. Granted(d) => Granted(d)'
    BY <1>2 DEF Granted, Same
  <1>7. Connected(d) => Connected(d)'
    BY <1>2 DEF Connected, Same
  <1>8. Disconnecting(d) => Disconnecting(d)'
    BY <1>1 DEF Disconnecting, Told, Same
  <1>9. Disconnected(d) => Disconnected(d)'
    BY DEF Disconnected, Same
  <1>10. QED
    BY <1>3, <1>4, <1>5, <1>6, <1>7, <1>8, <1>9 DEF Phase

(* A step that concerns one client. *)
LEMMA OneClient ==
  ASSUME CmInv, NEW c \in Peers, CmType', AsksOnce', Phase(c)', \A d \in Peers \ {c} : Same(d)
  PROVE  CmInv'
  <1>1. ASSUME NEW d \in Peers \ {c} PROVE Phase(d)'
    <2>1. Phase(d) /\ Same(d)
      BY DEF CmInv
    <2>2. QED
      BY <2>1, PhaseKept
  <1>2. \A d \in Peers : Phase(d)'
    BY <1>1
  <1>3. QED
    BY <1>2 DEF CmInv

(* An event more for the acceptor. *)
LEMMA EventMore ==
  ASSUME CmInv, NEW x \in CmEvent, cmEvents' = Append(cmEvents, x)
  PROVE  cmEvents' \in Seq(CmEvent) /\ \A it : Pending(it)' <=> Pending(it) \/ it = x
  <1>1. cmEvents \in Seq(CmEvent)
    BY DEF CmInv, CmType
  <1>2. /\ cmEvents' \in Seq(CmEvent) /\ Len(cmEvents') = Len(cmEvents) + 1
        /\ \A i \in 1..Len(cmEvents) : cmEvents'[i] = cmEvents[i]
        /\ cmEvents'[Len(cmEvents) + 1] = x
    BY <1>1, AppendProperties
  <1>3. Len(cmEvents) \in Nat
    BY <1>1, LenProperties
  <1>4. ASSUME NEW it PROVE Pending(it)' <=> Pending(it) \/ it = x
    <2>1. ASSUME Pending(it)' PROVE Pending(it) \/ it = x
      <3>1. PICK i \in 1..Len(cmEvents') : cmEvents'[i] = it
        BY <2>1 DEF Pending
      <3>2. i \in 1..Len(cmEvents) \/ i = Len(cmEvents) + 1
        BY <1>2, <1>3
      <3>3. QED
        BY <1>2, <3>1, <3>2 DEF Pending
    <2>2. ASSUME Pending(it) \/ it = x PROVE Pending(it)'
      <3>1. CASE it = x
        <4>1. Len(cmEvents) + 1 \in 1..Len(cmEvents')
          BY <1>2, <1>3
        <4>2. QED
          BY <1>2, <3>1, <4>1 DEF Pending
      <3>2. CASE Pending(it)
        <4>1. PICK i \in 1..Len(cmEvents) : cmEvents[i] = it
          BY <3>2 DEF Pending
        <4>2. i \in 1..Len(cmEvents') /\ cmEvents'[i] = it
          BY <1>2, <1>3, <4>1
        <4>3. QED
          BY <4>2 DEF Pending
      <3>3. QED
        BY <2>2, <3>1, <3>2
    <2>3. QED
      BY <2>1, <2>2
  <1>5. QED
    BY <1>2, <1>4

(* A request more, of a client that has none. *)
LEMMA StillOnce ==
  ASSUME CmInv, NEW x \in CmEvent, cmEvents' = Append(cmEvents, x),
         \A c \in Peers : x = <<"CONNECT_REQUEST", c>> => ~Asks(c)
  PROVE  AsksOnce'
  <1>1. cmEvents \in Seq(CmEvent)
    BY DEF CmInv, CmType
  <1>2. /\ Len(cmEvents') = Len(cmEvents) + 1 /\ Len(cmEvents) \in Nat
        /\ \A i \in 1..Len(cmEvents) : cmEvents'[i] = cmEvents[i]
        /\ cmEvents'[Len(cmEvents) + 1] = x
    BY <1>1, AppendProperties, LenProperties
  <1>3. ASSUME NEW c \in Peers, NEW i \in 1..Len(cmEvents'), NEW k \in 1..Len(cmEvents'),
               cmEvents'[i] = <<"CONNECT_REQUEST", c>>, cmEvents'[k] = <<"CONNECT_REQUEST", c>>
        PROVE  i = k
    <2>1. /\ i \in 1..Len(cmEvents) \/ i = Len(cmEvents) + 1
          /\ k \in 1..Len(cmEvents) \/ k = Len(cmEvents) + 1
      BY <1>2
    <2>2. x = <<"CONNECT_REQUEST", c>> =>
             \A n \in 1..Len(cmEvents) : cmEvents[n] # <<"CONNECT_REQUEST", c>>
      BY DEF Asks, Pending
    <2>3. CASE i \in 1..Len(cmEvents) /\ k \in 1..Len(cmEvents)
      BY <1>2, <1>3, <2>3 DEF CmInv, AsksOnce
    <2>4. QED
      BY <1>2, <1>3, <2>1, <2>2, <2>3
  <1>4. QED
    BY <1>3 DEF AsksOnce

(* An event is fetched. *)
LEMMA EventFewer ==
  ASSUME CmInv, NEW e, NEW c, Fetch(e, c)
  PROVE  /\ c \in Peers /\ cmEvents' \in Seq(CmEvent) /\ AsksOnce' /\ Pending(<<e, c>>)
         /\ \A it : it # <<e, c>> => (Pending(it)' <=> Pending(it))
         /\ e = "CONNECT_REQUEST" => ~Asks(c)'
  <1>1. cmEvents \in Seq(CmEvent) /\ cmEvents # <<>> /\ AsksOnce
    BY DEF CmInv, CmType, Fetch
  <1>2. /\ Len(cmEvents) \in Nat /\ Len(cmEvents) > 0 /\ cmEvents[1] = <<e, c>>
        /\ cmEvents' \in Seq(CmEvent) /\ Len(cmEvents') = Len(cmEvents) - 1
        /\ \A i \in 1..Len(cmEvents') : cmEvents'[i] = cmEvents[i + 1]
    <2>1. Len(cmEvents) \in Nat /\ Len(cmEvents) > 0
      BY <1>1, LenProperties, EmptySeq
    <2>2. cmEvents' = Tail(cmEvents) /\ Head(cmEvents) = <<e, c>>
      BY DEF Fetch
    <2>3. QED
      BY <1>1, <2>1, <2>2, HeadTailProperties
  <1>3. 1 \in 1..Len(cmEvents)
    BY <1>2
  <1>4. c \in Peers
    <2>1. <<e, c>> \in CmEvent
      BY <1>1, <1>2, <1>3, ElementOfSeq
    <2>2. QED
      BY <2>1 DEF CmEvent
  <1>5. Pending(<<e, c>>)
    BY <1>2, <1>3 DEF Pending
  <1>6. ASSUME NEW it, it # <<e, c>> PROVE Pending(it)' <=> Pending(it)
    <2>1. ASSUME Pending(it)' PROVE Pending(it)
      <3>1. PICK i \in 1..Len(cmEvents') : cmEvents'[i] = it
        BY <2>1 DEF Pending
      <3>2. i + 1 \in 1..Len(cmEvents) /\ cmEvents[i + 1] = it
        BY <1>2, <3>1
      <3>3. QED
        BY <3>2 DEF Pending
    <2>2. ASSUME Pending(it) PROVE Pending(it)'
      <3>1. PICK i \in 1..Len(cmEvents) : cmEvents[i] = it
        BY <2>2 DEF Pending
      <3>2. i # 1
        BY <1>2, <1>6, <3>1
      <3>3. i - 1 \in 1..Len(cmEvents') /\ (i - 1) + 1 = i
        BY <1>2, <3>2
      <3>4. cmEvents'[i - 1] = it
        BY <1>2, <3>1, <3>3
      <3>5. QED
        BY <3>3, <3>4 DEF Pending
    <2>3. QED
      BY <2>1, <2>2
  <1>7. e = "CONNECT_REQUEST" => ~Asks(c)'
    <2>1. SUFFICES ASSUME e = "CONNECT_REQUEST", Asks(c)' PROVE FALSE
      OBVIOUS
    <2>2. PICK i \in 1..Len(cmEvents') : cmEvents'[i] = <<"CONNECT_REQUEST", c>>
      BY <2>1 DEF Asks, Pending
    <2>3. i + 1 \in 1..Len(cmEvents) /\ cmEvents[i + 1] = <<"CONNECT_REQUEST", c>> /\ i + 1 # 1
      BY <1>2, <2>2
    <2>4. QED
      BY <1>1, <1>2, <1>3, <1>4, <2>1, <2>3 DEF AsksOnce
  <1>8. AsksOnce'
    <2>1. ASSUME NEW d \in Peers, NEW i \in 1..Len(cmEvents'), NEW k \in 1..Len(cmEvents'),
                 cmEvents'[i] = <<"CONNECT_REQUEST", d>>, cmEvents'[k] = <<"CONNECT_REQUEST", d>>
          PROVE  i = k
      <3>1. /\ i + 1 \in 1..Len(cmEvents) /\ cmEvents[i + 1] = <<"CONNECT_REQUEST", d>>
            /\ k + 1 \in 1..Len(cmEvents) /\ cmEvents[k + 1] = <<"CONNECT_REQUEST", d>>
        BY <1>2, <2>1
      <3>2. i + 1 = k + 1
        BY <1>1, <3>1 DEF AsksOnce
      <3>3. QED
        BY <1>2, <3>2
    <2>2. QED
      BY <2>1 DEF AsksOnce
  <1>9. QED
    BY <1>2, <1>4, <1>5, <1>6, <1>7, <1>8

(* A step of one client alone. *)
LEMMA ClientAlone ==
  ASSUME CmInv, NEW c \in Peers, UNCHANGED <<cmEvents, valid, rc, peer, deleted, doomed, hangups>>,
         client' = [d \in Peers |-> client'[d]], isConnected' \in [Peers -> BOOLEAN],
         clientEvents' = [d \in Peers |-> clientEvents'[d]],
         \A d \in Peers \ {c} : /\ client'[d] = client[d] /\ isConnected'[d] = isConnected[d]
                                /\ clientEvents'[d] = clientEvents[d],
         Phase(c)'
  PROVE  CmInv'
  <1>1. CmType' /\ AsksOnce'
    BY DEF CmInv, CmType, AsksOnce, Gone
  <1>2. ASSUME NEW d \in Peers \ {c} PROVE Same(d)
    BY DEF Same, Asks, Leaves, Pending, Own, Gone, Parting
  <1>3. QED
    BY <1>1, <1>2, OneClient

(* The server's side of a client stays. *)
LEMMA SideKept ==
  ASSUME NEW c, UNCHANGED <<cmEvents, peer, deleted, doomed, hangups>>
  PROVE  /\ (Asks(c)' <=> Asks(c)) /\ (Leaves(c)' <=> Leaves(c)) /\ Own(c)' = Own(c) /\ Gone' = Gone
         /\ Parting(c)' = Parting(c)
  BY DEF Asks, Leaves, Pending, Own, Gone, Parting

(* A client prepares, or destroys itself. *)
LEMMA PrepareKeeps ==
  ASSUME CmInv, NEW c \in Peers, initCmChannel(c) \/ initCmChannelFails(c) \/ clientDestroyed(c)
  PROVE  CmInv'
  <1>1. UNCHANGED <<cmEvents, valid, rc, peer, deleted, doomed, hangups, isConnected, clientEvents>>
    BY DEF initCmChannel, initCmChannelFails, clientDestroyed, infoVars, connVars
  <1>2. PICK s : /\ client' = [client EXCEPT ![c] = s]
                 /\ \/ client[c] \in {"new", "addr"} /\ s \in {"addr", "ready", "failed", "stuck"}
                    \/ client[c] = "closing" /\ s = "deleted"
    BY DEF initCmChannel, initCmChannelFails, clientDestroyed
  <1>3. /\ client = [d \in Peers |-> client[d]] /\ isConnected \in [Peers -> BOOLEAN]
        /\ clientEvents = [d \in Peers |-> clientEvents[d]] /\ Phase(c)
    BY DEF CmInv, CmType
  <1>4. client' = [d \in Peers |-> client'[d]] /\ client'[c] = s /\ \A d \in Peers \ {c} : client'[d] = client[d]
    BY <1>2, <1>3
  <1>5. /\ (Asks(c)' <=> Asks(c)) /\ (Leaves(c)' <=> Leaves(c)) /\ Own(c)' = Own(c)
        /\ Parting(c)' = Parting(c)
    BY <1>1, SideKept
  <1>6. Phase(c)'
    <2>1. CASE client[c] \in {"new", "addr"} /\ s \in {"addr", "ready", "failed", "stuck"}
      <3>1. Fresh(c)
        BY <1>3, <2>1 DEF Phase, Asked, Rejected, Granted, Connected, Disconnecting, Disconnected
      <3>2. Fresh(c)'
        BY <1>1, <1>4, <1>5, <2>1, <3>1 DEF Fresh
      <3>3. QED
        BY <3>2 DEF Phase
    <2>2. CASE client[c] = "closing" /\ s = "deleted"
      <3>1. Disconnected(c)
        BY <1>3, <2>2 DEF Phase, Fresh, Asked, Rejected, Granted, Connected, Disconnecting
      <3>2. Disconnected(c)'
        BY <1>1, <1>4, <1>5, <2>2, <3>1 DEF Disconnected
      <3>3. QED
        BY <3>2 DEF Phase
    <2>3. QED
      BY <1>2, <2>1, <2>2
  <1>7. QED
    BY <1>1, <1>3, <1>4, <1>6, ClientAlone

(* A client fetches its event. *)
LEMMA HandleKeeps ==
  ASSUME CmInv, NEW c \in Peers, handleCmEvent(c)
  PROVE  CmInv'
  <1>1. UNCHANGED <<cmEvents, valid, rc, peer, deleted, doomed, hangups>> /\ clientEvents[c] # <<>>
    BY DEF handleCmEvent, infoVars, connVars
  <1>2. /\ client = [d \in Peers |-> client[d]] /\ isConnected \in [Peers -> BOOLEAN]
        /\ clientEvents = [d \in Peers |-> clientEvents[d]] /\ Phase(c)
    BY DEF CmInv, CmType
  <1>3. /\ (Asks(c)' <=> Asks(c)) /\ (Leaves(c)' <=> Leaves(c)) /\ Own(c)' = Own(c) /\ Gone' = Gone
        /\ Parting(c)' = Parting(c)
    BY <1>1, SideKept
  <1>4. clientEvents' = [clientEvents EXCEPT ![c] = Tail(@)]
    BY DEF handleCmEvent
  <1>5. /\ clientEvents' = [d \in Peers |-> clientEvents'[d]]
        /\ clientEvents'[c] = Tail(clientEvents[c])
        /\ \A d \in Peers \ {c} : clientEvents'[d] = clientEvents[d]
    BY <1>2, <1>4
  <1>6. CASE Rejected(c)
    <2>1. client' = client /\ isConnected' = isConnected
      BY <1>6 DEF Rejected, handleCmEvent
    <2>2. clientEvents'[c] = <<>>
      BY <1>5, <1>6 DEF Rejected
    <2>3. Phase(c)'
      BY <1>3, <1>6, <2>1, <2>2 DEF Rejected, Asked, Phase
    <2>4. QED
      BY <1>1, <1>2, <1>5, <2>1, <2>3, ClientAlone
  <1>7. CASE Granted(c)
    <2>1. /\ client' = [client EXCEPT ![c] = "established"]
          /\ isConnected' = [isConnected EXCEPT ![c] = TRUE]
      BY <1>7 DEF Granted, handleCmEvent
    <2>2. clientEvents'[c] = <<>>
      BY <1>5, <1>7 DEF Granted
    <2>3. /\ client' = [d \in Peers |-> client'[d]] /\ client'[c] = "established"
          /\ isConnected' \in [Peers -> BOOLEAN] /\ isConnected'[c] = TRUE
          /\ \A d \in Peers \ {c} : client'[d] = client[d] /\ isConnected'[d] = isConnected[d]
      BY <1>2, <2>1
    <2>4. Phase(c)'
      BY <1>3, <1>7, <2>2, <2>3 DEF Granted, Connected, Phase
    <2>5. QED
      BY <1>1, <1>5, <2>3, <2>4, ClientAlone
  <1>8. CASE Disconnecting(c)
    <2>1. clientEvents[c] = <<"DISCONNECTED">> /\ "client" \notin Parting(c) /\ isConnected[c]
      BY <1>1, <1>8, Zenon DEF Disconnecting, Told
    <2>2. clientEvents'[c] = <<>>
      BY <1>5, <2>1
    <2>3. /\ client' = [client EXCEPT ![c] = "closing"]
          /\ isConnected' = [isConnected EXCEPT ![c] = FALSE]
      BY <2>1 DEF handleCmEvent
    <2>4. /\ client' = [d \in Peers |-> client'[d]] /\ client'[c] = "closing"
          /\ isConnected' \in [Peers -> BOOLEAN] /\ isConnected'[c] = FALSE
          /\ \A d \in Peers \ {c} : client'[d] = client[d] /\ isConnected'[d] = isConnected[d]
      BY <1>2, <2>3
    <2>5. Phase(c)'
      BY <1>3, <1>8, <2>1, <2>2, <2>4 DEF Disconnecting, Disconnected, Phase
    <2>6. QED
      BY <1>1, <1>5, <2>4, <2>5, ClientAlone
  <1>9. QED
    BY <1>1, <1>2, <1>6, <1>7, <1>8 DEF Phase, Fresh, Asked, Connected, Disconnected

(* A client asks for a connection. *)
LEMMA ConnectAsks ==
  ASSUME CmInv, NEW c \in Peers, onConnect(c)
  PROVE  CmInv'
  <1> DEFINE x == <<"CONNECT_REQUEST", c>>
  <1>1. /\ client[c] = "ready" /\ client' = [client EXCEPT ![c] = "connecting"]
        /\ cmEvents' = Append(cmEvents, x)
        /\ UNCHANGED <<valid, rc, peer, deleted, doomed, hangups, isConnected, clientEvents>>
    BY DEF onConnect, infoVars, connVars
  <1>2. x \in CmEvent
    BY DEF CmEvent
  <1>3. Fresh(c)
    BY <1>1 DEF CmInv, Phase, Asked, Rejected, Granted, Connected, Disconnecting, Disconnected
  <1>4. cmEvents' \in Seq(CmEvent) /\ \A it : Pending(it)' <=> Pending(it) \/ it = x
    BY <1>1, <1>2, EventMore
  <1>5. AsksOnce'
    <2>1. \A d \in Peers : x = <<"CONNECT_REQUEST", d>> => ~Asks(d)
      BY <1>3 DEF Fresh
    <2>2. QED
      BY <1>1, <1>2, <2>1, StillOnce
  <1>6. /\ \A d \in Peers : Leaves(d)' <=> Leaves(d)
        /\ \A d \in Peers \ {c} : Asks(d)' <=> Asks(d)
    BY <1>4 DEF Asks, Leaves
  <1>7. \A d \in Peers : Own(d)' = Own(d) /\ Gone' = Gone /\ Parting(d)' = Parting(d)
    BY <1>1 DEF Own, Gone, Parting
  <1>8. client = [d \in Peers |-> client[d]]
    BY DEF CmInv, CmType
  <1>9. /\ client' = [d \in Peers |-> client'[d]] /\ client'[c] = "connecting"
        /\ \A d \in Peers \ {c} : client'[d] = client[d]
    BY <1>1, <1>8
  <1>10. Phase(c)'
    BY <1>1, <1>3, <1>6, <1>7, <1>9 DEF Fresh, Asked, Phase
  <1>11. CmType'
    BY <1>1, <1>4, <1>7, <1>9 DEF CmInv, CmType
  <1>12. \A d \in Peers \ {c} : Same(d)
    BY <1>1, <1>6, <1>7, <1>9 DEF Same
  <1>13. QED
    BY <1>5, <1>10, <1>11, <1>12, OneClient

(* Either end disconnects. *)
LEMMA DisconnectKeeps ==
  ASSUME CmInv, NEW r \in Conns, disconnect(r)
  PROVE  CmInv'
  <1>1. PICK c \in Peers : c = peer[r]
    BY DEF disconnect, CmInv, CmType
  <1>2. /\ client[c] = "established" /\ r \notin Gone /\ ~Leaves(c) /\ r \in Own(c) /\ Parting(c) = {}
        /\ hangups' = hangups \cup {<<end, c>> : end \in Ends}
        /\ UNCHANGED <<valid, rc, peer, deleted, doomed, isConnected, client, clientEvents, cmEvents>>
    <2>1. cmEvents \in Seq(CmEvent)
      BY DEF CmInv, CmType
    <2>2. DOMAIN cmEvents = 1..Len(cmEvents)
      BY <2>1, LenProperties
    <2>3. QED
      BY <1>1, <2>2 DEF disconnect, Gone, Leaves, Pending, Own, Parting, clientVars, infoVars
  <1>3. Connected(c)
    BY <1>2 DEF CmInv, Phase, Fresh, Asked, Rejected, Granted, Disconnecting, Disconnected
  <1>4. Parting(c)' = Ends /\ \A d \in Peers \ {c} : Parting(d)' = Parting(d)
    BY <1>2 DEF Parting
  <1>5. \A d \in Peers : /\ Own(d)' = Own(d) /\ Gone' = Gone
                         /\ (Asks(d)' <=> Asks(d)) /\ (Leaves(d)' <=> Leaves(d))
    BY <1>2 DEF Own, Gone, Asks, Leaves, Pending
  <1>6. Disconnecting(c)'
    BY <1>2, <1>3, <1>4, <1>5 DEF Connected, Disconnecting, Told, Ends
  <1>7. CmType' /\ AsksOnce'
    BY <1>2, <1>5 DEF CmInv, CmType, AsksOnce
  <1>8. \A d \in Peers \ {c} : Same(d)
    BY <1>2, <1>4, <1>5 DEF Same
  <1>9. QED
    BY <1>6, <1>7, <1>8, OneClient DEF Phase

(* The event reaches one of the ends. *)
LEMMA HangUpKeeps ==
  ASSUME CmInv, NEW c \in Peers, NEW end \in Ends, hangUp(end, c)
  PROVE  CmInv'
  <1>1. /\ end \in Parting(c) /\ hangups' = hangups \ {<<end, c>>}
        /\ UNCHANGED <<valid, rc, peer, deleted, doomed, isConnected, client>>
    BY DEF hangUp, Parting, infoVars
  <1>2. Disconnecting(c) \/ (Disconnected(c) /\ end # "client")
    BY <1>1 DEF CmInv, Phase, Fresh, Asked, Rejected, Granted, Connected, Disconnected
  <1>3. Parting(c)' = Parting(c) \ {end} /\ \A d \in Peers \ {c} : Parting(d)' = Parting(d)
    BY <1>1 DEF Parting
  <1>4. \A d \in Peers : Own(d)' = Own(d) /\ Gone' = Gone
    BY <1>1 DEF Own, Gone
  <1>5. CASE end = "client"
    <2>1. /\ clientEvents' = [clientEvents EXCEPT ![c] = Append(@, "DISCONNECTED")]
          /\ cmEvents' = cmEvents
      BY <1>5 DEF hangUp, Tell
    <2>2. clientEvents = [d \in Peers |-> clientEvents[d]] /\ clientEvents[c] = <<>> /\ Disconnecting(c)
      BY <1>1, <1>2, <1>5 DEF CmInv, CmType, Disconnecting, Told
    <2>3. /\ clientEvents' = [d \in Peers |-> clientEvents'[d]] /\ clientEvents'[c] = <<"DISCONNECTED">>
          /\ \A d \in Peers \ {c} : clientEvents'[d] = clientEvents[d]
      <3>1. /\ clientEvents' = [d \in Peers |-> clientEvents'[d]]
            /\ clientEvents'[c] = Append(clientEvents[c], "DISCONNECTED")
            /\ \A d \in Peers \ {c} : clientEvents'[d] = clientEvents[d]
        BY <2>1, <2>2
      <3>2. Append(<<>>, "DISCONNECTED") = <<"DISCONNECTED">>
        OBVIOUS
      <3>3. QED
        BY <2>2, <3>1, <3>2
    <2>4. \A d \in Peers : (Asks(d)' <=> Asks(d)) /\ (Leaves(d)' <=> Leaves(d))
      BY <2>1 DEF Asks, Leaves, Pending
    <2>5. Disconnecting(c)'
      BY <1>1, <1>3, <1>4, <1>5, <2>2, <2>3, <2>4 DEF Disconnecting, Told
    <2>6. CmType' /\ AsksOnce'
      <3>1. CmType /\ AsksOnce /\ Gone' = Gone
        BY <1>4 DEF CmInv
      <3>2. CmType'
        BY <1>1, <2>1, <2>3, <3>1 DEF CmType
      <3>3. AsksOnce'
        BY <2>1, <3>1 DEF AsksOnce
      <3>4. QED
        BY <3>2, <3>3
    <2>7. \A d \in Peers \ {c} : Same(d)
      BY <1>1, <1>3, <1>4, <2>3, <2>4 DEF Same
    <2>8. QED
      BY <2>5, <2>6, <2>7, OneClient DEF Phase
  <1>6. CASE end = "server"
    <2> DEFINE x == <<"DISCONNECTED", c>>
    <2>1. cmEvents' = Append(cmEvents, x) /\ clientEvents' = clientEvents
      BY <1>6 DEF hangUp
    <2>2. x \in CmEvent
      BY DEF CmEvent
    <2>3. cmEvents' \in Seq(CmEvent) /\ \A it : Pending(it)' <=> Pending(it) \/ it = x
      BY <2>1, <2>2, EventMore
    <2>4. AsksOnce'
      <3>1. \A d \in Peers : x = <<"CONNECT_REQUEST", d>> => ~Asks(d)
        OBVIOUS
      <3>2. QED
        BY <2>1, <2>2, <3>1, StillOnce
    <2>5. /\ \A d \in Peers : Asks(d)' <=> Asks(d)
          /\ \A d \in Peers \ {c} : Leaves(d)' <=> Leaves(d)
          /\ Leaves(c)'
      BY <2>3 DEF Asks, Leaves
    <2>6. Phase(c)'
      <3>1. "client" \in Parting(c)' <=> "client" \in Parting(c)
        BY <1>3, <1>6
      <3>2. Disconnecting(c) => Disconnecting(c)'
        BY <1>1, <1>4, <2>1, <2>5, <3>1 DEF Disconnecting, Told
      <3>3. Disconnected(c) => Disconnected(c)'
        BY <1>1, <2>1, <2>5, <3>1 DEF Disconnected
      <3>4. QED
        BY <1>2, <3>2, <3>3 DEF Phase
    <2>7. CmType'
      BY <1>1, <1>4, <2>1, <2>3 DEF CmInv, CmType
    <2>8. \A d \in Peers \ {c} : Same(d)
      BY <1>1, <1>3, <1>4, <2>1, <2>5 DEF Same
    <2>9. QED
      BY <2>4, <2>6, <2>7, <2>8, OneClient
  <1>7. QED
    BY <1>5, <1>6 DEF Ends

(* A connection is offered, or deleted by its work item. *)
LEMMA OfferKeeps ==
  ASSUME CmInv, NEW r \in Conns, onAccept(r) \/ destroyed(r)
  PROVE  CmInv'
  <1>1. /\ UNCHANGED <<cmEvents, peer, client, isConnected, clientEvents, hangups>>
        /\ Gone' = Gone /\ (valid' => rc' \in Conns)
    <2>1. CASE onAccept(r)
      BY <2>1 DEF onAccept, Request, clientVars, connVars, Gone
    <2>2. CASE destroyed(r)
      BY <2>2 DEF destroyed, clientVars, infoVars, Gone, CmInv, CmType
    <2>3. QED
      BY <2>1, <2>2
  <1>2. CmType' /\ AsksOnce'
    BY <1>1 DEF CmInv, CmType, AsksOnce
  <1>3. \A d \in Peers : Same(d)
    BY <1>1 DEF Same, Asks, Leaves, Pending, Own, Parting
  <1>4. QED
    BY <1>2, <1>3, PhaseKept DEF CmInv

(* A request that is not granted. *)
LEMMA RefuseKeeps ==
  ASSUME CmInv, NEW c \in Peers, establishConectionFails(c) \/ createPassiveConnectionFails(c)
  PROVE  CmInv'
  <1>1. /\ Fetch("CONNECT_REQUEST", c)
        /\ UNCHANGED <<valid, rc, peer, deleted, doomed, hangups, client, isConnected>>
        /\ \/ clientEvents' = clientEvents
           \/ clientEvents' = [clientEvents EXCEPT ![c] = Append(@, "REJECTED")]
    BY DEF establishConectionFails, createPassiveConnectionFails, Tell, clientVars, infoVars, connVars
  <1>2. /\ cmEvents' \in Seq(CmEvent) /\ AsksOnce' /\ Asks(c) /\ ~Asks(c)'
        /\ \A it : it # <<"CONNECT_REQUEST", c>> => (Pending(it)' <=> Pending(it))
    BY <1>1, EventFewer DEF Asks
  <1>3. Asked(c)
    BY <1>2 DEF CmInv, Phase, Fresh, Rejected, Granted, Connected, Disconnecting, Disconnected
  <1>4. /\ \A d \in Peers : Leaves(d)' <=> Leaves(d)
        /\ \A d \in Peers \ {c} : Asks(d)' <=> Asks(d)
    BY <1>2 DEF Asks, Leaves
  <1>5. \A d \in Peers : Own(d)' = Own(d) /\ Gone' = Gone /\ Parting(d)' = Parting(d)
    BY <1>1 DEF Own, Gone, Parting
  <1>6. clientEvents = [d \in Peers |-> clientEvents[d]] /\ clientEvents[c] = <<>>
    BY <1>3 DEF CmInv, CmType, Asked
  <1>7. /\ clientEvents' = [d \in Peers |-> clientEvents'[d]]
        /\ clientEvents'[c] = <<>> \/ clientEvents'[c] = <<"REJECTED">>
        /\ \A d \in Peers \ {c} : clientEvents'[d] = clientEvents[d]
    <2>1. /\ clientEvents' = [d \in Peers |-> clientEvents'[d]]
          /\ clientEvents'[c] = clientEvents[c] \/ clientEvents'[c] = Append(clientEvents[c], "REJECTED")
          /\ \A d \in Peers \ {c} : clientEvents'[d] = clientEvents[d]
      BY <1>1, <1>6
    <2>2. Append(<<>>, "REJECTED") = <<"REJECTED">>
      OBVIOUS
    <2>3. QED
      BY <1>6, <2>1, <2>2
  <1>8. Phase(c)'
    BY <1>1, <1>2, <1>3, <1>4, <1>5, <1>7 DEF Asked, Rejected, Phase
  <1>9. CmType'
    BY <1>1, <1>2, <1>5, <1>7 DEF CmInv, CmType
  <1>10. \A d \in Peers \ {c} : Same(d)
    BY <1>1, <1>4, <1>5, <1>7 DEF Same
  <1>11. QED
    BY <1>2, <1>8, <1>9, <1>10, OneClient

(* A request that is granted. *)
LEMMA EstablishKeeps ==
  ASSUME CmInv, NEW c \in Peers, establishConection(c)
  PROVE  CmInv'
  <1>1. PICK r \in Conns : r = rc
    BY DEF establishConection, CmInv, CmType
  <1>2. /\ Fetch("CONNECT_REQUEST", c)
        /\ UNCHANGED <<deleted, doomed, hangups, client, isConnected>>
        /\ clientEvents' = [clientEvents EXCEPT ![c] = Append(@, "ESTABLISHED")]
        /\ peer' = createPassiveConnection(r, c) /\ createPassiveConnection(r, c)[r] = c
        /\ valid' => rc' \in Conns
    BY <1>1 DEF establishConection, Tell, Accepts, Request
  <1>3. /\ cmEvents' \in Seq(CmEvent) /\ AsksOnce' /\ Asks(c) /\ ~Asks(c)'
        /\ \A it : it # <<"CONNECT_REQUEST", c>> => (Pending(it)' <=> Pending(it))
    BY <1>2, EventFewer DEF Asks
  <1>4. Asked(c)
    BY <1>3 DEF CmInv, Phase, Fresh, Rejected, Granted, Connected, Disconnecting, Disconnected
  <1>5. /\ peer \in [Conns -> Peers \cup {NoPeer}]
        /\ \A q \in Conns : q \in Gone => peer[q] # NoPeer
        /\ NoPeer \notin Peers
    BY PeersAssumption DEF CmInv, CmType
  <1>6. peer[r] = NoPeer /\ peer' = [peer EXCEPT ![r] = c]
    <2>1. peer[r] # c
      BY <1>4 DEF Asked, Own
    <2>2. QED
      BY <1>2, <2>1 DEF createPassiveConnection
  <1>7. /\ peer' \in [Conns -> Peers \cup {NoPeer}] /\ peer'[r] = c
        /\ \A q \in Conns \ {r} : peer'[q] = peer[q]
    BY <1>5, <1>6
  <1>8. Own(c)' = {r} /\ \A d \in Peers \ {c} : Own(d)' = Own(d)
    <2>1. Own(c) = {}
      BY <1>4 DEF Asked
    <2>2. Own(c)' = {r}
      BY <1>7, <2>1 DEF Own
    <2>3. ASSUME NEW d \in Peers \ {c} PROVE Own(d)' = Own(d)
      BY <1>5, <1>6, <1>7 DEF Own
    <2>4. QED
      BY <2>2, <2>3
  <1>9. Gone' = Gone /\ r \notin Gone /\ \A d \in Peers : Parting(d)' = Parting(d)
    BY <1>2, <1>5, <1>6 DEF Gone, Parting
  <1>10. /\ \A d \in Peers : Leaves(d)' <=> Leaves(d)
         /\ \A d \in Peers \ {c} : Asks(d)' <=> Asks(d)
    BY <1>3 DEF Asks, Leaves
  <1>11. clientEvents = [d \in Peers |-> clientEvents[d]] /\ clientEvents[c] = <<>>
    BY <1>4 DEF CmInv, CmType, Asked
  <1>12. /\ clientEvents' = [d \in Peers |-> clientEvents'[d]] /\ clientEvents'[c] = <<"ESTABLISHED">>
         /\ \A d \in Peers \ {c} : clientEvents'[d] = clientEvents[d]
    <2>1. /\ clientEvents' = [d \in Peers |-> clientEvents'[d]]
          /\ clientEvents'[c] = Append(clientEvents[c], "ESTABLISHED")
          /\ \A d \in Peers \ {c} : clientEvents'[d] = clientEvents[d]
      BY <1>2, <1>11
    <2>2. Append(<<>>, "ESTABLISHED") = <<"ESTABLISHED">>
      OBVIOUS
    <2>3. QED
      BY <1>11, <2>1, <2>2
  <1>13. Phase(c)'
    <2>1. (Own(c) # {} /\ Own(c) \cap Gone = {})'
      BY <1>8, <1>9
    <2>2. QED
      BY <1>2, <1>3, <1>4, <1>9, <1>10, <1>12, <2>1 DEF Asked, Granted, Phase
  <1>14. CmType'
    <2>1. \A q \in Conns : q \in Gone' => peer'[q] # NoPeer
      BY <1>5, <1>7, <1>9
    <2>2. QED
      BY <1>2, <1>3, <1>7, <1>12, <2>1 DEF CmInv, CmType
  <1>15. \A d \in Peers \ {c} : Same(d)
    BY <1>2, <1>8, <1>9, <1>10, <1>12 DEF Same
  <1>16. QED
    BY <1>3, <1>13, <1>14, <1>15, OneClient

(* The acceptor hears of a disconnection. *)
LEMMA DoomKeeps ==
  ASSUME CmInv, NEW c \in Peers, handleDisconnected(c)
  PROVE  CmInv'
  <1>1. /\ Fetch("DISCONNECTED", c)
        /\ UNCHANGED <<valid, rc, peer, deleted, hangups, client, isConnected, clientEvents>>
        /\ doomed' = doomed \cup Own(c)
    BY DEF handleDisconnected, clientVars, infoVars, Own
  <1>2. /\ cmEvents' \in Seq(CmEvent) /\ AsksOnce' /\ Leaves(c)
        /\ \A it : it # <<"DISCONNECTED", c>> => (Pending(it)' <=> Pending(it))
    BY <1>1, EventFewer DEF Leaves
  <1>3. /\ \A d \in Peers : Asks(d)' <=> Asks(d)
        /\ \A d \in Peers \ {c} : Leaves(d)' <=> Leaves(d)
    BY <1>2 DEF Asks, Leaves
  <1>4. Gone' = Gone \cup Own(c) /\ \A d \in Peers : Own(d)' = Own(d) /\ Parting(d)' = Parting(d)
    BY <1>1 DEF Gone, Own, Parting
  <1>5. \A d \in Peers \ {c} : Own(d) \cap Gone' = Own(d) \cap Gone
    BY <1>4 DEF Own
  <1>6. Disconnecting(c) \/ Disconnected(c)
    BY <1>2 DEF CmInv, Phase, Fresh, Asked, Rejected, Granted, Connected
  <1>7. Phase(c)'
    <2>1. (Own(c) \subseteq Gone)'
      BY <1>4
    <2>2. QED
      BY <1>1, <1>3, <1>4, <1>6, <2>1 DEF Disconnecting, Told, Disconnected, Phase
  <1>8. CmType'
    <2>1. \A q \in Conns : q \in Gone' => peer'[q] # NoPeer
      BY <1>1, <1>4, PeersAssumption DEF CmInv, CmType, Own
    <2>2. QED
      BY <1>1, <1>2, <2>1 DEF CmInv, CmType
  <1>9. \A d \in Peers \ {c} : Same(d)
    BY <1>1, <1>3, <1>4, <1>5 DEF Same
  <1>10. QED
    BY <1>2, <1>7, <1>8, <1>9, OneClient

(* Every client is in one of its phases (RdmaClient::handleCmEvent and
   RdmaAcceptor::handleCmEvent, whatever order their events come in). *)
THEOREM PhasesHold == CmSpec => []CmInv
  <1>1. CmInit => CmInv
    <2>1. SUFFICES ASSUME CmInit PROVE CmInv
      OBVIOUS
    <2>2. cmEvents \in Seq(CmEvent) /\ Len(cmEvents) = 0
      BY <2>1, EmptySeq DEF CmInit
    <2>3. \A it : ~Pending(it)
      BY <2>2 DEF Pending
    <2>4. CmType
      BY <2>1, <2>2 DEF CmInit, CmType, Gone
    <2>5. AsksOnce
      BY <2>2 DEF AsksOnce
    <2>6. ASSUME NEW c \in Peers PROVE Phase(c)
      <3>1. Own(c) = {}
        BY <2>1, PeersAssumption DEF Own, CmInit
      <3>2. Fresh(c)
        BY <2>1, <2>3, <3>1 DEF Fresh, Asks, Leaves, Parting, CmInit
      <3>3. QED
        BY <3>2 DEF Phase
    <2>7. QED
      BY <2>4, <2>5, <2>6 DEF CmInv
  <1>2. CmInv /\ [CmNext]_cmVars => CmInv'
    <2>1. SUFFICES ASSUME CmInv, [CmNext]_cmVars PROVE CmInv'
      OBVIOUS
    <2>2. CASE UNCHANGED cmVars
      <3>1. CmType' /\ AsksOnce'
        BY <2>1, <2>2 DEF CmInv, CmType, AsksOnce, Gone, cmVars
      <3>2. \A d \in Peers : Same(d)
        BY <2>2 DEF Same, Asks, Leaves, Pending, Own, Gone, Parting, cmVars
      <3>3. QED
        BY <2>1, <3>1, <3>2, PhaseKept DEF CmInv
    <2>3. ASSUME NEW c \in Peers,
                 \/ initCmChannel(c) \/ initCmChannelFails(c) \/ onConnect(c)
                 \/ handleCmEvent(c) \/ clientDestroyed(c)
                 \/ establishConection(c) \/ establishConectionFails(c)
                 \/ createPassiveConnectionFails(c) \/ handleDisconnected(c)
                 \/ \E end \in Ends : hangUp(end, c)
          PROVE  CmInv'
      BY <2>1, <2>3, PrepareKeeps, ConnectAsks, HandleKeeps, EstablishKeeps, RefuseKeeps, DoomKeeps, HangUpKeeps
    <2>4. ASSUME NEW r \in Conns, onAccept(r) \/ disconnect(r) \/ destroyed(r) PROVE CmInv'
      BY <2>1, <2>4, OfferKeeps, DisconnectKeeps
    <2>5. QED
      BY <2>1, <2>2, <2>3, <2>4 DEF CmNext
  <1>3. QED
    BY <1>1, <1>2, PTL DEF CmSpec

(* EachItsConnection, for every number of clients and connections: two requests
   never end on one RdmaConnection, and a connection goes only when its client
   was told or will be, in whatever order the two ends hear of it
   (RdmaConnection::createPassiveConnection, shutdown). *)
THEOREM EachItsConnectionHolds == CmSpec => []EachItsConnection
  <1>1. CmInv => EachItsConnection
    <2>1. SUFFICES ASSUME CmInv, NEW c \in Peers, isConnected[c]
                   PROVE  \E r \in Conns :
                            /\ peer[r] = c
                            /\ r \in deleted \cup doomed =>
                                 \/ \E i \in DOMAIN clientEvents[c] : clientEvents[c][i] = "DISCONNECTED"
                                 \/ <<"client", c>> \in hangups
      BY DEF EachItsConnection
    <2>2. Connected(c) \/ Disconnecting(c)
      BY <2>1 DEF CmInv, Phase, Fresh, Asked, Rejected, Granted, Disconnected
    <2>3. PICK r \in Conns : r \in Own(c) /\ peer[r] = c
      BY <2>2 DEF Own, Connected, Disconnecting
    <2>4. CASE Connected(c)
      <3>1. r \notin deleted \cup doomed
        BY <2>3, <2>4 DEF Connected, Gone
      <3>2. QED
        BY <2>3, <3>1
    <2>5. CASE Disconnecting(c)
      <3>1. CASE clientEvents[c] = <<"DISCONNECTED">>
        <4>1. 1 \in DOMAIN clientEvents[c] /\ clientEvents[c][1] = "DISCONNECTED"
          BY <3>1
        <4>2. QED
          BY <2>3, <4>1
      <3>2. CASE "client" \in Parting(c)
        BY <2>3, <3>2 DEF Parting
      <3>3. QED
        BY <2>5, <3>1, <3>2 DEF Disconnecting, Told
    <2>6. QED
      BY <2>2, <2>4, <2>5
  <1>2. QED
    BY <1>1, PhasesHold, PTL

-----------------------------------------------------------------------------
(* Callbacks and completions *)

(* Places of a sequence that hold an element of a set, and their number. *)
Places(s, M) == {i \in 1..Len(s) : s[i] \in M}
Hits(s, M) == Cardinality(Places(s, M))

Wr == Buffers \X Nat
Completion == [wr : Wr, ok : BOOLEAN]
SuccessOf(b) == {e \in Completion : e.ok /\ e.wr[1] = b}
CalledFor(b) == {h \in called : h[1] = b}

RdmaType ==
  /\ posts \in Nat
  /\ posted \in [Queues -> Seq(Wr)] /\ cq \in [Queues -> Seq(Completion)]
  /\ dataList \in Seq(Buffers) /\ good \in [Buffers -> Nat] /\ IsFiniteSet(called)

(* Every success was counted: callbacks that ran, completions that wait to be
   polled on either queue, and those polled whose callback is to come. *)
Covered(b) ==
  Cardinality(CalledFor(b)) + Hits(cq["send"], SuccessOf(b)) + Hits(cq["recv"], SuccessOf(b))
    + Hits(dataList, {b}) <= good[b]

RdmaInv == RdmaType /\ \A b \in Buffers : Covered(b)

(* The number is a number. *)
LEMMA HitsNat ==
  ASSUME NEW S, NEW s \in Seq(S), NEW M
  PROVE  IsFiniteSet(Places(s, M)) /\ Hits(s, M) \in Nat
  <1>1. Len(s) \in Nat
    BY LenProperties
  <1>2. IsFiniteSet(1..Len(s))
    BY <1>1, FS_Interval
  <1>3. Places(s, M) \in SUBSET (1..Len(s))
    BY DEF Places
  <1>4. IsFiniteSet(Places(s, M))
    BY <1>2, <1>3, FS_Subset
  <1>5. QED
    BY <1>4, FS_CardinalityType DEF Hits

(* None in an empty sequence. *)
LEMMA HitsEmpty ==
  ASSUME NEW M
  PROVE  Hits(<<>>, M) = 0
  <1>1. Places(<<>>, M) = {}
    BY DEF Places
  <1>2. QED
    BY <1>1, FS_EmptySet DEF Hits

(* One element more. *)
LEMMA HitsAppend ==
  ASSUME NEW S, NEW s \in Seq(S), NEW x \in S, NEW M
  PROVE  Hits(Append(s, x), M) = IF x \in M THEN Hits(s, M) + 1 ELSE Hits(s, M)
  <1> DEFINE t == Append(s, x)
  <1>1. /\ Len(s) \in Nat /\ Len(t) = Len(s) + 1 /\ t[Len(s) + 1] = x
        /\ \A i \in 1..Len(s) : t[i] = s[i]
    BY LenProperties, AppendProperties
  <1> HIDE DEF t
  <1>2. Places(t, M) = IF x \in M THEN Places(s, M) \cup {Len(s) + 1} ELSE Places(s, M)
    <2>1. \A i : i \in 1..Len(t) <=> i \in 1..Len(s) \/ i = Len(s) + 1
      BY <1>1
    <2>2. QED
      BY <1>1, <2>1 DEF Places
  <1>3. Len(s) + 1 \notin Places(s, M)
    BY <1>1 DEF Places
  <1>4. IsFiniteSet(Places(s, M))
    BY HitsNat
  <1>5. Cardinality(Places(s, M) \cup {Len(s) + 1}) = Cardinality(Places(s, M)) + 1
    BY <1>3, <1>4, FS_AddElement
  <1>6. Hits(t, M) = IF x \in M THEN Hits(s, M) + 1 ELSE Hits(s, M)
    BY <1>2, <1>5 DEF Hits
  <1>7. QED
    BY <1>6 DEF t

(* The first element goes: the others move up. *)
LEMMA HitsTail ==
  ASSUME NEW S, NEW s \in Seq(S), s # <<>>, NEW M
  PROVE  IF Head(s) \in M THEN Hits(Tail(s), M) + 1 <= Hits(s, M) ELSE Hits(Tail(s), M) <= Hits(s, M)
  <1> DEFINE t == Tail(s)
             P == Places(s, M) \ {1}
             f == [i \in P |-> i - 1]
  <1>1. /\ Len(s) \in Nat /\ Len(s) > 0 /\ t \in Seq(S) /\ Len(t) = Len(s) - 1 /\ Head(s) = s[1]
        /\ \A i \in 1..Len(t) : t[i] = s[i + 1]
    <2>1. Len(s) \in Nat /\ Len(s) > 0
      BY LenProperties, EmptySeq
    <2>2. QED
      BY <2>1, HeadTailProperties
  <1> HIDE DEF t
  <1>2. ASSUME NEW i \in P PROVE i - 1 \in Places(t, M)
    <2>1. i \in 1..Len(s) /\ s[i] \in M /\ i # 1
      BY <1>2 DEF Places
    <2>2. i - 1 \in 1..Len(t) /\ (i - 1) + 1 = i
      BY <1>1, <2>1
    <2>3. t[i - 1] = s[i]
      BY <1>1, <2>2
    <2>4. QED
      BY <2>1, <2>2, <2>3 DEF Places
  <1>3. ASSUME NEW k \in Places(t, M) PROVE \E i \in P : f[i] = k
    <2>1. k \in 1..Len(t) /\ t[k] \in M
      BY DEF Places
    <2>2. k + 1 \in 1..Len(s) /\ k + 1 # 1 /\ s[k + 1] \in M /\ (k + 1) - 1 = k
      BY <1>1, <2>1
    <2>3. k + 1 \in P
      BY <2>2 DEF Places
    <2>4. QED
      BY <2>2, <2>3
  <1>4. f \in Surjection(P, Places(t, M))
    BY <1>2, <1>3 DEF Surjection
  <1>5. IsFiniteSet(Places(s, M)) /\ Hits(s, M) \in Nat /\ IsFiniteSet(Places(t, M)) /\ Hits(t, M) \in Nat
    BY <1>1, HitsNat
  <1>6. /\ IsFiniteSet(P)
        /\ Cardinality(P) = IF 1 \in Places(s, M) THEN Cardinality(Places(s, M)) - 1
                                                  ELSE Cardinality(Places(s, M))
    BY <1>5, FS_RemoveElement
  <1> HIDE DEF P, f
  <1>7. Cardinality(Places(t, M)) <= Cardinality(P)
    BY <1>4, <1>6, FS_Surjection
  <1>8. 1 \in Places(s, M) <=> Head(s) \in M
    BY <1>1 DEF Places
  <1>9. IF Head(s) \in M THEN Hits(t, M) + 1 <= Hits(s, M) ELSE Hits(t, M) <= Hits(s, M)
    BY <1>5, <1>6, <1>7, <1>8 DEF Hits
  <1>10. QED
    BY <1>9 DEF t

(* The first handler of a wr_id is one of its handlers. *)
LEMMA MinIn ==
  ASSUME NEW T \in SUBSET Nat, T # {}
  PROVE  Min(T) \in T
  <1> DEFINE R == OpToRel(<, Nat)
  <1>1. IsWellFoundedOn(R, Nat)
    BY NatLessThanWellFounded
  <1>2. PICK x \in T : \A y \in T : ~(<<y, x>> \in R)
    <2> HIDE DEF R
    <2>1. QED
      BY <1>1, WFMin
  <1>3. \A y \in T : <<y, x>> \in R <=> y < x
    BY DEF OpToRel
  <1> HIDE DEF R
  <1>4. ASSUME NEW y \in T PROVE x =< y
    <2>1. ~(y < x)
      BY <1>2, <1>3, Zenon
    <2>2. x \in Nat /\ y \in Nat
      OBVIOUS
    <2>3. QED
      BY <2>1, <2>2
  <1>5. QED
    BY <1>4 DEF Min

(* Callbacks of a buffer, when one more was called. *)
LEMMA CalledMore ==
  ASSUME NEW C, IsFiniteSet(C), NEW h, NEW b
  PROVE  /\ IsFiniteSet(C \cup {h})
         /\ Cardinality({g \in C : g[1] = b}) \in Nat
         /\ Cardinality({g \in C \cup {h} : g[1] = b}) \in Nat
         /\ IF h[1] = b
            THEN Cardinality({g \in C \cup {h} : g[1] = b}) <= Cardinality({g \in C : g[1] = b}) + 1
            ELSE Cardinality({g \in C \cup {h} : g[1] = b}) = Cardinality({g \in C : g[1] = b})
  <1> DEFINE A == {g \in C : g[1] = b}
             B == {g \in C \cup {h} : g[1] = b}
  <1>1. IsFiniteSet(C \cup {h})
    BY FS_AddElement
  <1>2. IsFiniteSet(A) /\ Cardinality(A) \in Nat
    <2>1. A \in SUBSET C
      OBVIOUS
    <2> HIDE DEF A
    <2>2. QED
      BY <2>1, FS_Subset, FS_CardinalityType
  <1>3. B = IF h[1] = b THEN A \cup {h} ELSE A
    OBVIOUS
  <1>4. /\ IsFiniteSet(A \cup {h})
        /\ Cardinality(A \cup {h}) = IF h \in A THEN Cardinality(A) ELSE Cardinality(A) + 1
    <2> HIDE DEF A
    <2>1. QED
      BY <1>2, FS_AddElement
  <1> HIDE DEF A, B
  <1>5. /\ Cardinality(B) \in Nat
        /\ IF h[1] = b THEN Cardinality(B) <= Cardinality(A) + 1 ELSE Cardinality(B) = Cardinality(A)
    BY <1>2, <1>3, <1>4
  <1>6. QED
    BY <1>1, <1>2, <1>5 DEF A, B

(* The numbers of the sum. *)
LEMMA SumTyped ==
  ASSUME RdmaType, NEW b \in Buffers
  PROVE  /\ Cardinality(CalledFor(b)) \in Nat /\ good[b] \in Nat
         /\ \A q \in Queues : Hits(cq[q], SuccessOf(b)) \in Nat
         /\ Hits(dataList, {b}) \in Nat
  <1>1. Cardinality(CalledFor(b)) \in Nat
    BY CalledMore DEF RdmaType, CalledFor
  <1>2. \A q \in Queues : cq[q] \in Seq(Completion)
    BY DEF RdmaType
  <1>3. QED
    BY <1>1, <1>2, HitsNat DEF RdmaType

(* A step that does not move the sum up. *)
LEMMA SumKept ==
  ASSUME RdmaInv, RdmaType', NEW b \in Buffers,
         Cardinality(CalledFor(b))' = Cardinality(CalledFor(b)),
         cq' = cq, good'[b] = good[b], Hits(dataList, {b})' <= Hits(dataList, {b})
  PROVE  Covered(b)'
  <1>1. Covered(b)
    BY DEF RdmaInv
  <1>2. "send" \in Queues /\ "recv" \in Queues /\ RdmaType
    BY DEF Queues, RdmaInv
  <1>3. /\ Cardinality(CalledFor(b)) \in Nat /\ good[b] \in Nat
        /\ Hits(cq["send"], SuccessOf(b)) \in Nat /\ Hits(cq["recv"], SuccessOf(b)) \in Nat
        /\ Hits(dataList, {b}) \in Nat
    BY <1>2, SumTyped
  <1>4. Hits(dataList', {b}) \in Nat
    BY HitsNat DEF RdmaType
  <1>5. /\ Hits(cq["send"], SuccessOf(b))' = Hits(cq["send"], SuccessOf(b))
        /\ Hits(cq["recv"], SuccessOf(b))' = Hits(cq["recv"], SuccessOf(b))
    OBVIOUS
  <1>6. QED
    BY <1>1, <1>3, <1>4, <1>5 DEF Covered

(* A request completes. *)
LEMMA CompleteKeeps ==
  ASSUME RdmaInv, NEW q \in Queues, Complete(q)
  PROVE  RdmaInv'
  <1>1. /\ posts \in Nat /\ posted \in [Queues -> Seq(Wr)] /\ cq \in [Queues -> Seq(Completion)]
        /\ dataList \in Seq(Buffers) /\ good \in [Buffers -> Nat] /\ IsFiniteSet(called)
    BY DEF RdmaInv, RdmaType
  <1>2. posted[q] # <<>> /\ posted[q] \in Seq(Wr) /\ cq[q] \in Seq(Completion)
    BY <1>1 DEF Complete
  <1>3. PICK wr \in Wr : wr = Head(posted[q])
    BY <1>2, HeadTailProperties
  <1>4. PICK ok \in BOOLEAN :
          /\ cq' = [cq EXCEPT ![q] = Append(@, [wr |-> wr, ok |-> ok])]
          /\ good' = IF ok THEN [good EXCEPT ![wr[1]] = @ + 1] ELSE good
    BY <1>3 DEF Complete
  <1>5. posted' = [posted EXCEPT ![q] = Tail(@)] /\ UNCHANGED <<posts, dataList, called>>
    BY DEF Complete
  <1> DEFINE x == [wr |-> wr, ok |-> ok]
  <1>6. x \in Completion /\ x.wr = wr /\ x.ok = ok /\ wr[1] \in Buffers
    BY DEF Completion, Wr
  <1> HIDE DEF x
  <1>7. Append(cq[q], x) \in Seq(Completion) /\ Tail(posted[q]) \in Seq(Wr)
    BY <1>2, <1>6, AppendProperties, HeadTailProperties
  <1>8. /\ cq' \in [Queues -> Seq(Completion)] /\ cq'[q] = Append(cq[q], x)
        /\ \A p \in Queues \ {q} : cq'[p] = cq[p]
    BY <1>1, <1>4, <1>7 DEF x
  <1>9. posted' \in [Queues -> Seq(Wr)] /\ good' \in [Buffers -> Nat]
    BY <1>1, <1>4, <1>5, <1>6, <1>7
  <1>10. RdmaType'
    BY <1>1, <1>5, <1>8, <1>9 DEF RdmaType
  <1>11. ASSUME NEW b \in Buffers PROVE Covered(b)'
    <2>1. x \in SuccessOf(b) <=> ok /\ wr[1] = b
      BY <1>6 DEF SuccessOf
    <2>2. good'[b] = IF x \in SuccessOf(b) THEN good[b] + 1 ELSE good[b]
      BY <1>1, <1>4, <1>6, <2>1
    <2>3. Hits(cq'[q], SuccessOf(b)) = IF x \in SuccessOf(b) THEN Hits(cq[q], SuccessOf(b)) + 1
                                                             ELSE Hits(cq[q], SuccessOf(b))
      BY <1>2, <1>6, <1>8, HitsAppend
    <2>4. \A p \in Queues \ {q} : Hits(cq'[p], SuccessOf(b)) = Hits(cq[p], SuccessOf(b))
      BY <1>8
    <2>5. /\ Cardinality(CalledFor(b)) \in Nat /\ good[b] \in Nat
          /\ \A p \in Queues : Hits(cq[p], SuccessOf(b)) \in Nat
          /\ Hits(dataList, {b}) \in Nat
      BY SumTyped DEF RdmaInv
    <2>6. Cardinality(CalledFor(b)) + Hits(cq["send"], SuccessOf(b)) + Hits(cq["recv"], SuccessOf(b))
             + Hits(dataList, {b}) <= good[b]
      BY DEF RdmaInv, Covered
    <2>7. Cardinality(CalledFor(b)) + Hits(cq'["send"], SuccessOf(b)) + Hits(cq'["recv"], SuccessOf(b))
             + Hits(dataList, {b}) <= good'[b]
      BY <2>2, <2>3, <2>4, <2>5, <2>6 DEF Queues
    <2>8. CalledFor(b)' = CalledFor(b) /\ dataList' = dataList
      BY <1>5 DEF CalledFor
    <2>9. QED
      BY <2>7, <2>8 DEF Covered, SuccessOf
  <1>12. QED
    BY <1>10, <1>11 DEF RdmaInv

(* A completion is polled. *)
LEMMA PollKeeps ==
  ASSUME RdmaInv, NEW q \in Queues, pollIncomingData(q)
  PROVE  RdmaInv'
  <1>1. /\ posts \in Nat /\ posted \in [Queues -> Seq(Wr)] /\ cq \in [Queues -> Seq(Completion)]
        /\ dataList \in Seq(Buffers) /\ good \in [Buffers -> Nat] /\ IsFiniteSet(called)
    BY DEF RdmaInv, RdmaType
  <1>2. UNCHANGED <<posted, posts, good, called>>
    BY DEF pollIncomingData
  <1>3. CASE cq[q] = <<>>
    <2>1. UNCHANGED <<cq, dataList>>
      BY <1>3 DEF pollIncomingData
    <2>2. RdmaType'
      BY <1>1, <1>2, <2>1 DEF RdmaType
    <2>3. \A b \in Buffers : Covered(b)'
      BY <1>2, <2>1 DEF RdmaInv, Covered, CalledFor
    <2>4. QED
      BY <2>2, <2>3 DEF RdmaInv
  <1>4. CASE cq[q] # <<>>
    <2>1. cq[q] \in Seq(Completion)
      BY <1>1
    <2>2. PICK e \in Completion : e = Head(cq[q])
      BY <1>4, <2>1, HeadTailProperties
    <2>3. /\ cq' = [cq EXCEPT ![q] = Tail(@)]
          /\ dataList' = IF e.ok THEN Append(dataList, e.wr[1]) ELSE dataList
      BY <1>4, <2>2 DEF pollIncomingData
    <2>4. Tail(cq[q]) \in Seq(Completion) /\ e.wr[1] \in Buffers
      BY <1>4, <2>1, HeadTailProperties DEF Completion, Wr
    <2>5. /\ cq' \in [Queues -> Seq(Completion)] /\ cq'[q] = Tail(cq[q])
          /\ \A p \in Queues \ {q} : cq'[p] = cq[p]
      BY <1>1, <2>3, <2>4
    <2>6. dataList' \in Seq(Buffers)
      BY <1>1, <2>3, <2>4, AppendProperties
    <2>7. RdmaType'
      BY <1>1, <1>2, <2>5, <2>6 DEF RdmaType
    <2>8. ASSUME NEW b \in Buffers PROVE Covered(b)'
      <3>1. e \in SuccessOf(b) <=> e.ok /\ e.wr[1] = b
        BY DEF SuccessOf
      <3>2. IF e \in SuccessOf(b) THEN Hits(cq'[q], SuccessOf(b)) + 1 <= Hits(cq[q], SuccessOf(b))
                                  ELSE Hits(cq'[q], SuccessOf(b)) <= Hits(cq[q], SuccessOf(b))
        BY <1>4, <2>1, <2>2, <2>5, HitsTail
      <3>3. \A p \in Queues \ {q} : Hits(cq'[p], SuccessOf(b)) = Hits(cq[p], SuccessOf(b))
        BY <2>5
      <3>4. Hits(dataList', {b}) = IF e \in SuccessOf(b) THEN Hits(dataList, {b}) + 1 ELSE Hits(dataList, {b})
        <4>1. e.wr[1] \in {b} <=> e.wr[1] = b
          OBVIOUS
        <4>2. Hits(Append(dataList, e.wr[1]), {b}) = IF e.wr[1] \in {b} THEN Hits(dataList, {b}) + 1
                                                                       ELSE Hits(dataList, {b})
          BY <1>1, <2>4, HitsAppend
        <4>3. QED
          BY <2>3, <3>1, <4>1, <4>2
      <3>5. /\ Cardinality(CalledFor(b)) \in Nat /\ good[b] \in Nat
            /\ \A p \in Queues : Hits(cq[p], SuccessOf(b)) \in Nat
            /\ Hits(dataList, {b}) \in Nat
        BY SumTyped DEF RdmaInv
      <3>6. Hits(cq'[q], SuccessOf(b)) \in Nat
        <4>1. cq'[q] \in Seq(Completion)
          BY <2>5
        <4>2. QED
          BY <4>1, HitsNat
      <3>7. Cardinality(CalledFor(b)) + Hits(cq["send"], SuccessOf(b)) + Hits(cq["recv"], SuccessOf(b))
               + Hits(dataList, {b}) <= good[b]
        BY DEF RdmaInv, Covered
      <3>8. Cardinality(CalledFor(b)) + Hits(cq'["send"], SuccessOf(b)) + Hits(cq'["recv"], SuccessOf(b))
               + Hits(dataList', {b}) <= good[b]
        BY <3>2, <3>3, <3>4, <3>5, <3>6, <3>7 DEF Queues
      <3>9. CalledFor(b)' = CalledFor(b)
        BY <1>2 DEF CalledFor
      <3>10. QED
        BY <1>2, <3>8, <3>9 DEF Covered, SuccessOf
    <2>9. QED
      BY <2>7, <2>8 DEF RdmaInv
  <1>5. QED
    BY <1>3, <1>4

(* A callback is called, or a completion without one is dropped. *)
LEMMA CallbackKeeps ==
  ASSUME RdmaInv, NEW q \in Queues, callback(q)
  PROVE  RdmaInv'
  <1>1. /\ posts \in Nat /\ posted \in [Queues -> Seq(Wr)] /\ cq \in [Queues -> Seq(Completion)]
        /\ dataList \in Seq(Buffers) /\ good \in [Buffers -> Nat] /\ IsFiniteSet(called)
    BY DEF RdmaInv, RdmaType
  <1>2. UNCHANGED <<posted, cq, posts, good>> /\ dataList # <<>> /\ dataList' = Tail(dataList)
    BY DEF callback, deviceVars
  <1>3. PICK a \in Buffers : a = Head(dataList)
    BY <1>1, <1>2, HeadTailProperties
  <1>4. dataList' \in Seq(Buffers)
    BY <1>1, <1>2, HeadTailProperties
  <1>5. called' = called \/ \E h : h[1] = a /\ called' = called \cup {h}
    <2>1. SUFFICES ASSUME called' # called PROVE \E h : h[1] = a /\ called' = called \cup {h}
      OBVIOUS
    <2>2. For(q, a) # {} /\ called' = called \cup {handlers[q][Min(For(q, a))]}
      BY <1>3, <2>1 DEF callback
    <2>3. For(q, a) \in SUBSET Nat
      BY DEF For
    <2>4. Min(For(q, a)) \in For(q, a)
      BY <2>2, <2>3, MinIn
    <2>5. handlers[q][Min(For(q, a))][1] = a
      BY <2>4 DEF For
    <2>6. QED
      BY <2>2, <2>5
  <1>6. IsFiniteSet(called')
    BY <1>1, <1>5, FS_AddElement, ZenonT(30)
  <1>7. RdmaType'
    BY <1>1, <1>2, <1>4, <1>6 DEF RdmaType
  <1>8. ASSUME NEW b \in Buffers PROVE Covered(b)'
    <2>1. /\ Cardinality(CalledFor(b)) \in Nat /\ good[b] \in Nat
          /\ \A p \in Queues : Hits(cq[p], SuccessOf(b)) \in Nat
          /\ Hits(dataList, {b}) \in Nat
      BY SumTyped DEF RdmaInv
    <2>2. Hits(dataList', {b}) \in Nat
      BY <1>4, HitsNat
    <2>3. IF a = b THEN Hits(dataList', {b}) + 1 <= Hits(dataList, {b})
                   ELSE Hits(dataList', {b}) <= Hits(dataList, {b})
      <3>1. a \in {b} <=> a = b
        OBVIOUS
      <3>2. IF a \in {b} THEN Hits(Tail(dataList), {b}) + 1 <= Hits(dataList, {b})
                         ELSE Hits(Tail(dataList), {b}) <= Hits(dataList, {b})
        BY <1>1, <1>2, <1>3, HitsTail
      <3>3. QED
        BY <1>2, <3>1, <3>2
    <2>4. /\ Cardinality(CalledFor(b))' \in Nat
          /\ IF a = b THEN Cardinality(CalledFor(b))' <= Cardinality(CalledFor(b)) + 1
                      ELSE Cardinality(CalledFor(b))' = Cardinality(CalledFor(b))
      <3>1. CASE called' = called
        BY <2>1, <3>1 DEF CalledFor
      <3>2. ASSUME NEW h, h[1] = a, called' = called \cup {h}
            PROVE  /\ Cardinality(CalledFor(b))' \in Nat
                   /\ IF a = b THEN Cardinality(CalledFor(b))' <= Cardinality(CalledFor(b)) + 1
                               ELSE Cardinality(CalledFor(b))' = Cardinality(CalledFor(b))
        <4>1. /\ Cardinality({g \in called \cup {h} : g[1] = b}) \in Nat
              /\ IF h[1] = b
                 THEN Cardinality({g \in called \cup {h} : g[1] = b}) <= Cardinality({g \in called : g[1] = b}) + 1
                 ELSE Cardinality({g \in called \cup {h} : g[1] = b}) = Cardinality({g \in called : g[1] = b})
          BY <1>1, CalledMore, ZenonT(30)
        <4>2. CalledFor(b)' = {g \in called \cup {h} : g[1] = b} /\ CalledFor(b) = {g \in called : g[1] = b}
          BY <3>2 DEF CalledFor
        <4>3. QED
          BY <3>2, <4>1, <4>2
      <3>3. QED
        BY <1>5, <3>1, <3>2
    <2>5. Cardinality(CalledFor(b)) + Hits(cq["send"], SuccessOf(b)) + Hits(cq["recv"], SuccessOf(b))
             + Hits(dataList, {b}) <= good[b]
      BY DEF RdmaInv, Covered
    <2>6. Cardinality(CalledFor(b))' + Hits(cq["send"], SuccessOf(b)) + Hits(cq["recv"], SuccessOf(b))
             + Hits(dataList', {b}) <= good[b]
      BY <2>1, <2>2, <2>3, <2>4, <2>5 DEF Queues
    <2>7. QED
      BY <1>2, <2>6 DEF Covered, SuccessOf
  <1>9. QED
    BY <1>7, <1>8 DEF RdmaInv

(* The other steps move nothing that is counted up. *)
LEMMA OtherKeeps ==
  ASSUME RdmaInv, posts' \in Nat, posted' \in [Queues -> Seq(Wr)], UNCHANGED <<cq, good, called>>,
         dataList' = dataList \/ dataList' = <<>>
  PROVE  RdmaInv'
  <1>1. RdmaType'
    BY EmptySeq DEF RdmaInv, RdmaType
  <1>2. ASSUME NEW b \in Buffers PROVE Covered(b)'
    <2>1. Hits(dataList, {b}) \in Nat
      BY SumTyped DEF RdmaInv
    <2>2. Hits(dataList', {b}) <= Hits(dataList, {b})
      BY <2>1, HitsEmpty
    <2>3. CalledFor(b)' = CalledFor(b)
      BY DEF CalledFor
    <2>4. QED
      BY <1>1, <2>2, <2>3, SumKept
  <1>3. QED
    BY <1>1, <1>2 DEF RdmaInv

(* A work request is posted. *)
LEMMA PostKeeps ==
  ASSUME RdmaInv, NEW q \in Queues, NEW b \in Buffers, Post(q, b)
  PROVE  RdmaInv'
  <1>1. posts \in Nat /\ posted \in [Queues -> Seq(Wr)] /\ posted[q] \in Seq(Wr)
    BY DEF RdmaInv, RdmaType
  <1>2. /\ posts' = posts + 1 /\ posted' = [posted EXCEPT ![q] = Append(@, <<b, posts>>)]
        /\ UNCHANGED <<cq, dataList, good, called>>
    BY DEF Post
  <1>3. <<b, posts>> \in Wr
    BY <1>1 DEF Wr
  <1>4. Append(posted[q], <<b, posts>>) \in Seq(Wr)
    BY <1>1, <1>3, AppendProperties
  <1>5. posted' \in [Queues -> Seq(Wr)] /\ posts' \in Nat
    BY <1>1, <1>2, <1>4
  <1>6. QED
    BY <1>2, <1>5, OtherKeeps

(* The sum of callbacks run, polled and to be polled never passes the number of
   successful completions (pollIncomingData and the loops of handleSend and
   handleRecv). *)
THEOREM SuccessesCounted == RdmaSpec => []RdmaInv
  <1>1. RdmaInit => RdmaInv
    <2>1. SUFFICES ASSUME RdmaInit PROVE RdmaInv
      OBVIOUS
    <2>2. RdmaType
      BY <2>1, EmptySeq, FS_EmptySet DEF RdmaInit, RdmaType
    <2>3. ASSUME NEW b \in Buffers PROVE Covered(b)
      <3>1. /\ cq["send"] = <<>> /\ cq["recv"] = <<>> /\ dataList = <<>> /\ good[b] = 0
            /\ CalledFor(b) = {}
        BY <2>1 DEF RdmaInit, Queues, CalledFor
      <3>2. /\ Hits(cq["send"], SuccessOf(b)) = 0 /\ Hits(cq["recv"], SuccessOf(b)) = 0
            /\ Hits(dataList, {b}) = 0 /\ Cardinality(CalledFor(b)) = 0
        BY <3>1, HitsEmpty, FS_EmptySet
      <3>3. QED
        BY <3>1, <3>2 DEF Covered
    <2>4. QED
      BY <2>2, <2>3 DEF RdmaInv
  <1>2. RdmaInv /\ [RdmaNext]_rdmaVars => RdmaInv'
    <2>1. SUFFICES ASSUME RdmaInv, [RdmaNext]_rdmaVars PROVE RdmaInv'
      OBVIOUS
    <2>2. posts \in Nat /\ posted \in [Queues -> Seq(Wr)]
      BY <2>1 DEF RdmaInv, RdmaType
    <2>3. ASSUME NEW b \in Buffers, registerMemory(b) \/ deregisterMemory(b) PROVE RdmaInv'
      BY <2>1, <2>2, <2>3, OtherKeeps DEF registerMemory, deregisterMemory, deviceVars
    <2>4. ASSUME NEW b \in Buffers, onSend(b) \/ onRecv(b) \/ FetchAndAdd(b) \/ CmpAndSwp(b)
          PROVE  RdmaInv'
      <3>1. PICK q \in Queues : Post(q, b)
        BY <2>4 DEF onSend, onRecv, FetchAndAdd, CmpAndSwp, Queues
      <3>2. QED
        BY <2>1, <3>1, PostKeeps
    <2>5. CASE shutdown
      BY <2>1, <2>2, <2>5, OtherKeeps DEF shutdown, deviceVars
    <2>6. CASE destroyConnection
      <3>1. /\ posted' = [q \in Queues |-> <<>>] /\ cq' = [q \in Queues |-> <<>>] /\ dataList' = <<>>
            /\ UNCHANGED <<posts, good, called>>
        BY <2>6 DEF destroyConnection
      <3>2. RdmaType'
        BY <2>1, <3>1, EmptySeq DEF RdmaInv, RdmaType
      <3>3. ASSUME NEW b \in Buffers PROVE Covered(b)'
        <4>1. /\ Hits(cq["send"], SuccessOf(b))' = 0 /\ Hits(cq["recv"], SuccessOf(b))' = 0
              /\ Hits(dataList, {b})' = 0
          BY <3>1, HitsEmpty DEF Queues
        <4>2. /\ Cardinality(CalledFor(b)) \in Nat /\ good[b] \in Nat
              /\ \A p \in Queues : Hits(cq[p], SuccessOf(b)) \in Nat
              /\ Hits(dataList, {b}) \in Nat
          BY <2>1, SumTyped DEF RdmaInv
        <4>3. Cardinality(CalledFor(b)) <= good[b]
          BY <2>1, <4>2 DEF RdmaInv, Covered, Queues
        <4>4. QED
          BY <3>1, <4>1, <4>2, <4>3 DEF Covered, CalledFor
      <3>4. QED
        BY <3>2, <3>3 DEF RdmaInv
    <2>7. ASSUME NEW q \in Queues, arm(q) \/ armFails(q) \/ pollFails(q) \/ handleReturn(q) \/ handle(q)
          PROVE  RdmaInv'
      BY <2>1, <2>2, <2>7, OtherKeeps DEF arm, armFails, pollFails, handleReturn, handle, deviceVars
    <2>8. handleSend \/ handleRecv => \E q \in Queues : handle(q)
      BY DEF handleSend, handleRecv, Queues
    <2>9. CASE UNCHANGED rdmaVars
      BY <2>1, <2>2, <2>9, OtherKeeps DEF rdmaVars
    <2>10. QED
      BY <2>1, <2>3, <2>4, <2>5, <2>6, <2>7, <2>8, <2>9, CompleteKeeps, PollKeeps, CallbackKeeps
         DEF RdmaNext, HandlerStep
  <1>3. QED
    BY <1>1, <1>2, PTL DEF RdmaSpec

(* CallbacksCovered, for every number of buffers, depth of the queues and number
   of requests: a callback runs for a completion of its own buffer. *)
THEOREM CallbacksCoveredHolds == RdmaSpec => []CallbacksCovered
  <1>1. RdmaInv => CallbacksCovered
    <2>1. SUFFICES ASSUME RdmaInv, NEW b \in Buffers
                   PROVE  Cardinality({h \in called : h[1] = b}) <= good[b]
      BY DEF CallbacksCovered
    <2>2. RdmaType /\ Covered(b) /\ "send" \in Queues /\ "recv" \in Queues
      BY <2>1 DEF RdmaInv, Queues
    <2>3. /\ Cardinality(CalledFor(b)) \in Nat /\ good[b] \in Nat
          /\ Hits(cq["send"], SuccessOf(b)) \in Nat /\ Hits(cq["recv"], SuccessOf(b)) \in Nat
          /\ Hits(dataList, {b}) \in Nat
      BY <2>2, SumTyped
    <2>4. Cardinality(CalledFor(b)) <= good[b]
      BY <2>2, <2>3 DEF Covered
    <2>5. QED
      BY <2>4 DEF CalledFor
  <1>2. QED
    BY <1>1, SuccessesCounted, PTL
=============================================================================
