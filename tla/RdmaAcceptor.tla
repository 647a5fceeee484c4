---------------------------- MODULE RdmaAcceptor ----------------------------
(***************************************************************************)
(* RdmaAcceptor and RdmaClient: connections are set up by events of the       *)
(* connection manager, which is external.  Every event that was fetched must  *)
(* be acknowledged: rdma_destroy_id waits for it.                            *)
(***************************************************************************)
EXTENDS Naturals, Sequences, FiniteSets

CONSTANTS Peers,   \* clients
          Conns    \* RdmaConnections given to onAccept, each once

VARIABLES
  client,     \* step of each RdmaClient
  isConnected, \* RdmaClient::isConnected
  clientEvents, \* events each client has to fetch
  cmEvents,   \* events the acceptor has to fetch, <<event, client>>
  unacked,    \* events fetched and not acknowledged
  hangups,    \* DISCONNECTED events that have not reached an end, <<end, client>>
  valid, rc,  \* info_.valid and info_.rc
  isAccepted, \* info_.isAccepted
  peer,       \* the client id_ of each RdmaConnection belongs to
  deleted,    \* RdmaConnections deleted, by their work item
  doomed,     \* shutdown was called, the work item is queued
  serverUp    \* FALSE after a call on an id that was destroyed

cmVars == <<client, isConnected, clientEvents, cmEvents, unacked, valid, rc, isAccepted,
            peer, deleted, doomed, hangups, serverUp>>
clientVars == <<client, isConnected, clientEvents>>
infoVars == <<valid, rc, isAccepted>>
connVars == <<peer, deleted, doomed, hangups>>

NoPeer == "none"

ASSUME PeersAssumption == NoPeer \notin Peers \cup Conns

CmInit ==
  /\ client = [c \in Peers |-> "new"] /\ isConnected = [c \in Peers |-> FALSE]
  /\ clientEvents = [c \in Peers |-> <<>>]
  /\ cmEvents = <<>> /\ unacked = {}
  /\ valid = FALSE /\ rc = NoPeer /\ isAccepted = FALSE
  /\ peer = [r \in Conns |-> NoPeer] /\ deleted = {} /\ doomed = {}
  /\ hangups = {} /\ serverUp = TRUE

Tell(c, e) == clientEvents' = [clientEvents EXCEPT ![c] = Append(@, e)]

-----------------------------------------------------------------------------
(* RdmaClient *)

(* initCmChannel resolves address and route, each with a blocking wait for one
   event, and creates the queue pair.  On another event than the expected one
   it destroys the id without having acknowledged the event, and waits for
   ever; on other failures it returns. *)
initCmChannel(c) ==
  /\ client[c] \in {"new", "addr"}
  /\ client' = [client EXCEPT ![c] = IF @ = "new" THEN "addr" ELSE "ready"]
  /\ UNCHANGED <<isConnected, clientEvents, cmEvents, unacked, infoVars, connVars, serverUp>>

initCmChannelFails(c) ==
  /\ client[c] \in {"new", "addr"}
  /\ \/ client' = [client EXCEPT ![c] = "failed"] /\ unacked' = unacked
     \/ client' = [client EXCEPT ![c] = "stuck"] /\ unacked' = unacked \cup {<<"RESOLVE", c>>}
  /\ UNCHANGED <<isConnected, clientEvents, cmEvents, infoVars, connVars, serverUp>>

onConnect(c) ==
  /\ client[c] = "ready" /\ client' = [client EXCEPT ![c] = "connecting"]
  /\ cmEvents' = Append(cmEvents, <<"CONNECT_REQUEST", c>>)
  /\ UNCHANGED <<isConnected, clientEvents, unacked, infoVars, connVars, serverUp>>

(* handleCmEvent: ESTABLISHED creates the channels and calls back, DISCONNECTED
   shuts down once; other events are only acknowledged. *)
handleCmEvent(c) ==
  /\ clientEvents[c] # <<>> /\ client[c] # "deleted"
  /\ LET e == Head(clientEvents[c])
     IN CASE e = "ESTABLISHED" ->
               /\ client' = [client EXCEPT ![c] = "established"]
               /\ isConnected' = [isConnected EXCEPT ![c] = TRUE] /\ unacked' = unacked
          [] e = "DISCONNECTED" /\ isConnected[c] ->
               /\ client' = [client EXCEPT ![c] = "closing"]
               /\ isConnected' = [isConnected EXCEPT ![c] = FALSE] /\ unacked' = unacked
          [] e = "DISCONNECTED" /\ ~isConnected[c] ->
               /\ unacked' = unacked \cup {<<e, c>>} /\ UNCHANGED <<client, isConnected>>
          [] e = "REJECTED" ->
               UNCHANGED <<client, isConnected, unacked>>
  /\ clientEvents' = [clientEvents EXCEPT ![c] = Tail(@)]
  /\ UNCHANGED <<cmEvents, infoVars, connVars, serverUp>>

(* Either end disconnects, and each will get the event in its own time; a
   second call does nothing. *)
Ends == {"client", "server"}
disconnect(r) ==
  /\ peer[r] # NoPeer /\ r \notin deleted \cup doomed /\ client[peer[r]] = "established"
  /\ <<"DISCONNECTED", peer[r]>> \notin {cmEvents[i] : i \in DOMAIN cmEvents}
  /\ \A end \in Ends : <<end, peer[r]>> \notin hangups
  /\ hangups' = hangups \cup {<<end, peer[r]>> : end \in Ends}
  /\ UNCHANGED <<clientVars, cmEvents, unacked, infoVars, peer, deleted, doomed, serverUp>>

hangUp(end, c) ==
  /\ <<end, c>> \in hangups /\ hangups' = hangups \ {<<end, c>>}
  /\ IF end = "client" THEN Tell(c, "DISCONNECTED") /\ cmEvents' = cmEvents
     ELSE cmEvents' = Append(cmEvents, <<"DISCONNECTED", c>>) /\ UNCHANGED clientEvents
  /\ UNCHANGED <<client, isConnected, unacked, infoVars, peer, deleted, doomed, serverUp>>

clientDestroyed(c) ==
  /\ client[c] = "closing" /\ client' = [client EXCEPT ![c] = "deleted"]
  /\ UNCHANGED <<isConnected, clientEvents, cmEvents, unacked, infoVars, connVars, serverUp>>

-----------------------------------------------------------------------------
(* RdmaAcceptor *)

(* info_ is overwritten, whatever it held. *)
Request(r) == valid' = TRUE /\ rc' = r /\ isAccepted' = FALSE
Unused(r) == peer[r] = NoPeer /\ r # rc

onAccept(r) ==
  /\ serverUp /\ Unused(r) /\ Request(r)
  /\ UNCHANGED <<clientVars, cmEvents, unacked, connVars, serverUp>>

Fetch(e, c) == serverUp /\ cmEvents # <<>> /\ Head(cmEvents) = <<e, c>> /\ cmEvents' = Tail(cmEvents)

(* A bug: the connection is set up anew although it has its channels. *)
createPassiveConnectionAgain(r, c) == [peer EXCEPT ![r] = c]

(* createPassiveConnection refuses a connection that has its channels. *)
createPassiveConnection(r, c) == IF peer[r] = NoPeer THEN [peer EXCEPT ![r] = c] ELSE peer

(* rdma_accept of the connection's id: it fails unless the id is new. *)
Accepts(r, c) == createPassiveConnection(r, c)[r] = c /\ r \notin deleted

(* A connection request with nobody to take it, or for a connection that is in
   use (valid is not reset: the statement comes after the break), is fetched
   and neither answered nor acknowledged. *)
establishConectionFails(c) ==
  /\ Fetch("CONNECT_REQUEST", c) /\ (valid => ~Accepts(rc, c))
  /\ unacked' = unacked \cup {<<"CONNECT_REQUEST", c>>}
  /\ serverUp' \in (IF valid /\ rc \in deleted THEN BOOLEAN ELSE {TRUE})
  /\ UNCHANGED <<clientVars, infoVars, connVars>>

(* The setup of the queue pair fails: the client is rejected and the id
   destroyed, and establishConection goes on to rdma_accept with it. *)
createPassiveConnectionFails(c) ==
  /\ Fetch("CONNECT_REQUEST", c) /\ valid /\ peer[rc] = NoPeer
  /\ Tell(c, "REJECTED") /\ serverUp' \in BOOLEAN
  /\ unacked' = unacked \cup {<<"CONNECT_REQUEST", c>>}
  /\ UNCHANGED <<client, isConnected, infoVars, connVars>>

(* The connection is accepted and the callback called, which may register the
   next connection. *)
establishConection(c) ==
  /\ Fetch("CONNECT_REQUEST", c) /\ valid /\ Accepts(rc, c)
  /\ peer' = createPassiveConnection(rc, c) /\ Tell(c, "ESTABLISHED")
  /\ \/ isAccepted' = TRUE /\ UNCHANGED <<valid, rc>>
     \/ \E r \in Conns : Unused(r) /\ Request(r)
  /\ UNCHANGED <<client, isConnected, unacked, deleted, doomed, hangups, serverUp>>

handleDisconnected(c) ==
  /\ Fetch("DISCONNECTED", c)
  /\ doomed' = doomed \cup {r \in Conns : peer[r] = c}
  /\ UNCHANGED <<clientVars, unacked, infoVars, peer, deleted, hangups, serverUp>>

destroyed(r) ==
  /\ r \in doomed /\ doomed' = doomed \ {r} /\ deleted' = deleted \cup {r}
  /\ UNCHANGED <<clientVars, cmEvents, unacked, infoVars, peer, hangups, serverUp>>

CmNext ==
  \/ \E c \in Peers : \/ initCmChannel(c) \/ initCmChannelFails(c) \/ onConnect(c)
                      \/ handleCmEvent(c) \/ clientDestroyed(c)
                      \/ establishConection(c) \/ establishConectionFails(c)
                      \/ createPassiveConnectionFails(c) \/ handleDisconnected(c)
                      \/ \E end \in Ends : hangUp(end, c)
  \/ \E r \in Conns : onAccept(r) \/ disconnect(r) \/ destroyed(r)

(* The set-up alone. *)
CmSpec == CmInit /\ [][CmNext]_cmVars

-----------------------------------------------------------------------------
(* A client that is connected has a connection of its own at the server, that
   is not deleted unless the client has been told to disconnect or is about to
   be: two requests that come one after the other never end on the same
   RdmaConnection, whichever end of another connection hears first of its end. *)
EachItsConnection ==
  \A c \in Peers : isConnected[c] =>
    \E r \in Conns : /\ peer[r] = c
                     /\ r \in deleted \cup doomed =>
                          \/ \E i \in DOMAIN clientEvents[c] : clientEvents[c][i] = "DISCONNECTED"
                          \/ <<"client", c>> \in hangups

=============================================================================
