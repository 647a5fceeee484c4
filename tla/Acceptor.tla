------------------------------ MODULE Acceptor ------------------------------
(***************************************************************************)
(* TcpAcceptor and UnixAcceptor: a listening socket, level triggered, and    *)
(* the one request of onAccept that the next client is given to.  The        *)
(* request's callback may register the next one.                             *)
(***************************************************************************)
EXTENDS Naturals, Sequences

CONSTANTS Clients,   \* each connects once
          Requests   \* connections given to onAccept, each once

None == "none"

ASSUME NoneAssumption == None \notin Clients \cup Requests

VARIABLES
  family,       \* "tcp" or "unix"
  backlog,      \* clients that connected and were not accepted
  inUse_, pCon_, \* info.inUse_ and info.pCon_
  wanted,       \* the request registered last, until a client is given to it
  conn,         \* client of each request: its channel
  lost          \* clients accepted for nobody: their descriptor is never used

acceptorVars == <<family, backlog, inUse_, pCon_, wanted, conn, lost>>

Served == {conn[r] : r \in Requests} \ {None}
Fresh(r) == conn[r] = None /\ r # wanted

AcceptorInit ==
  /\ family \in {"tcp", "unix"}
  /\ backlog = <<>> /\ inUse_ = FALSE /\ pCon_ = None /\ wanted = None
  /\ conn = [r \in Requests |-> None] /\ lost = {}

(* TcpClient::onConnect, with the socket non-blocking or not: the channel is
   created whether the connection is there or in progress; the acceptor sees
   it when it is there.  A refused one only leaves the descriptor open. *)
onConnect(c) ==
  /\ c \notin Served \cup lost /\ \A i \in DOMAIN backlog : backlog[i] # c
  /\ backlog' = Append(backlog, c)
  /\ UNCHANGED <<family, inUse_, pCon_, wanted, conn, lost>>

(* The client gives up before it is accepted. *)
Abort ==
  /\ backlog # <<>> /\ backlog' = Tail(backlog)
  /\ UNCHANGED <<family, inUse_, pCon_, wanted, conn, lost>>

(* TcpAcceptor::onAccept and UnixConnection::onAccept end in setInfo, which
   replaces a request that is still waiting. *)
setInfo(r) == inUse_' = TRUE /\ pCon_' = r /\ wanted' = r

onAccept(r) ==
  /\ Fresh(r) /\ setInfo(r)
  /\ UNCHANGED <<family, backlog, conn, lost>>

(* A bug: the request is marked as used after its callback, not before. *)
tcpHandleReadLate ==
  /\ family = "tcp" /\ backlog # <<>> /\ inUse_
  /\ conn' = [conn EXCEPT ![pCon_] = Head(backlog)] /\ backlog' = Tail(backlog)
  /\ inUse_' = FALSE
  /\ \/ pCon_' = pCon_ /\ wanted' = None
     \/ \E r \in Requests : Fresh(r) /\ pCon_' = r /\ wanted' = r
  /\ UNCHANGED <<family, lost>>

(* TcpAcceptor::handleRead: nothing is accepted without a request; the request
   is free before its callback. *)
tcpHandleRead ==
  /\ family = "tcp" /\ backlog # <<>> /\ inUse_
  /\ conn' = [conn EXCEPT ![pCon_] = Head(backlog)] /\ backlog' = Tail(backlog)
  /\ \/ inUse_' = FALSE /\ pCon_' = pCon_ /\ wanted' = None
     \/ \E r \in Requests : Fresh(r) /\ setInfo(r)
  /\ UNCHANGED <<family, lost>>

(* UnixAcceptor::handleRead accepts in any case; it marks the request as used
   after the callback, and with it the one the callback has registered. *)
unixHandleRead ==
  /\ family = "unix" /\ backlog # <<>> /\ backlog' = Tail(backlog)
  /\ IF inUse_
     THEN /\ conn' = [conn EXCEPT ![pCon_] = Head(backlog)] /\ inUse_' = FALSE /\ lost' = lost
          /\ \/ pCon_' = pCon_ /\ wanted' = None
             \/ \E r \in Requests : Fresh(r) /\ pCon_' = r /\ wanted' = r
     ELSE /\ lost' = lost \cup {Head(backlog)}
          /\ UNCHANGED <<inUse_, pCon_, wanted, conn>>
  /\ UNCHANGED family

AcceptorNext ==
  \/ \E c \in Clients : onConnect(c)
  \/ \E r \in Requests : onAccept(r)
  \/ Abort \/ tcpHandleRead \/ unixHandleRead

AcceptorSpec == AcceptorInit /\ [][AcceptorNext]_acceptorVars

-----------------------------------------------------------------------------
(* A TCP client that connects meets the request that waits for it: whether the
   request was made before, or by the callback of the previous client, it is
   in use until a client is given to it, and no client is accepted for nobody.
   (TcpAcceptor::handleRead, onAccept.) *)
RequestMeetsClient ==
  family = "tcp" => lost = {} /\ (wanted # None => inUse_ /\ pCon_ = wanted)

=============================================================================
