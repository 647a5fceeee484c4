------------------------------- MODULE MCIpc -------------------------------
(***************************************************************************)
(* The endpoints and descriptors of libndsl other than TCP connections, one   *)
(* at a time: part says which of them the process uses.                      *)
(***************************************************************************)
EXTENDS Endpoints, Acceptor, FifoOpen, SignalHandler, EventfdConnection, Multiplexer

VARIABLE part

allVars == <<part, endpointVars, acceptorVars, fifoVars, sigVars, efdVars, muxVars>>

Init ==
  /\ part \in {"endpoint", "acceptor", "fifo", "signal", "eventfd", "mux"}
  /\ EndpointInit /\ AcceptorInit /\ FifoInit /\ SignalInit /\ EventfdInit /\ MuxInit
  /\ part # "endpoint" => kind = "unix"
  /\ part # "acceptor" => family = "tcp"
  /\ part # "fifo" => scheme = "createFifo"

EndpointOnly(A) == part = "endpoint" /\ A /\ UNCHANGED <<part, acceptorVars, fifoVars, sigVars, efdVars, muxVars>>
AcceptorOnly(A) == part = "acceptor" /\ A /\ UNCHANGED <<part, endpointVars, fifoVars, sigVars, efdVars, muxVars>>
FifoOnly(A) == part = "fifo" /\ A /\ UNCHANGED <<part, endpointVars, acceptorVars, sigVars, efdVars, muxVars>>
SignalOnly(A) == part = "signal" /\ A /\ UNCHANGED <<part, endpointVars, acceptorVars, fifoVars, efdVars, muxVars>>
EventfdOnly(A) == part = "eventfd" /\ A /\ UNCHANGED <<part, endpointVars, acceptorVars, fifoVars, sigVars, muxVars>>
MuxOnly(A) == part = "mux" /\ A /\ UNCHANGED <<part, endpointVars, acceptorVars, fifoVars, sigVars, efdVars>>

Next ==
  \/ EndpointOnly(EndpointNext)
  \/ AcceptorOnly(AcceptorNext) \/ FifoOnly(FifoNext)
  \/ SignalOnly(SignalNext) \/ EventfdOnly(EventfdNext) \/ MuxOnly(MuxNext)

(* The loop's thread goes on with what it began and serves the ready list;
   the two processes that open FIFOs run. *)
Spec ==
  /\ Init /\ [][Next]_allVars
  /\ WF_allVars(EndpointOnly(EpollWait))
  /\ WF_allVars(EndpointOnly(Datagram /\ (Udp!handleRead \/ Udp!handleWriteIdle)))
  /\ WF_allVars(MuxOnly(DispatchStep))
  /\ \A p \in Procs : WF_allVars(FifoOnly(open(p) \/ opened(p)))

MCMsgs == {1, 2}
MCSize == [m \in MCMsgs |-> 2 * m]

(* Two control messages of different lengths for two entities, and one
   message of a user, 12. *)
MCMessages == {10, 11, 12}
MCHeadId == [m \in MCMessages |-> IF m = 12 THEN 2 ELSE 0]
MCDest == [m \in MCMessages |-> IF m = 10 THEN 1 ELSE 2]
MCLength == [m \in MCMessages |-> IF m = 11 THEN 3 ELSE 2]
=============================================================================
