------------------------------ MODULE Endpoint ------------------------------
(***************************************************************************)
(* What UnixConnection, PipeAndFifo and UdpEndpoint have in common: a        *)
(* socket enrolled in a loop, a queue of sends that were cut short, and one  *)
(* registered receive.  kind says which of them the socket belongs to; the   *)
(* modules of that name have their operations.                               *)
(*                                                                          *)
(* A byte of message m is <<m, k>>; k = 0 is the byte in front of the buffer. *)
(* Input is counted: bytes, or datagrams.                                    *)
(***************************************************************************)
EXTENDS Integers, Sequences

CONSTANTS Msgs,     \* buffers given to onSend, each once
          Size,     \* their length
          Room,     \* capacity of the socket's send buffer
          MaxLine,  \* bytes one receive may take
          MaxIn     \* bound: input that arrives

ASSUME SizeAssumption == Size \in [Msgs -> Nat] /\ Room \in Nat

VARIABLES
  kind,        \* the class, and for UDP the way it was opened
  queue,       \* sends that were cut short: [m, offset], offset -1 for (size_t)-1
  registered,  \* a receive was registered
  handler,     \* onError was called
  alive,       \* the process runs
  free,        \* kernel: room in the send buffer
  in, arrived, \* kernel: unread input, and all input so far
  edge,        \* epoll: the socket is on the ready list
  revents,     \* the event epoll_wait returned for the socket: "none", "in", "out"
  out,         \* history: bytes the kernel accepted, in order
  called,      \* history: sends whose callback was called
  failed       \* history: sends given up with an error

upVars == <<kind, queue, registered, handler, alive>>
kernelVars == <<free, in, arrived, edge, revents>>
histVars == <<out, called, failed>>
endpointVars == <<upVars, kernelVars, histVars>>

Kinds == {"unix", "pipe", "fifo", "udp", "udpserver"}
Datagram == kind \in {"udp", "udpserver"}
Offered == called \cup failed \cup {queue[i].m : i \in DOMAIN queue}

(* An enrolled socket is writable, which is the first event. *)
EndpointInit ==
  /\ kind \in Kinds
  /\ queue = <<>> /\ registered = FALSE /\ handler = FALSE /\ alive = TRUE
  /\ free = Room /\ in = 0 /\ arrived = 0 /\ edge = TRUE /\ revents = "none"
  /\ out = <<>> /\ called = {} /\ failed = {}

-----------------------------------------------------------------------------
(* The kernel and the peer *)

InputArrives ==
  /\ arrived < MaxIn
  /\ in' = in + 1 /\ arrived' = arrived + 1 /\ edge' = TRUE
  /\ UNCHANGED <<upVars, free, revents, histVars>>

PeerReads ==
  /\ free < Room
  /\ free' \in free + 1 .. Room /\ edge' = TRUE
  /\ UNCHANGED <<upVars, in, arrived, revents, histVars>>

(* What a send of n bytes passes to the kernel; -1 is EAGAIN, or ENOTSOCK for
   the descriptor of a FIFO. *)
Accepted(n) ==
  IF kind = "fifo" \/ free = 0 \/ (Datagram /\ free < n) THEN -1
  ELSE IF free < n THEN free ELSE n

Bytes(m, offset, n) == [i \in 1..n |-> <<m, offset + i>>]

(* n bytes of m from offset leave, if n is positive. *)
Passes(m, offset, n) ==
  /\ out' = IF n > 0 THEN out \o Bytes(m, offset, n) ELSE out
  /\ free' = IF n > 0 THEN free - n ELSE free

(* What one receive takes. *)
Taken == IF Datagram THEN 1 ELSE IF in < MaxLine THEN in ELSE MaxLine

-----------------------------------------------------------------------------
(* BaseChannel::handleEvent calls one handler: the read one if there is
   input.  The server of UDP is enrolled level triggered. *)

(* A bug: start() enrolls the socket edge triggered, as createChannel does. *)
LevelTriggeredNever == FALSE

LevelTriggered == kind = "udpserver"

EpollWait ==
  /\ alive /\ revents = "none" /\ (edge \/ (LevelTriggered /\ (in > 0 \/ free > 0)))
  /\ edge' = FALSE
  /\ revents' = IF in > 0 THEN "in" ELSE IF free > 0 THEN "out" ELSE "none"
  /\ UNCHANGED <<upVars, free, in, arrived, histVars>>

Handle(event) == alive /\ revents = event /\ revents' = "none"

(* errorHandle_ is not initialised: a call before onError goes anywhere. *)
CallErrorHandle == alive' \in (IF handler THEN {TRUE} ELSE BOOLEAN)

(* The same after a receive nobody registered, whose RecvInfo_ holds what the
   memory held: the address is bad, or, if not, anything. *)
BadReceive == alive' \in BOOLEAN /\ in' \in {in, in - Taken}

onError ==
  /\ ~handler /\ handler' = TRUE
  /\ UNCHANGED <<kind, queue, registered, alive, kernelVars, histVars>>

(* handleEvent finds no write handler. *)
NoWriteHandler ==
  /\ Handle("out")
  /\ UNCHANGED <<upVars, free, in, arrived, edge, histVars>>

-----------------------------------------------------------------------------
(* Of m only bytes 1..n have left, none of them twice and in order. *)
InOrder(m, n) ==
  /\ \A i \in DOMAIN out : out[i][1] = m => out[i][2] \in 1..n
  /\ \A i, j \in DOMAIN out : out[i][1] = m /\ out[j][1] = m /\ i < j => out[i][2] < out[j][2]

(* When the callback of a send runs, every byte of its buffer was accepted by
   the kernel, also when the send was cut short, refused, or overtaken by
   others in between; a UnixConnection has sent each of them once and in
   order (onSend, handleWrite of the three classes). *)
CallbackAfterBytes ==
  \A m \in called :
    /\ \A i \in 1..Size[m] : \E j \in DOMAIN out : out[j] = <<m, i>>
    /\ kind = "unix" => InOrder(m, Size[m])

(* The server of UDP, once it has a receive registered, takes every datagram:
   each read takes one, and the level triggered event comes again for the
   others (start, handleRead). *)
DatagramsServed == (kind = "udpserver" /\ registered /\ in > 0) ~> in = 0

=============================================================================
