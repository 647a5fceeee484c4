------------------------------ MODULE IpcProofs ------------------------------
(* Proofs about the endpoints and descriptors other than TCP connections: the
   acceptors, the signal handler, the multiplexer and the endpoints, each for
   every number of clients, signals, entities, messages and sizes. *)
EXTENDS Endpoints, Acceptor, SignalHandler, Multiplexer, SequenceTheorems, TLAPS

-----------------------------------------------------------------------------
(* Acceptors *)

(* A request in use is the one registered last, and has no client. *)
Waiting ==
  /\ wanted \in Requests \cup {None}
  /\ inUse_ => wanted # None /\ pCon_ = wanted
  /\ wanted # None => conn[wanted] = None

(* Nobody is twice in the backlog, or there after being served. *)
BacklogFresh ==
  /\ backlog \in Seq(Clients)
  /\ \A i, j \in 1..Len(backlog) : backlog[i] = backlog[j] => i = j
  /\ \A r \in Requests, i \in 1..Len(backlog) : conn[r] # backlog[i]

(* No client is given to two requests. *)
ServedOnce ==
  \A r, s \in Requests : conn[r] # None /\ conn[r] = conn[s] => r = s

AcceptorInv ==
  /\ conn \in [Requests -> Clients \cup {None}]
  /\ Waiting /\ BacklogFresh /\ ServedOnce

(* Taking the head of the backlog. *)
LEMMA BacklogHead ==
  ASSUME AcceptorInv, backlog # <<>>
  PROVE  /\ Head(backlog) \in Clients
         /\ \A r \in Requests : conn[r] # Head(backlog)
         /\ Tail(backlog) \in Seq(Clients)
         /\ \A i, j \in 1..Len(Tail(backlog)) : Tail(backlog)[i] = Tail(backlog)[j] => i = j
         /\ \A i \in 1..Len(Tail(backlog)) : Tail(backlog)[i] # Head(backlog)
         /\ \A r \in Requests, i \in 1..Len(Tail(backlog)) : conn[r] # Tail(backlog)[i]
  <1> DEFINE t == Tail(backlog)
  <1>1. /\ backlog \in Seq(Clients)
        /\ \A i, j \in 1..Len(backlog) : backlog[i] = backlog[j] => i = j
        /\ \A r \in Requests, i \in 1..Len(backlog) : conn[r] # backlog[i]
    BY DEF AcceptorInv, BacklogFresh
  <1>2. /\ Head(backlog) \in Clients /\ t \in Seq(Clients) /\ Head(backlog) = backlog[1]
        /\ Len(t) = Len(backlog) - 1 /\ \A i \in 1..Len(t) : t[i] = backlog[i + 1]
        /\ Len(backlog) \in Nat /\ 1 \in 1..Len(backlog)
    BY <1>1, HeadTailProperties, EmptySeq, LenProperties
  <1> HIDE DEF t
  <1>3. \A i \in 1..Len(t) : i + 1 \in 1..Len(backlog) /\ i + 1 # 1
    BY <1>2
  <1>4. QED
    BY <1>1, <1>2, <1>3 DEF t

(* Every step of acceptor and clients keeps it. *)
LEMMA AcceptorStep == AcceptorInv /\ [AcceptorNext]_acceptorVars => AcceptorInv'
  <1> SUFFICES ASSUME AcceptorInv, [AcceptorNext]_acceptorVars PROVE AcceptorInv'
    OBVIOUS
  <1> USE NoneAssumption
  <1>1. ASSUME NEW c \in Clients, onConnect(c) PROVE AcceptorInv'
    <2>1. backlog \in Seq(Clients) /\ Len(backlog) \in Nat
      BY LenProperties DEF AcceptorInv, BacklogFresh
    <2>2. /\ backlog' \in Seq(Clients) /\ Len(backlog') = Len(backlog) + 1
          /\ backlog'[Len(backlog) + 1] = c /\ \A i \in 1..Len(backlog) : backlog'[i] = backlog[i]
      BY <1>1, <2>1, AppendProperties DEF onConnect
    <2>3. (\A i \in 1..Len(backlog) : backlog[i] # c) /\ \A r \in Requests : conn[r] # c
      BY <1>1, <2>1 DEF onConnect, Served
    <2>4. conn' = conn
      BY <1>1 DEF onConnect
    <2>5. \A i \in 1..Len(backlog') : i \in 1..Len(backlog) \/ i = Len(backlog) + 1
      BY <2>1, <2>2
    <2>6. BacklogFresh'
      BY <2>2, <2>3, <2>4, <2>5 DEF AcceptorInv, BacklogFresh
    <2>7. QED
      BY <1>1, <2>6 DEF onConnect, AcceptorInv, Waiting, ServedOnce
  <1>2. ASSUME NEW r \in Requests, onAccept(r) PROVE AcceptorInv'
    BY <1>2 DEF onAccept, Fresh, setInfo, AcceptorInv, Waiting, BacklogFresh, ServedOnce
  <1>3. CASE Abort
    <2>1. BacklogFresh'
      BY <1>3, BacklogHead DEF Abort, BacklogFresh
    <2>2. QED
      BY <1>3, <2>1 DEF Abort, AcceptorInv, Waiting, ServedOnce
  <1>4. CASE /\ backlog # <<>> /\ inUse_
             /\ conn' = [conn EXCEPT ![pCon_] = Head(backlog)] /\ backlog' = Tail(backlog)
             /\ \/ inUse_' = FALSE /\ wanted' = None
                \/ \E r \in Requests : Fresh(r) /\ pCon_' = r /\ wanted' = r
    <2>1. pCon_ = wanted /\ wanted \in Requests /\ conn[wanted] = None
      BY <1>4 DEF AcceptorInv, Waiting
    <2>2. /\ conn'[wanted] = Head(backlog) /\ \A r \in Requests \ {wanted} : conn'[r] = conn[r]
          /\ conn' \in [Requests -> Clients \cup {None}]
      BY <1>4, <2>1, BacklogHead DEF AcceptorInv
    <2>3. BacklogFresh'
      BY <1>4, <2>2, BacklogHead DEF BacklogFresh
    <2>4. ServedOnce'
      BY <1>4, <2>1, <2>2, BacklogHead DEF AcceptorInv, ServedOnce
    <2>5. Waiting'
      BY <1>4, <2>2 DEF Waiting, Fresh
    <2>6. QED
      BY <2>2, <2>3, <2>4, <2>5 DEF AcceptorInv
  <1>5. CASE tcpHandleRead
    BY <1>4, <1>5 DEF tcpHandleRead, setInfo
  <1>6. CASE unixHandleRead
    <2>1. CASE inUse_
      BY <1>4, <1>6, <2>1 DEF unixHandleRead
    <2>2. CASE ~inUse_
      <3>1. BacklogFresh'
        BY <1>6, <2>2, BacklogHead DEF unixHandleRead, BacklogFresh
      <3>2. QED
        BY <1>6, <2>2, <3>1 DEF unixHandleRead, AcceptorInv, Waiting, ServedOnce
    <2>3. QED
      BY <2>1, <2>2
  <1>7. CASE UNCHANGED acceptorVars
    BY <1>7 DEF acceptorVars, AcceptorInv, Waiting, BacklogFresh, ServedOnce
  <1>8. QED
    BY <1>1, <1>2, <1>3, <1>5, <1>6, <1>7 DEF AcceptorNext

(* Everything that holds of both acceptors, for any number of clients and
   requests. *)
THEOREM AcceptorInvariance == AcceptorSpec => []AcceptorInv
  <1>1. AcceptorInit => AcceptorInv
    BY NoneAssumption DEF AcceptorInit, AcceptorInv, Waiting, BacklogFresh, ServedOnce
  <1>2. QED
    BY <1>1, AcceptorStep, PTL DEF AcceptorSpec

(* No client's descriptor ends up with two requests, whoever registers requests
   in the callbacks. *)
THEOREM ClientServedOnce == AcceptorSpec => []ServedOnce
  <1>1. AcceptorInv => ServedOnce
    BY DEF AcceptorInv
  <1>2. QED
    BY <1>1, AcceptorInvariance, PTL

(* Requests keep the clients they have. *)
KeepClients == \A r \in Requests : conn[r] # None => conn'[r] = conn[r]

(* The channel of a request is never replaced by that of a later client. *)
THEOREM ClientsKept == AcceptorSpec => [][KeepClients]_acceptorVars
  <1>1. AcceptorInv /\ [AcceptorNext]_acceptorVars => [KeepClients]_acceptorVars
    <2> SUFFICES ASSUME AcceptorInv, [AcceptorNext]_acceptorVars, NEW r \in Requests, conn[r] # None
                 PROVE  conn'[r] = conn[r]
      BY DEF KeepClients
    <2>1. conn \in [Requests -> Clients \cup {None}] /\ (inUse_ => pCon_ \in Requests /\ conn[pCon_] = None)
      BY DEF AcceptorInv, Waiting
    <2>2. QED
      BY <2>1 DEF AcceptorNext, onConnect, onAccept, Abort, tcpHandleRead, unixHandleRead, acceptorVars
  <1>2. QED
    BY <1>1, AcceptorInvariance, PTL DEF AcceptorSpec

(* A TCP client meets the request that waits for it. *)
THEOREM RequestMeetsClientHolds == AcceptorSpec => []RequestMeetsClient
  <1>1. AcceptorInit => RequestMeetsClient
    BY DEF AcceptorInit, RequestMeetsClient
  <1>2. RequestMeetsClient /\ [AcceptorNext]_acceptorVars => RequestMeetsClient'
    BY DEF RequestMeetsClient, AcceptorNext, onConnect, onAccept, Abort, tcpHandleRead, unixHandleRead,
           setInfo, acceptorVars
  <1>3. QED
    BY <1>1, <1>2, PTL DEF AcceptorSpec

-----------------------------------------------------------------------------
(* Signals *)

(* Only blocked signals are pending, a standard one once; what unBlockAllSignals
   found pending has a handler until it empties the mask. *)
SignalInv ==
  /\ pending \in [Signals -> Nat]
  /\ \A s \in Signals : /\ pending[s] > 0 => s \in blocked
                        /\ s \notin RealTime => pending[s] <= 1
  /\ blocked \subseteq Signals
  /\ unblocking => seen \subseteq handlers /\ seen \subseteq blocked

(* What PendingNotFatal says of a step. *)
SeenNotFatal ==
  unblocking /\ ~unblocking' => \A s \in killer' \cap seen : s \in RealTime /\ pending[s] > 1

(* Every step keeps it, and none delivers a seen signal to its default action
   but with a second instance. *)
LEMMA SignalStep == SignalInv /\ [SignalNext]_sigVars => SignalInv' /\ [SeenNotFatal]_sigVars
  <1> SUFFICES ASSUME SignalInv, [SignalNext]_sigVars PROVE SignalInv' /\ SeenNotFatal
    OBVIOUS
  <1> USE DEF SignalInv, SeenNotFatal, loopVars
  <1>1. ASSUME NEW s \in Signals \cup Never, Raise(s) PROVE SignalInv' /\ SeenNotFatal
    <2>1. CASE s \in blocked
      BY <1>1, <2>1 DEF Raise
    <2>2. CASE s \notin blocked
      BY <1>1, <2>2 DEF Raise
    <2>3. QED
      BY <2>1, <2>2
  <1>2. CASE registSignalfd \/ remove \/ blockAllSignals \/ SigEpollWait
    BY <1>2, NeverAssumption DEF registSignalfd, remove, blockAllSignals, SigEpollWait
  <1>3. CASE unBlockAllSignals
    BY <1>3 DEF unBlockAllSignals, Pending
  <1>4. CASE handleSignalEnd
    <2>1. SignalInv'
      BY <1>4 DEF handleSignalEnd
    <2>2. SeenNotFatal
      BY <1>4 DEF handleSignalEnd, Pending
    <2>3. QED
      BY <2>1, <2>2
  <1>5. CASE handleRead
    <2>1. CASE pending' = pending
      BY <1>5, <2>1 DEF handleRead
    <2>2. ASSUME NEW s \in Signals, pending[s] > 0, pending' = [pending EXCEPT ![s] = @ - 1]
          PROVE  SignalInv' /\ SeenNotFatal
      <3>1. UNCHANGED <<blocked, handlers, unblocking, seen>>
        BY <1>5 DEF handleRead
      <3>2. /\ pending' \in [Signals -> Nat] /\ pending'[s] = pending[s] - 1
            /\ \A t \in Signals \ {s} : pending'[t] = pending[t]
        BY <2>2
      <3>3. QED
        BY <2>2, <3>1, <3>2
    <2>3. QED
      BY <1>5, <2>1, <2>2 DEF handleRead, Pending
  <1>6. CASE UNCHANGED sigVars
    BY <1>6 DEF sigVars
  <1>7. QED
    BY <1>1, <1>2, <1>3, <1>4, <1>5, <1>6 DEF SignalNext

(* PendingNotFatal for any signals, real-time signals and bound, and whatever
   comes while unBlockAllSignals runs: of what it found pending only a real-time
   signal with a second instance ends the process. *)
THEOREM PendingNotFatalHolds == SignalSpec => PendingNotFatal
  <1>1. SignalInit => SignalInv
    BY DEF SignalInit, SignalInv
  <1>2. QED
    BY <1>1, SignalStep, PTL DEF SignalSpec, PendingNotFatal, SeenNotFatal

-----------------------------------------------------------------------------
(* Entities of the multiplexer *)

(* A work item with which the map loses e comes after place i. *)
RemovedAfter(e, i) == \E j \in 1..Len(muxWork) : j > i /\ muxWork[j] = <<"remove", e>>

(* Where an entity's client is, at each point of its life.  The removal of one
   that is gone comes after its registration, which keeps their order. *)
LifeInv ==
  /\ muxWork \in Seq({"insert", "remove"} \X Entities)
  /\ entity \in [Entities -> {"new", "started", "gone"}]
  /\ connMp_ \subseteq Entities
  /\ \A e \in Entities : entity[e] = "new" =>
        e \notin connMp_ /\ \A i \in 1..Len(muxWork) : muxWork[i] # <<"insert", e>>
  /\ \A e \in Entities : entity[e] = "gone" =>
        /\ e \in connMp_ => RemovedAfter(e, 0)
        /\ \A i \in 1..Len(muxWork) : muxWork[i] = <<"insert", e>> => RemovedAfter(e, i)

(* A work item w is appended. *)
LEMMA WorkAppended ==
  ASSUME LifeInv, NEW w \in {"insert", "remove"} \X Entities, muxWork' = Append(muxWork, w)
  PROVE  /\ muxWork' \in Seq({"insert", "remove"} \X Entities)
         /\ Len(muxWork) \in Nat /\ Len(muxWork') = Len(muxWork) + 1 /\ muxWork'[Len(muxWork) + 1] = w
         /\ \A i \in 1..Len(muxWork) : i \in 1..Len(muxWork') /\ muxWork'[i] = muxWork[i]
         /\ \A i \in 1..Len(muxWork') : i \in 1..Len(muxWork) \/ i = Len(muxWork) + 1
         /\ \A e \in Entities, i \in Nat : RemovedAfter(e, i) => RemovedAfter(e, i)'
  <1>1. muxWork \in Seq({"insert", "remove"} \X Entities)
    BY DEF LifeInv
  <1>2. /\ muxWork' \in Seq({"insert", "remove"} \X Entities)
        /\ Len(muxWork) \in Nat /\ Len(muxWork') = Len(muxWork) + 1 /\ muxWork'[Len(muxWork) + 1] = w
        /\ \A i \in 1..Len(muxWork) : muxWork'[i] = muxWork[i]
    BY <1>1, AppendProperties, LenProperties
  <1>3. /\ \A i \in 1..Len(muxWork) : i \in 1..Len(muxWork') /\ muxWork'[i] = muxWork[i]
        /\ \A i \in 1..Len(muxWork') : i \in 1..Len(muxWork) \/ i = Len(muxWork) + 1
    BY <1>2
  <1>4. ASSUME NEW e \in Entities, NEW i \in Nat, RemovedAfter(e, i) PROVE RemovedAfter(e, i)'
    BY <1>3, <1>4 DEF RemovedAfter
  <1>5. QED
    BY <1>2, <1>3, <1>4

(* The first work item is done. *)
LEMMA WorkTaken ==
  ASSUME LifeInv, muxWork # <<>>, muxWork' = Tail(muxWork)
  PROVE  /\ muxWork' \in Seq({"insert", "remove"} \X Entities)
         /\ Head(muxWork) \in {"insert", "remove"} \X Entities /\ Head(muxWork) = muxWork[1]
         /\ 1 \in 1..Len(muxWork)
         /\ \A i \in 1..Len(muxWork') : i + 1 \in 1..Len(muxWork) /\ muxWork'[i] = muxWork[i + 1]
         /\ \A e \in Entities, i \in Nat : RemovedAfter(e, i + 1) => RemovedAfter(e, i)'
         /\ \A e \in Entities : RemovedAfter(e, 0) => RemovedAfter(e, 0)' \/ muxWork[1] = <<"remove", e>>
  <1>1. muxWork \in Seq({"insert", "remove"} \X Entities)
    BY DEF LifeInv
  <1>2. /\ muxWork' \in Seq({"insert", "remove"} \X Entities)
        /\ Head(muxWork) \in {"insert", "remove"} \X Entities /\ Head(muxWork) = muxWork[1]
        /\ Len(muxWork) \in Nat \ {0} /\ Len(muxWork') = Len(muxWork) - 1
        /\ \A i \in 1..Len(muxWork') : muxWork'[i] = muxWork[i + 1]
    BY <1>1, HeadTailProperties, EmptySeq, LenProperties
  <1>3. /\ \A i \in 1..Len(muxWork') : i + 1 \in 1..Len(muxWork) /\ muxWork'[i] = muxWork[i + 1]
        /\ \A j \in 1..Len(muxWork) : j # 1 => j - 1 \in 1..Len(muxWork') /\ muxWork'[j - 1] = muxWork[j]
    BY <1>2
  <1>4. ASSUME NEW e \in Entities, NEW i \in Nat, RemovedAfter(e, i + 1) PROVE RemovedAfter(e, i)'
    <2>1. PICK j \in 1..Len(muxWork) : j > i + 1 /\ muxWork[j] = <<"remove", e>>
      BY <1>4 DEF RemovedAfter
    <2>2. j - 1 \in 1..Len(muxWork') /\ j - 1 > i /\ muxWork'[j - 1] = <<"remove", e>>
      BY <1>3, <2>1
    <2>3. QED
      BY <2>2 DEF RemovedAfter
  <1>5. ASSUME NEW e \in Entities, RemovedAfter(e, 0), muxWork[1] # <<"remove", e>>
        PROVE  RemovedAfter(e, 0)'
    <2>1. PICK j \in 1..Len(muxWork) : muxWork[j] = <<"remove", e>>
      BY <1>5 DEF RemovedAfter
    <2>2. j # 1 /\ j - 1 \in 1..Len(muxWork') /\ j - 1 > 0 /\ muxWork'[j - 1] = <<"remove", e>>
      BY <1>3, <1>5, <2>1
    <2>3. QED
      BY <2>2 DEF RemovedAfter
  <1>6. 1 \in 1..Len(muxWork)
    BY <1>2
  <1>7. QED
    BY <1>2, <1>3, <1>4, <1>5, <1>6

(* Every step of the multiplexer keeps it. *)
LEMMA LifeStep == LifeInv /\ [MuxNext]_muxVars => LifeInv'
  <1> SUFFICES ASSUME LifeInv, [MuxNext]_muxVars PROVE LifeInv'
    OBVIOUS
  <1>1. ASSUME NEW e \in Entities, registEntity(e) PROVE LifeInv'
    <2>1. /\ entity[e] = "new" /\ entity' = [entity EXCEPT ![e] = "started"] /\ connMp_' = connMp_
          /\ muxWork' = Append(muxWork, <<"insert", e>>)
      BY <1>1 DEF registEntity
    <2>2. \A f \in Entities : (f = e /\ entity'[f] = "started") \/ (f # e /\ entity'[f] = entity[f])
      BY <2>1 DEF LifeInv
    <2>3. entity' \in [Entities -> {"new", "started", "gone"}]
      BY <2>1 DEF LifeInv
    <2>4. <<"insert", e>> \in {"insert", "remove"} \X Entities /\ \A f \in Entities : f # e => <<"insert", e>> # <<"insert", f>>
      OBVIOUS
    <2> DEFINE w == <<"insert", e>>
    <2>5. /\ muxWork' \in Seq({"insert", "remove"} \X Entities)
          /\ Len(muxWork) \in Nat /\ Len(muxWork') = Len(muxWork) + 1 /\ muxWork'[Len(muxWork) + 1] = w
          /\ \A i \in 1..Len(muxWork) : i \in 1..Len(muxWork') /\ muxWork'[i] = muxWork[i]
          /\ \A i \in 1..Len(muxWork') : i \in 1..Len(muxWork) \/ i = Len(muxWork) + 1
          /\ \A f \in Entities, i \in Nat : RemovedAfter(f, i) => RemovedAfter(f, i)'
      BY <2>1, <2>4, WorkAppended
    <2>6. ASSUME NEW f \in Entities, entity'[f] = "new"
          PROVE  f \notin connMp_' /\ \A i \in 1..Len(muxWork') : muxWork'[i] # <<"insert", f>>
      BY <2>1, <2>2, <2>4, <2>5, <2>6 DEF LifeInv
    <2>7. ASSUME NEW f \in Entities, entity'[f] = "gone"
          PROVE  /\ f \in connMp_' => RemovedAfter(f, 0)'
                 /\ \A i \in 1..Len(muxWork') : muxWork'[i] = <<"insert", f>> => RemovedAfter(f, i)'
      BY <2>1, <2>2, <2>4, <2>5, <2>7 DEF LifeInv
    <2>8. QED
      BY <2>1, <2>3, <2>5, <2>6, <2>7 DEF LifeInv
  <1>2. ASSUME NEW e \in Entities, addRemoveWork(e) PROVE LifeInv'
    <2>1. /\ entity[e] = "started" /\ entity' = [entity EXCEPT ![e] = "gone"] /\ connMp_' = connMp_
          /\ muxWork' = Append(muxWork, <<"remove", e>>)
      BY <1>2 DEF addRemoveWork
    <2>2. \A f \in Entities : (f = e /\ entity'[f] = "gone") \/ (f # e /\ entity'[f] = entity[f])
      BY <2>1 DEF LifeInv
    <2>3. entity' \in [Entities -> {"new", "started", "gone"}]
      BY <2>1 DEF LifeInv
    <2>4. <<"remove", e>> \in {"insert", "remove"} \X Entities /\ \A f \in Entities : <<"remove", e>> # <<"insert", f>>
      OBVIOUS
    <2> DEFINE w == <<"remove", e>>
    <2>5. /\ muxWork' \in Seq({"insert", "remove"} \X Entities)
          /\ Len(muxWork) \in Nat /\ Len(muxWork') = Len(muxWork) + 1 /\ muxWork'[Len(muxWork) + 1] = w
          /\ \A i \in 1..Len(muxWork) : i \in 1..Len(muxWork') /\ muxWork'[i] = muxWork[i]
          /\ \A i \in 1..Len(muxWork') : i \in 1..Len(muxWork) \/ i = Len(muxWork) + 1
          /\ \A f \in Entities, i \in Nat : RemovedAfter(f, i) => RemovedAfter(f, i)'
      BY <2>1, <2>4, WorkAppended
    <2>6. ASSUME NEW f \in Entities, entity'[f] = "new"
          PROVE  f \notin connMp_' /\ \A i \in 1..Len(muxWork') : muxWork'[i] # <<"insert", f>>
      BY <2>1, <2>2, <2>4, <2>5, <2>6 DEF LifeInv
    <2>7. \A i \in 0..Len(muxWork) : RemovedAfter(e, i)'
      <3>1. \A i \in 0..Len(muxWork) : Len(muxWork) + 1 \in 1..Len(muxWork') /\ Len(muxWork) + 1 > i
        BY <2>5
      <3>2. QED
        BY <2>5, <3>1 DEF RemovedAfter
    <2>8. ASSUME NEW f \in Entities, entity'[f] = "gone"
          PROVE  /\ f \in connMp_' => RemovedAfter(f, 0)'
                 /\ \A i \in 1..Len(muxWork') : muxWork'[i] = <<"insert", f>> => RemovedAfter(f, i)'
      <3>1. CASE f = e
        BY <2>4, <2>5, <2>7, <3>1
      <3>2. CASE f # e
        BY <2>1, <2>2, <2>4, <2>5, <2>8, <3>2 DEF LifeInv
      <3>3. QED
        BY <3>1, <3>2
    <2>9. QED
      BY <2>1, <2>3, <2>5, <2>6, <2>8 DEF LifeInv
  <1>3. CASE insert \/ muxRemove
    <2>1. /\ muxWork # <<>> /\ muxWork' = Tail(muxWork) /\ entity' = entity
          /\ \/ Head(muxWork)[1] = "insert" /\ connMp_' = connMp_ \cup {Head(muxWork)[2]}
             \/ Head(muxWork)[1] = "remove" /\ connMp_' = connMp_ \ {Head(muxWork)[2]}
      BY <1>3 DEF insert, muxRemove, dispatchVars
    <2>2. /\ muxWork' \in Seq({"insert", "remove"} \X Entities)
          /\ Head(muxWork) \in {"insert", "remove"} \X Entities /\ Head(muxWork) = muxWork[1]
          /\ 1 \in 1..Len(muxWork)
          /\ \A i \in 1..Len(muxWork') : i + 1 \in 1..Len(muxWork) /\ muxWork'[i] = muxWork[i + 1]
          /\ \A e \in Entities, i \in Nat : RemovedAfter(e, i + 1) => RemovedAfter(e, i)'
          /\ \A e \in Entities : RemovedAfter(e, 0) => RemovedAfter(e, 0)' \/ muxWork[1] = <<"remove", e>>
      BY <2>1, WorkTaken
    <2>3. PICK e \in Entities :
             \/ muxWork[1] = <<"insert", e>> /\ connMp_' = connMp_ \cup {e}
             \/ muxWork[1] = <<"remove", e>> /\ connMp_' = connMp_ \ {e}
      BY <2>1, <2>2
    <2>4. connMp_' \subseteq Entities
      BY <2>3 DEF LifeInv
    <2>5. ASSUME NEW f \in Entities, entity'[f] = "new"
          PROVE  f \notin connMp_' /\ \A i \in 1..Len(muxWork') : muxWork'[i] # <<"insert", f>>
      BY <2>1, <2>2, <2>3, <2>5 DEF LifeInv
    <2>6. ASSUME NEW f \in Entities, entity'[f] = "gone"
          PROVE  /\ f \in connMp_' => RemovedAfter(f, 0)'
                 /\ \A i \in 1..Len(muxWork') : muxWork'[i] = <<"insert", f>> => RemovedAfter(f, i)'
      <3>1. \A i \in 1..Len(muxWork) : muxWork[i] = <<"insert", f>> => RemovedAfter(f, i)
        BY <2>1, <2>6 DEF LifeInv
      <3>2. f \in connMp_ => RemovedAfter(f, 0)
        BY <2>1, <2>6 DEF LifeInv
      <3>3. ASSUME NEW i \in 1..Len(muxWork'), muxWork'[i] = <<"insert", f>> PROVE RemovedAfter(f, i)'
        BY <2>2, <3>1, <3>3
      <3>4. ASSUME f \in connMp_' PROVE RemovedAfter(f, 0)'
        <4>1. CASE muxWork[1] = <<"insert", f>>
          <5>1. RemovedAfter(f, 0 + 1)
            BY <2>2, <3>1, <4>1
          <5>2. QED
            BY <2>2, <5>1
        <4>2. CASE muxWork[1] # <<"insert", f>>
          BY <2>2, <2>3, <3>2, <3>4, <4>2
        <4>3. QED
          BY <4>1, <4>2
      <3>5. QED
        BY <3>3, <3>4
    <2>7. QED
      BY <2>1, <2>2, <2>4, <2>5, <2>6 DEF LifeInv
  <1>4. CASE UNCHANGED <<connMp_, entity, muxWork>>
    <2>1. \A e, i : RemovedAfter(e, i)' <=> RemovedAfter(e, i)
      BY <1>4 DEF RemovedAfter
    <2>2. QED
      BY <1>4, <2>1 DEF LifeInv
  <1>5. CASE \/ \E m \in Messages : sendMessage(m)
             \/ \E k \in 1..RecvSize : dispatch(k)
             \/ DispatchStep \/ UNCHANGED muxVars
    BY <1>4, <1>5 DEF sendMessage, dispatch, DispatchStep, dispatchReturn, keepHead, passToUser, fillPayload,
                      entityVars, muxVars
  <1>6. QED
    BY <1>1, <1>2, <1>3, <1>5 DEF MuxNext

(* A client in the map belongs to an entity that is alive or whose removal is
   queued, for any number of entities, however the loop and their threads
   interleave. *)
THEOREM RegisteredAliveHolds == MuxSpec => []RegisteredAlive
  <1>1. MuxInit => LifeInv
    BY DEF MuxInit, LifeInv
  <1>2. LifeInv => RegisteredAlive
    <2> SUFFICES ASSUME LifeInv, NEW e \in connMp_, entity[e] # "started"
                 PROVE  \E i \in DOMAIN muxWork : muxWork[i] = <<"remove", e>>
      BY DEF RegisteredAlive
    <2>1. e \in Entities /\ entity[e] = "gone"
      BY DEF LifeInv
    <2>2. PICK j \in 1..Len(muxWork) : muxWork[j] = <<"remove", e>>
      BY <2>1 DEF LifeInv, RemovedAfter
    <2>3. DOMAIN muxWork = 1..Len(muxWork)
      BY LenProperties DEF LifeInv
    <2>4. QED
      BY <2>2, <2>3
  <1>3. QED
    BY <1>1, <1>2, LifeStep, PTL DEF MuxSpec

-----------------------------------------------------------------------------
(* Messages of the multiplexer *)

(* stream is the bytes of the messages sent; message k begins behind start[k]. *)
Laid(stream, start) ==
  /\ framesSent \in Seq(Messages)
  /\ start \in [1..Len(framesSent) + 1 -> Nat] /\ start[1] = 0
  /\ stream \in [1..start[Len(framesSent) + 1] -> Nat]
  /\ \A k \in 1..Len(framesSent) :
        /\ start[k + 1] = start[k] + HeadSize + Length[framesSent[k]]
        /\ start[k + 1] <= start[Len(framesSent) + 1]
        /\ stream[start[k] + 1] = HeadId[framesSent[k]]
        /\ stream[start[k] + 2] = Length[framesSent[k]]
        /\ \A i \in 1..Length[framesSent[k]] : stream[start[k] + HeadSize + i] = framesSent[k]

(* The bytes received before those in recvBuf, when all are total. *)
Base(total) == total - Len(inbound) - Len(recvBuf)

(* Where dispatch() is in the stream; it may have copied more than there is. *)
Cursor(total) == Base(total) + IF recvOffset <= Len(recvBuf) THEN recvOffset ELSE Len(recvBuf)

(* recvBuf and inbound are the end of the stream. *)
Arriving(stream, total) ==
  /\ inbound \in Seq(Nat) /\ recvBuf \in Seq(Nat) /\ recvOffset \in Nat
  /\ total \in Nat /\ Base(total) \in Nat /\ Len(recvBuf) <= RecvSize
  /\ \A i \in 1..Len(recvBuf) : recvBuf[i] = stream[Base(total) + i]
  /\ \A i \in 1..Len(inbound) : inbound[i] = stream[Base(total) + Len(recvBuf) + i]
  /\ muxPc \in {"idle", "loop", "dead"}
  /\ muxPc = "idle" => recvBuf = <<>> /\ recvOffset = 0

(* What was given to solve(), and the place of the next message. *)
Solved ==
  /\ solved \in Seq(Nat) /\ Len(solved) <= Len(framesSent)
  /\ \A j \in 1..Len(solved) : solved[j] = framesSent[j]
Current == Len(solved) + 1

(* head and body are the message that dispatch() has come to, as far as it is
   received. *)
Synced(stream, start, total) ==
  /\ head \in Seq(Nat) /\ Len(head) <= HeadSize
  /\ body \in Seq(Nat) /\ bufSize = Len(body)
  /\ body # <<>> => Len(head) = HeadSize
  /\ Cursor(total) = start[Current] + Len(head) + Len(body)
  /\ \A i \in 1..Len(head) : head[i] = stream[start[Current] + i]
  /\ \A i \in 1..Len(body) : body[i] = stream[start[Current] + HeadSize + i]
  /\ Current <= Len(framesSent) => Len(body) < Length[framesSent[Current]]

(* dispatch() has a message of the user, which it finds again and again, or one
   whose bytes it has counted wrong: it gives solve() nothing any more. *)
Stuck ==
  /\ head \in Seq(Nat) /\ Len(head) = HeadSize /\ bufSize \in Nat
  /\ head[1] # 0 \/ bufSize > head[2]

Framed(stream, start, total) ==
  /\ Laid(stream, start) /\ total = start[Len(framesSent) + 1]
  /\ Arriving(stream, total)
  /\ Solved
  /\ Stuck \/ Synced(stream, start, total)

FrameInv == overread \/ \E stream, start, total : Framed(stream, start, total)

(* A message on the wire. *)
LEMMA FrameFacts ==
  ASSUME NEW m \in Messages
  PROVE  /\ m \in Nat /\ m # 0 /\ HeadId[m] \in Nat /\ Length[m] \in Nat \ {0}
         /\ Frame(m) \in Seq(Nat) /\ Len(Frame(m)) = HeadSize + Length[m]
         /\ Frame(m)[1] = HeadId[m] /\ Frame(m)[2] = Length[m]
         /\ \A i \in 1..Length[m] : Frame(m)[HeadSize + i] = m
  <1> DEFINE h == <<HeadId[m], Length[m]>>
             p == Payload(m)
             l == Length[m]
  <1>1. m \in Nat /\ m # 0 /\ HeadId[m] \in Nat /\ l \in Nat \ {0}
    <2>1. m \in Nat \ 0..9 /\ HeadId[m] \in Entities \cup {0} /\ l \in 1..9 /\ Entities \subseteq 1..9
      BY MessagesAssumption
    <2>2. m \in Nat /\ m # 0
      BY <2>1
    <2>3. l \in Nat \ {0}
      <3> HIDE DEF l
      <3>1. QED
        BY <2>1
    <2>4. Entities \cup {0} \subseteq Nat
      BY <2>1
    <2>5. HeadId[m] \in Nat
      BY <2>1, <2>4
    <2>6. QED
      BY <2>2, <2>3, <2>5
  <1>2. h \in Seq(Nat) /\ Len(h) = 2 /\ h[1] = HeadId[m] /\ h[2] = l
    BY <1>1
  <1>3. p \in Seq(Nat) /\ Len(p) = l /\ \A i \in 1..l : p[i] = m
    BY <1>1 DEF Payload
  <1>4. Frame(m) = h \o p
    BY DEF Frame
  <1> HIDE DEF h, p, l
  <1>5. /\ Frame(m) \in Seq(Nat) /\ Len(Frame(m)) = 2 + l
        /\ \A i \in 1..2 + l : Frame(m)[i] = IF i <= 2 THEN h[i] ELSE p[i - 2]
    <2>1. /\ h \o p \in Seq(Nat) /\ Len(h \o p) = Len(h) + Len(p)
          /\ \A i \in 1..Len(h) + Len(p) : (h \o p)[i] = IF i <= Len(h) THEN h[i] ELSE p[i - Len(h)]
      BY <1>2, <1>3, ConcatProperties
    <2>2. Len(h) = 2 /\ Len(p) = l
      BY <1>2, <1>3
    <2>3. QED
      BY <1>4, <2>1, <2>2
  <1>6. Frame(m)[1] = HeadId[m] /\ Frame(m)[2] = l
    BY <1>1, <1>2, <1>5
  <1>7. ASSUME NEW i \in 1..l PROVE Frame(m)[2 + i] = m
    <2>1. 2 + i \in 1..2 + l /\ ~(2 + i <= 2) /\ (2 + i) - 2 = i
      BY <1>1
    <2>2. QED
      BY <1>3, <1>5, <2>1
  <1>8. QED
    BY <1>1, <1>5, <1>6, <1>7 DEF HeadSize, l

(* The peer sends one more message. *)
LEMMA SendLaid ==
  ASSUME NEW stream, NEW start, Laid(stream, start), NEW m \in Messages,
         framesSent' = Append(framesSent, m)
  PROVE  \E stream2, start2 :
            /\ Laid(stream2, start2)'
            /\ start2[Len(framesSent') + 1] = start[Len(framesSent) + 1] + Len(Frame(m))
            /\ \A k \in 1..Len(framesSent) + 1 : start2[k] = start[k]
            /\ \A i \in 1..start[Len(framesSent) + 1] : stream2[i] = stream[i]
            /\ \A i \in 1..Len(Frame(m)) : stream2[start[Len(framesSent) + 1] + i] = Frame(m)[i]
  <1> DEFINE n == Len(framesSent)
             N == start[n + 1]
             l == Length[m]
  <1>1. /\ m \in Nat /\ HeadId[m] \in Nat /\ l \in Nat \ {0}
        /\ Frame(m) \in Seq(Nat) /\ Len(Frame(m)) = 2 + l
        /\ Frame(m)[1] = HeadId[m] /\ Frame(m)[2] = l
        /\ \A i \in 1..l : Frame(m)[2 + i] = m
    BY FrameFacts DEF HeadSize
  <1>2. framesSent \in Seq(Messages) /\ n \in Nat
    BY LenProperties DEF Laid
  <1>3. /\ framesSent' \in Seq(Messages) /\ Len(framesSent') = n + 1 /\ framesSent'[n + 1] = m
        /\ \A k \in 1..n : framesSent'[k] = framesSent[k]
    BY <1>2, AppendProperties
  <1>4. start \in [1..n + 1 -> Nat] /\ start[1] = 0 /\ N \in Nat /\ stream \in [1..N -> Nat]
    BY <1>2 DEF Laid
  <1>5. \A k \in 1..n :
           /\ start[k + 1] = start[k] + 2 + Length[framesSent[k]]
           /\ start[k + 1] <= N
           /\ stream[start[k] + 1] = HeadId[framesSent[k]]
           /\ stream[start[k] + 2] = Length[framesSent[k]]
           /\ \A i \in 1..Length[framesSent[k]] : stream[start[k] + 2 + i] = framesSent[k]
    BY DEF Laid, HeadSize
  <1> HIDE DEF N, n, l
  <1>0. PICK start2, stream2 :
           /\ start2 = [k \in 1..n + 2 |-> IF k = n + 2 THEN N + 2 + l ELSE start[k]]
           /\ stream2 = [i \in 1..N + 2 + l |-> IF i <= N THEN stream[i] ELSE Frame(m)[i - N]]
    OBVIOUS
  <1>l. l \in Nat \ {0}
    BY <1>1 DEF l
  <1>6. /\ start2 \in [1..n + 2 -> Nat] /\ start2[n + 2] = N + 2 + l
        /\ \A k \in 1..n + 1 : start2[k] = start[k]
    <2>1. /\ \A k \in 1..n + 1 : k \in 1..n + 2 /\ k # n + 2
          /\ \A k \in 1..n + 2 : k = n + 2 \/ k \in 1..n + 1
          /\ n + 2 \in 1..n + 2 /\ N + 2 + l \in Nat
      BY <1>2, <1>4, <1>l
    <2>2. QED
      BY <1>0, <1>4, <2>1
  <1>7. \A i \in 1..2 + l : Frame(m)[i] \in Nat
    <2>1. Len(Frame(m)) = 2 + l
      BY <1>1 DEF l
    <2>2. QED
      BY <1>1, <2>1, ElementOfSeq
  <1>8. /\ stream2 \in [1..N + 2 + l -> Nat]
        /\ \A i \in 1..N : stream2[i] = stream[i]
        /\ \A i \in 1..2 + l : stream2[N + i] = Frame(m)[i]
    <2>1. ASSUME NEW i \in 1..N + 2 + l, ~(i <= N) PROVE i - N \in 1..2 + l
      BY <1>4, <1>l, <2>1
    <2>2. ASSUME NEW i \in 1..2 + l PROVE N + i \in 1..N + 2 + l /\ ~(N + i <= N) /\ (N + i) - N = i
      BY <1>4, <1>l
    <2>3. \A i \in 1..N : i \in 1..N + 2 + l /\ i <= N
      BY <1>4, <1>l
    <2>4. stream2 \in [1..N + 2 + l -> Nat]
      BY <1>0, <1>4, <1>7, <2>1
    <2>5. QED
      BY <1>0, <2>2, <2>3, <2>4
  <1>9. ASSUME NEW k \in 1..n + 1
        PROVE  /\ start2[k + 1] = start2[k] + 2 + Length[framesSent'[k]]
               /\ start2[k + 1] <= start2[n + 2]
               /\ stream2[start2[k] + 1] = HeadId[framesSent'[k]]
               /\ stream2[start2[k] + 2] = Length[framesSent'[k]]
               /\ \A i \in 1..Length[framesSent'[k]] : stream2[start2[k] + 2 + i] = framesSent'[k]
    <2>1. CASE k = n + 1
      <3>1. k + 1 = n + 2 /\ start2[k] = N /\ start2[k + 1] = N + 2 + l /\ framesSent'[k] = m
        BY <1>2, <1>3, <1>6, <2>1 DEF N
      <3>2. stream2[N + 1] = Frame(m)[1] /\ stream2[N + 2] = Frame(m)[2]
        BY <1>8, <1>l
      <3>3. ASSUME NEW i \in 1..l PROVE stream2[N + 2 + i] = m
        <4>1. 2 + i \in 1..2 + l /\ N + (2 + i) = N + 2 + i
          BY <1>4, <1>l
        <4>2. Frame(m)[2 + i] = m
          BY <1>1 DEF l
        <4>3. QED
          BY <1>8, <4>1, <4>2
      <3>4. start2[k + 1] <= start2[n + 2]
        BY <1>4, <1>6, <1>l, <3>1
      <3>5. QED
        BY <1>1, <3>1, <3>2, <3>3, <3>4 DEF l
    <2>2. CASE k # n + 1
      <3> DEFINE f == framesSent[k]
      <3>1. k \in 1..n /\ k + 1 \in 1..n + 1 /\ k \in 1..n + 1 /\ framesSent'[k] = f
        BY <1>2, <1>3, <2>2
      <3>2. f \in Messages /\ Length[f] \in Nat \ {0}
        BY <1>2, <3>1, FrameFacts, LenProperties DEF n
      <3>3. start2[k] = start[k] /\ start2[k + 1] = start[k + 1] /\ start[k] \in Nat /\ start[k + 1] \in Nat
        BY <1>4, <1>6, <3>1
      <3>4. start[k + 1] = start[k] + 2 + Length[f] /\ start[k + 1] <= N
        BY <1>5, <3>1
      <3>5. start2[k + 1] <= start2[n + 2]
        BY <1>4, <1>6, <1>l, <3>3, <3>4
      <3>6. /\ start[k] + 1 \in 1..N /\ start[k] + 2 \in 1..N
            /\ \A i \in 1..Length[f] : start[k] + 2 + i \in 1..N
        <4> DEFINE a == start[k]
                   b == Length[f]
        <4>1. a \in Nat /\ b \in Nat \ {0} /\ a + 2 + b <= N /\ N \in Nat
          BY <1>4, <3>2, <3>3, <3>4
        <4> HIDE DEF a, b
        <4>2. a + 1 \in 1..N /\ a + 2 \in 1..N /\ \A i \in 1..b : a + 2 + i \in 1..N
          BY <4>1
        <4>3. QED
          BY <4>2 DEF a, b
      <3>7. /\ stream2[start[k] + 1] = HeadId[f] /\ stream2[start[k] + 2] = Length[f]
            /\ \A i \in 1..Length[f] : stream2[start[k] + 2 + i] = f
        BY <1>5, <1>8, <3>1, <3>6, ZenonT(30)
      <3>8. QED
        BY <3>1, <3>3, <3>4, <3>5, <3>7
    <2>3. QED
      BY <2>1, <2>2
  <1>10. Len(framesSent') + 1 = n + 2 /\ N + (2 + l) = N + 2 + l /\ 1 \in 1..n + 1
    BY <1>2, <1>3, <1>4, <1>l
  <1>11. Laid(stream2, start2)'
    <2>1. start2 \in [1..Len(framesSent') + 1 -> Nat] /\ start2[1] = 0
      BY <1>4, <1>6, <1>10
    <2>2. stream2 \in [1..start2[Len(framesSent') + 1] -> Nat]
      BY <1>6, <1>8, <1>10
    <2>3. \A k \in 1..Len(framesSent') :
             /\ start2[k + 1] = start2[k] + 2 + Length[framesSent'[k]]
             /\ start2[k + 1] <= start2[Len(framesSent') + 1]
             /\ stream2[start2[k] + 1] = HeadId[framesSent'[k]]
             /\ stream2[start2[k] + 2] = Length[framesSent'[k]]
             /\ \A i \in 1..Length[framesSent'[k]] : stream2[start2[k] + 2 + i] = framesSent'[k]
      BY <1>3, <1>9, <1>10
    <2>4. QED
      BY <1>3, <2>1, <2>2, <2>3 DEF Laid, HeadSize
  <1>12. Len(Frame(m)) = 2 + l /\ start2[Len(framesSent') + 1] = N + Len(Frame(m))
    BY <1>1, <1>6, <1>10 DEF l
  <1>13. /\ Laid(stream2, start2)'
         /\ start2[Len(framesSent') + 1] = N + Len(Frame(m))
         /\ \A k \in 1..n + 1 : start2[k] = start[k]
         /\ \A i \in 1..N : stream2[i] = stream[i]
         /\ \A i \in 1..Len(Frame(m)) : stream2[N + i] = Frame(m)[i]
    BY <1>6, <1>8, <1>11, <1>12
  <1>14. QED
    BY <1>13 DEF n, N

(* The bytes of recvBuf and inbound are of the stream. *)
LEMMA ArrivingIn ==
  ASSUME NEW stream, NEW total, Arriving(stream, total)
  PROVE  /\ Len(inbound) \in Nat /\ Len(recvBuf) \in Nat /\ total \in Nat
         /\ Base(total) + Len(recvBuf) + Len(inbound) = total
         /\ \A i \in 1..Len(recvBuf) : Base(total) + i \in 1..total
         /\ \A i \in 1..Len(inbound) : Base(total) + Len(recvBuf) + i \in 1..total
         /\ Cursor(total) \in Nat /\ Cursor(total) <= Base(total) + Len(recvBuf) /\ Cursor(total) <= total
  <1>1. Len(inbound) \in Nat /\ Len(recvBuf) \in Nat /\ recvOffset \in Nat /\ total \in Nat /\ Base(total) \in Nat
    BY LenProperties DEF Arriving
  <1>2. Base(total) = total - Len(inbound) - Len(recvBuf)
    BY DEF Base
  <1>3. /\ Base(total) + Len(recvBuf) + Len(inbound) = total
        /\ \A i \in 1..Len(recvBuf) : Base(total) + i \in 1..total
        /\ \A i \in 1..Len(inbound) : Base(total) + Len(recvBuf) + i \in 1..total
    BY <1>1, <1>2
  <1>4. Cursor(total) = Base(total) + IF recvOffset <= Len(recvBuf) THEN recvOffset ELSE Len(recvBuf)
    BY DEF Cursor
  <1>5. Cursor(total) \in Nat /\ Cursor(total) <= Base(total) + Len(recvBuf) /\ Cursor(total) <= total
    BY <1>1, <1>3, <1>4
  <1>6. QED
    BY <1>1, <1>3, <1>5

(* So are those of head and body. *)
LEMMA SyncedIn ==
  ASSUME NEW stream, NEW start, NEW total, Laid(stream, start), total = start[Len(framesSent) + 1],
         Arriving(stream, total), Solved, Synced(stream, start, total)
  PROVE  /\ Len(framesSent) \in Nat /\ Len(solved) \in Nat /\ Current \in 1..Len(framesSent) + 1
         /\ Len(head) \in Nat /\ Len(body) \in Nat /\ start[Current] \in Nat
         /\ \A i \in 1..Len(head) : start[Current] + i \in 1..total
         /\ \A i \in 1..Len(body) : start[Current] + HeadSize + i \in 1..total
         /\ Current = Len(framesSent) + 1 => Len(head) = 0 /\ Len(body) = 0
  <1> DEFINE a == start[Current]
  <1>1. /\ Len(framesSent) \in Nat /\ Len(solved) \in Nat /\ Len(solved) <= Len(framesSent)
        /\ Len(head) \in Nat /\ Len(body) \in Nat
    BY LenProperties DEF Laid, Solved, Synced
  <1>2. Current \in 1..Len(framesSent) + 1
    BY <1>1 DEF Current
  <1>3. a \in Nat
    BY <1>2 DEF Laid
  <1>4. a + Len(head) + Len(body) <= total /\ total \in Nat
    BY ArrivingIn DEF Synced
  <1>5. body # <<>> => Len(head) = 2
    BY DEF Synced, HeadSize
  <1>6. Len(body) # 0 => Len(head) = 2
    BY <1>5, EmptySeq
  <1>7. Current = Len(framesSent) + 1 => a = total
    OBVIOUS
  <1> HIDE DEF a
  <1>8. /\ \A i \in 1..Len(head) : a + i \in 1..total
        /\ \A i \in 1..Len(body) : a + 2 + i \in 1..total
    <2>1. ASSUME NEW i \in 1..Len(head) PROVE a + i \in 1..total
      BY <1>1, <1>3, <1>4
    <2>2. ASSUME NEW i \in 1..Len(body) PROVE a + 2 + i \in 1..total
      <3>1. Len(head) = 2
        BY <1>1, <1>6
      <3>2. QED
        BY <1>1, <1>3, <1>4, <3>1
    <2>3. QED
      BY <2>1, <2>2
  <1>9. Current = Len(framesSent) + 1 => Len(head) = 0 /\ Len(body) = 0
    BY <1>1, <1>3, <1>4, <1>7
  <1>10. QED
    BY <1>1, <1>2, <1>3, <1>8, <1>9 DEF a, HeadSize

(* What dispatch() has is untouched when the peer sends. *)
LEMMA SendFramed ==
  ASSUME NEW stream, NEW start, NEW N, Framed(stream, start, N), NEW m \in Messages, sendMessage(m)
  PROVE  \E stream2, start2, N2 : Framed(stream2, start2, N2)'
  <1> DEFINE n == Len(framesSent)
             L == Len(Frame(m))
             a == start[Current]
  <1>1. /\ Laid(stream, start) /\ Arriving(stream, N) /\ Solved /\ (Stuck \/ Synced(stream, start, N))
        /\ N = start[n + 1]
    BY DEF Framed
  <1>2. /\ framesSent' = Append(framesSent, m) /\ inbound' = inbound \o Frame(m)
        /\ muxPc' = muxPc /\ recvBuf' = recvBuf /\ recvOffset' = recvOffset /\ head' = head /\ body' = body
        /\ bufSize' = bufSize /\ solved' = solved
    BY DEF sendMessage, dispatchVars
  <1>3. PICK stream2, start2 :
            /\ Laid(stream2, start2)'
            /\ start2[Len(framesSent') + 1] = N + L
            /\ \A k \in 1..n + 1 : start2[k] = start[k]
            /\ \A i \in 1..N : stream2[i] = stream[i]
            /\ \A i \in 1..L : stream2[N + i] = Frame(m)[i]
    BY <1>1, <1>2, SendLaid, SMTT(20)
  <1>4. Frame(m) \in Seq(Nat) /\ L \in Nat /\ Length[m] \in Nat \ {0}
    BY FrameFacts, LenProperties
  <1>5. n \in Nat /\ Len(framesSent') = n + 1 /\ framesSent'[n + 1] = m /\ \A k \in 1..n : framesSent'[k] = framesSent[k]
    BY <1>1, <1>2, AppendProperties, LenProperties DEF Laid
  <1> HIDE DEF L, n
  <1>6. /\ Len(inbound) \in Nat /\ Len(recvBuf) \in Nat /\ N \in Nat
        /\ Base(N) + Len(recvBuf) + Len(inbound) = N
        /\ \A i \in 1..Len(recvBuf) : Base(N) + i \in 1..N
        /\ \A i \in 1..Len(inbound) : Base(N) + Len(recvBuf) + i \in 1..N
    BY <1>1, ArrivingIn
  <1>7. /\ inbound \in Seq(Nat) /\ recvBuf \in Seq(Nat) /\ recvOffset \in Nat /\ Base(N) \in Nat
        /\ Len(recvBuf) <= RecvSize
        /\ \A i \in 1..Len(recvBuf) : recvBuf[i] = stream[Base(N) + i]
        /\ \A i \in 1..Len(inbound) : inbound[i] = stream[Base(N) + Len(recvBuf) + i]
        /\ muxPc \in {"idle", "loop", "dead"} /\ (muxPc = "idle" => recvBuf = <<>> /\ recvOffset = 0)
    BY <1>1 DEF Arriving
  <1>8. /\ inbound' \in Seq(Nat) /\ Len(inbound') = Len(inbound) + L
        /\ \A i \in 1..Len(inbound) + L : inbound'[i] = IF i <= Len(inbound) THEN inbound[i] ELSE Frame(m)[i - Len(inbound)]
    BY <1>2, <1>4, <1>7, ConcatProperties DEF L
  <1>9. PICK N2 : N2 = N + L
    OBVIOUS
  <1>10. Base(N2)' = Base(N) /\ Cursor(N2)' = Cursor(N) /\ N2 \in Nat
    <2>1. Base(N2)' = N2 - Len(inbound') - Len(recvBuf')
      BY DEF Base
    <2>2. Base(N2)' = Base(N)
      BY <1>2, <1>4, <1>6, <1>8, <1>9, <2>1 DEF Base
    <2>3. QED
      BY <1>2, <1>4, <1>6, <1>9, <2>2 DEF Cursor
  <1>11. Arriving(stream2, N2)'
    <2>1. ASSUME NEW i \in 1..Len(inbound) + L
          PROVE  inbound'[i] = stream2[Base(N) + Len(recvBuf) + i]
      <3>1. CASE i <= Len(inbound)
        <4>1. i \in 1..Len(inbound)
          BY <1>6, <3>1
        <4>2. QED
          BY <1>3, <1>6, <1>7, <1>8, <3>1, <4>1
      <3>2. CASE ~(i <= Len(inbound))
        <4>1. i - Len(inbound) \in 1..L
          BY <1>4, <1>6, <3>2
        <4>2. N + (i - Len(inbound)) = Base(N) + Len(recvBuf) + i
          <5>1. /\ Base(N) \in Nat /\ Len(recvBuf) \in Nat /\ Len(inbound) \in Nat /\ i \in Int
                /\ N = Base(N) + Len(recvBuf) + Len(inbound)
            BY <1>4, <1>6, <1>7
          <5>2. QED
            BY <5>1
        <4>3. QED
          BY <1>3, <1>8, <3>2, <4>1, <4>2
      <3>3. QED
        BY <3>1, <3>2
    <2>2. \A i \in 1..Len(recvBuf) : recvBuf[i] = stream2[Base(N) + i]
      BY <1>3, <1>6, <1>7
    <2>3. QED
      BY <1>2, <1>7, <1>8, <1>10, <2>1, <2>2 DEF Arriving
  <1>12. Len(solved) \in Nat /\ Len(solved) <= n
    BY <1>1, LenProperties DEF Solved, n
  <1>13. Solved'
    <2>1. \A j \in 1..Len(solved) : j \in 1..n
      BY <1>5, <1>12
    <2>2. Len(solved) <= n + 1
      BY <1>5, <1>12
    <2>3. QED
      BY <1>1, <1>2, <1>5, <2>1, <2>2 DEF Solved, n
  <1>14. Stuck => Stuck'
    BY <1>2 DEF Stuck
  <1>15. ASSUME Synced(stream, start, N) PROVE Synced(stream2, start2, N2)'
    <2>1. /\ Current \in 1..n + 1 /\ Len(head) \in Nat /\ Len(body) \in Nat
          /\ \A i \in 1..Len(head) : a + i \in 1..N
          /\ \A i \in 1..Len(body) : a + HeadSize + i \in 1..N
          /\ Current = n + 1 => Len(head) = 0 /\ Len(body) = 0
      BY <1>1, <1>15, SyncedIn DEF n
    <2>2. Current' = Current /\ start2[Current] = a
      BY <1>2, <1>3, <2>1 DEF Current
    <2> HIDE DEF a
    <2>3. /\ \A i \in 1..Len(head) : head[i] = stream2[a + i]
          /\ \A i \in 1..Len(body) : body[i] = stream2[a + HeadSize + i]
      BY <1>3, <1>15, <2>1 DEF Synced, a
    <2>4. Current <= Len(framesSent') => Len(body) < Length[framesSent'[Current]]
      <3>1. CASE Current = n + 1
        BY <1>4, <1>5, <2>1, <3>1
      <3>2. CASE Current # n + 1
        <4>1. Current \in 1..n /\ Current <= n
          BY <1>5, <2>1, <3>2
        <4>2. QED
          BY <1>5, <1>15, <4>1 DEF Synced, n
      <3>3. QED
        BY <3>1, <3>2
    <2>5. /\ head \in Seq(Nat) /\ Len(head) <= HeadSize /\ body \in Seq(Nat) /\ bufSize = Len(body)
          /\ body # <<>> => Len(head) = HeadSize
          /\ Cursor(N) = a + Len(head) + Len(body)
      BY <1>15 DEF Synced, a
    <2>6. QED
      BY <1>2, <1>10, <2>2, <2>3, <2>4, <2>5 DEF Synced, HeadSize
  <1>16. Framed(stream2, start2, N2)'
    BY <1>1, <1>3, <1>9, <1>11, <1>13, <1>14, <1>15 DEF Framed
  <1>17. QED
    BY <1>16

(* A step of the loop that leaves the message in work as it is. *)
LEMMA KeepSynced ==
  ASSUME NEW stream, NEW start, NEW N, Synced(stream, start, N),
         head' = head, body' = body, bufSize' = bufSize, solved' = solved, framesSent' = framesSent,
         Cursor(N)' = Cursor(N)
  PROVE  Synced(stream, start, N)'
  BY DEF Synced, Current

(* recv() moves bytes from inbound to recvBuf. *)
LEMMA DispatchFramed ==
  ASSUME NEW stream, NEW start, NEW N, Framed(stream, start, N), NEW k \in 1..RecvSize, dispatch(k)
  PROVE  Framed(stream, start, N)'
  <1>1. /\ Laid(stream, start) /\ Arriving(stream, N) /\ Solved /\ (Stuck \/ Synced(stream, start, N))
        /\ N = start[Len(framesSent) + 1]
    BY DEF Framed
  <1>2. /\ muxPc = "idle" /\ k <= Len(inbound) /\ k <= RecvSize
        /\ muxPc' = "loop" /\ recvOffset' = 0
        /\ recvBuf' = SubSeq(inbound, 1, k) /\ inbound' = SubSeq(inbound, k + 1, Len(inbound))
        /\ framesSent' = framesSent /\ head' = head /\ body' = body /\ bufSize' = bufSize /\ solved' = solved
    BY DEF dispatch
  <1>3. /\ inbound \in Seq(Nat) /\ recvBuf = <<>> /\ recvOffset = 0 /\ Base(N) \in Nat
        /\ \A i \in 1..Len(inbound) : inbound[i] = stream[Base(N) + Len(recvBuf) + i]
    BY <1>1, <1>2 DEF Arriving
  <1>4. Len(recvBuf) = 0 /\ Len(inbound) \in Nat /\ N \in Nat /\ Base(N) + Len(recvBuf) + Len(inbound) = N
    BY <1>1, <1>3, ArrivingIn, EmptySeq
  <1>5. k \in Nat /\ k >= 1 /\ k <= Len(inbound)
    BY <1>2, MessagesAssumption
  <1>6. recvBuf' \in Seq(Nat) /\ Len(recvBuf') = k /\ \A i \in 1..k : recvBuf'[i] = inbound[i]
    <2>1. \A i \in 1..k : inbound[i] \in Nat
      BY <1>3, <1>4, <1>5, LenProperties
    <2>2. /\ SubSeq(inbound, 1, k) \in Seq(Nat) /\ Len(SubSeq(inbound, 1, k)) = IF 1 <= k THEN k - 1 + 1 ELSE 0
          /\ \A i \in 1..k - 1 + 1 : SubSeq(inbound, 1, k)[i] = inbound[1 + i - 1]
      BY <1>5, <2>1, SubSeqProperties
    <2>3. k - 1 + 1 = k /\ \A i \in 1..k : 1 + i - 1 = i
      BY <1>5
    <2>4. QED
      BY <1>2, <1>5, <2>2, <2>3
  <1>7. /\ inbound' \in Seq(Nat) /\ Len(inbound') = Len(inbound) - k
        /\ \A i \in 1..Len(inbound) - k : inbound'[i] = inbound[k + i]
    <2>1. \A i \in k + 1..Len(inbound) : inbound[i] \in Nat
      BY <1>3, <1>4, <1>5, LenProperties
    <2> DEFINE r == SubSeq(inbound, k + 1, Len(inbound))
    <2>2. /\ r \in Seq(Nat) /\ Len(r) = IF k + 1 <= Len(inbound) THEN Len(inbound) - (k + 1) + 1 ELSE 0
          /\ \A i \in 1..Len(inbound) - (k + 1) + 1 : r[i] = inbound[(k + 1) + i - 1]
      <3>1. k + 1 \in Int /\ Len(inbound) \in Int
        BY <1>4, <1>5
      <3>2. QED
        BY <2>1, <3>1, SubSeqProperties
    <2>3. Len(inbound) - (k + 1) + 1 = Len(inbound) - k /\ \A i \in 1..Len(inbound) - k : (k + 1) + i - 1 = k + i
      BY <1>4, <1>5
    <2> HIDE DEF r
    <2>4. Len(r) = Len(inbound) - k
      BY <1>4, <1>5, <2>2
    <2>5. QED
      BY <1>2, <2>2, <2>3, <2>4 DEF r
  <1>8. Base(N)' = Base(N) /\ Cursor(N)' = Cursor(N)
    <2>1. Base(N)' = N - Len(inbound') - Len(recvBuf') /\ Base(N) = N - Len(inbound) - Len(recvBuf)
      BY DEF Base
    <2>2. Base(N)' = Base(N)
      BY <1>4, <1>5, <1>6, <1>7, <2>1
    <2>3. QED
      BY <1>2, <1>3, <1>4, <1>5, <1>6, <2>2 DEF Cursor
  <1>9. Arriving(stream, N)'
    <2>1. ASSUME NEW i \in 1..Len(inbound') PROVE inbound'[i] = stream[Base(N) + Len(recvBuf') + i]
      <3>1. k + i \in 1..Len(inbound) /\ i \in 1..Len(inbound) - k
        BY <1>4, <1>5, <1>7
      <3>2. Base(N) + Len(recvBuf) + (k + i) = Base(N) + Len(recvBuf') + i
        BY <1>3, <1>4, <1>5, <1>6, <3>1
      <3>3. QED
        BY <1>3, <1>7, <3>1, <3>2
    <2>2. ASSUME NEW i \in 1..Len(recvBuf') PROVE recvBuf'[i] = stream[Base(N) + i]
      <3>1. i \in 1..k /\ i \in 1..Len(inbound)
        BY <1>4, <1>5, <1>6
      <3>2. Base(N) + Len(recvBuf) + i = Base(N) + i
        BY <1>3, <1>4, <3>1
      <3>3. QED
        BY <1>3, <1>6, <3>1, <3>2
    <2>3. QED
      BY <1>2, <1>3, <1>4, <1>6, <1>7, <1>8, <2>1, <2>2, SMTT(20) DEF Arriving
  <1>10. Laid(stream, start)' /\ Solved' /\ (Stuck => Stuck')
    BY <1>1, <1>2 DEF Laid, Solved, Stuck
  <1>11. Synced(stream, start, N) => Synced(stream, start, N)'
    BY <1>2, <1>8, KeepSynced
  <1>12. QED
    BY <1>1, <1>2, <1>9, <1>10, <1>11 DEF Framed

(* dispatch() returns when it has come to the end of recvBuf. *)
LEMMA ReturnFramed ==
  ASSUME NEW stream, NEW start, NEW N, Framed(stream, start, N), dispatchReturn
  PROVE  Framed(stream, start, N)'
  <1>1. /\ Laid(stream, start) /\ Arriving(stream, N) /\ Solved /\ (Stuck \/ Synced(stream, start, N))
        /\ N = start[Len(framesSent) + 1]
    BY DEF Framed
  <1>2. /\ recvOffset >= Len(recvBuf) /\ muxPc' = "idle" /\ recvBuf' = <<>> /\ recvOffset' = 0 /\ inbound' = inbound
        /\ framesSent' = framesSent /\ head' = head /\ body' = body /\ bufSize' = bufSize /\ solved' = solved
    BY DEF dispatchReturn
  <1>3. /\ inbound \in Seq(Nat) /\ recvBuf \in Seq(Nat) /\ recvOffset \in Nat /\ Base(N) \in Nat
        /\ \A i \in 1..Len(inbound) : inbound[i] = stream[Base(N) + Len(recvBuf) + i]
    BY <1>1 DEF Arriving
  <1>4. Len(recvBuf) \in Nat /\ Len(inbound) \in Nat /\ N \in Nat /\ Base(N) + Len(recvBuf) + Len(inbound) = N
    BY <1>1, ArrivingIn
  <1>5. Len(recvBuf') = 0 /\ recvBuf' \in Seq(Nat)
    BY <1>2, EmptySeq
  <1>6. Base(N)' = Base(N) + Len(recvBuf) /\ Cursor(N)' = Cursor(N)
    <2>1. Base(N)' = N - Len(inbound') - Len(recvBuf') /\ Base(N) = N - Len(inbound) - Len(recvBuf)
      BY DEF Base
    <2>2. Base(N)' = Base(N) + Len(recvBuf)
      BY <1>2, <1>4, <1>5, <2>1
    <2>3. Cursor(N) = Base(N) + Len(recvBuf)
      BY <1>2, <1>3, <1>4 DEF Cursor
    <2>4. Cursor(N)' = Base(N)'
      BY <1>2, <1>3, <1>4, <1>5, <2>2 DEF Cursor
    <2>5. QED
      BY <2>2, <2>3, <2>4
  <1>7. Arriving(stream, N)'
    <2>1. \A i \in 1..Len(inbound) : Base(N)' + Len(recvBuf') + i = Base(N) + Len(recvBuf) + i
      BY <1>3, <1>4, <1>5, <1>6
    <2>2. Base(N)' \in Nat /\ 1..Len(recvBuf') = {} /\ 0 <= RecvSize
      BY <1>3, <1>4, <1>5, <1>6, MessagesAssumption
    <2>3. QED
      BY <1>2, <1>3, <1>4, <1>5, <2>1, <2>2 DEF Arriving
  <1>8. Laid(stream, start)' /\ Solved' /\ (Stuck => Stuck')
    BY <1>1, <1>2 DEF Laid, Solved, Stuck
  <1>9. Synced(stream, start, N) => Synced(stream, start, N)'
    BY <1>2, <1>6, KeepSynced
  <1>10. QED
    BY <1>1, <1>2, <1>7, <1>8, <1>9 DEF Framed

(* A copy from the receive buffer. *)
LEMMA CopyFacts ==
  ASSUME recvBuf \in Seq(Nat), NEW o \in Nat, NEW n \in Nat, NEW beyond \in {0, Junk}
  PROVE  /\ BytesAt(o, n, beyond) \in Seq(Nat) /\ Len(BytesAt(o, n, beyond)) = n
         /\ \A i \in 1..n : BytesAt(o, n, beyond)[i] =
               IF o + i <= Len(recvBuf) THEN recvBuf[o + i] ELSE IF o + i <= RecvSize THEN 0 ELSE beyond
  <1> DEFINE byte(i) == IF o + i <= Len(recvBuf) THEN recvBuf[o + i] ELSE IF o + i <= RecvSize THEN 0 ELSE beyond
  <1>1. beyond \in Nat
    BY MessagesAssumption
  <1>2. ASSUME NEW i \in 1..n PROVE byte(i) \in Nat
    <2>1. o + i <= Len(recvBuf) => o + i \in 1..Len(recvBuf)
      BY LenProperties
    <2>2. o + i <= Len(recvBuf) => recvBuf[o + i] \in Nat
      BY <2>1, ElementOfSeq
    <2>3. QED
      BY <1>1, <2>2
  <1>3. BytesAt(o, n, beyond) = [i \in 1..n |-> byte(i)]
    BY DEF BytesAt
  <1> HIDE DEF byte
  <1>4. [i \in 1..n |-> byte(i)] \in Seq(Nat) /\ Len([i \in 1..n |-> byte(i)]) = n
    BY <1>2
  <1>5. QED
    BY <1>3, <1>4 DEF byte

(* Where a step of the loop finds dispatch(), while it is in step with the
   stream: in message m, whose payload begins p bytes behind the cursor. *)
LEMMA InMessage ==
  ASSUME NEW stream, NEW start, NEW N, Framed(stream, start, N), Synced(stream, start, N),
         recvOffset < Len(recvBuf)
  PROVE  /\ Current \in 1..Len(framesSent) /\ framesSent[Current] \in Messages
         /\ start[Current] \in Nat /\ Len(head) \in 0..2 /\ Len(body) \in Nat
         /\ Len(body) < Length[framesSent[Current]]
         /\ Base(N) \in Nat /\ Base(N) + recvOffset = start[Current] + Len(head) + Len(body)
         /\ Len(head) # 2 => Len(body) = 0
         /\ start[Current + 1] = start[Current] + 2 + Length[framesSent[Current]]
         /\ stream[start[Current] + 1] = HeadId[framesSent[Current]]
         /\ stream[start[Current] + 2] = Length[framesSent[Current]]
         /\ \A i \in 1..Length[framesSent[Current]] : stream[start[Current] + 2 + i] = framesSent[Current]
  <1>1. Laid(stream, start) /\ Arriving(stream, N) /\ Solved /\ N = start[Len(framesSent) + 1]
    BY DEF Framed
  <1>2. /\ Len(framesSent) \in Nat /\ Current \in 1..Len(framesSent) + 1
        /\ Len(head) \in Nat /\ Len(body) \in Nat /\ start[Current] \in Nat
        /\ Current = Len(framesSent) + 1 => Len(head) = 0 /\ Len(body) = 0
    BY <1>1, SyncedIn
  <1>3. Len(recvBuf) \in Nat /\ Len(inbound) \in Nat /\ N \in Nat /\ Base(N) + Len(recvBuf) + Len(inbound) = N
    BY <1>1, ArrivingIn
  <1>4. recvOffset \in Nat /\ Base(N) \in Nat
    BY <1>1 DEF Arriving
  <1>5. Cursor(N) = Base(N) + recvOffset
    BY <1>3, <1>4 DEF Cursor
  <1>6. Cursor(N) = start[Current] + Len(head) + Len(body) /\ Len(head) <= 2
    BY DEF Synced, HeadSize
  <1>7. Current # Len(framesSent) + 1
    BY <1>1, <1>2, <1>3, <1>4, <1>5, <1>6
  <1>8. Current \in 1..Len(framesSent) /\ Current <= Len(framesSent)
    BY <1>2, <1>7
  <1>9. framesSent[Current] \in Messages
    BY <1>1, <1>8, ElementOfSeq DEF Laid
  <1>10. Len(body) < Length[framesSent[Current]]
    BY <1>8 DEF Synced
  <1>11. Len(head) # 2 => Len(body) = 0
    <2>1. body # <<>> => Len(head) = 2
      BY DEF Synced, HeadSize
    <2>2. QED
      BY <2>1, EmptySeq
  <1>12. Len(head) \in 0..2
    <2>1. Len(head) \in Nat /\ Len(head) <= 2
      BY <1>2, <1>6
    <2>2. QED
      BY <2>1, SMTT(20)
  <1>13. /\ start[Current + 1] = start[Current] + 2 + Length[framesSent[Current]]
         /\ stream[start[Current] + 1] = HeadId[framesSent[Current]]
         /\ stream[start[Current] + 2] = Length[framesSent[Current]]
         /\ \A i \in 1..Length[framesSent[Current]] : stream[start[Current] + 2 + i] = framesSent[Current]
    BY <1>1, <1>8 DEF Laid, HeadSize
  <1>14. Base(N) + recvOffset = start[Current] + Len(head) + Len(body)
    BY <1>5, <1>6
  <1>15. QED
    BY <1>2, <1>4, <1>8, <1>9, <1>10, <1>11, <1>12, <1>13, <1>14

(* A header that is cut short. *)
LEMMA KeepHeadFramed ==
  ASSUME NEW stream, NEW start, NEW N, Framed(stream, start, N), ~overread',
         NEW beyond \in {0, Junk}, keepHead(beyond)
  PROVE  Framed(stream, start, N)'
  <1> DEFINE a == start[Current]
             copy == BytesAt(recvOffset, Len(recvBuf), beyond)
  <1>1. /\ Laid(stream, start) /\ Arriving(stream, N) /\ Solved /\ (Stuck \/ Synced(stream, start, N))
        /\ N = start[Len(framesSent) + 1]
    BY DEF Framed
  <1>2. /\ recvOffset < Len(recvBuf) /\ Len(recvBuf) < 2 - Len(head) /\ ~(recvOffset > 0)
        /\ head' = head \o copy /\ recvOffset' = recvOffset + Len(recvBuf) /\ muxPc' \in {"loop", "dead"}
        /\ framesSent' = framesSent /\ inbound' = inbound /\ recvBuf' = recvBuf /\ body' = body
        /\ bufSize' = bufSize /\ solved' = solved
    BY DEF keepHead, HeadStaysOpen, HeadNeeds, HeadSize
  <1>3. /\ recvBuf \in Seq(Nat) /\ recvOffset \in Nat /\ Base(N) \in Nat
        /\ \A i \in 1..Len(recvBuf) : recvBuf[i] = stream[Base(N) + i]
    BY <1>1 DEF Arriving
  <1>4. Len(recvBuf) \in Nat
    BY <1>3, LenProperties
  <1>5. Synced(stream, start, N)
    <2>1. ~Stuck
      <3>1. Len(recvBuf) < 2 - Len(head)
        BY <1>2
      <3>2. Len(head) # 2
        BY <1>4, <3>1
      <3>3. QED
        BY <3>2 DEF Stuck, HeadSize
    <2>2. QED
      BY <1>1, <2>1
  <1>6. /\ Len(head) \in 0..2 /\ Len(body) \in Nat /\ Base(N) + recvOffset = a + Len(head) + Len(body)
        /\ Len(head) # 2 => Len(body) = 0
        /\ a \in Nat
    BY <1>2, <1>5, InMessage
  <1>7. /\ recvOffset = 0 /\ Len(recvBuf) = 1 /\ Len(head) = 0 /\ Len(body) = 0 /\ Base(N) = a
    <2> HIDE DEF a
    <2>1. recvOffset \in Nat /\ recvOffset < Len(recvBuf) /\ Len(recvBuf) < 2 - Len(head) /\ ~(recvOffset > 0)
      BY <1>2, <1>3
    <2>2. recvOffset = 0
      BY <2>1
    <2>3. Len(head) \in 0..2
      BY <1>6
    <2>4. Len(recvBuf) = 1 /\ Len(head) = 0
      <3> DEFINE x == Len(head)
                 y == Len(recvBuf)
      <3>1. x \in 0..2 /\ y \in Nat /\ 0 < y /\ y < 2 - x
        BY <1>4, <2>1, <2>2, <2>3
      <3> HIDE DEF x, y
      <3>2. x = 0 /\ y = 1
        BY <3>1
      <3>3. QED
        BY <3>2 DEF x, y
    <2>5. Len(body) = 0 /\ Base(N) + 0 = a + 0 + 0
      BY <1>6, <2>2, <2>4
    <2>6. Base(N) \in Nat /\ a \in Nat
      BY <1>3, <1>6
    <2>7. QED
      BY <2>2, <2>4, <2>5, <2>6
  <1>8. head \in Seq(Nat) /\ body \in Seq(Nat) /\ bufSize = Len(body)
    BY <1>5 DEF Synced
  <1>9. copy \in Seq(Nat) /\ Len(copy) = 1 /\ copy[1] = recvBuf[1]
    <2>1. /\ copy \in Seq(Nat) /\ Len(copy) = Len(recvBuf)
          /\ \A i \in 1..Len(recvBuf) : copy[i] =
                IF recvOffset + i <= Len(recvBuf) THEN recvBuf[recvOffset + i]
                ELSE IF recvOffset + i <= RecvSize THEN 0 ELSE beyond
      BY <1>3, <1>4, CopyFacts
    <2> HIDE DEF copy
    <2>2. 1 \in 1..Len(recvBuf) /\ recvOffset + 1 = 1 /\ recvOffset + 1 <= Len(recvBuf)
      BY <1>7
    <2>3. copy[1] = recvBuf[1]
      BY <2>1, <2>2
    <2>4. QED
      BY <1>7, <2>1, <2>3
  <1> HIDE DEF copy
  <1>10. head' \in Seq(Nat) /\ Len(head') = 1 /\ head'[1] = recvBuf[1]
    <2>1. /\ head \o copy \in Seq(Nat) /\ Len(head \o copy) = Len(head) + Len(copy)
          /\ \A i \in 1..Len(head) + Len(copy) : (head \o copy)[i] = IF i <= Len(head) THEN head[i] ELSE copy[i - Len(head)]
      BY <1>8, <1>9, ConcatProperties
    <2>2. QED
      BY <1>2, <1>7, <1>9, <2>1
  <1>11. Base(N)' = Base(N) /\ Cursor(N)' = a + 1
    <2>1. Base(N)' = Base(N)
      BY <1>2 DEF Base
    <2>2. QED
      BY <1>2, <1>7, <2>1 DEF Cursor
  <1>12. head'[1] = stream[a + 1]
    BY <1>3, <1>7, <1>10
  <1>13. Current' = Current
    BY <1>2 DEF Current
  <1>14. Current <= Len(framesSent) => Len(body) < Length[framesSent[Current]]
    BY <1>5 DEF Synced
  <1>15. body = <<>>
    BY <1>7, <1>8, EmptySeq
  <1>16. Synced(stream, start, N)'
    <2>1. \A i \in 1..Len(head') : head'[i] = stream[a + i]
      BY <1>10, <1>12
    <2>2. Cursor(N)' = a + Len(head') + Len(body')
      BY <1>2, <1>6, <1>7, <1>10, <1>11
    <2>3. 1..Len(body') = {}
      BY <1>2, <1>7
    <2>4. body' = <<>> /\ Len(head') <= 2 /\ bufSize' = Len(body') /\ body' \in Seq(Nat)
      BY <1>2, <1>8, <1>10, <1>15
    <2>5. start[Current'] = a
      BY <1>13
    <2> HIDE DEF a
    <2>6. QED
      BY <1>2, <1>10, <1>13, <1>14, <2>1, <2>2, <2>3, <2>4, <2>5 DEF Synced, HeadSize
  <1>17. Arriving(stream, N)'
    <2>1. recvOffset' \in Nat
      BY <1>2, <1>7
    <2>2. QED
      BY <1>1, <1>2, <1>11, <2>1 DEF Arriving
  <1>18. Laid(stream, start)' /\ Solved'
    BY <1>1, <1>2 DEF Laid, Solved
  <1>19. QED
    BY <1>1, <1>2, <1>16, <1>17, <1>18 DEF Framed

(* Nothing is added to a header that is complete. *)
LEMMA StuckHead ==
  ASSUME recvBuf \in Seq(Nat), recvOffset \in Nat, Stuck, NEW beyond \in {0, Junk}
  PROVE  FullHead(beyond) = head /\ HeadNeeds = 0
  <1>1. head \in Seq(Nat) /\ Len(head) = 2
    BY DEF Stuck, HeadSize
  <1>2. HeadNeeds = 0
    BY <1>1 DEF HeadNeeds, HeadSize
  <1> DEFINE copy == BytesAt(recvOffset, 0, beyond)
  <1>3. copy \in Seq(Nat) /\ Len(copy) = 0
    BY CopyFacts
  <1>4. copy = <<>>
    BY <1>3, EmptySeq
  <1>5. FullHead(beyond) = head \o copy
    BY <1>2 DEF FullHead
  <1> HIDE DEF copy
  <1>6. head \o <<>> = head
    BY <1>1, ConcatEmptySeq
  <1>7. QED
    BY <1>2, <1>4, <1>5, <1>6

(* A header that is all received is that of the message dispatch() has come
   to, and the rest of the payload is what follows it. *)
LEMMA SyncedHead ==
  ASSUME NEW stream, NEW start, NEW N, Framed(stream, start, N), Synced(stream, start, N),
         recvOffset < Len(recvBuf), ~HeadOverread, NEW beyond \in {0, Junk}
  PROVE  /\ FullHead(beyond) \in Seq(Nat) /\ Len(FullHead(beyond)) = 2
         /\ FullHead(beyond)[1] = HeadId[framesSent[Current]]
         /\ FullHead(beyond)[2] = Length[framesSent[Current]]
         /\ HeadNeeds \in Nat /\ recvOffset + HeadNeeds <= Len(recvBuf)
         /\ Base(N) + recvOffset + HeadNeeds = start[Current] + 2 + Len(body)
  <1> DEFINE a == start[Current]
             h == Len(head)
             o == recvOffset
             b == Base(N)
             copy == BytesAt(recvOffset, HeadNeeds, beyond)
  <1>1. /\ Arriving(stream, N) /\ head \in Seq(Nat) /\ \A i \in 1..h : head[i] = stream[a + i]
    BY DEF Framed, Synced
  <1>2. /\ recvBuf \in Seq(Nat) /\ o \in Nat /\ b \in Nat
        /\ \A i \in 1..Len(recvBuf) : recvBuf[i] = stream[b + i]
    BY <1>1 DEF Arriving
  <1>3. Len(recvBuf) \in Nat
    BY <1>2, LenProperties
  <1>4. /\ h \in 0..2 /\ Len(body) \in Nat /\ b + o = a + h + Len(body)
        /\ h # 2 => Len(body) = 0
        /\ a \in Nat
        /\ stream[a + 1] = HeadId[framesSent[Current]]
        /\ stream[a + 2] = Length[framesSent[Current]]
    BY InMessage
  <1>5. HeadNeeds = 2 - h /\ ~(o + HeadNeeds > Len(recvBuf))
    BY DEF HeadNeeds, HeadSize, HeadOverread
  <1> HIDE DEF a, h, o, b
  <1>6. HeadNeeds \in Nat /\ o + HeadNeeds <= Len(recvBuf) /\ b + o + HeadNeeds = a + 2 + Len(body)
    BY <1>2, <1>3, <1>4, <1>5, SMTT(20)
  <1>7. /\ copy \in Seq(Nat) /\ Len(copy) = HeadNeeds
        /\ \A i \in 1..HeadNeeds : copy[i] = IF o + i <= Len(recvBuf) THEN recvBuf[o + i]
                                             ELSE IF o + i <= RecvSize THEN 0 ELSE beyond
    BY <1>2, <1>6, CopyFacts, ZenonT(30) DEF o
  <1>8. ASSUME NEW i \in 1..HeadNeeds PROVE copy[i] = stream[a + h + i]
    <2>1. h # 2
      BY <1>4, <1>5
    <2>2. o + i \in 1..Len(recvBuf) /\ o + i <= Len(recvBuf) /\ b + (o + i) = a + h + i
      <3> DEFINE r == Len(recvBuf)
                 u == HeadNeeds
      <3>1. o \in Nat /\ b \in Nat /\ a \in Nat /\ h \in 0..2 /\ r \in Nat /\ u \in Nat /\ i \in 1..u
        BY <1>2, <1>3, <1>4, <1>6
      <3>2. b + o = a + h /\ o + u <= r
        BY <1>2, <1>4, <1>6, <2>1
      <3> HIDE DEF r, u
      <3>3. o + i \in 1..r /\ o + i <= r /\ b + (o + i) = a + h + i
        BY <3>1, <3>2
      <3>4. QED
        BY <3>3 DEF r
    <2> HIDE DEF copy
    <2>3. QED
      BY <1>2, <1>7, <2>2
  <1> HIDE DEF copy
  <1>9. FullHead(beyond) = head \o copy
    BY DEF FullHead, copy
  <1>10. /\ head \o copy \in Seq(Nat) /\ Len(head \o copy) = h + HeadNeeds
         /\ \A i \in 1..h + HeadNeeds : (head \o copy)[i] = IF i <= h THEN head[i] ELSE copy[i - h]
    BY <1>1, <1>7, ConcatProperties DEF h
  <1>11. h + HeadNeeds = 2
    BY <1>4, <1>5
  <1>12. ASSUME NEW i \in 1..2 PROVE (head \o copy)[i] = stream[a + i]
    <2>1. (head \o copy)[i] = IF i <= h THEN head[i] ELSE copy[i - h]
      BY <1>10, <1>11
    <2>2. CASE i <= h
      <3>1. i \in 1..h
        BY <1>4, <2>2
      <3>2. QED
        BY <1>1, <2>1, <2>2, <3>1 DEF a, h
    <2>3. CASE ~(i <= h)
      <3>1. i - h \in 1..HeadNeeds /\ a + h + (i - h) = a + i
        BY <1>4, <1>5, <2>3
      <3>2. QED
        BY <1>8, <2>1, <2>3, <3>1
    <2>4. QED
      BY <2>2, <2>3
  <1>13. (head \o copy)[1] = stream[a + 1] /\ (head \o copy)[2] = stream[a + 2]
    <2>1. 1 \in 1..2 /\ 2 \in 1..2
      OBVIOUS
    <2>2. QED
      BY ONLY <1>12, <2>1
  <1>14. QED
    BY <1>4, <1>6, <1>9, <1>10, <1>11, <1>13 DEF a, o, b

(* A message of the user, found once or again. *)
LEMMA PassFramed ==
  ASSUME NEW stream, NEW start, NEW N, Framed(stream, start, N), ~overread',
         NEW beyond \in {0, Junk}, passToUser(beyond)
  PROVE  Framed(stream, start, N)'
  <1>1. /\ Laid(stream, start) /\ Arriving(stream, N) /\ Solved /\ (Stuck \/ Synced(stream, start, N))
        /\ N = start[Len(framesSent) + 1]
    BY DEF Framed
  <1>2. /\ recvOffset < Len(recvBuf) /\ FullHead(beyond)[1] # 0 /\ ~HeadOverread
        /\ head' = FullHead(beyond) /\ recvOffset' = recvOffset + HeadNeeds /\ muxPc' \in {"loop", "dead"}
        /\ framesSent' = framesSent /\ inbound' = inbound /\ recvBuf' = recvBuf /\ body' = body
        /\ bufSize' = bufSize /\ solved' = solved
    BY DEF passToUser, HeadFilled
  <1>3. recvBuf \in Seq(Nat) /\ recvOffset \in Nat
    BY <1>1 DEF Arriving
  <1>4. head' \in Seq(Nat) /\ Len(head') = 2 /\ head'[1] # 0 /\ bufSize \in Nat /\ HeadNeeds \in Nat
    <2>1. CASE Stuck
      <3>1. FullHead(beyond) = head /\ HeadNeeds = 0
        BY <1>3, <2>1, StuckHead
      <3>2. QED
        BY <1>2, <2>1, <3>1 DEF Stuck, HeadSize
    <2>2. CASE Synced(stream, start, N)
      <3>1. FullHead(beyond) \in Seq(Nat) /\ Len(FullHead(beyond)) = 2 /\ HeadNeeds \in Nat
        BY <1>2, <2>2, SyncedHead
      <3>2. bufSize \in Nat
        BY <2>2, LenProperties DEF Synced
      <3>3. QED
        BY <1>2, <3>1, <3>2
    <2>3. QED
      BY <1>1, <2>1, <2>2
  <1>5. Stuck'
    BY <1>2, <1>4 DEF Stuck, HeadSize
  <1>6. Arriving(stream, N)'
    <2>1. recvOffset' \in Nat
      BY <1>2, <1>3, <1>4
    <2>2. Base(N)' = Base(N)
      BY <1>2 DEF Base
    <2>3. QED
      BY <1>1, <1>2, <2>1, <2>2 DEF Arriving
  <1>7. Laid(stream, start)' /\ Solved'
    BY <1>1, <1>2 DEF Laid, Solved
  <1>8. QED
    BY <1>1, <1>2, <1>5, <1>6, <1>7 DEF Framed

(* strlen() of bytes whose first zero, if any, comes after L of them. *)
LEMMA UpToZeroIs ==
  ASSUME NEW s \in Seq(Nat), NEW L \in 0..Len(s), \A i \in 1..L : s[i] # 0, L < Len(s) => s[L + 1] = 0
  PROVE  /\ UpToZero(s) \in Seq(Nat) /\ Len(UpToZero(s)) = L
         /\ \A i \in 1..L : UpToZero(s)[i] = s[i]
  <1> DEFINE P(n) == (\A i \in 1..n : s[i] # 0) /\ (n < Len(s) => s[n + 1] = 0)
             c == CHOOSE n \in 0..Len(s) : P(n)
  <1>1. Len(s) \in Nat
    BY LenProperties
  <1>2. P(L)
    OBVIOUS
  <1>3. c \in 0..Len(s) /\ P(c)
    BY <1>2
  <1>4. c = L
    <2> HIDE DEF c
    <2>1. c < L => c < Len(s) /\ c + 1 \in 1..L
      BY <1>1, <1>3
    <2>2. L < c => L < Len(s) /\ L + 1 \in 1..c
      BY <1>1, <1>3
    <2>3. ~(c < L) /\ ~(L < c)
      BY <1>2, <1>3, <2>1, <2>2
    <2>4. QED
      BY <1>1, <1>3, <2>3
  <1>5. UpToZero(s) = SubSeq(s, 1, c)
    BY DEF UpToZero
  <1> HIDE DEF c, P
  <1>6. \A i \in 1..L : s[i] \in Nat
    BY <1>1, ElementOfSeq
  <1> DEFINE t == SubSeq(s, 1, L)
  <1>7. /\ t \in Seq(Nat) /\ Len(t) = IF 1 <= L THEN L - 1 + 1 ELSE 0
        /\ \A i \in 1..L - 1 + 1 : t[i] = s[1 + i - 1]
    <2>1. 1 \in Int /\ L \in Int
      BY <1>1
    <2>2. QED
      BY <1>6, <2>1, SubSeqProperties
  <1>8. UpToZero(s) = t
    BY <1>4, <1>5
  <1> HIDE DEF t
  <1>9. L - 1 + 1 = L /\ (1 <= L \/ L = 0) /\ \A i \in 1..L : 1 + i - 1 = i
    BY <1>1
  <1>10. QED
    BY <1>7, <1>8, <1>9

(* The payload that dispatch() finds: L bytes of the message; all of it, or as
   much as is received. *)
LEMMA PayloadFacts ==
  ASSUME NEW stream, NEW start, NEW N, Framed(stream, start, N), Synced(stream, start, N),
         recvOffset < Len(recvBuf), ~HeadOverread, NEW beyond \in {0, Junk},
         NEW n, n = Length[framesSent[Current]] - Len(body), recvOffset + HeadNeeds + n <= RecvSize
  PROVE  \E L \in Nat :
            /\ L <= Length[framesSent[Current]]
            /\ PayloadSoFar(n, beyond) \in Seq(Nat) /\ Len(PayloadSoFar(n, beyond)) = L
            /\ \A i \in 1..L : PayloadSoFar(n, beyond)[i] = framesSent[Current]
            /\ L = Length[framesSent[Current]] => recvOffset + HeadNeeds + n <= Len(recvBuf)
            /\ L < Length[framesSent[Current]] => /\ recvOffset + HeadNeeds + n > Len(recvBuf)
                                                  /\ Base(N) + Len(recvBuf) = start[Current] + 2 + L
  <1> DEFINE m == framesSent[Current]
             a == start[Current]
             q == Len(body)
             l == Length[m]
             o == recvOffset + HeadNeeds
             b == Base(N)
             r == Len(recvBuf)
             copy == BytesAt(o, n, beyond)
             s == body \o copy
  <1>1. /\ Arriving(stream, N) /\ body \in Seq(Nat)
        /\ \A i \in 1..q : body[i] = stream[a + 2 + i]
    BY DEF Framed, Synced, HeadSize
  <1>2. /\ recvBuf \in Seq(Nat) /\ recvOffset \in Nat /\ b \in Nat
        /\ \A i \in 1..r : recvBuf[i] = stream[b + i]
    BY <1>1 DEF Arriving
  <1>3. /\ m \in Messages /\ a \in Nat /\ q \in Nat /\ q < l
        /\ \A i \in 1..l : stream[a + 2 + i] = m
    BY InMessage
  <1>4. HeadNeeds \in Nat /\ o <= r /\ b + o = a + 2 + q
    <2>1. HeadNeeds \in Nat /\ recvOffset + HeadNeeds <= r /\ b + recvOffset + HeadNeeds = a + 2 + q
      BY SyncedHead
    <2>2. b + recvOffset + HeadNeeds = b + (recvOffset + HeadNeeds)
      BY <1>2, <2>1
    <2>3. QED
      BY <2>1, <2>2
  <1>5. m \in Nat /\ m # 0 /\ l \in Nat
    BY <1>3, FrameFacts
  <1>6. r \in Nat
    BY <1>2, LenProperties
  <1>7. o \in Nat /\ n = l - q /\ o + n <= RecvSize
    BY <1>2, <1>4
  <1> HIDE DEF m, a, q, l, o, b, r
  <1>8. n \in Nat /\ n >= 1
    BY <1>3, <1>5, <1>7
  <1>nums. /\ a \in Nat /\ b \in Nat /\ o \in Nat /\ q \in Nat /\ l \in Nat /\ r \in Nat /\ n \in Nat
           /\ q < l /\ o <= r /\ b + o = a + 2 + q /\ q + n = l /\ n >= 1
    <2>1. q \in Nat /\ l \in Nat /\ n = l - q
      BY <1>3, <1>5, <1>7
    <2>2. q + n = l
      BY ONLY <2>1
    <2>3. QED
      BY <1>2, <1>3, <1>4, <1>5, <1>6, <1>7, <1>8, <2>2
  <1>9. /\ copy \in Seq(Nat) /\ Len(copy) = n
        /\ \A i \in 1..n : copy[i] = IF o + i <= r THEN recvBuf[o + i]
                                     ELSE IF o + i <= RecvSize THEN 0 ELSE beyond
    BY <1>2, <1>7, <1>8, CopyFacts, ZenonT(30) DEF r
  <1> HIDE DEF copy
  <1>10. /\ s \in Seq(Nat) /\ Len(s) = l
         /\ \A i \in 1..l : s[i] = IF i <= q THEN body[i] ELSE copy[i - q]
    <2>1. /\ body \o copy \in Seq(Nat) /\ Len(body \o copy) = q + n
          /\ \A i \in 1..q + n : (body \o copy)[i] = IF i <= q THEN body[i] ELSE copy[i - q]
      <3>1. /\ body \o copy \in Seq(Nat) /\ Len(body \o copy) = Len(body) + Len(copy)
            /\ \A i \in 1..Len(body) + Len(copy) :
                  (body \o copy)[i] = IF i <= Len(body) THEN body[i] ELSE copy[i - Len(body)]
        BY <1>1, <1>9, ConcatProperties
      <3>2. Len(body) = q /\ Len(copy) = n
        BY <1>9 DEF q
      <3>3. QED
        BY <3>1, <3>2
    <2>2. q + n = l
      BY <1>nums
    <2>3. QED
      BY <2>1, <2>2
  <1>11. PayloadSoFar(n, beyond) = UpToZero(s)
    BY DEF PayloadSoFar, copy, o
  <1> HIDE DEF s
  <1> DEFINE L == IF o + n <= r THEN l ELSE q + (r - o)
  <1>12. L \in 0..l
    BY <1>3, <1>4, <1>5, <1>6, <1>7, <1>8
  <1>13. /\ L = l => o + n <= r
         /\ L < l => o + n > r /\ b + r = a + 2 + L
    BY ONLY <1>nums
  <1>14. ASSUME NEW i \in 1..L PROVE s[i] = m
    <2>0. i \in 1..l
      BY <1>12, <1>5
    <2>1. stream[a + 2 + i] = m
      BY <1>3, <2>0
    <2>2. CASE i <= q
      <3>1. i \in 1..q
        BY <1>3, <2>0, <2>2
      <3>2. body[i] = stream[a + 2 + i]
        BY <1>1, <3>1 DEF a, q
      <3>3. QED
        BY <1>10, <2>0, <2>1, <2>2, <3>2
    <2>3. CASE ~(i <= q)
      <3>1. i - q \in 1..n /\ o + (i - q) \in 1..r /\ o + (i - q) <= r /\ b + (o + (i - q)) = a + 2 + i
        <4>1. i \in Nat /\ i > q /\ i <= l
          BY <1>nums, <2>0, <2>3
        <4>2. ~(o + n <= r) => i <= q + (r - o)
          BY <1>nums, <1>12
        <4>3. QED
          BY ONLY <1>nums, <4>1, <4>2
      <3> HIDE DEF L
      <3>2. copy[i - q] = recvBuf[o + (i - q)]
        BY <1>9, <3>1
      <3>3. recvBuf[o + (i - q)] = stream[a + 2 + i]
        BY <1>2, <3>1
      <3>4. QED
        BY <1>10, <2>0, <2>1, <2>3, <3>2, <3>3
    <2>4. QED
      BY <2>2, <2>3
  <1>15. ASSUME L < l PROVE s[L + 1] = 0
    <2>1. L + 1 \in 1..l /\ ~(L + 1 <= q) /\ (L + 1) - q \in 1..n /\ ~(o + ((L + 1) - q) <= r)
          /\ o + ((L + 1) - q) <= o + n
      BY <1>3, <1>4, <1>5, <1>6, <1>7, <1>8, <1>12, <1>15
    <2> HIDE DEF L
    <2>2. o + ((L + 1) - q) <= RecvSize
      <3> DEFINE z == o + ((L + 1) - q)
      <3>1. z \in Int /\ o + n \in Int /\ RecvSize \in Int /\ z <= o + n /\ o + n <= RecvSize
        BY <1>3, <1>7, <1>8, <1>12, <2>1, MessagesAssumption, SMTT(20)
      <3> HIDE DEF z
      <3>2. z <= RecvSize
        BY <3>1
      <3>3. QED
        BY <3>2 DEF z
    <2>3. copy[(L + 1) - q] = 0
      BY <1>9, <2>1, <2>2
    <2>4. QED
      BY <1>10, <2>1, <2>3
  <1> HIDE DEF L
  <1>16. L \in 0..Len(s) /\ (\A i \in 1..L : s[i] # 0) /\ (L < Len(s) => s[L + 1] = 0)
    BY <1>5, <1>10, <1>12, <1>14, <1>15
  <1>17. /\ UpToZero(s) \in Seq(Nat) /\ Len(UpToZero(s)) = L
         /\ \A i \in 1..L : UpToZero(s)[i] = s[i]
    BY <1>10, <1>16, UpToZeroIs
  <1>18. /\ L \in Nat /\ L <= l
         /\ UpToZero(s) \in Seq(Nat) /\ Len(UpToZero(s)) = L
         /\ \A i \in 1..L : UpToZero(s)[i] = m
         /\ L = l => o + n <= r
         /\ L < l => o + n > r /\ b + r = a + 2 + L
    <2>1. L \in Nat /\ L <= l
      BY <1>5, <1>12
    <2>2. QED
      BY <1>13, <1>14, <1>17, <2>1
  <1>19. QED
    BY <1>11, <1>18 DEF m, l, o, r, b, a

(* solve() reads a payload as the message that was sent. *)
LEMMA MessageIs ==
  ASSUME NEW m \in Messages, NEW s \in Seq(Nat), Len(s) = Length[m], \A i \in 1..Length[m] : s[i] = m
  PROVE  MessageOf(s) = m
  <1>1. Length[m] \in Nat \ {0} /\ m \in Nat
    BY FrameFacts
  <1>2. Payload(m) \in Seq(Nat) /\ Len(Payload(m)) = Length[m] /\ \A i \in 1..Length[m] : Payload(m)[i] = m
    BY <1>1 DEF Payload
  <1>3. s = Payload(m)
    BY <1>2, SeqEqual
  <1>4. ASSUME NEW k \in Messages, s = Payload(k) PROVE k = m
    <2>1. Length[k] \in Nat \ {0}
      BY FrameFacts
    <2>2. Payload(k) = [i \in 1..Length[k] |-> k]
      BY DEF Payload
    <2>3. 1 \in 1..Length[k] /\ 1 \in 1..Length[m]
      BY <1>1, <2>1
    <2>4. Payload(k)[1] = k
      BY <2>2, <2>3
    <2>5. QED
      BY <1>4, <2>3, <2>4
  <1>5. QED
    BY <1>3, <1>4 DEF MessageOf

(* What a step of fillPayload does, with the length and the payload named. *)
LEMMA FillCases ==
  ASSUME NEW beyond \in {0, Junk}, NEW extra \in {0, 1}, fillPayload(beyond, extra),
         NEW len, len = FullHead(beyond)[2], NEW n, n = len - bufSize,
         NEW payload, payload = PayloadSoFar(n, beyond), ~(bufSize > len)
  PROVE  /\ recvOffset' = recvOffset + HeadNeeds + n /\ muxPc' = muxPc
         /\ Len(payload) = len /\ len > 0 /\ extra = 1 /\ Len(payload) + 1 # len =>
              /\ head' = FullHead(beyond) /\ body' = payload /\ bufSize' = Len(payload) + 1 /\ solved' = solved
         /\ Len(payload) = len /\ Len(payload) + 0 = len /\ extra = 0 =>
              /\ solved' = Append(solved, MessageOf(payload))
              /\ head' = <<>> /\ body' = <<>> /\ bufSize' = 0
         /\ Len(payload) # len /\ Len(payload) + 0 # len =>
              /\ head' = FullHead(beyond) /\ body' = payload /\ bufSize' = Len(payload) + 0 /\ solved' = solved
  BY DEF fillPayload, solve

(* A part of a payload, or the end of one. *)
LEMMA FillFramed ==
  ASSUME NEW stream, NEW start, NEW N, Framed(stream, start, N), ~overread',
         NEW beyond \in {0, Junk}, NEW extra \in {0, 1}, fillPayload(beyond, extra)
  PROVE  Framed(stream, start, N)'
  <1>1. /\ Laid(stream, start) /\ Arriving(stream, N) /\ Solved /\ (Stuck \/ Synced(stream, start, N))
        /\ N = start[Len(framesSent) + 1]
    BY DEF Framed
  <1>2. /\ recvOffset < Len(recvBuf) /\ FullHead(beyond)[1] = 0 /\ ~HeadOverread /\ muxPc = "loop"
        /\ ~(recvOffset + HeadNeeds + (FullHead(beyond)[2] - bufSize) > RecvSize)
        /\ framesSent' = framesSent /\ inbound' = inbound /\ recvBuf' = recvBuf
    BY DEF fillPayload, HeadFilled
  <1>3. /\ recvBuf \in Seq(Nat) /\ recvOffset \in Nat /\ Len(recvBuf) \in Nat
    BY <1>1, LenProperties DEF Arriving
  <1>4. Base(N)' = Base(N) /\ Laid(stream, start)'
    BY <1>1, <1>2 DEF Base, Laid
  <1>5. CASE Stuck
    <2>1. FullHead(beyond) = head
      BY <1>3, <1>5, StuckHead
    <2>2. bufSize > head[2]
      BY <1>2, <1>5, <2>1 DEF Stuck
    <2>3. /\ muxPc' = "dead" /\ head' = head /\ recvOffset' = recvOffset /\ body' = body /\ bufSize' = bufSize
          /\ solved' = solved
      BY <2>1, <2>2 DEF fillPayload
    <2>4. Stuck'
      BY <1>5, <2>3 DEF Stuck
    <2>5. Arriving(stream, N)'
      BY <1>1, <1>2, <1>4, <2>3 DEF Arriving
    <2>6. Solved'
      BY <1>1, <1>2, <2>3 DEF Solved
    <2>7. QED
      BY <1>1, <1>2, <1>4, <2>4, <2>5, <2>6 DEF Framed
  <1>6. CASE Synced(stream, start, N)
    <2> DEFINE m == framesSent[Current]
               a == start[Current]
               l == Length[m]
               q == Len(body)
               b == Base(N)
               r == Len(recvBuf)
               o == recvOffset + HeadNeeds
               n == l - q
               payload == PayloadSoFar(n, beyond)
    <2>1. /\ Current \in 1..Len(framesSent) /\ m \in Messages /\ a \in Nat /\ q \in Nat /\ q < l /\ b \in Nat
          /\ start[Current + 1] = a + 2 + l
          /\ stream[a + 1] = HeadId[m] /\ stream[a + 2] = l
          /\ \A i \in 1..l : stream[a + 2 + i] = m
      BY <1>2, <1>6, InMessage
    <2>2. /\ FullHead(beyond) \in Seq(Nat) /\ Len(FullHead(beyond)) = 2
          /\ FullHead(beyond)[1] = HeadId[m] /\ FullHead(beyond)[2] = l
          /\ HeadNeeds \in Nat /\ b + recvOffset + HeadNeeds = a + 2 + q
      BY <1>2, <1>6, SyncedHead
    <2>3. bufSize = q
      BY <1>6 DEF Synced
    <2>4. m \in Nat /\ l \in Nat \ {0}
      BY <2>1, FrameFacts
    <2>5. ~(o + n > RecvSize)
      BY <1>2, <2>2, <2>3
    <2>6. recvOffset + HeadNeeds + n <= RecvSize
      <3>1. o + n \in Int /\ RecvSize \in Int
        <4>1. o \in Nat
          BY <1>3, <2>2
        <4> HIDE DEF o, l, q
        <4>2. l \in Nat /\ q \in Nat
          BY <2>1, <2>4
        <4>3. RecvSize \in Int
          BY MessagesAssumption
        <4>4. QED
          BY ONLY <4>1, <4>2, <4>3
      <3> HIDE DEF o, n
      <3>2. o + n <= RecvSize
        BY <2>5, <3>1
      <3>3. QED
        BY <3>2 DEF o, n
    <2>7. PICK L \in Nat :
            /\ L <= l /\ payload \in Seq(Nat) /\ Len(payload) = L
            /\ \A i \in 1..L : payload[i] = m
            /\ L = l => o + n <= r
            /\ L < l => o + n > r /\ b + r = a + 2 + L
      BY <1>2, <1>6, <2>6, PayloadFacts, SMTT(20)
    <2>8. Len(framesSent) \in Nat /\ Len(solved) \in Nat /\ Current = Len(solved) + 1 /\ solved \in Seq(Nat)
      BY <1>1, LenProperties DEF Laid, Solved, Current
    <2> HIDE DEF m, a, l, q, b, r, o
    <2>9. /\ n \in Nat /\ n = l - q /\ q + n = l /\ o \in Nat /\ r \in Nat /\ b + o = a + 2 + q
      <3>1. q \in Nat /\ l \in Nat /\ q < l
        BY <2>1, <2>4
      <3>2. n \in Nat /\ q + n = l
        BY ONLY <3>1
      <3>3. b + recvOffset + HeadNeeds = b + (recvOffset + HeadNeeds)
        BY <1>3, <2>1, <2>2
      <3>4. QED
        BY <1>3, <2>2, <3>2, <3>3 DEF o, r
    <2>10. ~(bufSize > l) /\ n = l - bufSize
      BY <2>1, <2>3, <2>4
    <2> HIDE DEF payload, n
    <2>11. payload = PayloadSoFar(n, beyond)
      BY DEF payload
    <2>12. /\ recvOffset' = o + n /\ muxPc' = muxPc
           /\ Len(payload) = l /\ l > 0 /\ extra = 1 /\ Len(payload) + 1 # l =>
                /\ head' = FullHead(beyond) /\ body' = payload /\ bufSize' = Len(payload) + 1 /\ solved' = solved
           /\ Len(payload) = l /\ Len(payload) + 0 = l /\ extra = 0 =>
                /\ solved' = Append(solved, MessageOf(payload))
                /\ head' = <<>> /\ body' = <<>> /\ bufSize' = 0
           /\ Len(payload) # l /\ Len(payload) + 0 # l =>
                /\ head' = FullHead(beyond) /\ body' = payload /\ bufSize' = Len(payload) + 0 /\ solved' = solved
      BY <2>2, <2>10, <2>11, FillCases, SMTT(20) DEF o
    <2>13. Arriving(stream, N)'
      <3>1. recvOffset' \in Nat
        BY <2>9, <2>12
      <3>2. QED
        BY <1>1, <1>2, <1>4, <2>12, <3>1 DEF Arriving
    <2>14. CASE L = l /\ extra = 1
      <3>1. Len(payload) = l /\ l > 0 /\ Len(payload) + 1 # l /\ Len(payload) + 1 \in Nat /\ Len(payload) + 1 > l
        BY <2>4, <2>7, <2>14
      <3>2. head' = FullHead(beyond) /\ bufSize' = Len(payload) + 1 /\ solved' = solved
        BY <2>12, <2>14, <3>1
      <3>3. Stuck'
        BY <2>2, <3>1, <3>2 DEF Stuck, HeadSize
      <3>4. Solved'
        BY <1>1, <1>2, <3>2 DEF Solved
      <3>5. QED
        BY <1>1, <1>2, <1>4, <2>13, <3>3, <3>4 DEF Framed
    <2>15. CASE L # l
      <3>1. Len(payload) # l /\ Len(payload) + 0 # l /\ Len(payload) + 0 = L /\ L < l
        BY <2>4, <2>7, <2>15
      <3>2. head' = FullHead(beyond) /\ body' = payload /\ bufSize' = L /\ solved' = solved
        BY <2>12, <3>1
      <3>3. Current' = Current
        BY <3>2 DEF Current
      <3>4. Cursor(N)' = a + 2 + L
        <4>1. recvOffset' > r /\ b + r = a + 2 + L
          BY <2>7, <2>12, <3>1
        <4>2. ~(recvOffset' <= r)
          BY <2>9, <2>12, <4>1
        <4>3. Cursor(N)' = b + r
          BY <1>2, <1>4, <4>2 DEF Cursor, b, r
        <4>4. QED
          BY <4>1, <4>3
      <3>5. /\ head' \in Seq(Nat) /\ Len(head') = 2 /\ body' \in Seq(Nat) /\ Len(body') = L
        BY <2>2, <2>7, <3>2
      <3>6. \A i \in 1..2 : head'[i] = stream[a + i]
        BY <2>1, <2>2, <3>2
      <3>7. ASSUME NEW i \in 1..L PROVE body'[i] = stream[a + 2 + i]
        <4>1. i \in 1..l
          BY <2>4, <3>1
        <4>2. QED
          BY <2>1, <2>7, <3>2, <4>1
      <3>8. start[Current'] = a /\ L < Length[framesSent'[Current']]
        BY <1>2, <3>1, <3>3 DEF a, l, m
      <3>9. Synced(stream, start, N)'
        BY <3>2, <3>4, <3>5, <3>6, <3>7, <3>8 DEF Synced, HeadSize
      <3>10. Solved'
        BY <1>1, <1>2, <3>2 DEF Solved
      <3>11. QED
        BY <1>1, <1>2, <1>4, <2>13, <3>9, <3>10 DEF Framed
    <2>16. CASE L = l /\ extra = 0
      <3>1. Len(payload) = l /\ Len(payload) + 0 = l
        BY <2>4, <2>7, <2>16
      <3>2. solved' = Append(solved, MessageOf(payload)) /\ head' = <<>> /\ body' = <<>> /\ bufSize' = 0
        BY <2>12, <2>16, <3>1
      <3>3. MessageOf(payload) = m
        BY <2>1, <2>7, <2>16, MessageIs DEF l
      <3>4. /\ solved' \in Seq(Nat) /\ Len(solved') = Len(solved) + 1 /\ solved'[Len(solved) + 1] = m
            /\ \A j \in 1..Len(solved) : solved'[j] = solved[j]
        BY <2>4, <2>8, <3>2, <3>3, AppendProperties
      <3>5. Current' = Current + 1 /\ Current + 1 \in 1..Len(framesSent) + 1 /\ Len(solved) + 1 <= Len(framesSent)
        <4>1. Current' = Len(solved') + 1
          BY DEF Current
        <4>2. QED
          BY <2>1, <2>8, <3>4, <4>1
      <3>6. Cursor(N)' = start[Current']
        <4>1. recvOffset' = o + n /\ o + n <= r
          BY <2>7, <2>12, <2>16
        <4>2. Cursor(N)' = b + (o + n)
          BY <1>2, <1>4, <4>1 DEF Cursor, b, r
        <4>3. b + (o + n) = a + 2 + l
          <5>1. a \in Nat /\ b \in Nat /\ l \in Nat /\ q \in Nat
            BY <2>1, <2>4
          <5>2. QED
            BY ONLY <2>9, <5>1
        <4>4. QED
          BY <2>1, <3>5, <4>2, <4>3
      <3>7. Solved'
        <4>1. ASSUME NEW j \in 1..Len(solved') PROVE solved'[j] = framesSent'[j]
          <5>1. CASE j = Len(solved) + 1
            BY <1>2, <2>8, <3>4, <5>1 DEF m
          <5>2. CASE j # Len(solved) + 1
            <6>1. j \in 1..Len(solved)
              BY <2>8, <3>4, <5>2
            <6>2. QED
              BY <1>1, <1>2, <3>4, <6>1 DEF Solved
          <5>3. QED
            BY <5>1, <5>2
        <4>2. QED
          BY <1>2, <3>4, <3>5, <4>1 DEF Solved
      <3>8. head' \in Seq(Nat) /\ Len(head') = 0 /\ body' \in Seq(Nat) /\ Len(body') = 0 /\ 1..0 = {}
        BY <3>2, EmptySeq
      <3>9. ASSUME Current' <= Len(framesSent') PROVE 0 < Length[framesSent'[Current']]
        <4>1. Current' \in 1..Len(framesSent)
          BY <1>2, <2>1, <2>8, <3>5, <3>9
        <4>2. framesSent[Current'] \in Messages
          BY <1>1, <4>1, ElementOfSeq DEF Laid
        <4>3. Length[framesSent[Current']] \in Nat \ {0}
          BY <4>2, FrameFacts
        <4> DEFINE x == Length[framesSent[Current']]
        <4> HIDE DEF x
        <4>4. x \in Nat \ {0}
          BY <4>3 DEF x
        <4>5. 0 < x
          BY ONLY <4>4
        <4>6. QED
          BY <1>2, <4>5 DEF x
      <3>10. start[Current'] \in Nat
        BY <1>1, <3>5 DEF Laid
      <3>11. start[Current'] = start[Current'] + 0 + 0
        BY ONLY <3>10
      <3>12. Synced(stream, start, N)'
        BY <3>2, <3>6, <3>8, <3>9, <3>11 DEF Synced, HeadSize
      <3>13. QED
        BY <1>1, <1>2, <1>4, <2>13, <3>7, <3>12 DEF Framed
    <2>17. QED
      BY <2>14, <2>15, <2>16
  <1>7. QED
    BY <1>1, <1>5, <1>6

(* The steps that leave dispatch() alone. *)
LEMMA ElseFramed ==
  ASSUME NEW stream, NEW start, NEW N, Framed(stream, start, N),
         framesSent' = framesSent, inbound' = inbound, recvBuf' = recvBuf, recvOffset' = recvOffset,
         head' = head, body' = body, bufSize' = bufSize, solved' = solved,
         muxPc' = muxPc \/ (muxPc = "idle" /\ muxPc' \in {"idle", "dead"})
  PROVE  Framed(stream, start, N)'
  <1>1. Base(N)' = Base(N) /\ Cursor(N)' = Cursor(N) /\ Current' = Current
    BY DEF Base, Cursor, Current
  <1>2. Laid(stream, start)' /\ Solved' /\ (Stuck => Stuck')
    BY DEF Framed, Laid, Solved, Stuck
  <1>3. Arriving(stream, N)'
    BY <1>1 DEF Framed, Arriving
  <1>4. Synced(stream, start, N) => Synced(stream, start, N)'
    BY <1>1, KeepSynced
  <1>5. QED
    BY <1>2, <1>3, <1>4 DEF Framed

(* No step takes dispatch() out of step with the stream. *)
LEMMA FrameStep == FrameInv /\ [MuxNext]_muxVars => FrameInv'
  <1> SUFFICES ASSUME FrameInv, [MuxNext]_muxVars, ~overread'
               PROVE  \E stream, start, total : Framed(stream, start, total)'
    BY DEF FrameInv
  <1>1. ~overread
    BY DEF MuxNext, registEntity, addRemoveWork, insert, muxRemove, sendMessage, dispatch, DispatchStep,
           dispatchReturn, keepHead, passToUser, fillPayload, dispatchVars, entityVars, muxVars
  <1>2. PICK stream, start, N : Framed(stream, start, N)
    BY <1>1 DEF FrameInv
  <1>3. ASSUME NEW m \in Messages, sendMessage(m) PROVE \E s, t, u : Framed(s, t, u)'
    BY <1>2, <1>3, SendFramed
  <1>4. ASSUME NEW k \in 1..RecvSize, dispatch(k) PROVE Framed(stream, start, N)'
    BY <1>2, <1>4, DispatchFramed
  <1>5. CASE DispatchStep
    <2>1. ASSUME dispatchReturn PROVE Framed(stream, start, N)'
      BY <1>2, <2>1, ReturnFramed
    <2>2. ASSUME NEW beyond \in {0, Junk}, keepHead(beyond) PROVE Framed(stream, start, N)'
      BY <1>2, <2>2, KeepHeadFramed
    <2>3. ASSUME NEW beyond \in {0, Junk}, passToUser(beyond) PROVE Framed(stream, start, N)'
      BY <1>2, <2>3, PassFramed
    <2>4. ASSUME NEW beyond \in {0, Junk}, NEW x \in {0, 1}, fillPayload(beyond, x)
          PROVE  Framed(stream, start, N)'
      BY <1>2, <2>4, FillFramed
    <2>5. Framed(stream, start, N)'
      BY <1>5, <2>1, <2>2, <2>3, <2>4 DEF DispatchStep
    <2>6. QED
      BY <2>5
  <1>6. CASE \/ \E e \in Entities : registEntity(e) \/ addRemoveWork(e)
             \/ insert \/ muxRemove \/ UNCHANGED muxVars
    <2>1. /\ framesSent' = framesSent /\ inbound' = inbound /\ recvBuf' = recvBuf /\ recvOffset' = recvOffset
          /\ head' = head /\ body' = body /\ bufSize' = bufSize /\ solved' = solved
          /\ muxPc' = muxPc \/ (muxPc = "idle" /\ muxPc' \in {"idle", "dead"})
      BY <1>6 DEF registEntity, addRemoveWork, insert, muxRemove, dispatchVars, muxVars
    <2>2. Framed(stream, start, N)'
      BY <1>2, <2>1, ElseFramed
    <2>3. QED
      BY <2>2
  <1>7. QED
    BY <1>3, <1>4, <1>5, <1>6 DEF MuxNext

(* In the beginning there is no message. *)
LEMMA FrameInit == MuxInit => FrameInv
  <1> SUFFICES ASSUME MuxInit PROVE \E stream, start, total : Framed(stream, start, total)
    BY DEF FrameInv
  <1> DEFINE start == [k \in 1..1 |-> 0]
  <1>1. /\ framesSent = <<>> /\ inbound = <<>> /\ muxPc = "idle" /\ recvBuf = <<>> /\ recvOffset = 0
        /\ head = <<>> /\ body = <<>> /\ bufSize = 0 /\ solved = <<>>
    BY DEF MuxInit
  <1>2. /\ Len(framesSent) = 0 /\ Len(inbound) = 0 /\ Len(recvBuf) = 0 /\ Len(head) = 0 /\ Len(body) = 0
        /\ Len(solved) = 0 /\ 0 + 1 = 1 /\ 1..0 = {}
        /\ framesSent \in Seq(Messages) /\ inbound \in Seq(Nat) /\ recvBuf \in Seq(Nat) /\ head \in Seq(Nat)
        /\ body \in Seq(Nat) /\ solved \in Seq(Nat)
    BY <1>1, EmptySeq
  <1>3. start \in [1..1 -> Nat] /\ start[1] = 0
    OBVIOUS
  <1>4. <<>> \in [1..0 -> Nat]
    BY <1>2
  <1> HIDE DEF start
  <1>5. Laid(<<>>, start) /\ 0 = start[Len(framesSent) + 1]
    BY <1>2, <1>3, <1>4 DEF Laid
  <1>6. Base(0) = 0 /\ Cursor(0) = 0 /\ Current = 1
    <2>1. Base(0) = 0
      BY <1>2 DEF Base
    <2>2. QED
      BY <1>1, <1>2, <2>1 DEF Cursor, Current
  <1>7. Arriving(<<>>, 0)
    <2>1. 0 <= RecvSize
      BY MessagesAssumption
    <2>2. QED
      BY <1>1, <1>2, <1>6, <2>1 DEF Arriving
  <1>8. Solved
    BY <1>2 DEF Solved
  <1>9. Synced(<<>>, start, 0)
    BY <1>1, <1>2, <1>3, <1>6 DEF Synced, HeadSize
  <1>10. QED
    BY <1>5, <1>7, <1>8, <1>9 DEF Framed

(* However recv() cuts the stream into pieces, and whatever the sizes of the
   messages and of the receive buffer, dispatch() gives solve() the control
   messages whole, in order, each once, until a copy takes bytes that are not
   there. *)
THEOREM FramesIntactHolds == MuxSpec => []FramesIntact
  <1>1. FrameInv => FramesIntact
    <2> SUFFICES ASSUME FrameInv, ~overread
                 PROVE  Len(solved) <= Len(framesSent) /\ solved = SubSeq(framesSent, 1, Len(solved))
      BY DEF FramesIntact
    <2>1. PICK stream, start, N : Framed(stream, start, N)
      BY DEF FrameInv
    <2> DEFINE n == Len(solved)
    <2>2. /\ framesSent \in Seq(Messages) /\ solved \in Seq(Nat) /\ n <= Len(framesSent)
          /\ \A j \in 1..n : solved[j] = framesSent[j]
      BY <2>1 DEF Framed, Laid, Solved
    <2>3. n \in Nat /\ Len(framesSent) \in Nat
      BY <2>2, LenProperties
    <2>4. \A i \in 1..n : solved[i] \in Nat
      BY <2>2, ElementOfSeq
    <2>5. \A i \in 1..n : framesSent[i] \in Nat
      BY <2>2, <2>4
    <2> DEFINE t == SubSeq(framesSent, 1, n)
    <2>6. /\ t \in Seq(Nat) /\ Len(t) = IF 1 <= n THEN n - 1 + 1 ELSE 0
          /\ \A i \in 1..n - 1 + 1 : t[i] = framesSent[1 + i - 1]
      <3>1. 1 \in Int /\ n \in Int
        BY <2>3
      <3>2. QED
        BY <2>5, <3>1, SubSeqProperties
    <2> HIDE DEF t
    <2>7. Len(t) = n /\ \A i \in 1..n : t[i] = framesSent[i]
      <3>1. n - 1 + 1 = n /\ (1 <= n \/ n = 0) /\ \A i \in 1..n : 1 + i - 1 = i
        BY <2>3
      <3> HIDE DEF n
      <3>2. QED
        BY <2>6, <3>1
    <2>8. solved = t
      BY <2>2, <2>6, <2>7, SeqEqual
    <2>9. QED
      BY <2>2, <2>8 DEF t
  <1>2. QED
    BY <1>1, FrameInit, FrameStep, PTL DEF MuxSpec

-----------------------------------------------------------------------------
(* Endpoints *)

(* Bytes 1..n of m have left. *)
Covered(m, n) == \A i \in 1..n : \E j \in DOMAIN out : out[j] = <<m, i>>

(* it waits in the queue. *)
Queued(it) == \E i \in 1..Len(queue) : queue[i] = it

(* What is queued was sent up to its offset, and what was called back is sent. *)
Progress ==
  /\ \A it : Queued(it) => it.offset \in -1..Size[it.m] - 1 /\ Covered(it.m, it.offset)
  /\ \A m \in called : Covered(m, Size[m])

(* A UnixConnection sends each message from its offset only. *)
Orderly ==
  /\ \A it : Queued(it) => it.offset >= 0 /\ InOrder(it.m, it.offset) /\ it.m \notin called
  /\ \A m \in called : InOrder(m, Size[m])
  /\ \A m \in Msgs \ Offered : InOrder(m, 0)
  /\ \A i, j \in 1..Len(queue) : queue[i].m = queue[j].m => i = j

EndpointInv ==
  /\ free \in 0..Room /\ called \subseteq Msgs
  /\ queue \in Seq([m : Msgs, offset : Int]) /\ out \in Seq(Msgs \X Int)
  /\ Progress
  /\ kind = "unix" => Orderly

(* A send passes no more than it was asked to, and no more than fits. *)
LEMMA AcceptedIn ==
  ASSUME free \in Nat, NEW n \in Nat
  PROVE  Accepted(n) \in -1..n /\ (Accepted(n) > 0 => Accepted(n) <= free)
  BY DEF Accepted

(* What the bytes that leave change of what has left. *)
LEMMA PassedBytes ==
  ASSUME out \in Seq(Msgs \X Int), NEW m \in Msgs, NEW o \in Int, o >= -1, NEW n \in Int, Passes(m, o, n)
  PROVE  /\ out' \in Seq(Msgs \X Int)
         /\ \A k, x : Covered(k, x) => Covered(k, x)'
         /\ \A k, x : k # m /\ InOrder(k, x) => InOrder(k, x)'
         /\ n > 0 /\ Covered(m, o) => Covered(m, o + n)'
         /\ n > 0 /\ o >= 0 /\ InOrder(m, o) => InOrder(m, o + n)'
         /\ ~(n > 0) => out' = out
  <1>1. CASE ~(n > 0)
    <2>1. out' = out
      BY <1>1 DEF Passes
    <2>2. QED
      BY <1>1, <2>1 DEF Covered, InOrder
  <1>2. CASE n > 0
    <2> DEFINE new == Bytes(m, o, n)
               l == Len(out)
    <2>1. out' = out \o new
      BY <1>2 DEF Passes
    <2>2. n \in Nat /\ l \in Nat /\ DOMAIN out = 1..l
      BY <1>2, LenProperties
    <2>3. new \in Seq(Msgs \X Int) /\ Len(new) = n /\ \A i \in 1..n : new[i] = <<m, o + i>>
      <3>1. \A i \in 1..n : <<m, o + i>> \in Msgs \X Int
        BY <2>2
      <3>2. new = [i \in 1..n |-> <<m, o + i>>]
        BY DEF Bytes
      <3>3. [i \in 1..n |-> <<m, o + i>>] \in Seq(Msgs \X Int) /\ Len([i \in 1..n |-> <<m, o + i>>]) = n
        BY <2>2, <3>1
      <3>4. QED
        BY <3>2, <3>3
    <2> HIDE DEF new
    <2>4. /\ out' \in Seq(Msgs \X Int) /\ Len(out') = l + n
          /\ \A i \in 1..l + n : out'[i] = IF i <= l THEN out[i] ELSE new[i - l]
      <3>1. /\ out \o new \in Seq(Msgs \X Int) /\ Len(out \o new) = l + Len(new)
            /\ \A i \in 1..l + Len(new) : (out \o new)[i] = IF i <= l THEN out[i] ELSE new[i - l]
        BY <2>3, ConcatProperties
      <3>2. QED
        BY <2>1, <2>3, <3>1
    <2>5. DOMAIN out' = 1..l + n
      BY <2>4, LenProperties
    <2> HIDE DEF l
    <2>6. \A j \in 1..l : j \in 1..l + n /\ out'[j] = out[j]
      BY <2>2, <2>4
    <2>7. \A j \in 1..n : l + j \in 1..l + n /\ out'[l + j] = <<m, o + j>>
      <3> TAKE j \in 1..n
      <3>1. l + j \in 1..l + n /\ ~(l + j <= l) /\ (l + j) - l = j
        BY <2>2
      <3>2. QED
        BY <2>3, <2>4, <3>1
    <2>8. ASSUME NEW j \in 1..l + n, ~(j \in 1..l)
          PROVE  j - l \in 1..n /\ out'[j] = <<m, o + (j - l)>>
      <3>1. ~(j <= l) /\ j - l \in 1..n
        BY <2>2, <2>8
      <3>2. QED
        BY <2>3, <2>4, <3>1
    <2>9. ASSUME NEW k, NEW x, Covered(k, x) PROVE Covered(k, x)'
      BY <2>2, <2>5, <2>6, <2>9 DEF Covered
    <2>10. ASSUME NEW k, NEW x, k # m, InOrder(k, x) PROVE InOrder(k, x)'
      <3>1. \A j \in 1..l + n : out'[j][1] = k => j \in 1..l /\ out'[j] = out[j]
        BY <2>6, <2>8, <2>10
      <3>2. QED
        BY <2>2, <2>5, <2>10, <3>1 DEF InOrder
    <2>11. ASSUME Covered(m, o) PROVE Covered(m, o + n)'
      <3> SUFFICES ASSUME NEW i \in 1..o + n PROVE \E j \in DOMAIN out' : out'[j] = <<m, i>>
        BY DEF Covered
      <3>1. CASE i <= o
        <4>1. i \in 1..o
          BY <3>1
        <4>2. QED
          BY <2>2, <2>5, <2>6, <2>11, <4>1 DEF Covered
      <3>2. CASE ~(i <= o)
        <4>1. i - o \in 1..n /\ o + (i - o) = i
          BY <2>2, <3>2
        <4>2. QED
          BY <2>5, <2>7, <4>1
      <3>3. QED
        BY <3>1, <3>2
    <2>12. ASSUME o >= 0, InOrder(m, o) PROVE InOrder(m, o + n)'
      <3>1. ASSUME NEW i \in 1..l + n, out'[i][1] = m PROVE out'[i][2] \in 1..o + n
        <4>1. CASE i \in 1..l
          <5>1. out[i][2] \in 1..o
            BY <2>2, <2>6, <2>12, <3>1, <4>1 DEF InOrder
          <5>2. QED
            BY <1>2, <2>6, <4>1, <5>1
        <4>2. CASE ~(i \in 1..l)
          <5>1. i - l \in 1..n /\ out'[i][2] = o + (i - l)
            BY <2>8, <4>2
          <5>2. QED
            BY <2>2, <2>12, <5>1
        <4>3. QED
          BY <4>1, <4>2
      <3>2. ASSUME NEW i \in 1..l + n, NEW j \in 1..l + n, out'[i][1] = m, out'[j][1] = m, i < j
            PROVE  out'[i][2] < out'[j][2]
        <4>1. CASE j \in 1..l
          <5>1. i \in 1..l
            BY <2>2, <3>2, <4>1
          <5>2. QED
            BY <2>2, <2>6, <2>12, <3>2, <4>1, <5>1 DEF InOrder
        <4>2. CASE ~(j \in 1..l) /\ i \in 1..l
          <5>1. out'[i][2] \in 1..o
            BY <2>2, <2>6, <2>12, <3>2, <4>2 DEF InOrder
          <5>2. j - l \in 1..n /\ out'[j][2] = o + (j - l)
            BY <2>8, <4>2
          <5>3. QED
            BY <2>2, <2>12, <5>1, <5>2
        <4>3. CASE ~(j \in 1..l) /\ ~(i \in 1..l)
          <5>1. out'[i][2] = o + (i - l) /\ out'[j][2] = o + (j - l)
            BY <2>8, <4>3
          <5>2. QED
            BY <2>2, <3>2, <5>1
        <4>4. QED
          BY <4>1, <4>2, <4>3
      <3>3. QED
        BY <2>5, <3>1, <3>2 DEF InOrder
    <2>13. QED
      BY <1>2, <2>4, <2>9, <2>10, <2>11, <2>12
  <1>3. QED
    BY <1>1, <1>2

(* A step keeps Progress when the items it puts into the queue and the
   callbacks it calls are covered. *)
LEMMA KeepProgress ==
  ASSUME Progress, \A k, x : Covered(k, x) => Covered(k, x)',
         \A it : Queued(it)' => Queued(it) \/ (it.offset \in -1..Size[it.m] - 1 /\ Covered(it.m, it.offset)'),
         \A m \in called' : m \in called \/ Covered(m, Size[m])'
  PROVE  Progress'
  BY DEF Progress

(* A step keeps Orderly when it moves m only, and forward. *)
LEMMA KeepOrderly ==
  ASSUME Orderly, NEW m \in Msgs,
         \A k, x : k # m /\ InOrder(k, x) => InOrder(k, x)',
         \A it : Queued(it)' => \/ Queued(it) /\ it.m # m
                                \/ it.m = m /\ it.offset >= 0 /\ InOrder(m, it.offset)' /\ m \notin called',
         \A k \in called' : (k \in called /\ k # m) \/ (k = m /\ InOrder(m, Size[m])'),
         m \in Offered', Offered \subseteq Offered',
         \A i, j \in 1..Len(queue') : queue'[i].m = queue'[j].m => i = j
  PROVE  Orderly'
  <1>1. ASSUME NEW it, Queued(it)' PROVE it.offset >= 0 /\ InOrder(it.m, it.offset)' /\ it.m \notin called'
    <2>1. CASE Queued(it) /\ it.m # m
      BY <2>1 DEF Orderly
    <2>2. CASE it.m = m /\ it.offset >= 0 /\ InOrder(m, it.offset)' /\ m \notin called'
      BY <2>2
    <2>3. QED
      BY <1>1, <2>1, <2>2
  <1>2. ASSUME NEW k \in called' PROVE InOrder(k, Size[k])'
    BY DEF Orderly
  <1>3. ASSUME NEW k \in Msgs \ Offered' PROVE InOrder(k, 0)'
    <2>1. k # m /\ k \in Msgs \ Offered
      BY <1>3
    <2>2. QED
      BY <2>1 DEF Orderly
  <1>4. QED
    BY <1>1, <1>2, <1>3 DEF Orderly

(* The same for the sequence of the queue: its items, and one that is put at
   the end, taken from the front, or moved on. *)
LEMMA QueueItems ==
  ASSUME queue \in Seq([m : Msgs, offset : Int])
  PROVE  /\ \A it : Queued(it) => it \in [m : Msgs, offset : Int] /\ it.m \in Offered
         /\ queue # <<>> => /\ Queued(Head(queue)) /\ Head(queue) = queue[1] /\ 1 \in 1..Len(queue)
         /\ Len(queue) \in Nat /\ DOMAIN queue = 1..Len(queue)
  <1>1. Len(queue) \in Nat /\ DOMAIN queue = 1..Len(queue)
    BY LenProperties
  <1>2. ASSUME NEW it, Queued(it) PROVE it \in [m : Msgs, offset : Int] /\ it.m \in Offered
    <2>1. PICK i \in 1..Len(queue) : queue[i] = it
      BY <1>2 DEF Queued
    <2>2. it \in [m : Msgs, offset : Int]
      BY <2>1, ElementOfSeq
    <2>3. it.m \in {queue[j].m : j \in DOMAIN queue}
      BY <1>1, <2>1
    <2>4. QED
      BY <2>2, <2>3 DEF Offered
  <1>3. ASSUME queue # <<>> PROVE Queued(Head(queue)) /\ Head(queue) = queue[1] /\ 1 \in 1..Len(queue)
    <2>1. Head(queue) = queue[1]
      BY <1>3
    <2>2. Len(queue) # 0
      BY <1>3, EmptySeq
    <2>3. 1 \in 1..Len(queue)
      BY <1>1, <2>2
    <2>4. QED
      BY <2>1, <2>3 DEF Queued
  <1>4. QED
    BY <1>1, <1>2, <1>3

(* A send is queued. *)
LEMMA QueueAppended ==
  ASSUME queue \in Seq([m : Msgs, offset : Int]), NEW m \in Msgs, NEW n \in Int,
         queue' = Append(queue, [m |-> m, offset |-> n])
  PROVE  /\ queue' \in Seq([m : Msgs, offset : Int])
         /\ \A it : Queued(it)' <=> Queued(it) \/ it = [m |-> m, offset |-> n]
         /\ (\A i, j \in 1..Len(queue) : queue[i].m = queue[j].m => i = j) /\ m \notin Offered
            => \A i, j \in 1..Len(queue') : queue'[i].m = queue'[j].m => i = j
  <1> DEFINE l == Len(queue)
             new == [m |-> m, offset |-> n]
  <1>0. new \in [m : Msgs, offset : Int] /\ new.m = m
    OBVIOUS
  <1> HIDE DEF new
  <1>1. /\ queue' \in Seq([m : Msgs, offset : Int]) /\ Len(queue') = l + 1 /\ queue'[l + 1] = new
        /\ \A i \in 1..l : queue'[i] = queue[i]
    BY <1>0, AppendProperties DEF new
  <1>2. l \in Nat /\ DOMAIN queue = 1..l
    BY LenProperties
  <1>3. \A i \in 1..l + 1 : i \in 1..l \/ i = l + 1
    BY <1>2
  <1>4. \A i \in 1..l : i \in 1..l + 1
    BY <1>2
  <1>5. l + 1 \in 1..l + 1
    BY <1>2
  <1> HIDE DEF l
  <1>6. ASSUME NEW it PROVE Queued(it)' <=> Queued(it) \/ it = new
    BY <1>1, <1>3, <1>4, <1>5 DEF Queued, l
  <1>7. ASSUME \A i, j \in 1..l : queue[i].m = queue[j].m => i = j, m \notin Offered,
               NEW i \in 1..l + 1, NEW j \in 1..l + 1, queue'[i].m = queue'[j].m
        PROVE  i = j
    <2>1. \A x \in 1..l : queue[x].m # m
      BY <1>2, <1>7 DEF Offered
    <2>2. QED
      BY <1>0, <1>1, <1>3, <1>7, <2>1
  <1>8. QED
    BY <1>1, <1>6, <1>7 DEF l, new

(* The first send of the queue goes. *)
LEMMA QueueTail ==
  ASSUME queue \in Seq([m : Msgs, offset : Int]), queue # <<>>, queue' = Tail(queue)
  PROVE  /\ queue' \in Seq([m : Msgs, offset : Int])
         /\ \A it : Queued(it)' => Queued(it)
         /\ \A it : Queued(it) => it = Head(queue) \/ Queued(it)'
         /\ (\A i, j \in 1..Len(queue) : queue[i].m = queue[j].m => i = j)
            => /\ \A i, j \in 1..Len(queue') : queue'[i].m = queue'[j].m => i = j
               /\ \A it : Queued(it)' => it.m # Head(queue).m
  <1> DEFINE l == Len(queue)
  <1>1. l \in Nat /\ Head(queue) = queue[1] /\ 1 \in 1..l
    BY QueueItems
  <1>2. /\ queue' \in Seq([m : Msgs, offset : Int]) /\ Len(queue') = l - 1
        /\ \A i \in 1..l - 1 : queue'[i] = queue[i + 1]
    BY HeadTailProperties
  <1>3. \A i \in 1..l - 1 : i + 1 \in 1..l /\ i + 1 # 1
    BY <1>1
  <1>4. \A i \in 1..l : i = 1 \/ (i - 1 \in 1..l - 1 /\ (i - 1) + 1 = i)
    BY <1>1
  <1> HIDE DEF l
  <1>5. ASSUME NEW it, Queued(it)' PROVE Queued(it)
    BY <1>2, <1>3, <1>5 DEF Queued, l
  <1>6. ASSUME NEW it, Queued(it), it # Head(queue) PROVE Queued(it)'
    <2>1. PICK i \in 1..l : queue[i] = it
      BY <1>6 DEF Queued, l
    <2>2. i - 1 \in 1..l - 1 /\ (i - 1) + 1 = i
      BY <1>1, <1>4, <1>6, <2>1
    <2>3. queue'[i - 1] = it
      BY <1>2, <2>1, <2>2
    <2>4. QED
      BY <1>2, <2>2, <2>3 DEF Queued
  <1>7. ASSUME \A i, j \in 1..l : queue[i].m = queue[j].m => i = j
        PROVE  /\ \A i, j \in 1..Len(queue') : queue'[i].m = queue'[j].m => i = j
               /\ \A it : Queued(it)' => it.m # Head(queue).m
    <2>1. ASSUME NEW i \in 1..l - 1, NEW j \in 1..l - 1, queue'[i].m = queue'[j].m PROVE i = j
      <3>1. i + 1 = j + 1
        BY <1>2, <1>3, <1>7, <2>1
      <3>2. QED
        BY <1>1, <3>1
    <2>2. ASSUME NEW it, Queued(it)' PROVE it.m # Head(queue).m
      <3>1. PICK i \in 1..l - 1 : queue'[i] = it
        BY <1>2, <2>2 DEF Queued
      <3>2. QED
        BY <1>1, <1>2, <1>3, <1>7, <3>1
    <2>3. QED
      BY <1>2, <2>1, <2>2
  <1>8. QED
    BY <1>2, <1>5, <1>6, <1>7 DEF l

(* The first send of the queue moves on. *)
LEMMA QueueMoved ==
  ASSUME queue \in Seq([m : Msgs, offset : Int]), queue # <<>>, NEW d \in Int,
         queue' = [queue EXCEPT ![1].offset = @ + d]
  PROVE  /\ queue' \in Seq([m : Msgs, offset : Int])
         /\ \A it : Queued(it)' => Queued(it) \/ it = [m |-> Head(queue).m, offset |-> Head(queue).offset + d]
         /\ {queue'[i].m : i \in DOMAIN queue'} = {queue[i].m : i \in DOMAIN queue}
         /\ (\A i, j \in 1..Len(queue) : queue[i].m = queue[j].m => i = j)
            => /\ \A i, j \in 1..Len(queue') : queue'[i].m = queue'[j].m => i = j
               /\ \A it : Queued(it)' => \/ Queued(it) /\ it.m # Head(queue).m
                                         \/ it = [m |-> Head(queue).m, offset |-> Head(queue).offset + d]
  <1> DEFINE R == [m : Msgs, offset : Int]
             l == Len(queue)
             new == [m |-> Head(queue).m, offset |-> Head(queue).offset + d]
  <1>1. l \in Nat /\ Head(queue) = queue[1] /\ 1 \in 1..l /\ DOMAIN queue = 1..l
    BY QueueItems
  <1>2. queue[1] \in R
    BY <1>1, ElementOfSeq
  <1>3. new \in R /\ new.m = queue[1].m /\ new = [queue[1] EXCEPT !.offset = @ + d]
    BY <1>1, <1>2
  <1>4. queue' = [queue EXCEPT ![1] = new]
    BY <1>3
  <1> HIDE DEF new
  <1>5. /\ queue' \in Seq(R) /\ Len(queue') = l /\ queue'[1] = new
        /\ \A i \in 1..l : i # 1 => queue'[i] = queue[i]
    BY <1>1, <1>3, <1>4, ExceptSeq
  <1>6. DOMAIN queue' = 1..l
    BY <1>5, LenProperties
  <1>7. \A i \in 1..l : queue'[i].m = queue[i].m
    BY <1>3, <1>5
  <1> HIDE DEF l
  <1>8. ASSUME NEW it, Queued(it)'
        PROVE  (\E i \in 1..l : i # 1 /\ queue[i] = it /\ Queued(it)) \/ it = new
    BY <1>5, <1>8 DEF Queued, l
  <1>9. {queue'[i].m : i \in DOMAIN queue'} = {queue[i].m : i \in DOMAIN queue}
    BY <1>1, <1>6, <1>7
  <1>10. ASSUME \A i, j \in 1..l : queue[i].m = queue[j].m => i = j
         PROVE  /\ \A i, j \in 1..Len(queue') : queue'[i].m = queue'[j].m => i = j
                /\ \A it : Queued(it)' => (Queued(it) /\ it.m # Head(queue).m) \/ it = new
    BY <1>1, <1>5, <1>7, <1>8, <1>10
  <1>11. QED
    BY <1>5, <1>8, <1>9, <1>10 DEF l, new

(* onSend of the three classes: a message goes whole, or what is left of it is
   queued; a UnixConnection gives up what was refused. *)
Sends(m, n) ==
  /\ m \in Msgs \ Offered /\ n = Accepted(Size[m]) /\ Passes(m, 0, n) /\ kind' = kind
  /\ called' = IF n = Size[m] THEN called \cup {m} ELSE called
  /\ \/ n = Size[m] /\ queue' = queue /\ failed' = failed
     \/ n # Size[m] /\ queue' = Append(queue, [m |-> m, offset |-> n]) /\ failed' = failed
        /\ (kind = "unix" => n >= 0)
     \/ n # Size[m] /\ queue' = queue /\ failed' = failed \cup {m}

(* handleWrite of the three classes with a send at the front of the queue: it
   is done or given up, or it goes on by d. *)
Writes(m, o, n) ==
  /\ queue # <<>> /\ m = Head(queue).m /\ o = Head(queue).offset
  /\ n = Accepted(Size[m] - o) /\ Passes(m, o, n) /\ kind' = kind
  /\ \/ /\ o + n = Size[m] \/ (kind # "unix" /\ n > 0 /\ o + 1 = Size[m])
        /\ called' = called \cup {m} /\ queue' = Tail(queue) /\ failed' = failed
     \/ ~(n > 0) /\ called' = called /\ queue' = Tail(queue) /\ failed' = failed \cup {m}
     \/ ~(n > 0) /\ called' = called /\ queue' = queue /\ failed' = failed
     \/ \E d \in Int :
          /\ n > 0 /\ ((d = n /\ o + n # Size[m]) \/ (kind # "unix" /\ d = 1 /\ o + 1 # Size[m]))
          /\ called' = called /\ queue' = [queue EXCEPT ![1].offset = @ + d] /\ failed' = failed

(* The other operations, and the kernel. *)
Otherwise ==
  /\ UNCHANGED <<kind, queue, out, called, failed>>
  /\ free' = free \/ free' \in free + 1 .. Room

(* The operators of Endpoint mean the same in each class. *)
LEMMA UnixSame ==
  /\ Unix!Offered = Offered
  /\ \A n : Unix!Accepted(n) = Accepted(n)
  /\ \A m, o, n : Unix!Passes(m, o, n) <=> Passes(m, o, n)
  <1>1. Unix!Offered = Offered
    BY DEF Offered, Unix!Offered
  <1>2. ASSUME NEW n PROVE Unix!Accepted(n) = Accepted(n)
    BY DEF Accepted, Unix!Accepted, Datagram, Unix!Datagram
  <1>3. ASSUME NEW m, NEW o, NEW n PROVE Unix!Passes(m, o, n) <=> Passes(m, o, n)
    BY DEF Passes, Unix!Passes, Bytes, Unix!Bytes
  <1>4. QED
    BY <1>1, <1>2, <1>3

(* PipeAndFifo uses the operators of Endpoint. *)
LEMMA PipeSame ==
  /\ Pipe!Offered = Offered
  /\ \A n : Pipe!Accepted(n) = Accepted(n)
  /\ \A m, o, n : Pipe!Passes(m, o, n) <=> Passes(m, o, n)
  <1>1. Pipe!Offered = Offered
    BY DEF Offered, Pipe!Offered
  <1>2. ASSUME NEW n PROVE Pipe!Accepted(n) = Accepted(n)
    BY DEF Accepted, Pipe!Accepted, Datagram, Pipe!Datagram
  <1>3. ASSUME NEW m, NEW o, NEW n PROVE Pipe!Passes(m, o, n) <=> Passes(m, o, n)
    BY DEF Passes, Pipe!Passes, Bytes, Pipe!Bytes
  <1>4. QED
    BY <1>1, <1>2, <1>3

(* So does UdpEndpoint. *)
LEMMA UdpSame ==
  /\ Udp!Offered = Offered
  /\ \A n : Udp!Accepted(n) = Accepted(n)
  /\ \A m, o, n : Udp!Passes(m, o, n) <=> Passes(m, o, n)
  <1>1. Udp!Offered = Offered
    BY DEF Offered, Udp!Offered
  <1>2. ASSUME NEW n PROVE Udp!Accepted(n) = Accepted(n)
    BY DEF Accepted, Udp!Accepted, Datagram, Udp!Datagram
  <1>3. ASSUME NEW m, NEW o, NEW n PROVE Udp!Passes(m, o, n) <=> Passes(m, o, n)
    BY DEF Passes, Udp!Passes, Bytes, Udp!Bytes
  <1>4. QED
    BY <1>1, <1>2, <1>3

(* Every step of a class is one of those. *)
LEMMA UnixCases ==
  ASSUME Unix!Next, EndpointInv
  PROVE  (\E m, n : Sends(m, n)) \/ (\E m, o, n : Writes(m, o, n)) \/ Otherwise
  <1>0. kind = "unix"
    BY DEF Unix!Next
  <1>1. ASSUME NEW m \in Msgs, Unix!onSend(m) PROVE \E n : Sends(m, n)
    <2> DEFINE n == Accepted(Size[m])
    <2>1. /\ m \notin Offered /\ Passes(m, 0, n) /\ kind' = kind
          /\ called' = IF n = Size[m] THEN called \cup {m} ELSE called
          /\ failed' = IF n < 0 THEN failed \cup {m} ELSE failed
          /\ queue' = IF n \in 0..Size[m] - 1 THEN Append(queue, [m |-> m, offset |-> n]) ELSE queue
      BY <1>1, UnixSame DEF Unix!onSend
    <2>2. Size[m] \in Nat /\ free \in Nat
      BY SizeAssumption DEF EndpointInv
    <2>3. n \in -1..Size[m]
      BY <2>2, AcceptedIn
    <2>4. PICK k : k = n
      OBVIOUS
    <2> HIDE DEF n
    <2>5. Sends(m, k)
      <3>1. n = Size[m] => ~(n < 0) /\ n \notin 0..Size[m] - 1
        BY <2>2, <2>3
      <3>2. n # Size[m] /\ ~(n < 0) => n \in 0..Size[m] - 1 /\ n >= 0
        BY <2>2, <2>3
      <3>3. n < 0 => n \notin 0..Size[m] - 1
        BY <2>2, <2>3
      <3>4. QED
        BY <2>1, <2>4, <3>1, <3>2, <3>3 DEF Sends, n
    <2>6. QED
      BY <2>5
  <1>2. ASSUME Unix!handleWrite PROVE \E m, o, n : Writes(m, o, n)
    <2> DEFINE m == Head(queue).m
               o == Head(queue).offset
               n == Accepted(Size[m] - o)
    <2>1. /\ queue # <<>> /\ Passes(m, o, n) /\ kind' = kind
          /\ called' = IF o + n = Size[m] THEN called \cup {m} ELSE called
          /\ failed' = IF n < 0 THEN failed \cup {m} ELSE failed
          /\ queue' = IF n < 0 \/ o + n = Size[m] THEN Tail(queue)
                      ELSE [queue EXCEPT ![1].offset = @ + n]
      BY <1>2, UnixSame DEF Unix!handleWrite
    <2>2. Head(queue) \in [m : Msgs, offset : Int] /\ o \in -1..Size[m] - 1
      BY <2>1, QueueItems DEF EndpointInv, Progress
    <2>3. Size[m] \in Nat /\ free \in Nat
      BY <2>2, SizeAssumption DEF EndpointInv
    <2>4. o \in Int /\ o + 1 <= Size[m] /\ Size[m] - o \in Nat \ {0}
      BY <2>2, <2>3
    <2>5. n \in -1..Size[m] - o /\ n # 0
      <3>1. n # 0
        BY <2>3, <2>4 DEF Accepted
      <3>2. QED
        BY <2>3, <2>4, <3>1, AcceptedIn
    <2>6. PICK m2, o2, n2 : m2 = m /\ o2 = o /\ n2 = n
      OBVIOUS
    <2>7. Writes(m2, o2, n2)
      <3> HIDE DEF n, o, m
      <3>1. n \in Int /\ (n < 0 \/ n > 0) /\ (n < 0 => o + n # Size[m] /\ ~(n > 0))
        BY <2>3, <2>4, <2>5
      <3>2. /\ queue # <<>> /\ m = Head(queue).m /\ o = Head(queue).offset /\ n = Accepted(Size[m] - o)
        BY <2>1 DEF m, o, n
      <3>3. QED
        BY <1>0, <2>1, <2>6, <3>1, <3>2 DEF Writes
    <2>8. QED
      BY <2>7
  <1>3. CASE \/ Unix!handleWriteIdle \/ Unix!onRecv \/ Unix!handleRead
             \/ Unix!InputArrives \/ Unix!PeerReads \/ Unix!EpollWait \/ Unix!onError
    BY <1>3 DEF Unix!handleWriteIdle, Unix!NoWriteHandler, Unix!onRecv, Unix!handleRead, Unix!BadReceive,
                Unix!CallErrorHandle, Unix!InputArrives, Unix!PeerReads, Unix!EpollWait, Unix!onError,
                Unix!upVars, Unix!kernelVars, Unix!histVars, Otherwise
  <1>4. QED
    BY <1>1, <1>2, <1>3 DEF Unix!Next

(* What a step of PipeAndFifo does to sends. *)
LEMMA PipeCases ==
  ASSUME Pipe!Next, EndpointInv
  PROVE  (\E m, n : Sends(m, n)) \/ (\E m, o, n : Writes(m, o, n)) \/ Otherwise
  <1>0. kind # "unix"
    BY DEF Pipe!Next
  <1>1. ASSUME NEW m \in Msgs, Pipe!onSend(m) PROVE \E n : Sends(m, n)
    <2> DEFINE n == Accepted(Size[m])
    <2>1. /\ m \notin Offered /\ Passes(m, 0, n) /\ kind' = kind /\ failed' = failed
          /\ called' = IF n = Size[m] THEN called \cup {m} ELSE called
          /\ queue' = IF n = Size[m] THEN queue ELSE Append(queue, [m |-> m, offset |-> n])
      BY <1>1, PipeSame DEF Pipe!onSend
    <2>2. PICK k : k = n
      OBVIOUS
    <2>3. Sends(m, k)
      BY <1>0, <2>1, <2>2 DEF Sends
    <2>4. QED
      BY <2>3
  <1>2. ASSUME Pipe!handleWrite PROVE \E m, o, n : Writes(m, o, n)
    <2> DEFINE m == Head(queue).m
               o == Head(queue).offset
               n == Accepted(Size[m] - o)
               done == n > 0 /\ o + 1 = Size[m]
    <2>1. /\ queue # <<>> /\ Passes(m, o, n) /\ kind' = kind /\ failed' = failed
          /\ called' = IF done THEN called \cup {m} ELSE called
          /\ queue' = IF done THEN Tail(queue)
                      ELSE IF n > 0 THEN [queue EXCEPT ![1].offset = @ + 1] ELSE queue
      BY <1>2, PipeSame DEF Pipe!handleWrite
    <2>2. PICK m2, o2, n2 : m2 = m /\ o2 = o /\ n2 = n
      OBVIOUS
    <2>3. Writes(m2, o2, n2)
      <3> HIDE DEF n, o, m
      <3>1. /\ queue # <<>> /\ m = Head(queue).m /\ o = Head(queue).offset /\ n = Accepted(Size[m] - o)
        BY <2>1 DEF m, o, n
      <3>2. 1 \in Int
        OBVIOUS
      <3>3. QED
        BY <1>0, <2>1, <2>2, <3>1, <3>2 DEF Writes
    <2>4. QED
      BY <2>3
  <1>3. CASE \/ Pipe!handleWriteIdle \/ Pipe!onRecv \/ Pipe!handleRead
             \/ Pipe!InputArrives \/ Pipe!PeerReads \/ Pipe!EpollWait \/ Pipe!onError
    BY <1>3 DEF Pipe!handleWriteIdle, Pipe!NoWriteHandler, Pipe!onRecv, Pipe!handleRead, Pipe!BadReceive,
                Pipe!CallErrorHandle, Pipe!InputArrives, Pipe!PeerReads, Pipe!EpollWait, Pipe!onError,
                Pipe!upVars, Pipe!kernelVars, Pipe!histVars, Otherwise
  <1>4. QED
    BY <1>1, <1>2, <1>3 DEF Pipe!Next

(* What a step of UdpEndpoint does to sends. *)
LEMMA UdpCases ==
  ASSUME Udp!Next, EndpointInv
  PROVE  (\E m, n : Sends(m, n)) \/ (\E m, o, n : Writes(m, o, n)) \/ Otherwise
  <1>0. kind # "unix" /\ Datagram /\ kind # "fifo"
    BY DEF Udp!Next, Udp!Datagram, Datagram
  <1>1. ASSUME NEW m \in Msgs, Udp!onSend(m) PROVE \E n : Sends(m, n)
    <2> DEFINE n == Accepted(Size[m])
    <2>1. /\ m \notin Offered /\ Passes(m, 0, n) /\ kind' = kind /\ failed' = failed
          /\ called' = IF n = Size[m] THEN called \cup {m} ELSE called
          /\ queue' = IF n = Size[m] THEN queue ELSE Append(queue, [m |-> m, offset |-> n])
      BY <1>1, UdpSame DEF Udp!onSend
    <2>2. PICK k : k = n
      OBVIOUS
    <2>3. Sends(m, k)
      BY <1>0, <2>1, <2>2 DEF Sends
    <2>4. QED
      BY <2>3
  <1>2. ASSUME Udp!handleWrite PROVE \E m, o, n : Writes(m, o, n)
    <2> DEFINE m == Head(queue).m
               o == Head(queue).offset
               n == Accepted(Size[m] - o)
    <2>1. /\ queue # <<>> /\ Passes(m, o, n) /\ kind' = kind /\ failed' = failed
          /\ called' = IF o + n = Size[m] THEN called \cup {m} ELSE called
          /\ queue' = IF o + n = Size[m] THEN Tail(queue) ELSE queue
      BY <1>2, UdpSame DEF Udp!handleWrite
    <2>2. Head(queue) \in [m : Msgs, offset : Int] /\ o \in -1..Size[m] - 1
      BY <2>1, QueueItems DEF EndpointInv, Progress
    <2>3. Size[m] \in Nat /\ free \in Nat
      BY <2>2, SizeAssumption DEF EndpointInv
    <2>4. o \in Int /\ Size[m] - o \in Nat \ {0}
      BY <2>2, <2>3
    <2>5. n = -1 \/ n = Size[m] - o
      BY <1>0, <2>3, <2>4 DEF Accepted
    <2>6. PICK m2, o2, n2 : m2 = m /\ o2 = o /\ n2 = n
      OBVIOUS
    <2>7. Writes(m2, o2, n2)
      <3> HIDE DEF n, o, m
      <3>1. o + n # Size[m] => ~(n > 0)
        BY <2>3, <2>4, <2>5
      <3>2. /\ queue # <<>> /\ m = Head(queue).m /\ o = Head(queue).offset /\ n = Accepted(Size[m] - o)
        BY <2>1 DEF m, o, n
      <3>3. QED
        BY <1>0, <2>1, <2>6, <3>1, <3>2 DEF Writes
    <2>8. QED
      BY <2>7
  <1>3. CASE \/ Udp!handleWriteIdle \/ Udp!onRecv \/ Udp!handleRead
             \/ Udp!InputArrives \/ Udp!PeerReads \/ Udp!EpollWait
    BY <1>3 DEF Udp!handleWriteIdle, Udp!NoWriteHandler, Udp!onRecv, Udp!handleRead,
                Udp!InputArrives, Udp!PeerReads, Udp!EpollWait,
                Udp!upVars, Udp!kernelVars, Udp!histVars, Otherwise
  <1>4. QED
    BY <1>1, <1>2, <1>3 DEF Udp!Next

(* A send keeps the invariant. *)
LEMMA SendKeeps ==
  ASSUME EndpointInv, NEW m, NEW n, Sends(m, n)
  PROVE  EndpointInv'
  <1>1. /\ free \in 0..Room /\ called \subseteq Msgs /\ Progress /\ (kind = "unix" => Orderly)
        /\ queue \in Seq([m : Msgs, offset : Int]) /\ out \in Seq(Msgs \X Int)
    BY DEF EndpointInv
  <1>2. /\ m \in Msgs \ Offered /\ n = Accepted(Size[m]) /\ Passes(m, 0, n) /\ kind' = kind
        /\ called' = IF n = Size[m] THEN called \cup {m} ELSE called
        /\ \/ n = Size[m] /\ queue' = queue /\ failed' = failed
           \/ n # Size[m] /\ queue' = Append(queue, [m |-> m, offset |-> n]) /\ failed' = failed
              /\ (kind = "unix" => n >= 0)
           \/ n # Size[m] /\ queue' = queue /\ failed' = failed \cup {m}
    BY DEF Sends
  <1>3. Size[m] \in Nat /\ free \in Nat /\ Room \in Nat
    BY <1>1, <1>2, SizeAssumption
  <1>4. n \in -1..Size[m] /\ (n > 0 => n <= free)
    BY <1>2, <1>3, AcceptedIn
  <1>5. free' \in 0..Room
    BY <1>1, <1>2, <1>3, <1>4 DEF Passes
  <1>6. n \in Int /\ 0 + n = n
    BY <1>3, <1>4
  <1>7. /\ out' \in Seq(Msgs \X Int)
        /\ \A k, x : Covered(k, x) => Covered(k, x)'
        /\ \A k, x : k # m /\ InOrder(k, x) => InOrder(k, x)'
        /\ n > 0 /\ Covered(m, 0) => Covered(m, 0 + n)'
        /\ n > 0 /\ 0 >= 0 /\ InOrder(m, 0) => InOrder(m, 0 + n)'
        /\ ~(n > 0) => out' = out
    BY <1>1, <1>2, <1>6, PassedBytes
  <1>8. Covered(m, n)'
    <2>1. \A x \in {-1, 0} : Covered(m, x) /\ Covered(m, x)'
      BY DEF Covered
    <2>2. n > 0 \/ n = -1 \/ n = 0
      BY <1>3, <1>4
    <2>3. QED
      BY <1>6, <1>7, <2>1, <2>2
  <1>9. queue' \in Seq([m : Msgs, offset : Int]) /\ called' \subseteq Msgs
    BY <1>1, <1>2, <1>6, QueueAppended
  <1> DEFINE new == [m |-> m, offset |-> n]
  <1>10. \A it : Queued(it)' => Queued(it) \/ (it = new /\ n # Size[m])
    <2>1. CASE queue' = queue
      BY <2>1 DEF Queued
    <2>2. CASE n # Size[m] /\ queue' = Append(queue, [m |-> m, offset |-> n])
      BY <1>1, <1>2, <1>6, <2>2, QueueAppended
    <2>3. QED
      BY <1>2, <2>1, <2>2
  <1>11. new.m = m /\ new.offset = n
    OBVIOUS
  <1> HIDE DEF new
  <1>12. Progress'
    <2>1. n # Size[m] => n \in -1..Size[m] - 1
      BY <1>3, <1>4
    <2>2. \A it : Queued(it)' => Queued(it) \/ (it.offset \in -1..Size[it.m] - 1 /\ Covered(it.m, it.offset)')
      BY <1>8, <1>10, <1>11, <2>1
    <2>3. \A k \in called' : k \in called \/ Covered(k, Size[k])'
      BY <1>2, <1>8
    <2>4. QED
      BY <1>1, <1>7, <2>2, <2>3, KeepProgress
  <1>13. ASSUME kind = "unix" PROVE Orderly'
    <2>1. Orderly
      BY <1>1, <1>13
    <2>2. \A it : Queued(it) => it.m # m
      BY <1>1, <1>2, QueueItems
    <2>3. m \notin called
      BY <1>2 DEF Offered
    <2>4. n >= 0 => InOrder(m, n)'
      <3>1. InOrder(m, 0)
        BY <1>2, <2>1 DEF Orderly
      <3>2. CASE n > 0
        BY <1>6, <1>7, <3>1, <3>2
      <3>3. CASE n = 0
        <4>1. ~(n > 0)
          BY <3>3
        <4>2. out' = out
          BY <1>7, <4>1
        <4>3. QED
          BY <3>1, <3>3, <4>2 DEF InOrder
      <3>4. QED
        BY <1>6, <3>2, <3>3
    <2>5. n = Size[m] => n >= 0
      BY <1>3
    <2>6. \A it : Queued(it)' => \/ Queued(it) /\ it.m # m
                                 \/ it.m = m /\ it.offset >= 0 /\ InOrder(m, it.offset)' /\ m \notin called'
      <3>1. CASE queue' = queue
        BY <2>2, <3>1 DEF Queued
      <3>2. CASE n # Size[m] /\ queue' = Append(queue, [m |-> m, offset |-> n]) /\ n >= 0
        BY <1>2, <1>10, <1>11, <2>2, <2>3, <2>4, <3>2
      <3>3. QED
        BY <1>2, <1>13, <3>1, <3>2
    <2>7. \A k \in called' : (k \in called /\ k # m) \/ (k = m /\ InOrder(m, Size[m])')
      BY <1>2, <2>3, <2>4, <2>5
    <2>8. m \in Offered' /\ Offered \subseteq Offered'
      <3>1. CASE n = Size[m] /\ queue' = queue /\ failed' = failed
        BY <1>2, <3>1 DEF Offered
      <3>2. CASE queue' = queue /\ failed' = failed \cup {m}
        BY <1>2, <3>2 DEF Offered
      <3>3. CASE queue' = Append(queue, [m |-> m, offset |-> n]) /\ failed' = failed
        <4>1. \A it : Queued(it)' <=> Queued(it) \/ it = new
          BY <1>1, <1>2, <1>6, <3>3, QueueAppended DEF new
        <4>2. DOMAIN queue = 1..Len(queue) /\ DOMAIN queue' = 1..Len(queue')
          BY <1>1, <1>9, LenProperties
        <4>3. \A it : Queued(it) => it.m \in {queue'[i].m : i \in DOMAIN queue'}
          BY <4>1, <4>2 DEF Queued
        <4>4. m \in {queue'[i].m : i \in DOMAIN queue'}
          BY <1>11, <4>1, <4>2 DEF Queued
        <4>5. \A i \in DOMAIN queue : Queued(queue[i])
          BY <4>2 DEF Queued
        <4>6. QED
          BY <1>2, <3>3, <4>3, <4>4, <4>5 DEF Offered
      <3>4. QED
        BY <1>2, <3>1, <3>2, <3>3
    <2>9. \A i, j \in 1..Len(queue) : queue[i].m = queue[j].m => i = j
      BY <2>1 DEF Orderly
    <2>10. \A i, j \in 1..Len(queue') : queue'[i].m = queue'[j].m => i = j
      <3>1. CASE queue' = queue
        BY <2>9, <3>1
      <3>2. CASE queue' = Append(queue, [m |-> m, offset |-> n])
        BY <1>1, <1>2, <1>6, <2>9, <3>2, QueueAppended
      <3>3. QED
        BY <1>2, <3>1, <3>2
    <2>11. QED
      BY <1>2, <1>7, <2>1, <2>6, <2>7, <2>8, <2>10, KeepOrderly
  <1>14. QED
    BY <1>2, <1>5, <1>7, <1>9, <1>12, <1>13 DEF EndpointInv

(* So does the continuation of one. *)
LEMMA WriteKeeps ==
  ASSUME EndpointInv, NEW m, NEW o, NEW n, Writes(m, o, n)
  PROVE  EndpointInv'
  <1>1. /\ free \in 0..Room /\ called \subseteq Msgs /\ Progress /\ (kind = "unix" => Orderly)
        /\ queue \in Seq([m : Msgs, offset : Int]) /\ out \in Seq(Msgs \X Int)
    BY DEF EndpointInv
  <1>2. /\ queue # <<>> /\ m = Head(queue).m /\ o = Head(queue).offset
        /\ n = Accepted(Size[m] - o) /\ Passes(m, o, n) /\ kind' = kind
    BY DEF Writes
  <1>3. Queued(Head(queue)) /\ Head(queue) \in [m : Msgs, offset : Int]
    BY <1>1, <1>2, QueueItems
  <1>4. m \in Msgs /\ o \in Int /\ o \in -1..Size[m] - 1 /\ Covered(m, o)
    BY <1>1, <1>2, <1>3 DEF Progress
  <1>5. Size[m] \in Nat /\ free \in Nat /\ Room \in Nat
    BY <1>1, <1>4, SizeAssumption
  <1>6. Size[m] - o \in Nat /\ o >= -1 /\ o < Size[m]
    BY <1>4, <1>5
  <1>7. n \in -1..Size[m] - o /\ (n > 0 => n <= free) /\ n \in Int /\ o + n <= Size[m]
    <2>1. n \in -1..Size[m] - o /\ (n > 0 => n <= free)
      BY <1>2, <1>5, <1>6, AcceptedIn
    <2>2. n \in Int /\ o + n <= Size[m]
      BY <1>4, <1>5, <2>1
    <2>3. QED
      BY <2>1, <2>2
  <1>8. free' \in 0..Room
    BY <1>1, <1>2, <1>5, <1>7 DEF Passes
  <1>9. /\ out' \in Seq(Msgs \X Int)
        /\ \A k, x : Covered(k, x) => Covered(k, x)'
        /\ \A k, x : k # m /\ InOrder(k, x) => InOrder(k, x)'
        /\ n > 0 /\ Covered(m, o) => Covered(m, o + n)'
        /\ n > 0 /\ o >= 0 /\ InOrder(m, o) => InOrder(m, o + n)'
        /\ ~(n > 0) => out' = out
    BY <1>1, <1>2, <1>4, <1>6, <1>7, PassedBytes
  <1>10. n > 0 => Covered(m, o + n)' /\ (kind = "unix" => InOrder(m, o + n)')
    BY <1>1, <1>2, <1>3, <1>4, <1>9 DEF Orderly
  <1>11. kind = "unix" => m \notin called /\ o >= 0
    BY <1>1, <1>2, <1>3 DEF Orderly
  <1>12. kind = "unix" => \A i, j \in 1..Len(queue) : queue[i].m = queue[j].m => i = j
    BY <1>1 DEF Orderly
  <1>13. DOMAIN queue = 1..Len(queue)
    BY <1>1, QueueItems
  <1>14. CASE /\ n > 0 /\ o + n = Size[m]
              /\ called' = called \cup {m} /\ queue' = Tail(queue) /\ failed' = failed
    <2>1. /\ queue' \in Seq([m : Msgs, offset : Int])
          /\ \A it : Queued(it)' => Queued(it)
          /\ \A it : Queued(it) => it = Head(queue) \/ Queued(it)'
          /\ kind = "unix" => /\ \A i, j \in 1..Len(queue') : queue'[i].m = queue'[j].m => i = j
                              /\ \A it : Queued(it)' => it.m # m
      BY <1>1, <1>2, <1>12, <1>14, QueueTail
    <2>2. Covered(m, Size[m])' /\ (kind = "unix" => InOrder(m, Size[m])')
      BY <1>10, <1>14
    <2>3. Progress'
      BY <1>1, <1>9, <1>14, <2>1, <2>2, KeepProgress
    <2>4. m \in Offered' /\ Offered \subseteq Offered'
      <3>1. DOMAIN queue' = 1..Len(queue')
        BY <2>1, LenProperties
      <3>2. \A it : Queued(it)' => it.m \in {queue'[i].m : i \in DOMAIN queue'}
        BY <3>1 DEF Queued
      <3>3. \A i \in DOMAIN queue : queue[i].m = m \/ queue[i].m \in {queue'[j].m : j \in DOMAIN queue'}
        BY <1>2, <1>13, <2>1, <3>2 DEF Queued
      <3>4. QED
        BY <1>14, <3>3 DEF Offered
    <2>5. kind = "unix" => Orderly'
      BY <1>1, <1>4, <1>9, <1>11, <1>14, <2>1, <2>2, <2>4, KeepOrderly
    <2>6. QED
      BY <1>1, <1>2, <1>4, <1>8, <1>9, <1>14, <2>1, <2>3, <2>5 DEF EndpointInv
  <1>15. CASE ~(n > 0) /\ called' = called /\ queue' = Tail(queue) /\ failed' = failed \cup {m}
    <2>1. /\ queue' \in Seq([m : Msgs, offset : Int])
          /\ \A it : Queued(it)' => Queued(it)
          /\ \A it : Queued(it) => it = Head(queue) \/ Queued(it)'
          /\ kind = "unix" => /\ \A i, j \in 1..Len(queue') : queue'[i].m = queue'[j].m => i = j
                              /\ \A it : Queued(it)' => it.m # m
      BY <1>1, <1>2, <1>12, <1>15, QueueTail
    <2>2. Progress'
      BY <1>1, <1>9, <1>15, <2>1, KeepProgress
    <2>3. m \in Offered' /\ Offered \subseteq Offered'
      <3>1. DOMAIN queue' = 1..Len(queue')
        BY <2>1, LenProperties
      <3>2. \A it : Queued(it)' => it.m \in {queue'[i].m : i \in DOMAIN queue'}
        BY <3>1 DEF Queued
      <3>3. \A i \in DOMAIN queue : queue[i].m = m \/ queue[i].m \in {queue'[j].m : j \in DOMAIN queue'}
        BY <1>2, <1>13, <2>1, <3>2 DEF Queued
      <3>4. QED
        BY <1>15, <3>3 DEF Offered
    <2>4. kind = "unix" => Orderly'
      BY <1>1, <1>4, <1>9, <1>11, <1>15, <2>1, <2>3, KeepOrderly
    <2>5. QED
      BY <1>1, <1>2, <1>8, <1>9, <1>15, <2>1, <2>2, <2>4 DEF EndpointInv
  <1>16. CASE ~(n > 0) /\ called' = called /\ queue' = queue /\ failed' = failed
    <2>1. out' = out
      BY <1>9, <1>16
    <2>2. Progress' /\ (Orderly => Orderly')
      BY <1>1, <1>16, <2>1 DEF Progress, Orderly, Queued, Covered, InOrder, Offered
    <2>3. QED
      BY <1>1, <1>2, <1>8, <1>9, <1>16, <2>2 DEF EndpointInv
  <1>17. ASSUME NEW d \in Int, n > 0,
                (d = n /\ o + n # Size[m]) \/ (kind # "unix" /\ d = 1 /\ o + 1 # Size[m]),
                called' = called, queue' = [queue EXCEPT ![1].offset = @ + d], failed' = failed
         PROVE  EndpointInv'
    <2> DEFINE new == [m |-> m, offset |-> o + d]
    <2>1. /\ queue' \in Seq([m : Msgs, offset : Int])
          /\ \A it : Queued(it)' => Queued(it) \/ it = new
          /\ {queue'[i].m : i \in DOMAIN queue'} = {queue[i].m : i \in DOMAIN queue}
          /\ kind = "unix" => /\ \A i, j \in 1..Len(queue') : queue'[i].m = queue'[j].m => i = j
                              /\ \A it : Queued(it)' => (Queued(it) /\ it.m # m) \/ it = new
      BY <1>1, <1>2, <1>12, <1>17, QueueMoved
    <2>2. new.m = m /\ new.offset = o + d
      OBVIOUS
    <2> HIDE DEF new
    <2>3. o + d \in -1..Size[m] - 1 /\ o + d <= o + n
      BY <1>4, <1>5, <1>6, <1>7, <1>17
    <2>4. Covered(m, o + d)'
      <3>1. Covered(m, o + n)'
        BY <1>10, <1>17
      <3>2. \A i \in 1..o + d : i \in 1..o + n
        BY <1>4, <1>7, <2>3
      <3>3. QED
        BY <3>1, <3>2 DEF Covered
    <2>5. Progress'
      <3>1. \A it : Queued(it)' => Queued(it) \/ (it.offset \in -1..Size[it.m] - 1 /\ Covered(it.m, it.offset)')
        BY <2>1, <2>2, <2>3, <2>4
      <3>2. QED
        BY <1>1, <1>9, <1>17, <3>1, KeepProgress
    <2>6. ASSUME kind = "unix" PROVE Orderly'
      <3>1. InOrder(m, o + d)' /\ o + d >= 0
        BY <1>4, <1>7, <1>10, <1>11, <1>17, <2>6
      <3>2. \A it : Queued(it)' => \/ Queued(it) /\ it.m # m
                                   \/ it.m = m /\ it.offset >= 0 /\ InOrder(m, it.offset)' /\ m \notin called'
        BY <1>11, <1>17, <2>1, <2>2, <2>6, <3>1
      <3>3. Offered' = Offered
        BY <1>17, <2>1 DEF Offered
      <3>4. m \in Offered
        BY <1>1, <1>2, <1>3, QueueItems
      <3>5. QED
        <4>1. \A k \in called' : (k \in called /\ k # m) \/ (k = m /\ InOrder(m, Size[m])')
          BY <1>11, <1>17, <2>6
        <4>2. Orderly /\ \A i, j \in 1..Len(queue') : queue'[i].m = queue'[j].m => i = j
          BY <1>1, <2>1, <2>6
        <4>3. m \in Offered' /\ Offered \subseteq Offered'
          BY <3>3, <3>4
        <4>4. QED
          BY ONLY <1>4, <1>9, <3>2, <4>1, <4>2, <4>3, KeepOrderly
    <2>7. QED
      BY <1>1, <1>2, <1>8, <1>9, <1>17, <2>1, <2>5, <2>6 DEF EndpointInv
  <1>18. o + n = Size[m] => n > 0
    BY <1>4, <1>5, <1>6, <1>7
  <1>19. n > 0 /\ o + 1 = Size[m] => o + n = Size[m]
    BY <1>4, <1>5, <1>7
  <1>20. QED
    BY <1>14, <1>15, <1>16, <1>17, <1>18, <1>19 DEF Writes

(* When the callback of a send runs, every byte of the message has left,
   through any of the three classes, for any messages, sizes and room; through
   a UnixConnection each of them once and in order. *)
THEOREM CallbackAfterBytesHolds == EndpointSpec => []CallbackAfterBytes
  <1>1. EndpointInit => EndpointInv
    <2> SUFFICES ASSUME EndpointInit PROVE EndpointInv
      OBVIOUS
    <2>1. queue = <<>> /\ out = <<>> /\ called = {} /\ failed = {} /\ free = Room
      BY DEF EndpointInit
    <2>2. queue \in Seq([m : Msgs, offset : Int]) /\ out \in Seq(Msgs \X Int) /\ Len(queue) = 0 /\ 1..0 = {}
          /\ DOMAIN out = {}
      BY <2>1
    <2>3. free \in 0..Room
      BY <2>1, SizeAssumption
    <2>4. Progress
      BY <2>1, <2>2 DEF Progress, Queued
    <2>5. Orderly
      BY <2>1, <2>2 DEF Orderly, Queued, InOrder
    <2>6. QED
      BY <2>1, <2>2, <2>3, <2>4, <2>5 DEF EndpointInv
  <1>2. EndpointInv /\ [EndpointNext]_endpointVars => EndpointInv'
    <2> SUFFICES ASSUME EndpointInv, [EndpointNext]_endpointVars PROVE EndpointInv'
      OBVIOUS
    <2>1. CASE Otherwise
      <3>1. free' \in 0..Room
        BY <2>1, SizeAssumption DEF Otherwise, EndpointInv
      <3>2. (Progress => Progress') /\ (Orderly => Orderly')
        BY <2>1 DEF Otherwise, Progress, Orderly, Queued, Covered, InOrder, Offered
      <3>3. QED
        BY <2>1, <3>1, <3>2 DEF Otherwise, EndpointInv
    <2>2. UNCHANGED endpointVars => Otherwise
      BY DEF Otherwise, endpointVars, upVars, kernelVars, histVars
    <2>3. (\E m, n : Sends(m, n)) \/ (\E m, o, n : Writes(m, o, n)) \/ Otherwise
      BY <2>2, UnixCases, PipeCases, UdpCases DEF EndpointNext
    <2>4. QED
      BY <2>1, <2>3, SendKeeps, WriteKeeps
  <1>3. EndpointInv => CallbackAfterBytes
    BY DEF EndpointInv, Progress, Orderly, Covered, CallbackAfterBytes
  <1>4. QED
    BY <1>1, <1>2, <1>3, PTL DEF EndpointSpec
=============================================================================
