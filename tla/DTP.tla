-------------------------------- MODULE DTP --------------------------------
(***************************************************************************)
(* The data transfer protocol of ndsl: DTP, DTPClient and the calls of      *)
(* Multiplexer that lead to them.  One side sends files and buffers, the    *)
(* other receives them; control messages travel over the connection of the  *)
(* entities (a reliable stream, framed by Multiplexer), every transfer over *)
(* a connection or a datagram socket of its own, and timers of the loop     *)
(* give up on a peer that does not come.                                    *)
(*                                                                          *)
(* A job is one call of sendFile, recvFile or sendData.  Its name is the    *)
(* file name or the data id, by which the receiving client keeps requests.  *)
(* Objects that the code deletes are "live" or "freed"; a second delete, or *)
(* the use of a null channel, ends the process (down), and the use of a      *)
(* freed object may.                                                        *)
(***************************************************************************)
EXTENDS Naturals, Sequences

CONSTANTS Jobs,      \* transfers
          Names,     \* file names and data ids
          None,      \* a null pointer
          Size,      \* bytes of a transfer
          MaxLine    \* bytes one recv() returns at most

ASSUME SizeAssumption == Size \in Nat \ {0} /\ MaxLine \in Nat \ {0}
ASSUME NoneAssumption == None \notin Jobs /\ "notice" \notin Jobs

VARIABLES
  kind, name,  \* of each job: "file", "pull" (recvFile), "tcp" or "udp"; its name
  toRecv, toSend,  \* control messages in flight
  mgr,         \* ListenMgr or DataListenMgr of each job, and what it points to
  wire,        \* bytes of the transfer in flight
  udpDataMp_,  \* DTP::udpDataMp_ of the sending side
  info,        \* RecvFileInfo or RecvDataInfo of each job, and its socket
  mp_,         \* DTPClient::mp_: name -> the job announced, or "notice"
  timeMp_,     \* DTP::timeMp_ of the one receiving client
  task,        \* the time wheel's task of a recvFile
  recvReq,     \* whose receive request the control connection holds
  disk, got,   \* the files of the receiver; the buffers given to its user
  told,        \* the receiver's last notice of each job
  answered, acked, \* jobs the receiver answered; the sender heard of success
  down         \* processes that died

vars == <<kind, name, toRecv, toSend, mgr, wire, udpDataMp_, info, mp_, timeMp_,
          task, recvReq, disk, got, told, answered, acked, down>>
senderVars == <<mgr, udpDataMp_, acked>>
receiverVars == <<info, mp_, timeMp_, task, recvReq, disk, got, told, answered>>

Kinds == {"file", "pull", "tcp", "udp"}
Whole == [i \in 1..Size |-> i]

(* The bytes as they are when they are sent: the file or the user's buffer
   may have changed since its checksum was taken. *)
Contents == {Whole, [Whole EXCEPT ![1] = 0]}
Prefix(s, k) == SubSeq(s, 1, k)
Rest(s, k) == SubSeq(s, k + 1, Len(s))

(* A control message, as the make...Msg functions fill it: what it asks or
   reports, and the job whose port, name, length and checksum it carries. *)
ControlMsg(flag, j) == [flag |-> flag, job |-> j]

(* delete of a pointer; "twice" when the object was gone already. *)
Deleted(state) == IF state \in {"freed", "twice"} THEN "twice" ELSE "freed"

NoMgr == [obj |-> "none", acceptor_ |-> FALSE, acc |-> "none", conn |-> "none",
          timer |-> "none", left |-> <<>>, work |-> FALSE]
NoInfo == [obj |-> "none", sock |-> "none", length |-> 0, timer |-> "none"]

Init ==
  /\ kind \in [Jobs -> Kinds] /\ name \in [Jobs -> Names]
  /\ toRecv = <<>> /\ toSend = <<>>
  /\ mgr = [j \in Jobs |-> NoMgr] /\ info = [j \in Jobs |-> NoInfo]
  /\ wire = [j \in Jobs |-> <<>>]
  /\ udpDataMp_ = [n \in Names |-> None] /\ mp_ = [n \in Names |-> None]
  /\ timeMp_ = None /\ task = [j \in Jobs |-> "none"] /\ recvReq = "dispatch"
  /\ disk = [n \in Names |-> <<>>] /\ got = [j \in Jobs |-> <<>>]
  /\ told = [j \in Jobs |-> "none"] /\ answered = {} /\ acked = {} /\ down = {}

SenderUp == "snd" \notin down
ReceiverUp == "rcv" \notin down

-----------------------------------------------------------------------------
(* The sending side *)

(* sendFile and sendData over TCP: listen on a port of their own, arm the
   timeout, register the accept and announce the port.  A start() that failed
   is not noticed. *)
Listen(j, flag) ==
  /\ mgr[j].obj = "none"
  /\ \E acc \in {"listening", "dead"} :
       mgr' = [mgr EXCEPT ![j] = [NoMgr EXCEPT !.obj = "live", !.acceptor_ = TRUE,
                                    !.acc = acc, !.conn = "new", !.timer = "armed"]]
  /\ toRecv' = Append(toRecv, ControlMsg(flag, j))

sendFile(j) ==
  /\ SenderUp /\ kind[j] = "file"
  /\ Listen(j, "SENDFILEFLAG")
  /\ UNCHANGED <<kind, name, toSend, wire, udpDataMp_, acked, receiverVars, down>>

sendData(j) ==
  /\ SenderUp /\ kind[j] = "tcp"
  /\ Listen(j, "SENDDATAFLAG")
  /\ UNCHANGED <<kind, name, toSend, wire, udpDataMp_, acked, receiverVars, down>>

(* The first step over UDP; insert() keeps an older entry of the same id. *)
sendDataOnUdp(j) ==
  /\ SenderUp /\ kind[j] = "udp" /\ mgr[j].obj = "none"
  /\ mgr' = [mgr EXCEPT ![j].obj = "live"]
  /\ udpDataMp_' = [udpDataMp_ EXCEPT ![name[j]] = IF @ = None THEN j ELSE @]
  /\ toRecv' = Append(toRecv, ControlMsg("SENDDATAONUDP", j))
  /\ UNCHANGED <<kind, name, toSend, wire, acked, receiverVars, down>>

(* A bug: the test of acceptor_ is the wrong way round. *)
stopListenInverted(j) ==
  /\ SenderUp /\ mgr[j].timer = "armed"
  /\ mgr' = [mgr EXCEPT ![j].timer = "done",
                        ![j].acc = IF mgr[j].acceptor_ THEN @ ELSE Deleted(@),
                        ![j].conn = IF mgr[j].acceptor_ THEN @ ELSE Deleted(@)]
  /\ UNCHANGED <<kind, name, toRecv, toSend, wire, udpDataMp_, acked, receiverVars, down>>

(* The timeout.  sendFile's manager may be gone by now: what is then read in
   the place of acceptor_ is anything. *)
stopListen(j) ==
  /\ SenderUp /\ mgr[j].timer = "armed"
  /\ \E expired \in IF mgr[j].obj = "live" THEN {mgr[j].acceptor_} ELSE BOOLEAN :
       mgr' = [mgr EXCEPT ![j].timer = "done",
                          ![j].acc = IF expired THEN Deleted(@) ELSE @,
                          ![j].conn = IF expired THEN Deleted(@) ELSE @]
  /\ down' = IF mgr'[j].conn = "twice" THEN down \cup {"snd"} ELSE down
  /\ UNCHANGED <<kind, name, toRecv, toSend, wire, udpDataMp_, acked, receiverVars>>

(* TcpAcceptor::handleRead finds the connection and calls back. *)
Accepts(j) ==
  /\ SenderUp /\ mgr[j].acc = "listening" /\ mgr[j].conn = "new"
  /\ info[j].sock = "syn"
  /\ info' = [info EXCEPT ![j].sock = "open"]

(* A callback has deleted the object whose handler called it, and that reads
   the object afterwards: the sender ends, or it does not. *)
OwnerDeleted == down' \in {down, down \cup {"snd"}}

(* acceptorCallback: the acceptor goes, under TcpAcceptor::handleRead, then
   TcpConnection::sendFile.  The rest of a file that does not fit the socket's
   buffer, or that cannot be opened, is queued where nothing reads; otherwise sendFileCallback notifies the user
   and posts the clearing of memory. *)
acceptorCallback(j) ==
  /\ kind[j] \in {"file", "pull"} /\ Accepts(j)
  /\ \E bytes \in Contents, n \in 0..Size :
       /\ wire' = [wire EXCEPT ![j] = Prefix(bytes, n)]
       /\ mgr' = [mgr EXCEPT ![j].acc = "freed", ![j].acceptor_ = FALSE, ![j].conn = "open",
                             ![j].work = (n = Size), ![j].left = Rest(bytes, n)]
  /\ OwnerDeleted
  /\ UNCHANGED <<kind, name, toRecv, toSend, udpDataMp_, mp_, timeMp_, task, recvReq,
                 disk, got, told, answered, acked>>

(* The work item sendFileCallback has posted. *)
senfFileClearMemory(j) ==
  /\ SenderUp /\ mgr[j].work
  /\ mgr' = [mgr EXCEPT ![j].work = FALSE, ![j].conn = Deleted(@), ![j].obj = "freed"]
  /\ UNCHANGED <<kind, name, toRecv, toSend, wire, udpDataMp_, acked, receiverVars, down>>

(* A bug: the pointer keeps its value. *)
sendDataCallbackKeep(m) ==
  [m EXCEPT !.conn = Deleted(@), !.acc = Deleted(@), !.left = <<>>]

(* sendDataCallback on a manager record: connection and acceptor go, and the
   pointer the timeout tests is cleared. *)
sendDataCallback(m) ==
  [m EXCEPT !.conn = Deleted(@), !.acc = Deleted(@), !.acceptor_ = FALSE, !.left = <<>>]

(* acceptorCallbackOfSendData: what onSend cannot place now waits in the
   connection's queue. *)
acceptorCallbackOfSendData(j) ==
  /\ kind[j] = "tcp" /\ Accepts(j)
  /\ \E bytes \in Contents, n \in 0..Size :
       LET m == [mgr[j] EXCEPT !.conn = "open", !.left = Rest(bytes, n)]
       IN /\ wire' = [wire EXCEPT ![j] = Prefix(bytes, n)]
          /\ mgr' = [mgr EXCEPT ![j] = IF n = Size THEN sendDataCallback(m) ELSE m]
          /\ IF n = Size THEN OwnerDeleted ELSE down' = down
  /\ UNCHANGED <<kind, name, toRecv, toSend, udpDataMp_, mp_, timeMp_, task, recvReq,
                 disk, got, told, answered, acked>>

(* TcpConnection::handleWrite sends the rest, and pops the queue of the
   connection its callback has deleted; if the peer is gone it drops the
   message, and there is no callback. *)
handleWrite(j) ==
  /\ SenderUp /\ kind[j] = "tcp" /\ mgr[j].conn = "open" /\ mgr[j].left # <<>>
  /\ IF info[j].sock = "open" /\ ReceiverUp
     THEN /\ wire' = [wire EXCEPT ![j] = @ \o mgr[j].left]
          /\ mgr' = [mgr EXCEPT ![j] = sendDataCallback(@)]
          /\ OwnerDeleted
     ELSE /\ mgr' = [mgr EXCEPT ![j].left = <<>>]
          /\ UNCHANGED <<wire, down>>
  /\ UNCHANGED <<kind, name, toRecv, toSend, udpDataMp_, acked, receiverVars>>

(* The second step over UDP: what arrives is what is kept under the id, which
   is not this job's buffer if the id was used before, or nothing. *)
Datagrams(j) ==
  {<<>>} \cup IF udpDataMp_[name[j]] = j THEN Contents ELSE Contents \ {Whole}

(* A control message at the sender: a request for a file, which its user
   answers with sendFile if it has the file; the agreement to receive a
   datagram, which starts the second step; or the receiver's verdict. *)
analysisAtSender ==
  /\ SenderUp /\ toSend # <<>> /\ toSend' = Tail(toSend)
  /\ LET flag == Head(toSend).flag
         j == Head(toSend).job
     IN \/ /\ flag = "RECVFILEFLAG" /\ Listen(j, "SENDFILEFLAG")
           /\ UNCHANGED <<wire, acked>>
        \/ /\ flag = "RECVFILEFLAG"
           /\ UNCHANGED <<toRecv, mgr, wire, acked>>
        \/ /\ flag = "RECVDATAONUDP"
           /\ \E bytes \in Datagrams(j) : wire' = [wire EXCEPT ![j] = bytes]
           /\ UNCHANGED <<toRecv, mgr, acked>>
        \/ /\ flag = "OPPENDRECVSUCC" /\ acked' = acked \cup {j}
           /\ UNCHANGED <<toRecv, mgr, wire>>
        \/ /\ flag = "OPPENDRECVFAIL"
           /\ UNCHANGED <<toRecv, mgr, wire, acked>>
  /\ UNCHANGED <<kind, name, udpDataMp_, receiverVars, down>>

-----------------------------------------------------------------------------
(* The receiving side *)

(* DTPClient::mp_.insert keeps an older entry. *)
Record(n, entry) == mp_' = [mp_ EXCEPT ![n] = IF @ = None THEN entry ELSE @]

(* recvFile: ask for a file, with a timer for a peer that has none. *)
recvFile(j) ==
  /\ ReceiverUp /\ kind[j] = "pull" /\ task[j] = "none"
  /\ task' = [task EXCEPT ![j] = "armed"]
  /\ timeMp_' = IF timeMp_ = None THEN j ELSE timeMp_
  /\ toSend' = Append(toSend, ControlMsg("RECVFILEFLAG", j))
  /\ UNCHANGED <<kind, name, toRecv, wire, senderVars, info, mp_, recvReq,
                 disk, got, told, answered, down>>

(* The timer of recvFile; the wheel deletes the task afterwards. *)
handleRecvfileFail(j) ==
  /\ ReceiverUp /\ task[j] = "armed"
  /\ task' = [task EXCEPT ![j] = "deleted"]
  /\ told' = [told EXCEPT ![j] = "fail"]
  /\ UNCHANGED <<kind, name, toRecv, toSend, wire, senderVars, info, mp_, timeMp_, recvReq,
                 disk, got, answered, down>>

(* A control message at the receiver, dispatched to the client, which keeps
   it and notifies the user. *)
analysisProtobuf ==
  /\ ReceiverUp /\ recvReq = "dispatch" /\ toRecv # <<>>
  /\ Record(name[Head(toRecv).job], Head(toRecv).job)
  /\ toRecv' = Tail(toRecv)
  /\ UNCHANGED <<kind, name, toSend, wire, senderVars, info, timeMp_, task, recvReq,
                 disk, got, told, answered, down>>

(* A control message taken by the receive request of a split transfer, whose
   information may be gone. *)
controlMessageLost ==
  /\ ReceiverUp /\ recvReq = "data" /\ toRecv # <<>>
  /\ toRecv' = Tail(toRecv)
  /\ down' \in {down, down \cup {"rcv"}}
  /\ UNCHANGED <<kind, name, toSend, wire, senderVars, receiverVars>>

(* TcpClient::onConnect.  A refusal known at once leaves no channel, and
   registering the error handler dereferences it. *)
Connect(j) ==
  IF mgr[j].acc = "listening" /\ SenderUp
  THEN /\ info' = [info EXCEPT ![j] = [NoInfo EXCEPT !.obj = "live", !.sock = "syn",
                                                     !.length = Size]]
       /\ down' = down
  ELSE \/ /\ info' = [info EXCEPT ![j] = [NoInfo EXCEPT !.obj = "live", !.sock = "refused",
                                                        !.length = Size]]
          /\ down' = down
       \/ /\ info' = info /\ down' = down \cup {"rcv"}

(* DTPClient::agreeRecvFile and agreeRecvData find what is kept under the name,
   pass it on and erase it. *)
Agree(n) == ReceiverUp /\ mp_[n] # None /\ mp_' = [mp_ EXCEPT ![n] = None]

(* A bug: the timer of recvFile goes on. *)
agreeRecvFileKeepsTimer(n) ==
  /\ Agree(n) /\ mp_[n] \in Jobs /\ kind[mp_[n]] \in {"file", "pull"}
  /\ Connect(mp_[n])
  /\ UNCHANGED <<kind, name, toRecv, toSend, wire, senderVars, timeMp_, task, recvReq,
                 disk, got, told, answered>>

(* The user agrees to a file: the timer of a recvFile of this client is
   cancelled and its task deleted, once more if it is gone already. *)
agreeRecvFile(n) ==
  /\ Agree(n) /\ mp_[n] \in Jobs /\ kind[mp_[n]] \in {"file", "pull"}
  /\ IF timeMp_ # None /\ task[timeMp_] = "deleted"
     THEN down' = down \cup {"rcv"} /\ UNCHANGED <<info, task>>
     ELSE /\ Connect(mp_[n])
          /\ task' = IF timeMp_ = None THEN task ELSE [task EXCEPT ![timeMp_] = "deleted"]
  /\ UNCHANGED <<kind, name, toRecv, toSend, wire, senderVars, timeMp_, recvReq,
                 disk, got, told, answered>>

(* The user agrees to a buffer over TCP.  A notice found under the id has no
   port to connect to. *)
agreeRecvData(n) ==
  /\ Agree(n)
  /\ \/ /\ mp_[n] \in Jobs /\ kind[mp_[n]] = "tcp"
        /\ Connect(mp_[n])
     \/ mp_[n] = "notice" /\ down' = down \cup {"rcv"} /\ info' = info
  /\ UNCHANGED <<kind, name, toRecv, toSend, wire, senderVars, timeMp_, task, recvReq,
                 disk, got, told, answered>>

(* The user agrees to a datagram: bind, register, arm the timeout, answer. *)
agreeRecvUdpData(n) ==
  /\ Agree(n) /\ mp_[n] \in Jobs /\ kind[mp_[n]] = "udp"
  /\ info' = [info EXCEPT ![mp_[n]] = [NoInfo EXCEPT !.obj = "live", !.sock = "open",
                                          !.length = Size, !.timer = "armed"]]
  /\ toSend' = Append(toSend, ControlMsg("RECVDATAONUDP", mp_[n]))
  /\ UNCHANGED <<kind, name, toRecv, wire, senderVars, timeMp_, task, recvReq,
                 disk, got, told, answered, down>>

(* The bytes of one recv(). *)
Receives(j, k) ==
  /\ ReceiverUp /\ info[j].obj = "live" /\ info[j].sock = "open" /\ info[j].length > 0
  /\ k <= Len(wire[j]) /\ k <= MaxLine
  /\ wire' = [wire EXCEPT ![j] = Rest(@, k)]

(* fwrite is given the length that is missing, not the length received. *)
Written(bytes, length) == [i \in 1..length |-> IF i <= Len(bytes) THEN bytes[i] ELSE 0]

(* MD5 and CRC, taken as exact. *)
ChecksumMatches(bytes) == bytes = Whole

(* A part of the file: appended to it; with the last part the checksum
   decides, and a file that does not match is removed. *)
recvFileCallback(j, k) ==
  /\ kind[j] \in {"file", "pull"} /\ Receives(j, k)
  /\ LET bytes == disk[name[j]] \o Written(Prefix(wire[j], k), info[j].length)
         last == k = info[j].length
         ok == ChecksumMatches(bytes)
     IN /\ disk' = [disk EXCEPT ![name[j]] = IF last /\ ~ok THEN <<>> ELSE bytes]
        /\ told' = IF last THEN [told EXCEPT ![j] = IF ok THEN "succ" ELSE "fail"] ELSE told
  /\ info' = [info EXCEPT ![j].length = @ - k]
  /\ UNCHANGED <<kind, name, toRecv, toSend, senderVars, mp_, timeMp_, task, recvReq,
                 got, answered, down>>

(* A buffer over TCP.  Only one that comes in one piece is judged; for the
   rest of another the receive request goes to the control connection. *)
recvDataCallback(j, k) ==
  /\ kind[j] = "tcp" /\ Receives(j, k)
  /\ IF k = Size
     THEN LET ok == ChecksumMatches(wire[j])
          IN /\ told' = [told EXCEPT ![j] = IF ok THEN "succ" ELSE "fail"]
             /\ got' = [got EXCEPT ![j] = IF ok THEN wire[j] ELSE @]
             /\ Record(name[j], "notice")
             /\ recvReq' = recvReq
     ELSE recvReq' = "data" /\ UNCHANGED <<told, got, mp_>>
  /\ info' = [info EXCEPT ![j].length = 0]
  /\ UNCHANGED <<kind, name, toRecv, toSend, senderVars, timeMp_, task, disk, answered, down>>

(* A datagram: judged, and everything of the transfer is freed but its timer. *)
recvUdpDataCallback(j) ==
  /\ kind[j] = "udp" /\ ReceiverUp /\ info[j].sock = "open" /\ wire[j] # <<>>
  /\ LET ok == ChecksumMatches(wire[j])
     IN /\ told' = [told EXCEPT ![j] = IF ok THEN "succ" ELSE "fail"]
        /\ got' = [got EXCEPT ![j] = IF ok THEN wire[j] ELSE @]
        /\ IF ok THEN Record(name[j], "notice") ELSE UNCHANGED mp_
  /\ wire' = [wire EXCEPT ![j] = <<>>]
  /\ info' = [info EXCEPT ![j].obj = "freed", ![j].sock = "closed"]
  /\ UNCHANGED <<kind, name, toRecv, toSend, senderVars, timeMp_, task, recvReq, disk, answered, down>>

(* The datagram's timeout.  Freed information may be read; if temp_ then
   looks set, a second delete ends the process. *)
stopListenOfUdp(j) ==
  /\ ReceiverUp /\ info[j].timer = "armed"
  /\ info' = [info EXCEPT ![j].timer = "done", ![j].sock = "closed"]
  /\ IF info[j].obj = "live" THEN down' = down ELSE down' \in {down, down \cup {"rcv"}}
  /\ UNCHANGED <<kind, name, toRecv, toSend, wire, senderVars, mp_, timeMp_, task, recvReq,
                 disk, got, told, answered>>

(* A bug: the listening socket goes without a word to the peers that wait for
   it (TcpChannel's destructor without its shutdown). *)
handleErroNoReset(j) ==
  /\ ReceiverUp /\ kind[j] # "udp" /\ info[j].obj = "live"
  /\ \/ info[j].sock = "refused"
     \/ /\ info[j].sock = "open" /\ (wire[j] = <<>> \/ info[j].length = 0)
        /\ mgr[j].conn = "freed" \/ ~SenderUp
  /\ info' = [info EXCEPT ![j].obj = "freed", ![j].sock = "closed"]
  /\ UNCHANGED <<kind, name, toRecv, toSend, wire, senderVars, mp_, timeMp_, task, recvReq,
                 disk, got, told, answered, down>>

(* The error handlers of the receiving connection, called when the peer
   refused; when the listening socket was shut down before it accepted; or when
   the peer has closed and everything was read. *)
handleErro(j) ==
  /\ ReceiverUp /\ kind[j] # "udp" /\ info[j].obj = "live"
  /\ \/ info[j].sock = "refused"
     \/ info[j].sock = "syn" /\ (mgr[j].acc = "freed" \/ ~SenderUp)
     \/ /\ info[j].sock = "open" /\ (wire[j] = <<>> \/ info[j].length = 0)
        /\ mgr[j].conn = "freed" \/ ~SenderUp
  /\ info' = [info EXCEPT ![j].obj = "freed", ![j].sock = "closed"]
  /\ UNCHANGED <<kind, name, toRecv, toSend, wire, senderVars, mp_, timeMp_, task, recvReq,
                 disk, got, told, answered, down>>

(* The user tells the peer how a buffer arrived, as DtpTest.cc does. *)
sendAck(j) ==
  /\ ReceiverUp /\ kind[j] = "tcp" /\ told[j] # "none"
  /\ j \notin answered
  /\ toSend' = Append(toSend, ControlMsg(IF told[j] = "succ" THEN "OPPENDRECVSUCC"
                                                           ELSE "OPPENDRECVFAIL", j))
  /\ answered' = answered \cup {j}
  /\ UNCHANGED <<kind, name, toRecv, wire, senderVars, info, mp_, timeMp_, task, recvReq,
                 disk, got, told, down>>

-----------------------------------------------------------------------------
(* The application, which may never call. *)
UserStep ==
  \/ \E j \in Jobs : sendFile(j) \/ sendData(j) \/ sendDataOnUdp(j) \/ recvFile(j) \/ sendAck(j)
  \/ \E n \in Names : agreeRecvFile(n) \/ agreeRecvData(n) \/ agreeRecvUdpData(n)

(* What the loops of the two processes do for a job. *)
JobStep(j) ==
  \/ acceptorCallback(j) \/ senfFileClearMemory(j)
  \/ acceptorCallbackOfSendData(j) \/ handleWrite(j)
  \/ \E k \in 1..Size : recvFileCallback(j, k) \/ recvDataCallback(j, k)
  \/ recvUdpDataCallback(j) \/ handleErro(j)

TimerStep(j) == stopListen(j) \/ handleRecvfileFail(j) \/ stopListenOfUdp(j)

ControlStep == analysisAtSender \/ analysisProtobuf \/ controlMessageLost

Next == UserStep \/ ControlStep \/ \E j \in Jobs : JobStep(j) \/ TimerStep(j)

Spec == Init /\ [][Next]_vars

(* The loops go on and the timers expire. *)
FairSpec == Spec /\ \A j \in Jobs : WF_vars(JobStep(j)) /\ WF_vars(TimerStep(j))

-----------------------------------------------------------------------------
(* What this step does to a job whose success was notified: no second notice,
   but for a recvFile whose timer DTP::timeMp_ did not take; nothing more into
   its buffer; and into its file only what another transfer to the same name
   receives. *)
SuccessKept(j) ==
  /\ told'[j] = "succ" \/ (kind[j] = "pull" /\ timeMp_ # j)
  /\ got'[j] = got[j]
  /\ kind[j] \in {"file", "pull"} /\ disk'[name[j]] # disk[name[j]] =>
       \E i \in Jobs \ {j} : name[i] = name[j] /\ info[i].obj = "live"

(* RECVFILESUCC and RECVDATASUCC are final: no timer that was armed before, no
   late message and no later bytes of the job take the success back or touch
   what was received (agreeRecvFile cancels the timer, recvFileCallback and the
   callbacks of data register no further receive, a job is announced once). *)
VerdictStands == [][\A j \in Jobs : told[j] = "succ" => SuccessKept(j)]_vars

(* The timeout and the completion of sendData do not both delete the acceptor
   or the connection: sendDataCallback clears what stopListenOfData tests. *)
DataDeletedOnce ==
  \A j \in Jobs : kind[j] = "tcp" => mgr[j].acc # "twice" /\ mgr[j].conn # "twice"

(* After its timeout a job no longer listens, and an accepted file is still
   being served unless it was served: the timeout takes the listener of a
   peer that has not come and nothing else (stopListen). *)
TimeoutEndsListening ==
  \A j \in Jobs : mgr[j].timer = "done" =>
     /\ mgr[j].acc \notin {"listening", "dead"}
     /\ mgr[j].obj = "live" /\ kind[j] \in {"file", "pull"} /\ info[j].sock = "open" =>
          mgr[j].conn = "open"

(* A receive that was begun ends: with a notice, with the error handler, or
   with the end of a process; except that the rest of a file that did not fit
   into the socket's buffer is never sent (agreeRecvFile, agreeRecvData,
   agreeRecvUdpData and everything that follows them). *)
TransferConcludes ==
  \A j \in Jobs : info[j].sock \in {"syn", "open", "refused"} ~>
     \/ told[j] # "none" \/ info[j].sock = "closed" \/ down # {}
     \/ kind[j] # "tcp" /\ mgr[j].left # <<>>

(* The control connection keeps its dispatcher: Multiplexer::dispatch
   registers itself again "as long as there is a connection". *)
DispatchNeverStops == recvReq = "dispatch"

=============================================================================
