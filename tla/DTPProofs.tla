----------------------------- MODULE DTPProofs -----------------------------
(* Proofs about the data transfer protocol, for any jobs, names and sizes: that
   a success is final, that the timeout and the completion of a transfer do
   not delete the same object, and what the timeout leaves. *)
EXTENDS DTP, Integers, SequenceTheorems, TLAPS

MgrType ==
  [obj : {"none", "live", "freed"}, acceptor_ : BOOLEAN,
   acc : {"none", "listening", "dead", "freed", "twice"},
   conn : {"none", "new", "open", "freed", "twice"},
   timer : {"none", "armed", "done"}, left : Seq(Nat), work : BOOLEAN]
InfoType ==
  [obj : {"none", "live", "freed"}, sock : {"none", "syn", "open", "refused", "closed"},
   length : Int, timer : {"none", "armed", "done"}]
Flags == {"RECVFILEFLAG", "RECVDATAONUDP", "OPPENDRECVSUCC", "OPPENDRECVFAIL"}
Message == [flag : Flags, job : Jobs]

(* Of the objects that the properties are about. *)
TypeInv ==
  /\ kind \in [Jobs -> Kinds] /\ name \in [Jobs -> Names]
  /\ mgr \in [Jobs -> MgrType] /\ info \in [Jobs -> InfoType]
  /\ toSend \in Seq(Message)
  /\ told \in [Jobs -> {"none", "succ", "fail"}]
  /\ disk = [n \in Names |-> disk[n]] /\ got = [j \in Jobs |-> got[j]]

IsFile(j) == kind[j] \in {"file", "pull"}

(* The life of a manager: before its job is begun; *)
Unborn(m) == m.obj = "none" /\ m.acc = "none" /\ m.conn = "none" /\ m.timer = "none" /\ ~m.work

(* of a datagram, which has nothing but itself; *)
Bare(m) == m.obj = "live" /\ m.acc = "none" /\ m.conn = "none" /\ m.timer = "none" /\ ~m.work

(* waiting for the peer, and when that was in vain; *)
Waits(m) ==
  /\ m.obj = "live" /\ m.acceptor_ /\ m.acc \in {"listening", "dead"} /\ m.conn = "new"
  /\ m.timer = "armed" /\ ~m.work
GivenUp(m) ==
  /\ m.obj = "live" /\ m.acceptor_ /\ m.acc = "freed" /\ m.conn = "freed"
  /\ m.timer = "done" /\ ~m.work

(* of a file that is sent, and after its clearing; *)
Serves(m) ==
  /\ m.obj = "live" /\ ~m.acceptor_ /\ m.acc = "freed" /\ m.conn = "open"
  /\ m.timer \in {"armed", "done"}
Cleared(m) ==
  /\ m.obj = "freed" /\ m.acc \in {"freed", "twice"} /\ m.timer \in {"armed", "done"} /\ ~m.work

(* of a buffer that is sent, and of one that was. *)
Places(m) ==
  /\ m.obj = "live" /\ m.acceptor_ /\ m.acc = "listening" /\ m.conn = "open"
  /\ m.timer = "armed" /\ ~m.work
Placed(m) ==
  /\ m.obj = "live" /\ ~m.acceptor_ /\ m.acc = "freed" /\ m.conn = "freed"
  /\ m.timer \in {"armed", "done"} /\ ~m.work

Life(j) ==
  \/ Unborn(mgr[j]) /\ (kind[j] # "udp" => info[j].sock # "open")
  \/ kind[j] = "udp" /\ Bare(mgr[j])
  \/ (Waits(mgr[j]) \/ GivenUp(mgr[j])) /\ (IsFile(j) => info[j].sock # "open")
  \/ IsFile(j) /\ (Serves(mgr[j]) \/ Cleared(mgr[j]))
  \/ kind[j] = "tcp" /\ (Places(mgr[j]) \/ Placed(mgr[j]))

DTPInv == TypeInv /\ \A j \in Jobs : Life(j)

(* What the connection of the receiver does to a manager that stays. *)
LEMMA KeepLife ==
  ASSUME NEW j \in Jobs, Life(j), kind' = kind, mgr'[j] = mgr[j],
         info'[j].sock = info[j].sock \/ info'[j].sock # "open" \/ kind[j] = "udp"
  PROVE  Life(j)'
  <1>1. kind[j] = "udp" => ~IsFile(j)
    BY DEF IsFile
  <1>2. IsFile(j)' <=> IsFile(j)
    BY DEF IsFile
  <1>3. QED
    BY <1>1, <1>2 DEF Life, Unborn, Bare, Waits, GivenUp, Serves, Cleared, Places, Placed

(* A part of the bytes is a sequence. *)
LEMMA Pieces ==
  ASSUME NEW s \in Contents, NEW n \in 0..Size
  PROVE  Prefix(s, n) \in Seq(Nat) /\ Rest(s, n) \in Seq(Nat)
  <1>1. Size \in Nat \ {0}
    BY SizeAssumption
  <1>2. Whole \in Seq(Nat) /\ Len(Whole) = Size
    BY <1>1 DEF Whole
  <1>3. s \in Seq(Nat) /\ Len(s) = Size
    <2>1. 1 \in 1..Len(Whole) /\ 0 \in Nat
      BY <1>1, <1>2
    <2>2. /\ [Whole EXCEPT ![1] = 0] \in Seq(Nat)
          /\ Len([Whole EXCEPT ![1] = 0]) = Len(Whole)
      BY <1>2, <2>1, ExceptSeq
    <2>3. QED
      BY <1>2, <2>2 DEF Contents
  <1>4. \A i \in 1..Size : s[i] \in Nat
    BY <1>3, ElementOfSeq
  <1>5. (\A i \in 1..n : s[i] \in Nat) /\ (\A i \in n + 1..Size : s[i] \in Nat) /\ n \in Int /\ n + 1 \in Int
    BY <1>1, <1>4
  <1>6. SubSeq(s, 1, n) \in Seq(Nat) /\ SubSeq(s, n + 1, Size) \in Seq(Nat)
    BY <1>1, <1>5, SubSeqProperties
  <1>7. QED
    BY <1>3, <1>6 DEF Prefix, Rest

(* One manager changes, and perhaps the socket of its job. *)
LEMMA OneMgr ==
  ASSUME DTPInv, NEW j \in Jobs, kind' = kind,
         \A i \in Jobs \ {j} : mgr'[i] = mgr[i] /\ info'[i] = info[i],
         Life(j)'
  PROVE  \A i \in Jobs : Life(i)'
  <1>1. ASSUME NEW i \in Jobs \ {j} PROVE Life(i)'
    <2>1. Life(i) /\ mgr'[i] = mgr[i] /\ info'[i].sock = info[i].sock
      BY DEF DTPInv
    <2>2. QED
      BY <2>1, KeepLife
  <1>2. QED
    BY <1>1

(* Types of the rest, which most steps leave alone. *)
Elsewhere ==
  /\ kind' = kind /\ name' = name
  /\ toSend' \in Seq(Message)
  /\ told' \in [Jobs -> {"none", "succ", "fail"}]
  /\ disk' = [n \in Names |-> disk'[n]] /\ got' = [j \in Jobs |-> got'[j]]

(* The parts of the invariant, put together. *)
LEMMA Together ==
  ASSUME DTPInv, Elsewhere, mgr' \in [Jobs -> MgrType], info' \in [Jobs -> InfoType], \A j \in Jobs : Life(j)'
  PROVE  DTPInv'
  BY DEF DTPInv, TypeInv, Elsewhere

(* A step that touches none of the rest. *)
LEMMA StillTyped ==
  ASSUME DTPInv, UNCHANGED <<kind, name, toSend, told, disk, got>>
  PROVE  Elsewhere
  BY DEF DTPInv, TypeInv, Elsewhere

(* sendFile, sendData and the answer to recvFile. *)
LEMMA ListenKeeps ==
  ASSUME DTPInv, NEW j \in Jobs, NEW flag, Listen(j, flag), info' = info, kind' = kind
  PROVE  mgr' \in [Jobs -> MgrType] /\ \A i \in Jobs : Life(i)'
  <1>1. PICK acc \in {"listening", "dead"} :
          mgr' = [mgr EXCEPT ![j] = [NoMgr EXCEPT !.obj = "live", !.acceptor_ = TRUE,
                                       !.acc = acc, !.conn = "new", !.timer = "armed"]]
    BY DEF Listen
  <1> DEFINE m == [NoMgr EXCEPT !.obj = "live", !.acceptor_ = TRUE, !.acc = acc, !.conn = "new", !.timer = "armed"]
  <1>2. <<>> \in Seq(Nat)
    BY EmptySeq
  <1>3. NoMgr \in MgrType /\ ~NoMgr.work
    BY <1>2 DEF NoMgr, MgrType
  <1>4. m \in MgrType
    BY <1>3 DEF MgrType
  <1>5. Waits(m)
    BY <1>3 DEF Waits, MgrType
  <1> HIDE DEF m
  <1>6. mgr \in [Jobs -> MgrType] /\ info \in [Jobs -> InfoType] /\ kind \in [Jobs -> Kinds]
    BY DEF DTPInv, TypeInv
  <1>7. mgr'[j] = m
    BY <1>1, <1>6 DEF m
  <1>8. mgr[j].obj = "none" /\ Life(j)
    BY DEF Listen, DTPInv
  <1>9. kind[j] # "udp" => info[j].sock # "open"
    BY <1>8 DEF Life, Unborn, Bare, Waits, GivenUp, Serves, Cleared, Places, Placed
  <1>10. Life(j)'
    <2>1. IsFile(j)' => info[j].sock # "open"
      BY <1>9 DEF IsFile
    <2>2. Waits(mgr[j])'
      BY <1>5, <1>7 DEF Waits
    <2>3. QED
      BY <2>1, <2>2 DEF Life
  <1>11. mgr' \in [Jobs -> MgrType] /\ \A i \in Jobs \ {j} : mgr'[i] = mgr[i] /\ info'[i] = info[i]
    BY <1>1, <1>4, <1>6 DEF m
  <1>12. QED
    BY <1>10, <1>11, OneMgr

(* The timeout of the sender. *)
LEMMA StopListenKeeps ==
  ASSUME DTPInv, NEW j \in Jobs, stopListen(j)
  PROVE  DTPInv'
  <1>1. /\ mgr \in [Jobs -> MgrType] /\ info \in [Jobs -> InfoType]
        /\ mgr[j] \in MgrType /\ Life(j)
    BY DEF DTPInv, TypeInv
  <1>2. PICK expired \in IF mgr[j].obj = "live" THEN {mgr[j].acceptor_} ELSE BOOLEAN :
          mgr' = [mgr EXCEPT ![j].timer = "done",
                             ![j].acc = IF expired THEN Deleted(@) ELSE @,
                             ![j].conn = IF expired THEN Deleted(@) ELSE @]
    BY DEF stopListen
  <1>3. mgr[j].timer = "armed" /\ UNCHANGED <<kind, name, toSend, told, disk, got, info>>
    BY DEF stopListen, receiverVars
  <1>4. /\ mgr' \in [Jobs -> MgrType] /\ \A i \in Jobs \ {j} : mgr'[i] = mgr[i]
        /\ mgr'[j].obj = mgr[j].obj /\ mgr'[j].timer = "done"
        /\ mgr'[j].acceptor_ = mgr[j].acceptor_ /\ mgr'[j].work = mgr[j].work
        /\ mgr'[j].acc = IF expired THEN Deleted(mgr[j].acc) ELSE mgr[j].acc
        /\ mgr'[j].conn = IF expired THEN Deleted(mgr[j].conn) ELSE mgr[j].conn
    BY <1>1, <1>2 DEF MgrType, Deleted
  <1>5. Life(j)'
    <2>1. CASE Waits(mgr[j]) /\ (IsFile(j) => info[j].sock # "open")
      <3>1. expired = TRUE
        BY <1>2, <2>1 DEF Waits
      <3>2. GivenUp(mgr[j])'
        BY <1>4, <2>1, <3>1 DEF Waits, GivenUp, Deleted
      <3>3. QED
        BY <1>3, <2>1, <3>2 DEF Life, IsFile
    <2>2. CASE IsFile(j) /\ Serves(mgr[j])
      <3>1. expired = FALSE
        BY <1>1, <1>2, <2>2 DEF Serves, MgrType
      <3>2. Serves(mgr[j])'
        BY <1>4, <2>2, <3>1 DEF Serves
      <3>3. QED
        BY <1>3, <2>2, <3>2 DEF Life, IsFile
    <2>3. CASE IsFile(j) /\ Cleared(mgr[j])
      <3>1. Cleared(mgr[j])'
        BY <1>4, <2>3 DEF Cleared, Deleted
      <3>2. QED
        BY <1>3, <2>3, <3>1 DEF Life, IsFile
    <2>4. CASE kind[j] = "tcp" /\ Places(mgr[j])
      <3>1. expired = TRUE /\ ~IsFile(j)
        BY <1>2, <2>4 DEF Places, IsFile
      <3>2. GivenUp(mgr[j])'
        BY <1>4, <2>4, <3>1 DEF Places, GivenUp, Deleted
      <3>3. QED
        BY <1>3, <3>1, <3>2 DEF Life, IsFile
    <2>5. CASE kind[j] = "tcp" /\ Placed(mgr[j])
      <3>1. expired = FALSE
        BY <1>1, <1>2, <2>5 DEF Placed, MgrType
      <3>2. Placed(mgr[j])'
        BY <1>4, <2>5, <3>1 DEF Placed
      <3>3. QED
        BY <1>3, <2>5, <3>2 DEF Life
    <2>6. QED
      BY <1>1, <1>3, <2>1, <2>2, <2>3, <2>4, <2>5 DEF Life, Unborn, Bare, GivenUp
  <1>6. \A i \in Jobs : Life(i)'
    BY <1>3, <1>4, <1>5, OneMgr
  <1>7. QED
    BY <1>1, <1>3, <1>4, <1>6, StillTyped, Together

(* The peer has come for a file. *)
LEMMA ServeKeeps ==
  ASSUME DTPInv, NEW j \in Jobs, acceptorCallback(j)
  PROVE  DTPInv'
  <1>1. /\ mgr \in [Jobs -> MgrType] /\ info \in [Jobs -> InfoType]
        /\ mgr[j] \in MgrType /\ Life(j)
    BY DEF DTPInv, TypeInv
  <1>2. PICK bytes \in Contents, n \in 0..Size :
           mgr' = [mgr EXCEPT ![j].acc = "freed", ![j].acceptor_ = FALSE, ![j].conn = "open",
                              ![j].work = (n = Size), ![j].left = Rest(bytes, n)]
    BY DEF acceptorCallback
  <1>3. /\ mgr[j].acc = "listening" /\ mgr[j].conn = "new" /\ IsFile(j)
        /\ info' = [info EXCEPT ![j].sock = "open"]
        /\ UNCHANGED <<kind, name, toSend, told, disk, got>>
    BY DEF acceptorCallback, Accepts, IsFile
  <1>4. Rest(bytes, n) \in Seq(Nat) /\ (n = Size) \in BOOLEAN
    BY Pieces
  <1>5. info' \in [Jobs -> InfoType] /\ \A i \in Jobs \ {j} : info'[i] = info[i]
    BY <1>1, <1>3 DEF InfoType
  <1>6. Waits(mgr[j])
    BY <1>1, <1>3 DEF Life, Unborn, Bare, Waits, GivenUp, Serves, Cleared, Places, Placed
  <1> DEFINE w == (n = Size)
             r == Rest(bytes, n)
  <1> HIDE DEF w, r
  <1>7. w \in BOOLEAN /\ r \in Seq(Nat)
        /\ mgr' = [mgr EXCEPT ![j].acc = "freed", ![j].acceptor_ = FALSE, ![j].conn = "open",
                              ![j].work = w, ![j].left = r]
    BY <1>2, <1>4 DEF w, r
  <1>8. /\ mgr' \in [Jobs -> MgrType] /\ \A i \in Jobs \ {j} : mgr'[i] = mgr[i]
        /\ mgr'[j].obj = mgr[j].obj /\ mgr'[j].timer = mgr[j].timer
        /\ mgr'[j].acceptor_ = FALSE /\ mgr'[j].acc = "freed" /\ mgr'[j].conn = "open"
    BY <1>1, <1>7 DEF MgrType
  <1>9. Serves(mgr[j])'
    BY <1>6, <1>8 DEF Serves, Waits
  <1>10. Life(j)'
    BY <1>3, <1>9 DEF Life, IsFile
  <1>11. \A i \in Jobs : Life(i)'
    BY <1>3, <1>5, <1>8, <1>10, OneMgr
  <1>12. QED
    BY <1>3, <1>5, <1>8, <1>11, StillTyped, Together

(* The file is sent and its memory cleared. *)
LEMMA ClearKeeps ==
  ASSUME DTPInv, NEW j \in Jobs, senfFileClearMemory(j)
  PROVE  DTPInv'
  <1>1. /\ mgr \in [Jobs -> MgrType] /\ info \in [Jobs -> InfoType]
        /\ mgr[j] \in MgrType /\ Life(j)
    BY DEF DTPInv, TypeInv
  <1>2. /\ mgr[j].work /\ UNCHANGED <<kind, name, toSend, told, disk, got, info>>
        /\ mgr' = [mgr EXCEPT ![j].work = FALSE, ![j].conn = Deleted(@), ![j].obj = "freed"]
    BY DEF senfFileClearMemory, receiverVars
  <1>3. IsFile(j) /\ Serves(mgr[j])
    BY <1>1, <1>2 DEF Life, Unborn, Bare, Waits, GivenUp, Cleared, Places, Placed
  <1>4. /\ mgr' \in [Jobs -> MgrType] /\ \A i \in Jobs \ {j} : mgr'[i] = mgr[i]
        /\ mgr'[j].obj = "freed" /\ mgr'[j].timer = mgr[j].timer /\ mgr'[j].acc = mgr[j].acc
        /\ mgr'[j].work = FALSE
    BY <1>1, <1>2 DEF MgrType, Deleted
  <1>5. Cleared(mgr[j])'
    BY <1>3, <1>4 DEF Serves, Cleared
  <1>6. Life(j)'
    BY <1>2, <1>3, <1>5 DEF Life, IsFile
  <1>7. \A i \in Jobs : Life(i)'
    BY <1>2, <1>4, <1>6, OneMgr
  <1>8. QED
    BY <1>1, <1>2, <1>4, <1>7, StillTyped, Together

(* The first step over UDP. *)
LEMMA UdpKeeps ==
  ASSUME DTPInv, NEW j \in Jobs, sendDataOnUdp(j)
  PROVE  DTPInv'
  <1>1. /\ mgr \in [Jobs -> MgrType] /\ info \in [Jobs -> InfoType]
        /\ mgr[j] \in MgrType /\ Life(j)
    BY DEF DTPInv, TypeInv
  <1>2. /\ kind[j] = "udp" /\ mgr[j].obj = "none" /\ mgr' = [mgr EXCEPT ![j].obj = "live"]
        /\ UNCHANGED <<kind, name, toSend, told, disk, got, info>>
    BY DEF sendDataOnUdp, receiverVars
  <1>3. Unborn(mgr[j])
    BY <1>1, <1>2 DEF Life, Bare, Waits, GivenUp, Serves, Cleared, Places, Placed
  <1>4. /\ mgr' \in [Jobs -> MgrType] /\ \A i \in Jobs \ {j} : mgr'[i] = mgr[i]
        /\ mgr'[j].obj = "live" /\ mgr'[j].timer = mgr[j].timer /\ mgr'[j].acc = mgr[j].acc
        /\ mgr'[j].work = mgr[j].work /\ mgr'[j].conn = mgr[j].conn
    BY <1>1, <1>2 DEF MgrType
  <1>5. Bare(mgr[j])'
    BY <1>3, <1>4 DEF Unborn, Bare
  <1>6. Life(j)'
    BY <1>2, <1>5 DEF Life
  <1>7. \A i \in Jobs : Life(i)'
    BY <1>2, <1>4, <1>6, OneMgr
  <1>8. QED
    BY <1>1, <1>2, <1>4, <1>7, StillTyped, Together

(* sendDataCallback on a manager whose buffer is being sent. *)
LEMMA CallbackPlaces ==
  ASSUME NEW m \in MgrType, Places(m)
  PROVE  sendDataCallback(m) \in MgrType /\ Placed(sendDataCallback(m))
  <1>1. <<>> \in Seq(Nat)
    BY EmptySeq
  <1>2. sendDataCallback(m) \in MgrType
    BY <1>1 DEF sendDataCallback, MgrType, Deleted
  <1>3. Placed(sendDataCallback(m))
    BY DEF sendDataCallback, MgrType, Deleted, Places, Placed
  <1>4. QED
    BY <1>2, <1>3

(* The manager of a buffer becomes one that sends or has sent it. *)
LEMMA PlaceMgr ==
  ASSUME DTPInv, NEW j \in Jobs, kind[j] = "tcp", NEW m \in MgrType, Places(m) \/ Placed(m),
         mgr' = [mgr EXCEPT ![j] = m], info' \in [Jobs -> InfoType],
         \A i \in Jobs \ {j} : info'[i] = info[i],
         UNCHANGED <<kind, name, toSend, told, disk, got>>
  PROVE  DTPInv'
  <1>1. mgr \in [Jobs -> MgrType]
    BY DEF DTPInv, TypeInv
  <1>2. mgr' \in [Jobs -> MgrType] /\ mgr'[j] = m /\ \A i \in Jobs \ {j} : mgr'[i] = mgr[i]
    BY <1>1
  <1>3. Places(mgr[j])' \/ Placed(mgr[j])'
    BY <1>2 DEF Places, Placed
  <1>4. Life(j)'
    BY <1>3 DEF Life
  <1>5. \A i \in Jobs : Life(i)'
    BY <1>2, <1>4, OneMgr
  <1>6. QED
    BY <1>2, <1>5, StillTyped, Together

(* The peer has come for a buffer. *)
LEMMA PlaceKeeps ==
  ASSUME DTPInv, NEW j \in Jobs, acceptorCallbackOfSendData(j)
  PROVE  DTPInv'
  <1>1. /\ mgr \in [Jobs -> MgrType] /\ info \in [Jobs -> InfoType]
        /\ mgr[j] \in MgrType /\ Life(j)
    BY DEF DTPInv, TypeInv
  <1>2. PICK bytes \in Contents, n \in 0..Size :
          mgr' = [mgr EXCEPT ![j] =
                    IF n = Size
                    THEN sendDataCallback([mgr[j] EXCEPT !.conn = "open", !.left = Rest(bytes, n)])
                    ELSE [mgr[j] EXCEPT !.conn = "open", !.left = Rest(bytes, n)]]
    BY DEF acceptorCallbackOfSendData
  <1>3. /\ mgr[j].acc = "listening" /\ mgr[j].conn = "new" /\ kind[j] = "tcp"
        /\ info' = [info EXCEPT ![j].sock = "open"]
        /\ UNCHANGED <<kind, name, toSend, told, disk, got>>
    BY DEF acceptorCallbackOfSendData, Accepts
  <1>4. Rest(bytes, n) \in Seq(Nat)
    BY Pieces
  <1>5. info' \in [Jobs -> InfoType] /\ \A i \in Jobs \ {j} : info'[i] = info[i]
    BY <1>1, <1>3 DEF InfoType
  <1>6. Waits(mgr[j])
    BY <1>1, <1>3 DEF Life, Unborn, Bare, Waits, GivenUp, Serves, Cleared, Places, Placed
  <1> DEFINE r == Rest(bytes, n)
             m == [mgr[j] EXCEPT !.conn = "open", !.left = r]
  <1>7. r \in Seq(Nat)
    BY <1>4
  <1> HIDE DEF r
  <1>8. m \in MgrType
    BY <1>1, <1>7 DEF MgrType
  <1>9. Places(m)
    BY <1>1, <1>3, <1>6 DEF MgrType, Places, Waits
  <1>10. mgr' = [mgr EXCEPT ![j] = IF n = Size THEN sendDataCallback(m) ELSE m]
    BY <1>2 DEF r
  <1> HIDE DEF m
  <1>11. PICK q \in MgrType : mgr' = [mgr EXCEPT ![j] = q] /\ (Places(q) \/ Placed(q))
    BY <1>8, <1>9, <1>10, CallbackPlaces
  <1>12. QED
    BY <1>3, <1>5, <1>11, PlaceMgr

(* The rest of a buffer is sent or dropped. *)
LEMMA WriteKeeps ==
  ASSUME DTPInv, NEW j \in Jobs, handleWrite(j)
  PROVE  DTPInv'
  <1>1. /\ mgr \in [Jobs -> MgrType] /\ info \in [Jobs -> InfoType]
        /\ mgr[j] \in MgrType /\ Life(j)
    BY DEF DTPInv, TypeInv
  <1>2. /\ mgr[j].conn = "open" /\ kind[j] = "tcp"
        /\ UNCHANGED <<kind, name, toSend, told, disk, got, info>>
        /\ \/ mgr' = [mgr EXCEPT ![j] = sendDataCallback(@)]
           \/ mgr' = [mgr EXCEPT ![j].left = <<>>]
    BY DEF handleWrite, receiverVars
  <1>3. Places(mgr[j])
    BY <1>1, <1>2 DEF Life, Unborn, Bare, Waits, GivenUp, Serves, Cleared, IsFile, Placed
  <1> DEFINE m == [mgr[j] EXCEPT !.left = <<>>]
  <1>4. <<>> \in Seq(Nat)
    BY EmptySeq
  <1>5. m \in MgrType
    BY <1>1, <1>4 DEF MgrType
  <1>6. Places(m)
    BY <1>1, <1>3 DEF MgrType, Places
  <1>7. mgr' = [mgr EXCEPT ![j] = sendDataCallback(mgr[j])] \/ mgr' = [mgr EXCEPT ![j] = m]
    BY <1>1, <1>2
  <1> HIDE DEF m
  <1>8. PICK q \in MgrType : mgr' = [mgr EXCEPT ![j] = q] /\ (Places(q) \/ Placed(q))
    BY <1>1, <1>3, <1>5, <1>6, <1>7, CallbackPlaces
  <1>9. QED
    BY <1>1, <1>2, <1>8, PlaceMgr

(* A step of the receiver, which leaves the managers alone. *)
LEMMA ReceiverKeeps ==
  ASSUME DTPInv, Elsewhere, mgr' = mgr, info' \in [Jobs -> InfoType],
         \A i \in Jobs : \/ info'[i].sock = info[i].sock
                         \/ info'[i].sock # "open" \/ kind[i] = "udp"
  PROVE  DTPInv'
  <1>1. ASSUME NEW i \in Jobs PROVE Life(i)'
    <2>1. Life(i) /\ kind' = kind
      BY DEF DTPInv, Elsewhere
    <2>2. QED
      BY <2>1, KeepLife
  <1>2. mgr' \in [Jobs -> MgrType]
    BY DEF DTPInv, TypeInv
  <1>3. QED
    BY <1>1, <1>2, Together

(* A step that opens or ends one socket of the receiver. *)
LEMMA SocketKeeps ==
  ASSUME DTPInv, Elsewhere, mgr' = mgr, NEW j \in Jobs, NEW r \in InfoType,
         info' = [info EXCEPT ![j] = r],
         r.sock = info[j].sock \/ r.sock # "open" \/ kind[j] = "udp"
  PROVE  DTPInv'
  <1>1. info \in [Jobs -> InfoType]
    BY DEF DTPInv, TypeInv
  <1>2. /\ info' \in [Jobs -> InfoType] /\ info'[j] = r
        /\ \A i \in Jobs \ {j} : info'[i] = info[i]
    BY <1>1
  <1>3. \A i \in Jobs : \/ info'[i].sock = info[i].sock
                         \/ info'[i].sock # "open" \/ kind[i] = "udp"
    BY <1>2
  <1>4. QED
    BY <1>2, <1>3, ReceiverKeeps

(* A step that leaves managers and sockets alone. *)
LEMMA RestKeeps ==
  ASSUME DTPInv, Elsewhere, mgr' = mgr, info' = info
  PROVE  DTPInv'
  <1>1. info \in [Jobs -> InfoType]
    BY DEF DTPInv, TypeInv
  <1>2. QED
    BY <1>1, ReceiverKeeps

(* The length of a record of the receiver. *)
LEMMA LengthSet ==
  ASSUME NEW i \in InfoType, NEW x \in Int
  PROVE  [i EXCEPT !.length = x] \in InfoType /\ [i EXCEPT !.length = x].sock = i.sock
  <1>1. [i EXCEPT !.length = x] \in InfoType
    BY DEF InfoType
  <1>2. [i EXCEPT !.length = x].sock = i.sock
    BY DEF InfoType
  <1>3. QED
    BY <1>1, <1>2

(* A record of the receiver as it is made. *)
LEMMA SocketNew ==
  ASSUME NEW s \in {"syn", "open", "refused"}
  PROVE  /\ [NoInfo EXCEPT !.obj = "live", !.sock = s, !.length = Size] \in InfoType
         /\ [NoInfo EXCEPT !.obj = "live", !.sock = s, !.length = Size].sock = s
  <1> DEFINE a == [NoInfo EXCEPT !.obj = "live", !.sock = s]
  <1>1. NoInfo \in InfoType
    BY DEF NoInfo, InfoType
  <1>2. a \in InfoType /\ a.sock = s
    BY <1>1 DEF InfoType
  <1>3. Size \in Int
    BY SizeAssumption
  <1> HIDE DEF a
  <1>4. [a EXCEPT !.length = Size] \in InfoType /\ [a EXCEPT !.length = Size].sock = s
    BY <1>2, <1>3, LengthSet
  <1>5. QED
    BY <1>4 DEF a

(* TcpClient::onConnect. *)
LEMMA ConnectKeeps ==
  ASSUME DTPInv, UNCHANGED <<kind, name, toSend, told, disk, got, mgr>>, NEW j \in Jobs, Connect(j)
  PROVE  DTPInv'
  <1>1. Elsewhere
    BY StillTyped
  <1>2. CASE info' = info
    BY <1>1, <1>2, RestKeeps
  <1>3. ASSUME NEW s \in {"syn", "refused"},
               info' = [info EXCEPT ![j] = [NoInfo EXCEPT !.obj = "live", !.sock = s, !.length = Size]]
        PROVE  DTPInv'
    <2> DEFINE r == [NoInfo EXCEPT !.obj = "live", !.sock = s, !.length = Size]
    <2>1. r \in InfoType /\ r.sock = s
      BY SocketNew
    <2>2. info' = [info EXCEPT ![j] = r]
      BY <1>3
    <2> HIDE DEF r
    <2>3. QED
      BY <1>1, <2>1, <2>2, SocketKeeps
  <1>4. QED
    BY <1>2, <1>3 DEF Connect

(* A message more for the sender. *)
LEMMA MessageMore ==
  ASSUME DTPInv, NEW j \in Jobs, NEW flag \in Flags,
         toSend' = Append(toSend, ControlMsg(flag, j))
  PROVE  toSend' \in Seq(Message)
  <1>1. ControlMsg(flag, j) \in Message
    BY DEF ControlMsg, Message
  <1>2. toSend \in Seq(Message)
    BY DEF DTPInv, TypeInv
  <1>3. QED
    BY <1>1, <1>2, AppendProperties

(* The user agrees to receive. *)
LEMMA AgreeKeeps ==
  ASSUME DTPInv, NEW n \in Names, agreeRecvFile(n) \/ agreeRecvData(n) \/ agreeRecvUdpData(n)
  PROVE  DTPInv'
  <1>1. CASE agreeRecvFile(n)
    <2>1. UNCHANGED <<kind, name, toSend, told, disk, got, mgr>> /\ mp_[n] \in Jobs
          /\ (info' = info \/ Connect(mp_[n]))
      BY <1>1 DEF agreeRecvFile, senderVars
    <2>2. QED
      BY <2>1, ConnectKeeps, RestKeeps, StillTyped
  <1>2. CASE agreeRecvData(n)
    <2>1. UNCHANGED <<kind, name, toSend, told, disk, got, mgr>>
          /\ (info' = info \/ (mp_[n] \in Jobs /\ Connect(mp_[n])))
      BY <1>2 DEF agreeRecvData, senderVars
    <2>2. QED
      BY <2>1, ConnectKeeps, RestKeeps, StillTyped
  <1>3. CASE agreeRecvUdpData(n)
    <2>1. PICK j \in Jobs : j = mp_[n]
      BY <1>3 DEF agreeRecvUdpData
    <2> DEFINE r == [NoInfo EXCEPT !.obj = "live", !.sock = "open", !.length = Size, !.timer = "armed"]
    <2>2. /\ kind[j] = "udp" /\ info' = [info EXCEPT ![j] = r]
          /\ toSend' = Append(toSend, ControlMsg("RECVDATAONUDP", j))
          /\ UNCHANGED <<kind, name, told, disk, got, mgr>>
      BY <1>3, <2>1 DEF agreeRecvUdpData, senderVars
    <2>3. r \in InfoType
      <3>1. [NoInfo EXCEPT !.obj = "live", !.sock = "open", !.length = Size] \in InfoType
        BY SocketNew
      <3>2. QED
        BY <3>1 DEF InfoType
    <2> HIDE DEF r
    <2>4. toSend' \in Seq(Message)
      BY <2>2, MessageMore DEF Flags
    <2>5. Elsewhere
      BY <2>2, <2>4 DEF Elsewhere, DTPInv, TypeInv
    <2>6. QED
      BY <2>2, <2>3, <2>5, SocketKeeps
  <1>4. QED
    BY <1>1, <1>2, <1>3

(* The bytes come, or the connection ends. *)
LEMMA ArrivalKeeps ==
  ASSUME DTPInv, NEW j \in Jobs,
         \/ \E k \in 1..Size : recvFileCallback(j, k) \/ recvDataCallback(j, k)
         \/ recvUdpDataCallback(j) \/ stopListenOfUdp(j) \/ handleErro(j)
  PROVE  DTPInv'
  <1>1. /\ info \in [Jobs -> InfoType] /\ info[j] \in InfoType
        /\ told \in [Jobs -> {"none", "succ", "fail"}]
        /\ disk = [n \in Names |-> disk[n]] /\ got = [i \in Jobs |-> got[i]]
        /\ toSend \in Seq(Message)
    BY DEF DTPInv, TypeInv
  <1>2. ASSUME NEW k \in 1..Size, recvFileCallback(j, k) PROVE DTPInv'
    <2>1. PICK ok, last, bytes :
            /\ disk' = [disk EXCEPT ![name[j]] = IF last /\ ~ok THEN <<>> ELSE bytes]
            /\ told' = IF last THEN [told EXCEPT ![j] = IF ok THEN "succ" ELSE "fail"] ELSE told
      BY <1>2 DEF recvFileCallback, ChecksumMatches
    <2>2. /\ info' = [info EXCEPT ![j].length = @ - k]
          /\ UNCHANGED <<kind, name, toSend, got, mgr>>
      BY <1>2 DEF recvFileCallback, senderVars
    <2> DEFINE r == [info[j] EXCEPT !.length = @ - k]
    <2>3. info' = [info EXCEPT ![j] = r] /\ r \in InfoType /\ r.sock = info[j].sock
      <3>1. info[j].length \in Int /\ Size \in Nat
        BY <1>1, SizeAssumption DEF InfoType
      <3>2. info[j].length - k \in Int
        BY <3>1
      <3>3. QED
        BY <1>1, <2>2, <3>2, LengthSet
    <2> HIDE DEF r
    <2>4. Elsewhere
      BY <1>1, <2>1, <2>2 DEF Elsewhere
    <2>5. QED
      BY <2>2, <2>3, <2>4, SocketKeeps
  <1>3. ASSUME NEW k \in 1..Size, recvDataCallback(j, k) PROVE DTPInv'
    <2>1. PICK ok \in BOOLEAN :
            \/ /\ told' = [told EXCEPT ![j] = IF ok THEN "succ" ELSE "fail"]
               /\ got' = [got EXCEPT ![j] = IF ok THEN wire[j] ELSE @]
            \/ told' = told /\ got' = got
      BY <1>3 DEF recvDataCallback, ChecksumMatches
    <2>2. /\ info' = [info EXCEPT ![j].length = 0]
          /\ UNCHANGED <<kind, name, toSend, disk, mgr>>
      BY <1>3 DEF recvDataCallback, senderVars
    <2> DEFINE r == [info[j] EXCEPT !.length = 0]
    <2>3. info' = [info EXCEPT ![j] = r] /\ r \in InfoType /\ r.sock = info[j].sock
      BY <1>1, <2>2, LengthSet
    <2> HIDE DEF r
    <2>4. Elsewhere
      BY <1>1, <2>1, <2>2 DEF Elsewhere
    <2>5. QED
      BY <2>2, <2>3, <2>4, SocketKeeps
  <1>4. ASSUME UNCHANGED <<kind, name, toSend, disk, mgr>>, NEW r \in InfoType, r.sock = "closed",
               info' = [info EXCEPT ![j] = r],
               told' \in [Jobs -> {"none", "succ", "fail"}], got' = [i \in Jobs |-> got'[i]]
        PROVE  DTPInv'
    <2>1. Elsewhere
      BY <1>1, <1>4 DEF Elsewhere
    <2>2. QED
      BY <1>4, <2>1, SocketKeeps
  <1>5. CASE recvUdpDataCallback(j)
    <2>1. PICK ok \in BOOLEAN :
            /\ told' = [told EXCEPT ![j] = IF ok THEN "succ" ELSE "fail"]
            /\ got' = [got EXCEPT ![j] = IF ok THEN wire[j] ELSE @]
      BY <1>5 DEF recvUdpDataCallback, ChecksumMatches
    <2>2. /\ info' = [info EXCEPT ![j].obj = "freed", ![j].sock = "closed"]
          /\ UNCHANGED <<kind, name, toSend, disk, mgr>>
      BY <1>5 DEF recvUdpDataCallback, senderVars
    <2> DEFINE r == [info[j] EXCEPT !.obj = "freed", !.sock = "closed"]
    <2>3. info' = [info EXCEPT ![j] = r] /\ r \in InfoType /\ r.sock = "closed"
      BY <1>1, <2>2 DEF InfoType
    <2> HIDE DEF r
    <2>4. told' \in [Jobs -> {"none", "succ", "fail"}] /\ got' = [i \in Jobs |-> got'[i]]
      BY <1>1, <2>1
    <2>5. QED
      BY <1>4, <2>2, <2>3, <2>4
  <1>6. CASE stopListenOfUdp(j)
    <2>1. /\ info' = [info EXCEPT ![j].timer = "done", ![j].sock = "closed"]
          /\ UNCHANGED <<kind, name, toSend, disk, got, told, mgr>>
      BY <1>6 DEF stopListenOfUdp, senderVars
    <2> DEFINE r == [info[j] EXCEPT !.timer = "done", !.sock = "closed"]
    <2>2. info' = [info EXCEPT ![j] = r] /\ r \in InfoType /\ r.sock = "closed"
      BY <1>1, <2>1 DEF InfoType
    <2> HIDE DEF r
    <2>3. QED
      BY <1>1, <1>4, <2>1, <2>2
  <1>7. CASE handleErro(j)
    <2>1. /\ info' = [info EXCEPT ![j].obj = "freed", ![j].sock = "closed"]
          /\ UNCHANGED <<kind, name, toSend, disk, got, told, mgr>>
      BY <1>7 DEF handleErro, senderVars
    <2> DEFINE r == [info[j] EXCEPT !.obj = "freed", !.sock = "closed"]
    <2>2. info' = [info EXCEPT ![j] = r] /\ r \in InfoType /\ r.sock = "closed"
      BY <1>1, <2>1 DEF InfoType
    <2> HIDE DEF r
    <2>3. QED
      BY <1>1, <1>4, <2>1, <2>2
  <1>8. QED
    BY <1>2, <1>3, <1>5, <1>6, <1>7

(* Requests, acknowledgements and the control connection. *)
LEMMA ControlKeeps ==
  ASSUME DTPInv,
         \/ \E j \in Jobs : \/ sendFile(j) \/ sendData(j) \/ recvFile(j) \/ sendAck(j)
                            \/ handleRecvfileFail(j)
         \/ ControlStep
  PROVE  DTPInv'
  <1>1. /\ mgr \in [Jobs -> MgrType] /\ info \in [Jobs -> InfoType]
        /\ told \in [Jobs -> {"none", "succ", "fail"}]
        /\ disk = [n \in Names |-> disk[n]] /\ got = [i \in Jobs |-> got[i]]
        /\ toSend \in Seq(Message)
    BY DEF DTPInv, TypeInv
  <1>2. ASSUME NEW j \in Jobs, sendFile(j) \/ sendData(j) PROVE DTPInv'
    <2>1. PICK flag : /\ Listen(j, flag)
                      /\ UNCHANGED <<kind, name, toSend, told, disk, got, info>>
      BY <1>2 DEF sendFile, sendData, receiverVars
    <2>2. QED
      BY <1>1, <2>1, ListenKeeps, StillTyped, Together
  <1>3. ASSUME NEW j \in Jobs, recvFile(j) \/ sendAck(j) PROVE DTPInv'
    <2>1. PICK flag \in Flags : /\ toSend' = Append(toSend, ControlMsg(flag, j))
                                 /\ UNCHANGED <<kind, name, told, disk, got, info, mgr>>
      BY <1>3 DEF recvFile, sendAck, senderVars, Flags
    <2>2. toSend' \in Seq(Message)
      BY <2>1, MessageMore
    <2>3. Elsewhere
      BY <1>1, <2>1, <2>2 DEF Elsewhere
    <2>4. QED
      BY <2>1, <2>3, RestKeeps
  <1>4. ASSUME NEW j \in Jobs, handleRecvfileFail(j) PROVE DTPInv'
    <2>1. Elsewhere /\ mgr' = mgr /\ info' = info
      BY <1>1, <1>4 DEF handleRecvfileFail, Elsewhere, senderVars
    <2>2. QED
      BY <2>1, RestKeeps
  <1>5. CASE analysisAtSender
    <2>1. PICK j : j = Head(toSend).job
      OBVIOUS
    <2>2. toSend # <<>> /\ toSend' = Tail(toSend) /\ UNCHANGED <<kind, name, told, disk, got, info>>
      BY <1>5 DEF analysisAtSender, receiverVars
    <2>3. Head(toSend) \in Message /\ Tail(toSend) \in Seq(Message)
      BY <1>1, <2>2, HeadTailProperties
    <2>4. j \in Jobs /\ Elsewhere
      BY <1>1, <2>1, <2>2, <2>3 DEF Elsewhere, Message
    <2>5. Listen(j, "SENDFILEFLAG") \/ mgr' = mgr
      BY <1>5, <2>1 DEF analysisAtSender
    <2>6. QED
      BY <1>1, <2>2, <2>4, <2>5, ListenKeeps, RestKeeps, Together
  <1>6. CASE analysisProtobuf \/ controlMessageLost
    <2>1. UNCHANGED <<kind, name, toSend, told, disk, got, info, mgr>>
      BY <1>6 DEF analysisProtobuf, controlMessageLost, receiverVars, senderVars
    <2>2. QED
      BY <2>1, StillTyped, RestKeeps
  <1>7. QED
    BY <1>2, <1>3, <1>4, <1>5, <1>6 DEF ControlStep

(* Before anything is sent. *)
LEMMA InitKeeps ==
  ASSUME Init
  PROVE  DTPInv
  <1>1. <<>> \in Seq(Nat) /\ <<>> \in Seq(Message)
    BY EmptySeq
  <1>2. NoMgr \in MgrType /\ Unborn(NoMgr)
    BY <1>1 DEF NoMgr, MgrType, Unborn
  <1>3. NoInfo \in InfoType /\ NoInfo.sock # "open"
    BY DEF NoInfo, InfoType
  <1>4. TypeInv
    BY <1>1, <1>2, <1>3 DEF Init, TypeInv
  <1>5. ASSUME NEW j \in Jobs PROVE Life(j)
    <2>1. mgr[j] = NoMgr /\ info[j] = NoInfo
      BY DEF Init
    <2>2. QED
      BY <1>2, <1>3, <2>1 DEF Life
  <1>6. QED
    BY <1>4, <1>5 DEF DTPInv

(* Every step keeps the invariant. *)
LEMMA NextKeeps ==
  ASSUME DTPInv, [Next]_vars
  PROVE  DTPInv'
  <1>1. CASE UserStep
    <2>1. ASSUME NEW j \in Jobs, sendDataOnUdp(j) PROVE DTPInv'
      BY <2>1, UdpKeeps
    <2>2. QED
      BY <1>1, <2>1, ControlKeeps, AgreeKeeps DEF UserStep
  <1>2. CASE ControlStep
    BY <1>2, ControlKeeps
  <1>3. ASSUME NEW j \in Jobs, JobStep(j) PROVE DTPInv'
    BY <1>3, ServeKeeps, ClearKeeps, PlaceKeeps, WriteKeeps, ArrivalKeeps DEF JobStep
  <1>4. ASSUME NEW j \in Jobs, TimerStep(j) PROVE DTPInv'
    BY <1>4, StopListenKeeps, ControlKeeps, ArrivalKeeps DEF TimerStep
  <1>5. CASE UNCHANGED vars
    <2>1. UNCHANGED <<kind, name, toSend, told, disk, got, info, mgr>>
      BY <1>5 DEF vars
    <2>2. QED
      BY <2>1, StillTyped, RestKeeps
  <1>6. QED
    BY <1>1, <1>2, <1>3, <1>4, <1>5 DEF Next

(* Every manager is at one place of its life, and only its own kind of job
   brings it there (the life of ListenMgr and DataListenMgr). *)
THEOREM LifeHolds == Spec => []DTPInv
  <1>1. Init => DTPInv
    BY InitKeeps
  <1>2. DTPInv /\ [Next]_vars => DTPInv'
    BY NextKeeps
  <1>3. QED
    BY <1>1, <1>2, PTL DEF Spec

(* DataDeletedOnce, for every number of jobs: after sendDataCallback the timeout
   finds a null acceptor_, and after the timeout nothing can be accepted. *)
THEOREM DataDeletedOnceHolds == Spec => []DataDeletedOnce
  <1>1. DTPInv => DataDeletedOnce
    <2>1. SUFFICES ASSUME DTPInv, NEW j \in Jobs, kind[j] = "tcp"
                   PROVE  mgr[j].acc # "twice" /\ mgr[j].conn # "twice"
      BY DEF DataDeletedOnce
    <2>2. Life(j) /\ ~IsFile(j)
      BY <2>1 DEF DTPInv, IsFile
    <2>3. QED
      BY <2>1, <2>2 DEF Life, Unborn, Bare, Waits, GivenUp, Places, Placed
  <1>2. QED
    BY <1>1, LifeHolds, PTL

(* TimeoutEndsListening, for every number of jobs: when stopListen has run, the
   port is no longer served, and a file whose peer came in time still is. *)
THEOREM TimeoutEndsListeningHolds == Spec => []TimeoutEndsListening
  <1>1. DTPInv => TimeoutEndsListening
    <2>1. SUFFICES ASSUME DTPInv, NEW j \in Jobs, mgr[j].timer = "done"
                   PROVE  /\ mgr[j].acc \notin {"listening", "dead"}
                          /\ mgr[j].obj = "live" /\ kind[j] \in {"file", "pull"} /\ info[j].sock = "open" =>
                               mgr[j].conn = "open"
      BY DEF TimeoutEndsListening
    <2>2. Life(j)
      BY <2>1 DEF DTPInv
    <2>3. QED
      BY <2>1, <2>2 DEF Life, IsFile, Unborn, Bare, Waits, GivenUp, Serves, Cleared, Places, Placed
  <1>2. QED
    BY <1>1, LifeHolds, PTL

-----------------------------------------------------------------------------
(* That a success is final.  A job is announced once: what is in flight has not
   been kept under its name, what is kept has not been agreed to, and only what
   was begun is announced. *)
Announcement == [flag : {"SENDFILEFLAG", "SENDDATAFLAG", "SENDDATAONUDP"}, job : Jobs]
Begun(j) == mgr[j].obj # "none"
Agreed(j) == info[j].obj # "none"

AnnouncedOnce ==
  /\ \A a \in 1..Len(toRecv) : /\ Begun(toRecv[a].job) /\ ~Agreed(toRecv[a].job)
                               /\ \A n \in Names : mp_[n] # toRecv[a].job
  /\ \A a, b \in 1..Len(toRecv) : toRecv[a].job = toRecv[b].job => a = b
  /\ \A n \in Names : mp_[n] \in Jobs => /\ Begun(mp_[n]) /\ ~Agreed(mp_[n])
                                         /\ name[mp_[n]] = n
  /\ \A j \in Jobs : Agreed(j) => Begun(j)

(* A file is sent for a recvFile only when recvFile was called, *)
AskedBefore ==
  /\ \A j \in Jobs : task[j] # "none" => timeMp_ # None /\ kind[j] = "pull"
  /\ timeMp_ \in Jobs => task[timeMp_] # "none"
  /\ \A a \in 1..Len(toSend) : toSend[a].flag = "RECVFILEFLAG" => task[toSend[a].job] # "none"
  /\ \A j \in Jobs : kind[j] = "pull" /\ Begun(j) => task[j] # "none"

(* the timer that timeMp_ holds is gone when its job is agreed to, *)
TimerTaken ==
  \A j \in Jobs : kind[j] = "pull" /\ Agreed(j) /\ timeMp_ = j => task[j] = "deleted"

(* and a job with a success receives no more. *)
Finished ==
  \A j \in Jobs : told[j] = "succ" =>
     Agreed(j) /\ IF kind[j] = "udp" THEN info[j].sock = "closed" ELSE info[j].length = 0

(* Without the user's agreement there is no socket and no timer. *)
Opened == \A j \in Jobs : ~Agreed(j) => info[j] = NoInfo

VerdictTyped ==
  /\ toRecv \in Seq(Announcement) /\ mp_ = [n \in Names |-> mp_[n]]
  /\ timeMp_ \in Jobs \cup {None} /\ task \in [Jobs -> {"none", "armed", "deleted"}]

VerdictInv == VerdictTyped /\ AnnouncedOnce /\ AskedBefore /\ TimerTaken /\ Finished /\ Opened

(* The places of the two queues hold messages. *)
LEMMA Queues ==
  ASSUME DTPInv, VerdictInv
  PROVE  /\ Len(toRecv) \in Nat /\ Len(toSend) \in Nat
         /\ \A a \in 1..Len(toRecv) : toRecv[a].job \in Jobs
         /\ \A a \in 1..Len(toSend) : toSend[a].job \in Jobs
  <1>1. toRecv \in Seq(Announcement) /\ toSend \in Seq(Message)
    BY DEF DTPInv, TypeInv, VerdictInv, VerdictTyped
  <1>2. /\ \A a \in 1..Len(toRecv) : toRecv[a] \in Announcement
        /\ \A a \in 1..Len(toSend) : toSend[a] \in Message
    BY <1>1, ElementOfSeq
  <1>3. QED
    BY <1>1, <1>2, LenProperties DEF Announcement, Message

(* A message has been taken from a queue: what is left was there before. *)
LEMMA Taken ==
  ASSUME NEW S, NEW s \in Seq(S), s # <<>>
  PROVE  /\ Len(s) \in Nat /\ Len(Tail(s)) \in Nat /\ Tail(s) \in Seq(S)
         /\ 1 \in 1..Len(s) /\ Head(s) = s[1]
         /\ \A a \in 1..Len(Tail(s)) : a \in Int /\ a + 1 \in 1..Len(s) /\ a + 1 # 1 /\ Tail(s)[a] = s[a + 1]
  <1>1. /\ Len(s) \in Nat \ {0} /\ Tail(s) \in Seq(S) /\ Len(Tail(s)) = Len(s) - 1
        /\ \A a \in 1..Len(Tail(s)) : Tail(s)[a] = s[a + 1]
    BY EmptySeq, HeadTailProperties
  <1>2. Head(s) = s[1]
    BY <1>1
  <1> DEFINE t == Tail(s)
  <1>3. Len(t) = Len(s) - 1 /\ \A a \in 1..Len(t) : t[a] = s[a + 1]
    BY <1>1
  <1> HIDE DEF t
  <1>4. \A a \in 1..Len(t) : a \in Int /\ a + 1 \in 1..Len(s) /\ a + 1 # 1
    BY <1>1, <1>3
  <1>5. QED
    BY <1>1, <1>2, <1>3, <1>4 DEF t

(* A message has been put into a queue. *)
LEMMA Put ==
  ASSUME NEW S, NEW s \in Seq(S), NEW m \in S
  PROVE  /\ Append(s, m) \in Seq(S) /\ Len(s) \in Nat
         /\ \A a \in 1..Len(Append(s, m)) :
              \/ a \in 1..Len(s) /\ Append(s, m)[a] = s[a]
              \/ a = Len(s) + 1 /\ Append(s, m)[a] = m
  <1>1. /\ Append(s, m) \in Seq(S) /\ Len(s) \in Nat /\ Len(Append(s, m)) = Len(s) + 1
        /\ \A a \in 1..Len(s) : Append(s, m)[a] = s[a]
        /\ Append(s, m)[Len(s) + 1] = m
    BY AppendProperties, LenProperties
  <1> DEFINE t == Append(s, m)
  <1> HIDE DEF t
  <1>2. Len(t) = Len(s) + 1 /\ (\A a \in 1..Len(s) : t[a] = s[a]) /\ t[Len(s) + 1] = m
    BY <1>1 DEF t
  <1>3. ASSUME NEW a \in 1..Len(t) PROVE (a \in 1..Len(s) /\ t[a] = s[a]) \/ (a = Len(s) + 1 /\ t[a] = m)
    BY <1>1, <1>2
  <1>4. QED
    BY <1>1, <1>3 DEF t

(* Steps of the sender's loop, and the ends of sockets: nothing is begun or
   agreed to, and what was finished stays so. *)
LEMMA SameVerdict ==
  ASSUME VerdictInv, UNCHANGED <<kind, name, toRecv, toSend, mp_, timeMp_, task, told>>,
         DTPInv,
         \A j \in Jobs : /\ Begun(j)' <=> Begun(j)
                         /\ Agreed(j)' <=> Agreed(j)
                         /\ ~Agreed(j) => info'[j] = info[j]
                         /\ kind[j] # "udp" /\ info[j].length = 0 => info'[j].length = 0
                         /\ kind[j] = "udp" /\ info[j].sock = "closed" => info'[j].sock = "closed"
  PROVE  VerdictInv'
  <1>1. VerdictTyped'
    BY DEF VerdictInv, VerdictTyped
  <1>2. AnnouncedOnce'
    <2>1. \A a \in 1..Len(toRecv) : toRecv[a].job \in Jobs
      BY Queues
    <2>2. QED
      BY <2>1 DEF VerdictInv, AnnouncedOnce
  <1>3. AskedBefore' /\ TimerTaken'
    BY DEF VerdictInv, AskedBefore, TimerTaken
  <1>4. Finished' /\ Opened'
    BY DEF VerdictInv, Finished, Opened
  <1>5. QED
    BY <1>1, <1>2, <1>3, <1>4 DEF VerdictInv

(* A job is begun and announced. *)
LEMMA AnnounceVerdict ==
  ASSUME DTPInv, VerdictInv, NEW j \in Jobs, NEW m \in Announcement, m.job = j,
         ~Begun(j), Begun(j)', \A i \in Jobs \ {j} : mgr'[i] = mgr[i],
         toRecv' = Append(toRecv, m), kind[j] = "pull" => task[j] # "none",
         UNCHANGED <<kind, name, info, mp_, timeMp_, task, told>>,
         toSend' = toSend \/ (toSend # <<>> /\ toSend' = Tail(toSend))
  PROVE  VerdictInv'
  <1>1. toRecv \in Seq(Announcement) /\ toSend \in Seq(Message)
    BY DEF VerdictInv, VerdictTyped, DTPInv, TypeInv
  <1>2. /\ toRecv' \in Seq(Announcement) /\ Len(toRecv) \in Nat
        /\ \A a \in 1..Len(toRecv') : \/ a \in 1..Len(toRecv) /\ toRecv'[a] = toRecv[a]
                                      \/ a = Len(toRecv) + 1 /\ toRecv'[a] = m
    BY <1>1, Put
  <1>3. \A a \in 1..Len(toSend') : \E b \in 1..Len(toSend) : toSend'[a] = toSend[b]
    <2>1. CASE toSend' = toSend
      BY <2>1
    <2>2. CASE toSend # <<>> /\ toSend' = Tail(toSend)
      <3>1. \A a \in 1..Len(toSend') : a + 1 \in 1..Len(toSend) /\ toSend'[a] = toSend[a + 1]
        BY <1>1, <2>2, Taken
      <3>2. QED
        BY <3>1
    <2>3. QED
      BY <2>1, <2>2
  <1>4. \A a \in 1..Len(toRecv) : toRecv[a].job \in Jobs
    BY Queues
  <1>5. \A i \in Jobs : (Agreed(i)' <=> Agreed(i)) /\ (Begun(i) => Begun(i)') /\ (Begun(i)' => Begun(i) \/ i = j)
    BY DEF Agreed, Begun
  <1>6. /\ \A a \in 1..Len(toRecv) : toRecv[a].job # j
        /\ \A n \in Names : mp_[n] # j
        /\ ~Agreed(j)
    BY DEF VerdictInv, AnnouncedOnce
  <1>7. VerdictTyped'
    BY <1>2 DEF VerdictInv, VerdictTyped
  <1>8. AnnouncedOnce'
    <2>1. ASSUME NEW a \in 1..Len(toRecv')
          PROVE  /\ mgr'[toRecv'[a].job].obj # "none" /\ info'[toRecv'[a].job].obj = "none"
                 /\ \A n \in Names : mp_'[n] # toRecv'[a].job
      <3>1. CASE a \in 1..Len(toRecv) /\ toRecv'[a] = toRecv[a]
        BY <1>4, <1>5, <3>1 DEF VerdictInv, AnnouncedOnce, Begun, Agreed
      <3>2. CASE toRecv'[a] = m
        BY <1>5, <1>6, <3>2 DEF Begun, Agreed
      <3>3. QED
        BY <1>2, <3>1, <3>2
    <2>2. ASSUME NEW a \in 1..Len(toRecv'), NEW b \in 1..Len(toRecv'), toRecv'[a].job = toRecv'[b].job
          PROVE  a = b
      BY <1>2, <1>6, <2>2 DEF VerdictInv, AnnouncedOnce
    <2>3. \A n \in Names : mp_'[n] \in Jobs => mgr'[mp_'[n]].obj # "none" /\ info'[mp_'[n]].obj = "none" /\ name'[mp_'[n]] = n
      BY <1>5 DEF VerdictInv, AnnouncedOnce, Begun, Agreed
    <2>4. \A i \in Jobs : Agreed(i)' => Begun(i)'
      BY <1>5 DEF VerdictInv, AnnouncedOnce
    <2>5. QED
      BY <2>1, <2>2, <2>3, <2>4 DEF AnnouncedOnce, Begun, Agreed
  <1>9. AskedBefore'
    <2>1. ASSUME NEW a \in 1..Len(toSend'), toSend'[a].flag = "RECVFILEFLAG"
          PROVE  task'[toSend'[a].job] # "none"
      BY <1>3, <2>1 DEF VerdictInv, AskedBefore
    <2>2. \A i \in Jobs : kind[i] = "pull" /\ Begun(i)' => task[i] # "none"
      BY <1>5 DEF VerdictInv, AskedBefore
    <2>3. QED
      BY <2>1, <2>2 DEF VerdictInv, AskedBefore
  <1>10. TimerTaken' /\ Finished' /\ Opened'
    BY <1>5 DEF VerdictInv, TimerTaken, Finished, Agreed, Opened
  <1>11. QED
    BY <1>7, <1>8, <1>9, <1>10 DEF VerdictInv

(* Messages to the sender come and go; recvFile has armed its timer. *)
LEMMA RequestVerdict ==
  ASSUME DTPInv, VerdictInv, UNCHANGED <<kind, name, mgr, info, toRecv, mp_>>,
         VerdictTyped',
         \A a \in 1..Len(toSend') : \/ \E b \in 1..Len(toSend) : toSend'[a] = toSend[b]
                                    \/ toSend'[a].flag = "RECVFILEFLAG" => task'[toSend'[a].job] # "none",
         \A i \in Jobs : /\ task[i] # "none" => task'[i] # "none"
                         /\ task'[i] # "none" => timeMp_' # None /\ kind[i] = "pull"
                         /\ Agreed(i) => task'[i] = task[i] \/ task'[i] = "deleted"
                         /\ Agreed(i) /\ timeMp_' = i => timeMp_ = i
                         /\ told'[i] = "succ" => told[i] = "succ",
         timeMp_' \in Jobs => task'[timeMp_'] # "none"
  PROVE  VerdictInv'
  <1>1. \A i \in Jobs : (Agreed(i)' <=> Agreed(i)) /\ (Begun(i)' <=> Begun(i))
    BY DEF Agreed, Begun
  <1>2. AnnouncedOnce'
    BY DEF VerdictInv, AnnouncedOnce, Agreed, Begun
  <1>3. \A a \in 1..Len(toSend) : toSend[a].job \in Jobs
    BY Queues
  <1>4. AskedBefore'
    <2>1. ASSUME NEW a \in 1..Len(toSend'), toSend'[a].flag = "RECVFILEFLAG"
          PROVE  task'[toSend'[a].job] # "none"
      BY <1>3, <2>1 DEF VerdictInv, AskedBefore
    <2>2. \A i \in Jobs : kind[i] = "pull" /\ Begun(i)' => task'[i] # "none"
      BY <1>1 DEF VerdictInv, AskedBefore
    <2>3. QED
      BY <2>1, <2>2 DEF AskedBefore
  <1>5. TimerTaken'
    BY <1>1 DEF VerdictInv, TimerTaken
  <1>6. Finished' /\ Opened'
    BY <1>1 DEF VerdictInv, Finished, Opened
  <1>7. QED
    BY <1>2, <1>4, <1>5, <1>6 DEF VerdictInv

(* The receiver takes a message: it keeps the job under its name, or not. *)
LEMMA KeptVerdict ==
  ASSUME DTPInv, VerdictInv, toRecv # <<>>, toRecv' = Tail(toRecv),
         \/ mp_' = mp_
         \/ LET h == Head(toRecv).job
            IN  mp_' = [mp_ EXCEPT ![name[h]] = IF @ = None THEN h ELSE @],
         UNCHANGED <<kind, name, mgr, info, toSend, timeMp_, task, told>>
  PROVE  VerdictInv'
  <1> DEFINE h == Head(toRecv).job
  <1>1. toRecv \in Seq(Announcement) /\ mp_ = [n \in Names |-> mp_[n]]
    BY DEF VerdictInv, VerdictTyped
  <1>2. /\ toRecv' \in Seq(Announcement) /\ 1 \in 1..Len(toRecv) /\ Head(toRecv) = toRecv[1]
        /\ \A a \in 1..Len(toRecv') : a \in Int /\ a + 1 \in 1..Len(toRecv) /\ a + 1 # 1 /\ toRecv'[a] = toRecv[a + 1]
    BY <1>1, Taken
  <1>3. \A a \in 1..Len(toRecv) : toRecv[a].job \in Jobs
    BY Queues
  <1>4. h = toRecv[1].job /\ h \in Jobs
    BY <1>2, <1>3
  <1>5. name[h] \in Names
    BY <1>4 DEF DTPInv, TypeInv
  <1> HIDE DEF h
  <1>6. mp_' = [n \in Names |-> mp_'[n]] /\ \A n \in Names : mp_'[n] = mp_[n] \/ (mp_'[n] = h /\ n = name[h])
    BY <1>1, <1>5 DEF h
  <1>7. /\ \A i \in Jobs : (Agreed(i)' <=> Agreed(i)) /\ (Begun(i)' <=> Begun(i))
        /\ \A a \in 1..Len(toRecv) : Begun(toRecv[a].job) /\ ~Agreed(toRecv[a].job)
        /\ \A a \in 1..Len(toRecv), n \in Names : mp_[n] # toRecv[a].job
        /\ \A a, b \in 1..Len(toRecv) : toRecv[a].job = toRecv[b].job => a = b
    BY DEF Agreed, Begun, VerdictInv, AnnouncedOnce
  <1>8. AnnouncedOnce'
    <2>1. ASSUME NEW a \in 1..Len(toRecv')
          PROVE  /\ mgr'[toRecv'[a].job].obj # "none" /\ info'[toRecv'[a].job].obj = "none"
                 /\ \A n \in Names : mp_'[n] # toRecv'[a].job
      <3>1. a + 1 \in 1..Len(toRecv) /\ a + 1 # 1 /\ toRecv'[a] = toRecv[a + 1]
        BY <1>2
      <3>2. toRecv[a + 1].job # h
        BY <1>2, <1>4, <1>7, <3>1
      <3>3. QED
        BY <1>3, <1>6, <1>7, <3>1, <3>2 DEF Begun, Agreed
    <2>2. ASSUME NEW a \in 1..Len(toRecv'), NEW b \in 1..Len(toRecv'), toRecv'[a].job = toRecv'[b].job
          PROVE  a = b
      <3>1. a + 1 = b + 1 /\ a \in Int /\ b \in Int
        BY <1>2, <1>7, <2>2
      <3>2. QED
        BY <3>1
    <2>3. \A n \in Names : mp_'[n] \in Jobs => mgr'[mp_'[n]].obj # "none" /\ info'[mp_'[n]].obj = "none" /\ name'[mp_'[n]] = n
      <3>1. Begun(h) /\ ~Agreed(h)
        BY <1>2, <1>4, <1>7
      <3>2. \A n \in Names : mp_[n] \in Jobs => Begun(mp_[n]) /\ ~Agreed(mp_[n]) /\ name[mp_[n]] = n
        BY DEF VerdictInv, AnnouncedOnce
      <3>3. QED
        BY <1>4, <1>6, <1>7, <3>1, <3>2 DEF Begun, Agreed
    <2>4. \A i \in Jobs : Agreed(i)' => Begun(i)'
      BY <1>7 DEF VerdictInv, AnnouncedOnce
    <2>5. QED
      BY <2>1, <2>2, <2>3, <2>4 DEF AnnouncedOnce, Begun, Agreed
  <1>9. VerdictTyped'
    BY <1>2, <1>6 DEF VerdictInv, VerdictTyped
  <1>10. AskedBefore' /\ TimerTaken' /\ Finished' /\ Opened'
    BY DEF VerdictInv, AskedBefore, TimerTaken, Finished, Opened, Agreed, Begun
  <1>11. QED
    BY <1>8, <1>9, <1>10 DEF VerdictInv

(* The user agrees: what was kept is passed on, and the timer taken. *)
LEMMA AgreeVerdict ==
  ASSUME DTPInv, VerdictInv, NEW n \in Names, mp_' = [mp_ EXCEPT ![n] = None],
         UNCHANGED <<kind, name, mgr, toRecv, timeMp_, told>>,
         task' = task \/ (timeMp_ \in Jobs /\ task' = [task EXCEPT ![timeMp_] = "deleted"]),
         \/ info' = info
         \/ mp_[n] \in Jobs /\ \E r \in InfoType : r.obj = "live" /\ info' = [info EXCEPT ![mp_[n]] = r],
         mp_[n] \in Jobs /\ kind[mp_[n]] = "pull" /\ timeMp_ = mp_[n] => task'[mp_[n]] = "deleted",
         \A a \in 1..Len(toSend') : \/ \E b \in 1..Len(toSend) : toSend'[a] = toSend[b]
                                    \/ toSend'[a].flag # "RECVFILEFLAG"
  PROVE  VerdictInv'
  <1>1. /\ mp_ = [m \in Names |-> mp_[m]] /\ task \in [Jobs -> {"none", "armed", "deleted"}]
        /\ info \in [Jobs -> InfoType] /\ timeMp_ \in Jobs \cup {None}
    BY DEF DTPInv, TypeInv, VerdictInv, VerdictTyped
  <1>2. /\ mp_' = [m \in Names |-> mp_'[m]] /\ mp_'[n] = None
        /\ \A m \in Names \ {n} : mp_'[m] = mp_[m]
    BY <1>1
  <1>3. task' \in [Jobs -> {"none", "armed", "deleted"}]
        /\ \A i \in Jobs : task'[i] = task[i] \/ (i = timeMp_ /\ task'[i] = "deleted")
    BY <1>1
  <1>4. \A i \in Jobs : info'[i] = info[i] \/ (i = mp_[n] /\ info'[i].obj = "live")
    BY <1>1
  <1>5. /\ \A a \in 1..Len(toRecv) : toRecv[a].job \in Jobs
        /\ \A a \in 1..Len(toSend) : toSend[a].job \in Jobs
    BY Queues
  <1>6. VerdictTyped'
    BY <1>2, <1>3 DEF VerdictInv, VerdictTyped
  <1>7. AnnouncedOnce'
    <2>1. ASSUME NEW a \in 1..Len(toRecv')
          PROVE  /\ mgr'[toRecv'[a].job].obj # "none" /\ info'[toRecv'[a].job].obj = "none"
                 /\ \A m \in Names : mp_'[m] # toRecv'[a].job
      <3>1. /\ toRecv[a].job \in Jobs /\ Begun(toRecv[a].job) /\ ~Agreed(toRecv[a].job)
            /\ \A m \in Names : mp_[m] # toRecv[a].job
        BY <1>5 DEF VerdictInv, AnnouncedOnce
      <3>2. None # toRecv[a].job
        BY <3>1, NoneAssumption
      <3>3. QED
        BY <1>2, <1>4, <3>1, <3>2 DEF Begun, Agreed
    <2>2. \A a, b \in 1..Len(toRecv') : toRecv'[a].job = toRecv'[b].job => a = b
      BY DEF VerdictInv, AnnouncedOnce
    <2>3. ASSUME NEW m \in Names, mp_'[m] \in Jobs
          PROVE  mgr'[mp_'[m]].obj # "none" /\ info'[mp_'[m]].obj = "none" /\ name'[mp_'[m]] = m
      <3>1. m # n /\ mp_'[m] = mp_[m]
        BY <1>2, <2>3, NoneAssumption
      <3>2. Begun(mp_[m]) /\ ~Agreed(mp_[m]) /\ name[mp_[m]] = m
        BY <2>3, <3>1 DEF VerdictInv, AnnouncedOnce
      <3>3. mp_[m] # mp_[n]
        BY <2>3, <3>1, <3>2 DEF VerdictInv, AnnouncedOnce
      <3>4. QED
        BY <1>4, <2>3, <3>1, <3>2, <3>3 DEF Begun, Agreed
    <2>4. ASSUME NEW i \in Jobs, info'[i].obj # "none" PROVE mgr'[i].obj # "none"
      BY <1>4, <2>4 DEF VerdictInv, AnnouncedOnce, Begun, Agreed
    <2>5. QED
      BY <2>1, <2>2, <2>3, <2>4 DEF AnnouncedOnce, Begun, Agreed
  <1>8. AskedBefore'
    <2>1. ASSUME NEW i \in Jobs, task'[i] # "none" PROVE timeMp_' # None /\ kind'[i] = "pull"
      BY <1>3, <2>1, NoneAssumption DEF VerdictInv, AskedBefore
    <2>2. timeMp_' \in Jobs => task'[timeMp_'] # "none"
      BY <1>3 DEF VerdictInv, AskedBefore
    <2>3. ASSUME NEW a \in 1..Len(toSend'), toSend'[a].flag = "RECVFILEFLAG"
          PROVE  task'[toSend'[a].job] # "none"
      <3>1. PICK b \in 1..Len(toSend) : toSend'[a] = toSend[b]
        BY <2>3
      <3>2. toSend[b].job \in Jobs /\ task[toSend[b].job] # "none"
        BY <1>5, <2>3, <3>1 DEF VerdictInv, AskedBefore
      <3>3. QED
        BY <1>3, <3>1, <3>2
    <2>4. ASSUME NEW i \in Jobs, kind'[i] = "pull", mgr'[i].obj # "none" PROVE task'[i] # "none"
      BY <1>3, <2>4 DEF VerdictInv, AskedBefore, Begun
    <2>5. QED
      BY <2>1, <2>2, <2>3, <2>4 DEF AskedBefore, Begun
  <1>9. TimerTaken'
    BY <1>3, <1>4 DEF VerdictInv, TimerTaken, Agreed
  <1>10. Finished'
    <2>1. ASSUME NEW i \in Jobs, told[i] = "succ" PROVE info'[i] = info[i]
      <3>1. Agreed(i)
        BY <2>1 DEF VerdictInv, Finished
      <3>2. i # mp_[n]
        BY <3>1 DEF VerdictInv, AnnouncedOnce
      <3>3. QED
        BY <1>4, <3>2
    <2>2. QED
      BY <2>1 DEF VerdictInv, Finished, Agreed
  <1>11. Opened'
    BY <1>4 DEF VerdictInv, Opened, Agreed
  <1>12. QED
    BY <1>6, <1>7, <1>8, <1>9, <1>10, <1>11 DEF VerdictInv

(* Bytes of one job arrive; with its success it is finished. *)
LEMMA ArrivalVerdict ==
  ASSUME DTPInv, VerdictInv, NEW j \in Jobs, Agreed(j), NEW r \in InfoType, r.obj # "none",
         info' = [info EXCEPT ![j] = r],
         \A i \in Jobs \ {j} : told'[i] = told[i],
         told'[j] = "succ" => IF kind[j] = "udp" THEN r.sock = "closed" ELSE r.length = 0,
         mp_' = [n \in Names |-> mp_'[n]],
         \A n \in Names : mp_'[n] = mp_[n] \/ mp_'[n] = "notice",
         UNCHANGED <<kind, name, mgr, toRecv, toSend, timeMp_, task>>
  PROVE  VerdictInv'
  <1>1. info \in [Jobs -> InfoType]
    BY DEF DTPInv, TypeInv
  <1>2. info'[j] = r /\ \A i \in Jobs \ {j} : info'[i] = info[i]
    BY <1>1
  <1>3. \A i \in Jobs : (Agreed(i)' <=> Agreed(i)) /\ (Begun(i)' <=> Begun(i))
    BY <1>2 DEF Agreed, Begun
  <1>4. \A a \in 1..Len(toRecv) : toRecv[a].job \in Jobs
    BY Queues
  <1>5. VerdictTyped'
    BY DEF VerdictInv, VerdictTyped
  <1>6. AnnouncedOnce'
    <2>1. ASSUME NEW a \in 1..Len(toRecv')
          PROVE  /\ mgr'[toRecv'[a].job].obj # "none" /\ info'[toRecv'[a].job].obj = "none"
                 /\ \A m \in Names : mp_'[m] # toRecv'[a].job
      <3>1. /\ toRecv[a].job \in Jobs /\ Begun(toRecv[a].job) /\ ~Agreed(toRecv[a].job)
            /\ \A m \in Names : mp_[m] # toRecv[a].job
        BY <1>4 DEF VerdictInv, AnnouncedOnce
      <3>2. "notice" # toRecv[a].job
        BY <3>1, NoneAssumption
      <3>3. QED
        BY <1>3, <3>1, <3>2 DEF Begun, Agreed
    <2>2. \A a, b \in 1..Len(toRecv') : toRecv'[a].job = toRecv'[b].job => a = b
      BY DEF VerdictInv, AnnouncedOnce
    <2>3. ASSUME NEW m \in Names, mp_'[m] \in Jobs
          PROVE  mgr'[mp_'[m]].obj # "none" /\ info'[mp_'[m]].obj = "none" /\ name'[mp_'[m]] = m
      <3>1. mp_'[m] = mp_[m]
        BY <2>3, NoneAssumption
      <3>2. Begun(mp_[m]) /\ ~Agreed(mp_[m]) /\ name[mp_[m]] = m
        BY <2>3, <3>1 DEF VerdictInv, AnnouncedOnce
      <3>3. QED
        BY <1>3, <2>3, <3>1, <3>2 DEF Begun, Agreed
    <2>4. \A i \in Jobs : Agreed(i)' => Begun(i)'
      BY <1>3 DEF VerdictInv, AnnouncedOnce
    <2>5. QED
      BY <2>1, <2>2, <2>3, <2>4 DEF AnnouncedOnce, Begun, Agreed
  <1>7. AskedBefore' /\ TimerTaken'
    BY <1>3 DEF VerdictInv, AskedBefore, TimerTaken
  <1>8. Finished'
    BY <1>2, <1>3 DEF VerdictInv, Finished
  <1>9. Opened'
    BY <1>2, <1>3 DEF VerdictInv, Opened
  <1>10. QED
    BY <1>5, <1>6, <1>7, <1>8, <1>9 DEF VerdictInv

(* TcpClient::onConnect makes a record for the job, or the process ends. *)
LEMMA ConnectLive ==
  ASSUME NEW j \in Jobs, Connect(j)
  PROVE  info' = info \/ \E r \in InfoType : r.obj = "live" /\ info' = [info EXCEPT ![j] = r]
  <1>1. ASSUME NEW s \in {"syn", "refused"},
               info' = [info EXCEPT ![j] = [NoInfo EXCEPT !.obj = "live", !.sock = s, !.length = Size]]
        PROVE  \E r \in InfoType : r.obj = "live" /\ info' = [info EXCEPT ![j] = r]
    <2> DEFINE r == [NoInfo EXCEPT !.obj = "live", !.sock = s, !.length = Size]
    <2>1. r \in InfoType
      BY SocketNew
    <2>2. r.obj = "live"
      BY DEF NoInfo
    <2> HIDE DEF r
    <2>3. info' = [info EXCEPT ![j] = r]
      BY <1>1 DEF r
    <2>4. QED
      BY <2>1, <2>2, <2>3
  <1>2. QED
    BY <1>1 DEF Connect

(* The sender's loop and its timer; the ends of the receiver's sockets. *)
LEMMA LoopVerdict ==
  ASSUME DTPInv, VerdictInv, NEW j \in Jobs,
         \/ acceptorCallback(j) \/ senfFileClearMemory(j) \/ acceptorCallbackOfSendData(j)
         \/ handleWrite(j) \/ handleErro(j) \/ stopListen(j) \/ stopListenOfUdp(j)
  PROVE  VerdictInv'
  <1>1. /\ mgr \in [Jobs -> MgrType] /\ info \in [Jobs -> InfoType]
        /\ mgr[j] \in MgrType /\ info[j] \in InfoType /\ Life(j)
        /\ \A i \in Jobs : ~Agreed(i) => info[i] = NoInfo
    BY DEF DTPInv, TypeInv, VerdictInv, Opened
  <1>2. UNCHANGED <<kind, name, toRecv, toSend, mp_, timeMp_, task, told>>
    BY DEF acceptorCallback, senfFileClearMemory, acceptorCallbackOfSendData, handleWrite, handleErro,
           stopListen, stopListenOfUdp, receiverVars
  <1>3. \A i \in Jobs : Begun(i)' <=> Begun(i)
    <2>1. ASSUME \A i \in Jobs \ {j} : mgr'[i] = mgr[i],
                 mgr'[j].obj = "none" <=> mgr[j].obj = "none"
          PROVE  \A i \in Jobs : Begun(i)' <=> Begun(i)
      BY <2>1 DEF Begun
    <2>2. CASE acceptorCallback(j)
      <3>1. PICK w, r : mgr' = [mgr EXCEPT ![j].acc = "freed", ![j].acceptor_ = FALSE, ![j].conn = "open",
                                           ![j].work = w, ![j].left = r]
        BY <2>2 DEF acceptorCallback
      <3>2. (\A i \in Jobs \ {j} : mgr'[i] = mgr[i]) /\ mgr'[j].obj = mgr[j].obj
        BY <1>1, <3>1 DEF MgrType
      <3>3. QED
        BY <2>1, <3>2
    <2>3. CASE senfFileClearMemory(j)
      <3>1. mgr[j].work /\ mgr' = [mgr EXCEPT ![j].work = FALSE, ![j].conn = Deleted(@), ![j].obj = "freed"]
        BY <2>3 DEF senfFileClearMemory
      <3>2. (\A i \in Jobs \ {j} : mgr'[i] = mgr[i]) /\ mgr'[j].obj = "freed"
        BY <1>1, <3>1 DEF MgrType
      <3>3. mgr[j].obj = "live"
        BY <1>1, <3>1 DEF Life, Unborn, Bare, Waits, GivenUp, Serves, Cleared, Places, Placed
      <3>4. QED
        BY <2>1, <3>2, <3>3
    <2>4. CASE acceptorCallbackOfSendData(j)
      <3>1. PICK r : \/ mgr' = [mgr EXCEPT ![j] = sendDataCallback([mgr[j] EXCEPT !.conn = "open", !.left = r])]
                     \/ mgr' = [mgr EXCEPT ![j] = [mgr[j] EXCEPT !.conn = "open", !.left = r]]
        BY <2>4 DEF acceptorCallbackOfSendData
      <3> DEFINE m == [mgr[j] EXCEPT !.conn = "open", !.left = r]
      <3>2. m.obj = mgr[j].obj
        BY <1>1 DEF MgrType
      <3>3. sendDataCallback(m).obj = mgr[j].obj
        BY <1>1 DEF MgrType, sendDataCallback
      <3>4. mgr' = [mgr EXCEPT ![j] = sendDataCallback(m)] \/ mgr' = [mgr EXCEPT ![j] = m]
        BY <3>1
      <3> HIDE DEF m
      <3>5. (\A i \in Jobs \ {j} : mgr'[i] = mgr[i]) /\ mgr'[j].obj = mgr[j].obj
        BY <1>1, <3>2, <3>3, <3>4
      <3>6. QED
        BY <2>1, <3>5
    <2>5. CASE handleWrite(j)
      <3>1. mgr' = [mgr EXCEPT ![j] = sendDataCallback(@)] \/ mgr' = [mgr EXCEPT ![j].left = <<>>]
        BY <2>5 DEF handleWrite
      <3>2. mgr[j] \in MgrType /\ mgr = [i \in Jobs |-> mgr[i]]
        BY <1>1
      <3>3. sendDataCallback(mgr[j]).obj = mgr[j].obj
        BY <3>2 DEF MgrType, sendDataCallback
      <3>4. CASE mgr' = [mgr EXCEPT ![j] = sendDataCallback(@)]
        BY <2>1, <3>2, <3>3, <3>4
      <3>5. CASE mgr' = [mgr EXCEPT ![j].left = <<>>]
        <4>1. (\A i \in Jobs \ {j} : mgr'[i] = mgr[i]) /\ mgr'[j].obj = mgr[j].obj
          BY <3>2, <3>5 DEF MgrType
        <4>2. QED
          BY <2>1, <4>1
      <3>6. QED
        BY <3>1, <3>4, <3>5
    <2>6. CASE stopListen(j)
      <3>1. PICK expired \in IF mgr[j].obj = "live" THEN {mgr[j].acceptor_} ELSE BOOLEAN :
              mgr' = [mgr EXCEPT ![j].timer = "done",
                                 ![j].acc = IF expired THEN Deleted(@) ELSE @,
                                 ![j].conn = IF expired THEN Deleted(@) ELSE @]
        BY <2>6 DEF stopListen
      <3>2. (\A i \in Jobs \ {j} : mgr'[i] = mgr[i]) /\ mgr'[j].obj = mgr[j].obj
        BY <1>1, <3>1 DEF MgrType
      <3>3. QED
        BY <2>1, <3>2
    <2>7. CASE handleErro(j) \/ stopListenOfUdp(j)
      BY <2>7 DEF handleErro, stopListenOfUdp, senderVars, Begun
    <2>8. QED
      BY <2>2, <2>3, <2>4, <2>5, <2>6, <2>7
  <1>4. \/ info' = info
        \/ /\ Agreed(j)
           /\ \A i \in Jobs \ {j} : info'[i] = info[i]
           /\ info'[j].length = info[j].length /\ info'[j].obj # "none"
           /\ kind[j] # "udp" \/ info'[j].sock = "closed"
    <2>1. CASE senfFileClearMemory(j) \/ handleWrite(j) \/ stopListen(j)
      BY <2>1 DEF senfFileClearMemory, handleWrite, stopListen, receiverVars
    <2>2. CASE acceptorCallback(j) \/ acceptorCallbackOfSendData(j)
      <3>1. info[j].sock = "syn" /\ kind[j] # "udp" /\ info' = [info EXCEPT ![j].sock = "open"]
        BY <2>2 DEF acceptorCallback, acceptorCallbackOfSendData, Accepts
      <3>2. Agreed(j)
        BY <1>1, <3>1 DEF NoInfo
      <3>3. QED
        BY <1>1, <3>1, <3>2 DEF Agreed, InfoType
    <2>3. CASE handleErro(j)
      <3>1. info[j].obj = "live" /\ info' = [info EXCEPT ![j].obj = "freed", ![j].sock = "closed"]
        BY <2>3 DEF handleErro
      <3>2. QED
        BY <1>1, <3>1 DEF Agreed, InfoType
    <2>4. CASE stopListenOfUdp(j)
      <3>1. info[j].timer = "armed" /\ info' = [info EXCEPT ![j].timer = "done", ![j].sock = "closed"]
        BY <2>4 DEF stopListenOfUdp
      <3>2. Agreed(j)
        BY <1>1, <3>1 DEF NoInfo
      <3>3. QED
        BY <1>1, <3>1, <3>2 DEF Agreed, InfoType
    <2>5. QED
      BY <2>1, <2>2, <2>3, <2>4
  <1>5. \A i \in Jobs : /\ Agreed(i)' <=> Agreed(i)
                        /\ ~Agreed(i) => info'[i] = info[i]
                        /\ kind[i] # "udp" /\ info[i].length = 0 => info'[i].length = 0
                        /\ kind[i] = "udp" /\ info[i].sock = "closed" => info'[i].sock = "closed"
    BY <1>4 DEF Agreed
  <1>6. QED
    BY <1>2, <1>3, <1>5, SameVerdict

(* The calls of the two users. *)
LEMMA UserVerdict ==
  ASSUME DTPInv, VerdictInv, UserStep
  PROVE  VerdictInv'
  <1>1. /\ mgr \in [Jobs -> MgrType] /\ toSend \in Seq(Message) /\ info \in [Jobs -> InfoType]
        /\ task \in [Jobs -> {"none", "armed", "deleted"}] /\ timeMp_ \in Jobs \cup {None}
    BY DEF DTPInv, TypeInv, VerdictInv, VerdictTyped
  <1>2. ASSUME NEW j \in Jobs, sendFile(j) \/ sendData(j) \/ sendDataOnUdp(j) PROVE VerdictInv'
    <2>1. PICK flag \in {"SENDFILEFLAG", "SENDDATAFLAG", "SENDDATAONUDP"} :
            toRecv' = Append(toRecv, ControlMsg(flag, j))
      BY <1>2 DEF sendFile, sendData, sendDataOnUdp, Listen
    <2>2. kind[j] # "pull" /\ UNCHANGED <<kind, name, info, mp_, timeMp_, task, told, toSend>>
      BY <1>2 DEF sendFile, sendData, sendDataOnUdp, receiverVars
    <2>3. ControlMsg(flag, j) \in Announcement /\ ControlMsg(flag, j).job = j
      BY <2>1 DEF ControlMsg, Announcement
    <2>4. ~Begun(j) /\ Begun(j)' /\ \A i \in Jobs \ {j} : mgr'[i] = mgr[i]
      <3>1. mgr[j].obj = "none" /\ mgr[j] \in MgrType /\ mgr = [i \in Jobs |-> mgr[i]]
        BY <1>1, <1>2 DEF sendFile, sendData, sendDataOnUdp, Listen
      <3>2. PICK m : m.obj = "live" /\ mgr' = [mgr EXCEPT ![j] = m]
        <4>1. CASE sendDataOnUdp(j)
          <5>1. mgr' = [mgr EXCEPT ![j] = [mgr[j] EXCEPT !.obj = "live"]]
            BY <4>1 DEF sendDataOnUdp
          <5>2. [mgr[j] EXCEPT !.obj = "live"].obj = "live"
            BY <3>1 DEF MgrType
          <5>3. QED
            BY <5>1, <5>2
        <4>2. CASE sendFile(j) \/ sendData(j)
          <5>1. PICK acc : mgr' = [mgr EXCEPT ![j] = [NoMgr EXCEPT !.obj = "live", !.acceptor_ = TRUE,
                                                      !.acc = acc, !.conn = "new", !.timer = "armed"]]
            BY <4>2 DEF sendFile, sendData, Listen
          <5>2. [NoMgr EXCEPT !.obj = "live", !.acceptor_ = TRUE, !.acc = acc, !.conn = "new",
                              !.timer = "armed"].obj = "live"
            BY DEF NoMgr
          <5>3. QED
            BY <5>1, <5>2
        <4>3. QED
          BY <1>2, <4>1, <4>2
      <3>3. QED
        BY <3>1, <3>2 DEF Begun
    <2>5. QED
      BY <2>1, <2>2, <2>3, <2>4, AnnounceVerdict
  <1>3. ASSUME NEW j \in Jobs, recvFile(j) PROVE VerdictInv'
    <2>1. /\ kind[j] = "pull" /\ task[j] = "none" /\ task' = [task EXCEPT ![j] = "armed"]
          /\ timeMp_' = IF timeMp_ = None THEN j ELSE timeMp_
          /\ toSend' = Append(toSend, ControlMsg("RECVFILEFLAG", j))
          /\ UNCHANGED <<kind, name, mgr, info, toRecv, mp_, told>>
      BY <1>3 DEF recvFile, senderVars
    <2>2. /\ task' \in [Jobs -> {"none", "armed", "deleted"}] /\ task'[j] = "armed"
          /\ \A i \in Jobs \ {j} : task'[i] = task[i]
      BY <1>1, <2>1
    <2>3. timeMp_' \in Jobs /\ timeMp_' # None
      BY <1>1, <2>1, NoneAssumption
    <2>4. VerdictTyped'
      BY <2>1, <2>2, <2>3 DEF VerdictInv, VerdictTyped
    <2>5. ~Agreed(j)
      BY <2>1 DEF VerdictInv, AnnouncedOnce, AskedBefore
    <2>6. ControlMsg("RECVFILEFLAG", j) \in Message /\ ControlMsg("RECVFILEFLAG", j).job = j
      BY DEF ControlMsg, Message, Flags
    <2>7. \A a \in 1..Len(toSend') : \/ \E b \in 1..Len(toSend) : toSend'[a] = toSend[b]
                                     \/ toSend'[a].flag = "RECVFILEFLAG" => task'[toSend'[a].job] # "none"
      BY <1>1, <2>1, <2>2, <2>6, Put
    <2>8. timeMp_' \in Jobs => task'[timeMp_'] # "none"
      BY <2>1, <2>2 DEF VerdictInv, AskedBefore
    <2>9. \A i \in Jobs : /\ task[i] # "none" => task'[i] # "none"
                          /\ task'[i] # "none" => timeMp_' # None /\ kind[i] = "pull"
                          /\ Agreed(i) => task'[i] = task[i] \/ task'[i] = "deleted"
                          /\ Agreed(i) /\ timeMp_' = i => timeMp_ = i
                          /\ told'[i] = "succ" => told[i] = "succ"
      BY <2>1, <2>2, <2>3, <2>5 DEF VerdictInv, AskedBefore
    <2>10. QED
      BY <2>1, <2>4, <2>7, <2>8, <2>9, RequestVerdict
  <1>4. ASSUME NEW j \in Jobs, sendAck(j) PROVE VerdictInv'
    <2>1. PICK flag \in {"OPPENDRECVSUCC", "OPPENDRECVFAIL"} :
            /\ toSend' = Append(toSend, ControlMsg(flag, j))
            /\ UNCHANGED <<kind, name, mgr, info, toRecv, mp_, told, timeMp_, task>>
      BY <1>4 DEF sendAck, senderVars
    <2>2. ControlMsg(flag, j) \in Message /\ ControlMsg(flag, j).flag # "RECVFILEFLAG"
      BY <2>1 DEF ControlMsg, Message, Flags
    <2>3. \A a \in 1..Len(toSend') : \/ \E b \in 1..Len(toSend) : toSend'[a] = toSend[b]
                                     \/ toSend'[a].flag = "RECVFILEFLAG" => task'[toSend'[a].job] # "none"
      BY <1>1, <2>1, <2>2, Put
    <2>4. VerdictTyped'
      BY <2>1 DEF VerdictInv, VerdictTyped
    <2>5. QED
      BY <2>1, <2>3, <2>4, RequestVerdict DEF VerdictInv, AskedBefore
  <1>5. ASSUME NEW n \in Names, agreeRecvFile(n) PROVE VerdictInv'
    <2>1. /\ mp_[n] \in Jobs /\ mp_' = [mp_ EXCEPT ![n] = None] /\ kind[mp_[n]] \in {"file", "pull"}
          /\ UNCHANGED <<kind, name, mgr, toRecv, toSend, timeMp_, told>>
      BY <1>5 DEF agreeRecvFile, Agree, senderVars
    <2>2. \/ /\ timeMp_ # None /\ task[timeMp_] = "deleted" /\ info' = info /\ task' = task
          \/ /\ Connect(mp_[n]) /\ task' = IF timeMp_ = None THEN task ELSE [task EXCEPT ![timeMp_] = "deleted"]
      BY <1>5 DEF agreeRecvFile
    <2>3. task' = task \/ (timeMp_ \in Jobs /\ task' = [task EXCEPT ![timeMp_] = "deleted"])
      BY <1>1, <2>2
    <2>4. timeMp_ = mp_[n] => task'[mp_[n]] = "deleted"
      BY <1>1, <2>1, <2>2, NoneAssumption
    <2>5. \/ info' = info
          \/ \E r \in InfoType : r.obj = "live" /\ info' = [info EXCEPT ![mp_[n]] = r]
      BY <2>1, <2>2, ConnectLive
    <2>6. QED
      BY <2>1, <2>3, <2>4, <2>5, AgreeVerdict
  <1>6. ASSUME NEW n \in Names, agreeRecvData(n) PROVE VerdictInv'
    <2>1. /\ mp_' = [mp_ EXCEPT ![n] = None] /\ (mp_[n] \in Jobs => kind[mp_[n]] = "tcp")
          /\ UNCHANGED <<kind, name, mgr, toRecv, toSend, timeMp_, told, task>>
          /\ info' = info \/ (mp_[n] \in Jobs /\ Connect(mp_[n]))
      BY <1>6, NoneAssumption DEF agreeRecvData, Agree, senderVars
    <2>2. \/ info' = info
          \/ mp_[n] \in Jobs /\ \E r \in InfoType : r.obj = "live" /\ info' = [info EXCEPT ![mp_[n]] = r]
      BY <2>1, ConnectLive
    <2>3. QED
      BY <2>1, <2>2, AgreeVerdict
  <1>7. ASSUME NEW n \in Names, agreeRecvUdpData(n) PROVE VerdictInv'
    <2> DEFINE r == [NoInfo EXCEPT !.obj = "live", !.sock = "open", !.length = Size, !.timer = "armed"]
               m == ControlMsg("RECVDATAONUDP", mp_[n])
    <2>1. /\ mp_[n] \in Jobs /\ mp_' = [mp_ EXCEPT ![n] = None] /\ kind[mp_[n]] = "udp"
          /\ info' = [info EXCEPT ![mp_[n]] = r] /\ toSend' = Append(toSend, m)
          /\ UNCHANGED <<kind, name, mgr, toRecv, timeMp_, told, task>>
      BY <1>7 DEF agreeRecvUdpData, Agree, senderVars
    <2>2. r \in InfoType /\ r.obj = "live"
      <3>1. Size \in Int /\ NoInfo \in InfoType
        BY SizeAssumption DEF NoInfo, InfoType
      <3>2. QED
        BY <3>1 DEF InfoType
    <2>3. m \in Message /\ m.flag # "RECVFILEFLAG"
      BY <2>1 DEF ControlMsg, Message, Flags
    <2> HIDE DEF r, m
    <2>4. \A a \in 1..Len(toSend') : \/ \E b \in 1..Len(toSend) : toSend'[a] = toSend[b]
                                     \/ toSend'[a].flag # "RECVFILEFLAG"
      BY <1>1, <2>1, <2>3, Put
    <2>5. QED
      BY <2>1, <2>2, <2>4, AgreeVerdict
  <1>8. QED
    BY <1>2, <1>3, <1>4, <1>5, <1>6, <1>7 DEF UserStep

(* Bytes arrive. *)
LEMMA ReceiveVerdict ==
  ASSUME DTPInv, VerdictInv, NEW j \in Jobs,
         \/ \E k \in 1..Size : recvFileCallback(j, k) \/ recvDataCallback(j, k)
         \/ recvUdpDataCallback(j)
  PROVE  VerdictInv'
  <1>1. /\ info \in [Jobs -> InfoType] /\ info[j] \in InfoType
        /\ told \in [Jobs -> {"none", "succ", "fail"}]
        /\ mp_ = [n \in Names |-> mp_[n]] /\ name[j] \in Names
    BY DEF DTPInv, TypeInv, VerdictInv, VerdictTyped
  <1>2. ASSUME NEW k \in 1..Size, recvFileCallback(j, k) PROVE VerdictInv'
    <2>1. PICK ok \in BOOLEAN :
            told' = IF k = info[j].length THEN [told EXCEPT ![j] = IF ok THEN "succ" ELSE "fail"] ELSE told
      BY <1>2 DEF recvFileCallback, ChecksumMatches
    <2>2. /\ info' = [info EXCEPT ![j].length = @ - k] /\ info[j].obj = "live" /\ info[j].length > 0
          /\ kind[j] # "udp"
          /\ UNCHANGED <<kind, name, mgr, toRecv, toSend, timeMp_, task, mp_>>
      BY <1>2 DEF recvFileCallback, Receives, senderVars
    <2> DEFINE r == [info[j] EXCEPT !.length = @ - k]
    <2>3. info[j].length \in Int /\ Size \in Nat
      BY <1>1, SizeAssumption DEF InfoType
    <2>4. info[j].length - k \in Int /\ (k = info[j].length => info[j].length - k = 0)
      BY <2>3
    <2>5. info' = [info EXCEPT ![j] = r] /\ r \in InfoType
      BY <1>1, <2>2, <2>4, LengthSet
    <2>6. r.obj = "live" /\ r.length = info[j].length - k
      BY <1>1, <2>2 DEF InfoType
    <2> HIDE DEF r
    <2>7. told[j] # "succ" /\ Agreed(j)
      BY <2>2, <2>3 DEF VerdictInv, Finished, Agreed
    <2>8. (\A i \in Jobs \ {j} : told'[i] = told[i]) /\ (told'[j] = "succ" => r.length = 0)
      BY <1>1, <2>1, <2>4, <2>6, <2>7
    <2>9. QED
      BY <1>1, <2>2, <2>5, <2>6, <2>7, <2>8, ArrivalVerdict
  <1>3. ASSUME NEW k \in 1..Size, recvDataCallback(j, k) PROVE VerdictInv'
    <2>1. \/ /\ \E ok \in BOOLEAN : told' = [told EXCEPT ![j] = IF ok THEN "succ" ELSE "fail"]
             /\ mp_' = [mp_ EXCEPT ![name[j]] = IF @ = None THEN "notice" ELSE @]
          \/ told' = told /\ mp_' = mp_
      BY <1>3 DEF recvDataCallback, ChecksumMatches, Record
    <2>2. /\ info' = [info EXCEPT ![j].length = 0] /\ info[j].obj = "live" /\ kind[j] # "udp"
          /\ UNCHANGED <<kind, name, mgr, toRecv, toSend, timeMp_, task>>
      BY <1>3 DEF recvDataCallback, Receives, senderVars
    <2> DEFINE r == [info[j] EXCEPT !.length = 0]
    <2>3. info' = [info EXCEPT ![j] = r] /\ r \in InfoType
      BY <1>1, <2>2, LengthSet
    <2>4. r.obj = "live" /\ r.length = 0
      BY <1>1, <2>2 DEF InfoType
    <2> HIDE DEF r
    <2>5. \A i \in Jobs \ {j} : told'[i] = told[i]
      BY <1>1, <2>1
    <2>6. mp_' = [n \in Names |-> mp_'[n]] /\ \A n \in Names : mp_'[n] = mp_[n] \/ mp_'[n] = "notice"
      BY <1>1, <2>1
    <2>7. Agreed(j)
      BY <2>2 DEF Agreed
    <2>8. QED
      BY <2>2, <2>3, <2>4, <2>5, <2>6, <2>7, ArrivalVerdict
  <1>4. CASE recvUdpDataCallback(j)
    <2>1. /\ \E ok \in BOOLEAN : told' = [told EXCEPT ![j] = IF ok THEN "succ" ELSE "fail"]
          /\ mp_' = mp_ \/ mp_' = [mp_ EXCEPT ![name[j]] = IF @ = None THEN "notice" ELSE @]
      BY <1>4 DEF recvUdpDataCallback, ChecksumMatches, Record
    <2>2. /\ info' = [info EXCEPT ![j].obj = "freed", ![j].sock = "closed"] /\ info[j].sock = "open"
          /\ kind[j] = "udp"
          /\ UNCHANGED <<kind, name, mgr, toRecv, toSend, timeMp_, task>>
      BY <1>4 DEF recvUdpDataCallback, senderVars
    <2> DEFINE r == [info[j] EXCEPT !.obj = "freed", !.sock = "closed"]
    <2>3. info' = [info EXCEPT ![j] = r] /\ r \in InfoType /\ r.sock = "closed" /\ r.obj = "freed"
      BY <1>1, <2>2 DEF InfoType
    <2> HIDE DEF r
    <2>4. \A i \in Jobs \ {j} : told'[i] = told[i]
      BY <1>1, <2>1
    <2>5. mp_' = [n \in Names |-> mp_'[n]] /\ \A n \in Names : mp_'[n] = mp_[n] \/ mp_'[n] = "notice"
      BY <1>1, <2>1
    <2>6. Agreed(j)
      BY <2>2 DEF VerdictInv, Opened, NoInfo
    <2>7. QED
      BY <2>2, <2>3, <2>4, <2>5, <2>6, ArrivalVerdict
  <1>5. QED
    BY <1>2, <1>3, <1>4

(* The timer of recvFile, and the control connection. *)
LEMMA ControlVerdict ==
  ASSUME DTPInv, VerdictInv, ControlStep \/ \E j \in Jobs : handleRecvfileFail(j)
  PROVE  VerdictInv'
  <1>1. /\ mgr \in [Jobs -> MgrType] /\ toSend \in Seq(Message)
        /\ told \in [Jobs -> {"none", "succ", "fail"}]
        /\ task \in [Jobs -> {"none", "armed", "deleted"}] /\ timeMp_ \in Jobs \cup {None}
    BY DEF DTPInv, TypeInv, VerdictInv, VerdictTyped
  <1>2. ASSUME NEW j \in Jobs, handleRecvfileFail(j) PROVE VerdictInv'
    <2>1. /\ task[j] = "armed" /\ task' = [task EXCEPT ![j] = "deleted"]
          /\ told' = [told EXCEPT ![j] = "fail"]
          /\ UNCHANGED <<kind, name, mgr, info, toRecv, toSend, mp_, timeMp_>>
      BY <1>2 DEF handleRecvfileFail, senderVars
    <2>2. /\ task' \in [Jobs -> {"none", "armed", "deleted"}] /\ task'[j] = "deleted"
          /\ \A i \in Jobs \ {j} : task'[i] = task[i]
      BY <1>1, <2>1
    <2>3. VerdictTyped'
      BY <2>1, <2>2 DEF VerdictInv, VerdictTyped
    <2>4. \A i \in Jobs : told'[i] = "succ" => told[i] = "succ"
      BY <1>1, <2>1
    <2>5. \A i \in Jobs : /\ task[i] # "none" => task'[i] # "none"
                          /\ task'[i] # "none" => timeMp_' # None /\ kind[i] = "pull"
                          /\ Agreed(i) => task'[i] = task[i] \/ task'[i] = "deleted"
                          /\ Agreed(i) /\ timeMp_' = i => timeMp_ = i
      BY <2>1, <2>2 DEF VerdictInv, AskedBefore
    <2>6. timeMp_' \in Jobs => task'[timeMp_'] # "none"
      BY <2>1, <2>2 DEF VerdictInv, AskedBefore
    <2>7. QED
      BY <2>1, <2>3, <2>4, <2>5, <2>6, RequestVerdict
  <1>3. CASE analysisAtSender
    <2> DEFINE j == Head(toSend).job
    <2>1. /\ toSend # <<>> /\ toSend' = Tail(toSend)
          /\ UNCHANGED <<kind, name, info, mp_, timeMp_, task, told>>
      BY <1>3 DEF analysisAtSender, receiverVars
    <2>2. /\ 1 \in 1..Len(toSend) /\ Head(toSend) = toSend[1]
          /\ \A a \in 1..Len(toSend') : a + 1 \in 1..Len(toSend) /\ toSend'[a] = toSend[a + 1]
      BY <1>1, <2>1, Taken
    <2>3. toSend[1].job \in Jobs
      BY <2>2, Queues
    <2>4. CASE toRecv' = toRecv /\ mgr' = mgr
      <3>1. VerdictTyped'
        BY <2>1, <2>4 DEF VerdictInv, VerdictTyped
      <3>2. \A a \in 1..Len(toSend') : \E b \in 1..Len(toSend) : toSend'[a] = toSend[b]
        BY <2>2
      <3>3. QED
        BY <2>1, <2>4, <3>1, <3>2, RequestVerdict DEF VerdictInv, AskedBefore
    <2>5. CASE Head(toSend).flag = "RECVFILEFLAG" /\ Listen(j, "SENDFILEFLAG")
      <3>1. j \in Jobs /\ task[j] # "none"
        BY <2>2, <2>3, <2>5 DEF VerdictInv, AskedBefore
      <3> HIDE DEF j
      <3>2. ControlMsg("SENDFILEFLAG", j) \in Announcement /\ ControlMsg("SENDFILEFLAG", j).job = j
        BY <3>1 DEF ControlMsg, Announcement
      <3>3. /\ mgr[j].obj = "none" /\ mgr'[j].obj = "live"
            /\ \A i \in Jobs \ {j} : mgr'[i] = mgr[i]
        BY <1>1, <2>5, <3>1 DEF Listen, NoMgr, MgrType
      <3>4. toRecv' = Append(toRecv, ControlMsg("SENDFILEFLAG", j))
        BY <2>5 DEF Listen
      <3>5. ASSUME NEW i \in Jobs, i = j PROVE VerdictInv'
        <4>1. ~Begun(i) /\ Begun(i)'
          BY <3>3, <3>5 DEF Begun
        <4>2. QED
          BY <2>1, <3>1, <3>2, <3>3, <3>4, <3>5, <4>1, AnnounceVerdict
      <3>6. QED
        BY <3>1, <3>5
    <2>6. QED
      BY <1>3, <2>4, <2>5 DEF analysisAtSender
  <1>4. CASE analysisProtobuf
    BY <1>4, KeptVerdict DEF analysisProtobuf, Record, senderVars
  <1>5. CASE controlMessageLost
    BY <1>5, KeptVerdict DEF controlMessageLost, senderVars, receiverVars
  <1>6. QED
    BY <1>2, <1>3, <1>4, <1>5 DEF ControlStep

(* Before anything is announced. *)
LEMMA InitVerdict ==
  ASSUME Init
  PROVE  VerdictInv
  <1>1. toRecv = <<>> /\ toSend = <<>> /\ <<>> \in Seq(Announcement) /\ Len(<<>>) = 0
    BY EmptySeq DEF Init
  <1>2. /\ \A j \in Jobs : mgr[j].obj = "none" /\ info[j] = NoInfo /\ task[j] = "none" /\ told[j] = "none"
        /\ NoInfo.obj = "none" /\ timeMp_ = None /\ \A n \in Names : mp_[n] = None
    BY DEF Init, NoMgr, NoInfo
  <1>3. VerdictTyped
    BY <1>1 DEF Init, VerdictTyped
  <1>4. AnnouncedOnce /\ AskedBefore
    BY <1>1, <1>2, NoneAssumption DEF AnnouncedOnce, AskedBefore, Begun, Agreed
  <1>5. TimerTaken /\ Finished /\ Opened
    BY <1>2 DEF TimerTaken, Finished, Opened, Agreed
  <1>6. QED
    BY <1>3, <1>4, <1>5 DEF VerdictInv

(* Every step keeps all this. *)
LEMMA NextVerdict ==
  ASSUME DTPInv, VerdictInv, [Next]_vars
  PROVE  VerdictInv'
  <1>1. ASSUME NEW j \in Jobs, JobStep(j) PROVE VerdictInv'
    BY <1>1, LoopVerdict, ReceiveVerdict DEF JobStep
  <1>2. ASSUME NEW j \in Jobs, TimerStep(j) PROVE VerdictInv'
    BY <1>2, LoopVerdict, ControlVerdict DEF TimerStep
  <1>3. CASE UNCHANGED vars
    BY <1>3, SameVerdict DEF vars, Begun, Agreed
  <1>4. QED
    BY <1>1, <1>2, <1>3, UserVerdict, ControlVerdict DEF Next

(* Bytes that arrive are not those of a job with a success. *)
LEMMA ReceiveSuccess ==
  ASSUME DTPInv, VerdictInv, NEW i \in Jobs, told[i] = "succ", NEW j \in Jobs,
         \/ \E k \in 1..Size : recvFileCallback(j, k) \/ recvDataCallback(j, k)
         \/ recvUdpDataCallback(j)
  PROVE  SuccessKept(i)
  <1>1. /\ info[j] \in InfoType /\ name[j] \in Names
        /\ told \in [Jobs -> {"none", "succ", "fail"}]
        /\ disk = [n \in Names |-> disk[n]] /\ got = [m \in Jobs |-> got[m]]
    BY DEF DTPInv, TypeInv
  <1>2. info[i].length \in Int
    BY DEF DTPInv, TypeInv, InfoType
  <1>3. CASE recvUdpDataCallback(j)
    <2>1. PICK ok \in BOOLEAN :
            /\ told' = [told EXCEPT ![j] = IF ok THEN "succ" ELSE "fail"]
            /\ got' = [got EXCEPT ![j] = IF ok THEN wire[j] ELSE @]
      BY <1>3 DEF recvUdpDataCallback, ChecksumMatches
    <2>2. kind[j] = "udp" /\ info[j].sock = "open" /\ disk' = disk
      BY <1>3 DEF recvUdpDataCallback
    <2>3. i # j
      BY <2>2 DEF VerdictInv, Finished
    <2>4. QED
      BY <1>1, <2>1, <2>2, <2>3 DEF SuccessKept
  <1>4. ASSUME NEW k \in 1..Size, recvDataCallback(j, k) PROVE SuccessKept(i)
    <2>1. PICK ok \in BOOLEAN :
            \/ /\ told' = [told EXCEPT ![j] = IF ok THEN "succ" ELSE "fail"]
               /\ got' = [got EXCEPT ![j] = IF ok THEN wire[j] ELSE @]
            \/ told' = told /\ got' = got
      BY <1>4 DEF recvDataCallback, ChecksumMatches
    <2>2. kind[j] = "tcp" /\ info[j].length > 0 /\ disk' = disk
      BY <1>4 DEF recvDataCallback, Receives
    <2>3. i # j
      BY <1>2, <2>2 DEF VerdictInv, Finished
    <2>4. QED
      BY <1>1, <2>1, <2>2, <2>3 DEF SuccessKept
  <1>5. ASSUME NEW k \in 1..Size, recvFileCallback(j, k) PROVE SuccessKept(i)
    <2>1. PICK ok, last, bytes :
            /\ disk' = [disk EXCEPT ![name[j]] = IF last /\ ~ok THEN <<>> ELSE bytes]
            /\ told' = IF last THEN [told EXCEPT ![j] = IF ok THEN "succ" ELSE "fail"] ELSE told
      BY <1>5 DEF recvFileCallback, ChecksumMatches
    <2>2. kind[j] # "udp" /\ info[j].length > 0 /\ info[j].obj = "live" /\ got' = got
      BY <1>5 DEF recvFileCallback, Receives
    <2>3. i # j
      BY <1>2, <2>2 DEF VerdictInv, Finished
    <2>4. told'[i] = "succ"
      BY <1>1, <2>1, <2>3
    <2>5. disk'[name[i]] # disk[name[i]] => name[i] = name[j]
      <3>1. name[i] \in Names
        BY DEF DTPInv, TypeInv
      <3>2. QED
        BY <1>1, <2>1, <3>1
    <2>6. QED
      BY <2>2, <2>3, <2>4, <2>5 DEF SuccessKept
  <1>6. QED
    BY <1>3, <1>4, <1>5

(* No other step touches what was received; the timer of recvFile is the only
   one that gives a notice. *)
LEMMA StepSuccess ==
  ASSUME DTPInv, VerdictInv, [Next]_vars, NEW i \in Jobs, told[i] = "succ"
  PROVE  SuccessKept(i)
  <1>1. told \in [Jobs -> {"none", "succ", "fail"}] /\ task \in [Jobs -> {"none", "armed", "deleted"}]
    BY DEF DTPInv, TypeInv, VerdictInv, VerdictTyped
  <1>2. ASSUME UNCHANGED <<told, got, disk>> PROVE SuccessKept(i)
    BY <1>2 DEF SuccessKept
  <1>3. CASE UserStep
    <2>1. UNCHANGED <<told, got, disk>>
      BY <1>3 DEF UserStep, sendFile, sendData, sendDataOnUdp, recvFile, sendAck,
                  agreeRecvFile, agreeRecvData, agreeRecvUdpData, receiverVars
    <2>2. QED
      BY <1>2, <2>1
  <1>4. CASE ControlStep \/ UNCHANGED vars
    <2>1. UNCHANGED <<told, got, disk>>
      BY <1>4 DEF ControlStep, analysisAtSender, analysisProtobuf, controlMessageLost, receiverVars, vars
    <2>2. QED
      BY <1>2, <2>1
  <1>5. ASSUME NEW j \in Jobs, JobStep(j) PROVE SuccessKept(i)
    <2>1. CASE \/ acceptorCallback(j) \/ senfFileClearMemory(j) \/ acceptorCallbackOfSendData(j)
               \/ handleWrite(j) \/ handleErro(j)
      <3>1. UNCHANGED <<told, got, disk>>
        BY <2>1 DEF acceptorCallback, senfFileClearMemory, acceptorCallbackOfSendData, handleWrite,
                    handleErro, receiverVars
      <3>2. QED
        BY <1>2, <3>1
    <2>2. QED
      BY <1>5, <2>1, ReceiveSuccess DEF JobStep
  <1>6. ASSUME NEW j \in Jobs, handleRecvfileFail(j) PROVE SuccessKept(i)
    <2>1. /\ task[j] = "armed" /\ told' = [told EXCEPT ![j] = "fail"] /\ UNCHANGED <<disk, got>>
      BY <1>6 DEF handleRecvfileFail
    <2>2. CASE i = j
      <3>1. kind[i] = "pull" /\ Agreed(i)
        BY <2>1, <2>2 DEF VerdictInv, AskedBefore, Finished
      <3>2. timeMp_ # i
        BY <2>1, <2>2, <3>1 DEF VerdictInv, TimerTaken
      <3>3. QED
        BY <2>1, <3>1, <3>2 DEF SuccessKept
    <2>3. CASE i # j
      BY <1>1, <2>1, <2>3 DEF SuccessKept
    <2>4. QED
      BY <2>2, <2>3
  <1>7. ASSUME NEW j \in Jobs, stopListen(j) \/ stopListenOfUdp(j) PROVE SuccessKept(i)
    <2>1. UNCHANGED <<told, got, disk>>
      BY <1>7 DEF stopListen, stopListenOfUdp, receiverVars
    <2>2. QED
      BY <1>2, <2>1
  <1>8. QED
    BY <1>3, <1>4, <1>5, <1>6, <1>7 DEF Next, TimerStep

(* VerdictStands, for every number of jobs and names and every size: after
   RECVFILESUCC or RECVDATASUCC no timer, late message or byte of the job takes
   the success back or touches what was received, whatever the order of the
   announcements, agreements, timeouts and arrivals of all the jobs. *)
THEOREM VerdictStandsHolds == Spec => VerdictStands
  <1>1. Init => VerdictInv
    BY InitVerdict
  <1>2. DTPInv /\ VerdictInv /\ [Next]_vars => VerdictInv'
    BY NextVerdict
  <1>3. DTPInv /\ VerdictInv /\ [Next]_vars =>
          [\A j \in Jobs : told[j] = "succ" => SuccessKept(j)]_vars
    BY StepSuccess
  <1>4. QED
    BY <1>1, <1>2, <1>3, LifeHolds, PTL DEF Spec, VerdictStands
=============================================================================
