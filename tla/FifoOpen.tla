------------------------------ MODULE FifoOpen ------------------------------
(***************************************************************************)
(* Two processes open a pair of FIFOs: FifoIpc (createAndOpen, or createFifo  *)
(* and openFatherFifo, against openChildFifo) and PipeAndFifo                *)
(* (createAndOpenFifo against openAndMatchFifo).  open() blocks until the     *)
(* other end is opened too, so the order of the calls matters.               *)
(***************************************************************************)
EXTENDS Naturals, Sequences

VARIABLES
  scheme,  \* which pair of functions the processes call
  exists,  \* the paths that exist
  step,    \* how many opens a process has done; 3 when it gave up
  waiting, \* processes blocked in open()
  fd       \* fd[p][0] and fd[p][1] as <<path, mode>>

fifoVars == <<scheme, exists, step, waiting, fd>>

Procs == {"father", "child"}
R(path) == <<path, "read">>
W(path) == <<path, "write">>

(* The opens of a process in order, each with the index of fd it is for. *)
createAndOpen == << <<0, R(1)>>, <<1, W(2)>> >>
openFatherFifo == << <<0, R(1)>>, <<1, W(2)>> >>
openChildFifoReversed == << <<0, R(2)>>, <<1, W(1)>> >>
openChildFifo == << <<1, W(1)>>, <<0, R(2)>> >>
createAndOpenFifo == << <<0, R(1)>>, <<1, W(2)>> >>
openAndMatchFifo == << <<1, R(1)>>, <<0, W(2)>> >>

Opens(p) ==
  IF p = "father"
  THEN CASE scheme = "createAndOpen" -> createAndOpen
         [] scheme = "createFifo" -> openFatherFifo
         [] scheme = "PipeAndFifo" -> createAndOpenFifo
  ELSE IF scheme = "PipeAndFifo" THEN openAndMatchFifo ELSE openChildFifo

Current(p) == Opens(p)[step[p] + 1]

FifoInit ==
  /\ scheme \in {"createAndOpen", "createFifo", "PipeAndFifo"}
  /\ exists = {} /\ step = [p \in Procs |-> 0] /\ waiting = {}
  /\ fd = [p \in Procs |-> [i \in {0, 1} |-> <<>>]]

(* mkfifo() twice; when the second one fails the first path is removed and the
   function returns. *)
createFifo ==
  /\ exists = {} /\ step["father"] = 0
  /\ \/ exists' = {1, 2} /\ step' = step
     \/ exists' = {} /\ step' = [step EXCEPT !["father"] = 3]
  /\ UNCHANGED <<scheme, waiting, fd>>

(* A process calls open(); without the path it fails and the function returns.
   With createFifo the child is forked after it. *)
open(p) ==
  /\ step[p] < 2 /\ p \notin waiting
  /\ p = "father" \/ scheme = "createFifo" => exists # {}
  /\ IF Current(p)[2][1] \in exists
     THEN waiting' = waiting \cup {p} /\ step' = step
     ELSE step' = [step EXCEPT ![p] = 3] /\ waiting' = waiting
  /\ UNCHANGED <<scheme, exists, fd>>

(* open() returns when the other process has the other end, or waits for it. *)
Opposite(a, b) == a # <<>> /\ a[1] = b[1] /\ a[2] # b[2]
opened(p) ==
  /\ p \in waiting
  /\ \E q \in Procs \ {p} :
       \/ \E i \in {0, 1} : Opposite(fd[q][i], Current(p)[2])
       \/ q \in waiting /\ Opposite(Current(q)[2], Current(p)[2])
  /\ fd' = [fd EXCEPT ![p][Current(p)[1]] = Current(p)[2]]
  /\ step' = [step EXCEPT ![p] = @ + 1] /\ waiting' = waiting \ {p}
  /\ UNCHANGED <<scheme, exists>>

(* The descriptors are closed and the paths removed. *)
closeAndUnlink(p) ==
  /\ step[p] = 2 /\ \A q \in Procs : step[q] >= 2
  /\ exists' = {} /\ step' = [step EXCEPT ![p] = 3]
  /\ fd' = [fd EXCEPT ![p] = [i \in {0, 1} |-> <<>>]]
  /\ UNCHANGED <<scheme, waiting>>

FifoNext ==
  \/ createFifo
  \/ \E p \in Procs : open(p) \/ opened(p) \/ closeAndUnlink(p)

-----------------------------------------------------------------------------
(* Both functions of a pair come to an end with each process reading what the
   other writes, when the child begins after the FIFOs were made: neither
   waits for an end that the other will open only later. *)
BothStarted == exists # {} /\ \A p \in Procs : step[p] # 3
Paired == \A p \in Procs : \E q \in Procs \ {p} :
            fd[p][0] # <<>> /\ fd[q][1] # <<>> /\ Opposite(fd[p][0], fd[q][1])
FifoIpcOpens == (scheme # "PipeAndFifo" /\ BothStarted) ~> Paired

(* The same of PipeAndFifo, whose header offers its two functions for two
   processes: createAndOpenFifo for the one, openAndMatchFifo for the other. *)
PipeAndFifoOpens == (scheme = "PipeAndFifo" /\ BothStarted) ~> Paired

=============================================================================
