------------------------------ MODULE MCRdma ------------------------------
(* The data path of one RdmaConnection, and the set-up of several, each alone:
   part says which. *)
EXTENDS RdmaConnection, RdmaAcceptor

VARIABLE part

allVars == <<part, rdmaVars, cmVars>>

Init == part \in {"data", "setup"} /\ RdmaInit /\ CmInit

DataOnly(A) == part = "data" /\ A /\ UNCHANGED <<part, cmVars>>
SetupOnly(A) == part = "setup" /\ A /\ UNCHANGED <<part, rdmaVars>>

Next == DataOnly(RdmaNext) \/ SetupOnly(CmNext)

(* The loop calls the handler of a channel that stays readable, and a handler
   goes on. *)
Spec ==
  /\ Init /\ [][Next]_allVars
  /\ \A q \in Queues : /\ WF_allVars(DataOnly(HandlerStep(q)))
                       /\ WF_allVars(DataOnly(handle(q)))

=============================================================================
