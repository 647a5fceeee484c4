------------------------------ MODULE MCThreads ------------------------------
(***************************************************************************)
(* The thread utilities and the resolver, one at a time: part says whether    *)
(* the process uses the semaphore, a pool of event loops or Dns.             *)
(***************************************************************************)
EXTENDS Semaphore, ELThreadpool, Dns

VARIABLE part

allVars == <<part, vars, poolVars, dnsVars>>

SemaphoreOnly(A) == part = "semaphore" /\ A /\ UNCHANGED <<part, poolVars, dnsVars>>
PoolOnly(A) == part = "pool" /\ A /\ UNCHANGED <<part, vars, dnsVars>>
DnsOnly(A) == part = "dns" /\ A /\ UNCHANGED <<part, vars, poolVars>>

MCInit ==
  /\ part \in {"semaphore", "pool", "dns"} /\ Init /\ PoolInit /\ DnsInit
  /\ part # "pool" => variant = "EL" /\ processors = Processors
  /\ part # "semaphore" => resources_ = 0

MCNext == SemaphoreOnly(Next) \/ PoolOnly(PoolNext) \/ DnsOnly(DnsNext)

(* Threads that may take the mutex get it; the thread that called quit() and
   the threads of the loops run. *)
MCSpec ==
  /\ MCInit /\ [][MCNext]_allVars
  /\ \A t \in Takers : WF_allVars(SemaphoreOnly(TakerStep(t)))
  /\ WF_allVars(PoolOnly(QuitStep)) /\ WF_allVars(PoolOnly(ThreadStep))

MCNames == {<<3, 5, 3>>, <<65, 3>>}
MCAnswers == {<<>>, <<"CNAME", "A">>, <<"A", "A">>}
=============================================================================
