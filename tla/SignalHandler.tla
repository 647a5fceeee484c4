--------------------------- MODULE SignalHandler ---------------------------
(***************************************************************************)
(* SignalHandler: signals read through a signalfd, edge triggered, one for   *)
(* each event; blockAllSignals and unBlockAllSignals.  The default action of *)
(* a signal ends the process.  A standard signal that is pending already is   *)
(* not queued again; a real-time signal is.                                  *)
(***************************************************************************)
EXTENDS Naturals

CONSTANTS Signals,     \* signals that blockAllSignals blocks
          Registered,  \* the ones of them given to registSignalfd
          RealTime,    \* the ones of them from SIGRTMIN to SIGRTMAX
          MaxQueued,   \* bound: instances of a real-time signal queued
          Never        \* SIGINT or SIGTERM, which it leaves alone

ASSUME NeverAssumption == Never \cap Signals = {} /\ Registered \subseteq Signals

VARIABLES
  blocked,        \* signal mask of the process
  pending,        \* instances pending of each signal
  handlers,       \* signals that handleSignalEnd is installed for
  blockSignals_,  \* signals found pending by unBlockAllSignals
  unblocking,     \* unBlockAllSignals is between its loop and sigprocmask
  seen,           \* history: the signals that loop found pending
  sfd,            \* the signalfd is enrolled
  sigEdge,        \* epoll: the signalfd is on the ready list
  sigEvent,       \* epoll_wait returned it, handleRead has not run
  handled,        \* signals handleFunc_ was called for
  blockedRead,    \* handleRead waits in read(), and the loop with it
  killer          \* signals whose default action ended the process

sigVars == <<blocked, pending, handlers, blockSignals_, unblocking, seen, sfd, sigEdge, sigEvent,
             handled, blockedRead, killer>>
loopVars == <<sfd, sigEdge, sigEvent, handled, blockedRead>>

Running == killer = {} /\ ~blockedRead
Pending == {s \in Signals : pending[s] > 0}

SignalInit ==
  /\ blocked = {} /\ pending = [s \in Signals |-> 0] /\ handlers = {} /\ blockSignals_ = {} /\ unblocking = FALSE /\ seen = {}
  /\ sfd = FALSE /\ sigEdge = FALSE /\ sigEvent = FALSE /\ handled = {} /\ blockedRead = FALSE
  /\ killer = {}

(* A signal comes: it becomes pending, or is delivered. *)
Raise(s) ==
  /\ killer = {}
  /\ IF s \in blocked
     THEN /\ s \in RealTime => pending[s] < MaxQueued
          /\ pending' = [pending EXCEPT ![s] = IF s \in RealTime THEN @ + 1 ELSE 1]
          /\ sigEdge' = (sigEdge \/ (sfd /\ s \in Registered))
          /\ UNCHANGED <<handlers, killer>>
     ELSE /\ killer' = {s} \ handlers /\ handlers' = handlers \ {s}
          /\ UNCHANGED <<pending, sigEdge>>
  /\ UNCHANGED <<blocked, blockSignals_, unblocking, seen, sfd, sigEvent, handled, blockedRead>>

registSignalfd ==
  /\ Running /\ ~unblocking /\ ~sfd
  /\ sfd' = TRUE /\ blocked' = blocked \cup Registered
  /\ sigEdge' = (Pending \cap Registered # {})
  /\ UNCHANGED <<pending, handlers, blockSignals_, unblocking, seen, sigEvent, handled, blockedRead, killer>>

(* remove() erases the channel; the signals stay blocked. *)
remove ==
  /\ Running /\ ~unblocking /\ sfd
  /\ sfd' = FALSE /\ sigEdge' = FALSE /\ sigEvent' = FALSE
  /\ UNCHANGED <<blocked, pending, handlers, blockSignals_, unblocking, seen, handled, blockedRead, killer>>

blockAllSignals ==
  /\ Running /\ ~unblocking
  /\ blocked' = blocked \cup Signals
  /\ UNCHANGED <<pending, handlers, blockSignals_, unblocking, seen, loopVars, killer>>

(* A bug: the mask is emptied before the handlers are there. *)
unBlockAllSignalsLate ==
  /\ Running /\ ~unblocking /\ unblocking' = TRUE
  /\ blockSignals_' = blockSignals_ \cup Pending /\ seen' = Pending
  /\ handlers' = handlers
  /\ UNCHANGED <<blocked, pending, loopVars, killer>>

(* unBlockAllSignals: pending signals get a handler that does nothing but put
   the default back; then the mask is emptied. *)
unBlockAllSignals ==
  /\ Running /\ ~unblocking /\ unblocking' = TRUE
  /\ blockSignals_' = blockSignals_ \cup Pending /\ seen' = Pending
  /\ handlers' = handlers \cup Pending
  /\ UNCHANGED <<blocked, pending, loopVars, killer>>

(* Every pending instance is delivered: the first of a signal that has the
   handler calls it, a second one meets the default. *)
handleSignalEnd ==
  /\ Running /\ unblocking /\ unblocking' = FALSE
  /\ blocked' = {} /\ pending' = [s \in Signals |-> 0]
  /\ killer' = {s \in Pending : s \notin handlers \/ pending[s] > 1}
  /\ handlers' = handlers \ Pending
  /\ UNCHANGED <<blockSignals_, seen, loopVars>>

SigEpollWait ==
  /\ Running /\ ~unblocking /\ sigEdge /\ ~sigEvent
  /\ sigEdge' = FALSE /\ sigEvent' = (Pending \cap Registered # {})
  /\ UNCHANGED <<blocked, pending, handlers, blockSignals_, unblocking, seen, sfd, handled, blockedRead, killer>>

(* One signal is read.  The signalfd blocks: if there is none any more, the
   loop waits for the next. *)
handleRead ==
  /\ killer = {} /\ ~unblocking /\ sigEvent
  /\ IF Pending \cap Registered = {}
     THEN blockedRead' = TRUE /\ UNCHANGED <<pending, handled, sigEvent>>
     ELSE /\ \E s \in Pending \cap Registered :
               /\ pending' = [pending EXCEPT ![s] = @ - 1]
               /\ handled' = handled \cup {s}
          /\ sigEvent' = FALSE /\ blockedRead' = FALSE
  /\ UNCHANGED <<blocked, handlers, blockSignals_, unblocking, seen, sfd, sigEdge, killer>>

SignalNext ==
  \/ \E s \in Signals \cup Never : Raise(s)
  \/ registSignalfd \/ remove \/ blockAllSignals \/ unBlockAllSignals \/ handleSignalEnd
  \/ SigEpollWait \/ handleRead

SignalSpec == SignalInit /\ [][SignalNext]_sigVars

-----------------------------------------------------------------------------
(* A signal that was pending when unBlockAllSignals looked is ignored once, as
   handleSignalEnd says: emptying the mask ends the process by it only if more
   than one instance of it is queued, which is possible for a real-time signal
   alone; another instance of a standard signal that comes before the mask is
   emptied does no harm.  One that comes unblocked, or that was first pending
   after the look, ends the process. *)
PendingNotFatal ==
  [][unblocking /\ ~unblocking' =>
       \A s \in killer' \cap seen : s \in RealTime /\ pending[s] > 1]_sigVars

=============================================================================
