------------------------------ MODULE WorkerEnd ------------------------------
(***************************************************************************)
(* How a worker ends (service.c: handle_init, handle_fini and the loop of  *)
(* run_worker_process): a worker told to stop goes on with net_loop until  *)
(* the connections its plugin opened have no output left, and until        *)
(* fini_service has nothing left to do.                                    *)
(*                                                                         *)
(* NetLoop has the connections in full; here a connection is its place in  *)
(* the table and whether output waits.  fini_service may send while it     *)
(* still asks for time, not when it says it has finished.                  *)
(***************************************************************************)
EXTENDS Integers, FiniteSets

CONSTANTS EndFds  \* the places of the fd table

ASSUME EndAssumption == EndFds \subseteq Nat /\ 0 \notin EndFds

VARIABLES phase,\* "init", "loop", "gone", "failed"
          ending,
          kind,    \* of each fd: "unused", "pipe", "remote"
          unsent,  \* fds whose cb.sendlen is not 0
          maxfd,
          fini     \* what fini_service has said: "none", "again", "done"

endvars == <<phase, ending, kind, unsent, maxfd, fini>>

Highest(fds) == IF fds = {} THEN 0 ELSE CHOOSE f \in fds : \A g \in fds : g <= f

InUse(k) == {f \in EndFds : k[f] # "unused"}

EndInit ==
    /\ phase = "init" /\ ending = FALSE /\ kind = [f \in EndFds |-> "unused"]
    /\ unsent = {} /\ maxfd = 0 /\ fini = "none"

\* The worker's pipe is there, handle_init has created its sockets, or has not.
HandleInit(f) ==
    /\ phase = "init"
    /\ \/ phase' = "loop" \/ phase' = "failed"
    /\ kind' = [kind EXCEPT ![f] = "pipe"] /\ maxfd' = f
    /\ UNCHANGED <<ending, unsent, fini>>

\* sigterm_handler, at any time
Sigterm == ending' = TRUE /\ UNCHANGED <<phase, kind, unsent, maxfd, fini>>

-----------------------------------------------------------------------------
(* What net_loop does to the table.                                        *)

AddConn(f) ==
    /\ phase = "loop" /\ kind[f] = "unused"
    /\ kind' = [kind EXCEPT ![f] = "remote"]
    /\ maxfd' = IF f > maxfd THEN f ELSE maxfd
    /\ UNCHANGED <<phase, ending, unsent, fini>>

\* a bug: the number of connections, not the highest
MaxAfterCount(f, k) == Cardinality(InUse(k))

MaxAfter(f, k) == IF maxfd = f THEN Highest(InUse(k)) ELSE maxfd

DelConn(f) ==
    /\ phase = "loop" /\ kind[f] = "remote"
    /\ kind' = [kind EXCEPT ![f] = "unused"]
    /\ unsent' = unsent \ {f} /\ maxfd' = MaxAfter(f, kind')
    /\ UNCHANGED <<phase, ending, fini>>

\* net_send: output that the socket does not take is kept
SendRest(f) ==
    /\ kind[f] = "remote" /\ unsent' = unsent \cup {f}

NetSend(f) ==
    /\ phase = "loop" /\ SendRest(f)
    /\ UNCHANGED <<phase, ending, kind, maxfd, fini>>

\* do_write_conn: the peer reads
Written(f) ==
    /\ phase = "loop" /\ f \in unsent /\ unsent' = unsent \ {f}
    /\ UNCHANGED <<phase, ending, kind, maxfd, fini>>

-----------------------------------------------------------------------------
(* while ( !stop || !handle_fini() )                                       *)

Seen == 0..maxfd

Waits == \E f \in Seen : f \in unsent

\* fini_service asks for time, having sent something or not
FiniAgain ==
    /\ phase = "loop" /\ ending /\ ~Waits
    /\ fini' = "again"
    /\ \/ UNCHANGED unsent
       \/ \E f \in EndFds : SendRest(f)
    /\ UNCHANGED <<phase, ending, kind, maxfd>>

\* there is no fini_service, or it has finished
FiniDone ==
    /\ phase = "loop" /\ ending /\ ~Waits
    /\ fini' = "done" /\ phase' = "gone"
    /\ UNCHANGED <<ending, kind, unsent, maxfd>>

EndNext ==
    \/ Sigterm \/ FiniAgain \/ FiniDone
    \/ \E f \in EndFds : HandleInit(f) \/ AddConn(f) \/ DelConn(f) \/ NetSend(f) \/ Written(f)

EndSpec == EndInit /\ [][EndNext]_endvars
-----------------------------------------------------------------------------
\* A worker that ends has sent all its plugin gave net_send on connections that
\* are still open, whatever was opened, closed or sent meanwhile, in net_loop or
\* by fini_service; one that could not be initialised ends at once
\* (service.c:72-88, 215-226; net.c:196-206, 234-240).
NothingUnsent == phase = "gone" => unsent = {} /\ fini = "done" /\ ending
=============================================================================
