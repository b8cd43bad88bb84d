------------------------------ MODULE ConnSession ------------------------------
(***************************************************************************)
(* One client connection seen from its two ends inside AsyncServ: the      *)
(* parent's connection table (epi.fds, src/async/net.c) and the worker's   *)
(* session table (fds.cn, src/async/service.c).  The parent owns the       *)
(* socket and announces it with OPEN, DATA and CLOSE blocks on recvq; the  *)
(* worker answers with DATA and FIN blocks on sendq.  Both tables are      *)
(* indexed by the socket's number, which the kernel gives out again as     *)
(* soon as the parent has closed it; only blocks from the worker are       *)
(* checked against the connection's id.                                    *)
(*                                                                         *)
(* The queues are the channels BlockFifo specifies (shown of the ring in   *)
(* ShmQueue), a push onto a full one is refused.  One action is what a     *)
(* process does up to its next access to a queue.                          *)
(***************************************************************************)
EXTENDS Naturals, Sequences

CONSTANTS Fd,           \* socket numbers the kernel can give out
          MaxId,        \* connections accepted before the model stops
          CAP,          \* blocks a queue holds
          MaxCrash,     \* crashes of the worker before the model stops
          RestartLimit  \* g_child_restart_cnt_limit

ASSUME ConnAssumption ==
    /\ MaxId \in Nat /\ CAP \in Nat \ {0}
    /\ MaxCrash \in Nat /\ RestartLimit \in Nat

VARIABLES conn,     \* parent: id of the connection on each fd, None if unused
          fin,      \* parent: the close queue (fds flagged CN_NEED_CLOSE)
          seq,      \* parent: ids given out, do_add_conn's static counter
          ppc,      \* parent: the part of net_loop it is in
          victim,   \* parent: the fd whose package could not be pushed
          restarts, \* parent: restart_cnt of the worker's bind_config_elem
          recvq, sendq,
          alive,    \* the worker process exists
          sess,     \* worker: id of the session on each fd, None if none
          cpc,      \* worker: between blocks, or in proc_pkg_from_client
          serving,  \* worker: the DATA block being processed
          lost,     \* history: CLOSE and FIN blocks that were refused
          asked,    \* history: whose packages the plugin got under a session
          wire      \* history: the last reply written, to whom, and to whose request

parentVars == <<conn, fin, seq, ppc, victim, restarts>>
workerVars == <<alive, sess, cpc, serving, asked>>
vars == <<parentVars, recvq, sendq, workerVars, lost, wire>>

None == 0
Id == 1..MaxId
Block(t, f, i) == [type |-> t, fd |-> f, id |-> i]
BlockOf(types) == [type : types, fd : Fd, id : Id]

\* A reply is addressed by the session; what the plugin answers by it, only the
\* plugin knows.
Answer(f, i, o) == [type |-> "DATA", fd |-> f, id |-> i, asker |-> o]
AnswerBlock == [type : {"DATA"}, fd : Fd, id : Id, asker : Id]
NoBlock == <<>>

Init ==
    /\ conn = [f \in Fd |-> None] /\ fin = {} /\ seq = 0
    /\ ppc = "close" /\ victim = {} /\ restarts = 0
    /\ recvq = <<>> /\ sendq = <<>>
    /\ alive = TRUE
    /\ sess = [f \in Fd |-> None] /\ cpc = "idle" /\ serving = NoBlock
    /\ lost = {} /\ asked = [f \in Fd |-> {}] /\ wire = NoBlock

RefusedLate(q) == Len(q) > CAP      \* mutated form
Refused(q) == Len(q) >= CAP
Push(q, b) == IF Refused(q) THEN q ELSE Append(q, b)

------------------------------------------------------------------------------
(* The parent: one round of net_loop is the close queue, sendq, the events. *)

\* Mutated form: the connection stays on the close queue.
ForgetSlot(f) == conn' = [conn EXCEPT ![f] = None] /\ UNCHANGED fin

\* do_del_conn: the slot, the buffers and the place in the close queue go.
Forget(f) == conn' = [conn EXCEPT ![f] = None] /\ fin' = fin \ {f}

\* Mutated form: do_del_conn(fd, 2).
TellNobody(f) == UNCHANGED <<recvq, lost>>

\* do_del_conn(fd, 1) tells the worker, and does not look whether it could.
TellClosed(f) ==
    /\ recvq' = Push(recvq, Block("CLOSE", f, conn[f]))
    /\ lost' = IF Refused(recvq) THEN lost \cup {<<"CLOSE", conn[f]>>} ELSE lost

\* iterate_close_queue: what the worker asked for is done without telling it.
CloseFlagged ==
    /\ ppc = "close"
    /\ conn' = [f \in Fd |-> IF f \in fin THEN None ELSE conn[f]]
    /\ fin' = {}
    /\ ppc' = "send"
    /\ UNCHANGED <<seq, victim, restarts, recvq, sendq, workerVars, lost, wire>>

\* schedule_output discards a block for a connection that is not this one.
OnOpenFd(b) == conn[b.fd] # None    \* mutated form: any connection on the fd
Current(b) == conn[b.fd] # None /\ b.id = conn[b.fd]

\* handle_send_queue, one block: discarded ...
OutputDiscard ==
    /\ ppc = "send"
    /\ sendq # <<>> /\ ~Current(Head(sendq))
    /\ sendq' = Tail(sendq)
    /\ UNCHANGED <<parentVars, recvq, workerVars, lost, wire>>

\* ... a FIN, which puts the connection on the close queue ...
OutputFin ==
    /\ ppc = "send"
    /\ sendq # <<>> /\ Current(Head(sendq)) /\ Head(sendq).type = "FIN"
    /\ fin' = fin \cup {Head(sendq).fd}
    /\ sendq' = Tail(sendq)
    /\ UNCHANGED <<conn, seq, ppc, victim, restarts, recvq, workerVars, lost, wire>>

\* ... or a reply, which is written; when that fails (reset by the peer, send
\* buffer over its limit) net_send deletes the connection.
OutputData ==
    /\ ppc = "send"
    /\ sendq # <<>> /\ Current(Head(sendq)) /\ Head(sendq).type = "DATA"
    /\ sendq' = Tail(sendq)
    /\ LET b == Head(sendq) IN
       \/ /\ wire' = [to |-> conn[b.fd], asker |-> b.asker]
          /\ UNCHANGED <<conn, fin, recvq, lost>>
       \/ /\ TellClosed(b.fd)
          /\ Forget(b.fd)
          /\ UNCHANGED wire
    /\ UNCHANGED <<seq, ppc, victim, restarts, workerVars>>

OutputDone ==
    /\ ppc = "send"
    /\ sendq = <<>>
    /\ ppc' = "events"
    /\ UNCHANGED <<conn, fin, seq, victim, restarts, recvq, sendq, workerVars,
                   lost, wire>>

\* do_open_conn: the connection of a client gets a free fd and the next id;
\* when the worker cannot be told of it, it is closed again at once.
Accept(f) ==
    /\ ppc = "events"
    /\ conn[f] = None /\ seq < MaxId
    /\ seq' = seq + 1
    /\ recvq' = Push(recvq, Block("OPEN", f, seq'))
    /\ conn' = [conn EXCEPT ![f] = IF Refused(recvq) THEN None ELSE seq']
    /\ UNCHANGED <<fin, ppc, victim, restarts, sendq, workerVars, lost, wire>>

\* net_recv, one complete package; a refused one ends the connection.
Receive(f) ==
    /\ ppc = "events"
    /\ conn[f] # None
    /\ recvq' = Push(recvq, Block("DATA", f, conn[f]))
    /\ IF Refused(recvq)
       THEN ppc' = "delete" /\ victim' = {f}
       ELSE UNCHANGED <<ppc, victim>>
    /\ UNCHANGED <<conn, fin, seq, restarts, sendq, workerVars, lost, wire>>

DeleteVictim(f) ==
    /\ ppc = "delete" /\ f \in victim
    /\ TellClosed(f)
    /\ Forget(f)
    /\ ppc' = "events" /\ victim' = {}
    /\ UNCHANGED <<seq, restarts, sendq, workerVars, wire>>

\* The client closed, the connection broke, or it was silent for longer
\* than socket_timeout: the parent deletes it and tells the worker.
PeerGone(f) ==
    /\ ppc = "events"
    /\ conn[f] # None
    /\ TellClosed(f)
    /\ Forget(f)
    /\ UNCHANGED <<seq, ppc, victim, restarts, sendq, workerVars, wire>>

\* handle_pipe_event on the hang-up of the worker's pipe: every connection
\* goes, and the CLOSE blocks with them into the queue nobody reads now ...
WorkerHup ==
    /\ ppc = "events"
    /\ ~alive /\ restarts <= RestartLimit
    /\ ppc' = "hup"
    /\ UNCHANGED <<conn, fin, seq, victim, restarts, recvq, sendq, workerVars,
                   lost, wire>>

HupDelete(f) ==
    /\ ppc = "hup"
    /\ conn[f] # None
    /\ TellClosed(f)
    /\ Forget(f)
    /\ UNCHANGED <<seq, ppc, victim, restarts, sendq, workerVars, wire>>

\* ... and restart_child_process starts a new worker with two new queues, as
\* long as the limit allows; after that the parent goes on without a worker.
HupRestart ==
    /\ ppc = "hup"
    /\ \A f \in Fd : conn[f] = None
    /\ restarts' = restarts + 1
    /\ IF restarts < RestartLimit
       THEN recvq' = <<>> /\ sendq' = <<>> /\ alive' = TRUE
       ELSE UNCHANGED <<recvq, sendq, alive>>
    /\ ppc' = "events"
    /\ UNCHANGED <<conn, fin, seq, victim, sess, cpc, serving, asked, lost, wire>>

EventsDone ==
    /\ ppc = "events"
    /\ ppc' = "close"
    /\ UNCHANGED <<conn, fin, seq, victim, restarts, recvq, sendq, workerVars,
                   lost, wire>>

------------------------------------------------------------------------------
(* The worker: handle_recv_queue takes the blocks one by one. *)

WorkerTakes(type) ==
    /\ alive /\ cpc = "idle"
    /\ recvq # <<>> /\ Head(recvq).type = type
    /\ recvq' = Tail(recvq)

\* handle_open: a new session, unless the fd has one already; then the parent
\* is asked to close the new connection.
HandleOpen ==
    /\ WorkerTakes("OPEN")
    /\ LET b == Head(recvq) IN
       IF sess[b.fd] = None
       THEN /\ sess' = [sess EXCEPT ![b.fd] = b.id]
            /\ asked' = [asked EXCEPT ![b.fd] = {b.id}]
            /\ UNCHANGED <<sendq, lost>>
       ELSE /\ sendq' = Push(sendq, Block("FIN", b.fd, b.id))
            /\ lost' = IF Refused(sendq) THEN lost \cup {<<"FIN", b.id>>} ELSE lost
            /\ UNCHANGED <<sess, asked>>
    /\ UNCHANGED <<parentVars, alive, cpc, serving, wire>>

\* handle_close, on CLOSE: the plugin is told (on_client_conn_closed) and the
\* session of that fd goes, if there is one.
HandleClose ==
    /\ WorkerTakes("CLOSE")
    /\ sess' = [sess EXCEPT ![Head(recvq).fd] = None]
    /\ asked' = [asked EXCEPT ![Head(recvq).fd] = {}]
    /\ UNCHANGED <<parentVars, sendq, alive, cpc, serving, lost, wire>>

\* handle_process: a package is given to proc_pkg_from_client together with
\* the session found under its fd; without a session it is dropped.
HandleProcess ==
    /\ WorkerTakes("DATA")
    /\ IF sess[Head(recvq).fd] = None
       THEN UNCHANGED <<cpc, serving, asked>>
       ELSE /\ cpc' = "process" /\ serving' = Head(recvq)
            /\ asked' = [asked EXCEPT ![serving'.fd] = @ \cup {serving'.id}]
    /\ UNCHANGED <<parentVars, sendq, alive, sess, lost, wire>>

\* proc_pkg_from_client returns zero.
ProcessKeeps ==
    /\ alive /\ cpc = "process"
    /\ cpc' = "idle" /\ serving' = NoBlock
    /\ UNCHANGED <<parentVars, recvq, sendq, alive, sess, asked, lost, wire>>

\* close_client_conn: the plugin is told, the session goes, and FIN asks the
\* parent to close the connection; nobody looks whether it could be pushed.
CloseClient(f) ==
    /\ sess[f] # None
    /\ sess' = [sess EXCEPT ![f] = None]
    /\ asked' = [asked EXCEPT ![f] = {}]
    /\ sendq' = Push(sendq, Block("FIN", f, sess[f]))
    /\ lost' = IF Refused(sendq) THEN lost \cup {<<"FIN", sess[f]>>} ELSE lost

\* proc_pkg_from_client returns non-zero; the plugin may have closed the
\* connection itself while it processed the package.
ProcessCloses ==
    /\ alive /\ cpc = "process"
    /\ cpc' = "idle" /\ serving' = NoBlock
    /\ IF sess[serving.fd] # None
       THEN CloseClient(serving.fd)
       ELSE UNCHANGED <<sess, asked, sendq, lost>>
    /\ UNCHANGED <<parentVars, recvq, alive, wire>>

\* The plugin closes a connection of its own accord, from any callback.
PluginCloses(f) ==
    /\ alive
    /\ CloseClient(f)
    /\ UNCHANGED <<parentVars, recvq, alive, cpc, serving, wire>>

\* send_pkg_to_client, from any callback; it fails when sendq is full.  The plugin
\* answers a package it got under the session, or tells that client something.
Reply(f) ==
    /\ alive
    /\ sess[f] # None /\ ~Refused(sendq)
    /\ \E o \in asked[f] : sendq' = Push(sendq, Answer(f, sess[f], o))
    /\ UNCHANGED <<parentVars, recvq, workerVars, lost, wire>>

\* The worker dies at any point, with everything it had in memory.
Crash ==
    /\ alive /\ restarts < MaxCrash
    /\ alive' = FALSE
    /\ sess' = [f \in Fd |-> None] /\ asked' = [f \in Fd |-> {}]
    /\ cpc' = "idle" /\ serving' = NoBlock
    /\ UNCHANGED <<parentVars, recvq, sendq, lost, wire>>

------------------------------------------------------------------------------
Parent ==
    \/ CloseFlagged \/ OutputDiscard \/ OutputFin \/ OutputData \/ OutputDone
    \/ \E f \in Fd : Accept(f) \/ Receive(f) \/ DeleteVictim(f) \/ PeerGone(f)
                     \/ HupDelete(f)
    \/ WorkerHup \/ HupRestart \/ EventsDone

Takes == HandleOpen \/ HandleClose \/ HandleProcess

Worker ==
    \/ Takes \/ ProcessKeeps \/ ProcessCloses
    \/ \E f \in Fd : PluginCloses(f) \/ Reply(f)
    \/ Crash

Next == Parent \/ Worker

Spec == Init /\ [][Next]_vars

\* The worker's loop wakes at least every second (net_loop_interval), handles
\* what is on recvq, and its callbacks return.
FairSpec == Spec /\ WF_vars(Takes) /\ WF_vars(ProcessKeeps \/ ProcessCloses)

------------------------------------------------------------------------------
(* Properties *)

TypeOK ==
    /\ conn \in [Fd -> Id \cup {None}] /\ fin \subseteq Fd /\ seq \in 0..MaxId
    /\ ppc \in {"close", "send", "events", "delete", "hup"}
    /\ victim \subseteq Fd /\ restarts \in 0..RestartLimit+1
    /\ recvq \in Seq(BlockOf({"OPEN", "DATA", "CLOSE"})) /\ Len(recvq) <= CAP
    /\ sendq \in Seq(AnswerBlock \cup BlockOf({"FIN"})) /\ Len(sendq) <= CAP
    /\ alive \in BOOLEAN
    /\ sess \in [Fd -> Id \cup {None}]
    /\ cpc \in {"idle", "process"}
    /\ serving \in {NoBlock} \cup BlockOf({"DATA"})
    /\ lost \subseteq {"CLOSE", "FIN"} \X Id
    /\ asked \in [Fd -> SUBSET Id]
    /\ wire \in {NoBlock} \cup [to : Id, asker : Id]

\* A package is processed under the session of the connection it came from
\* (service.c:127 finds the session by fd alone), unless the CLOSE block of
\* an earlier connection on that fd was refused by a full queue.
ServedOwnSession ==
    LET Own(b) == sess[b.fd] \in {None, b.id} \/ <<"CLOSE", sess[b.fd]>> \in lost
    IN  /\ cpc = "process" => Own(serving)
        /\ alive /\ recvq # <<>> /\ Head(recvq).type = "DATA" => Own(Head(recvq))

\* The same without the exception: what dll.h:42-44 says.
ServedBySender ==
    cpc = "process" => sess[serving.fd] \in {None, serving.id}

\* A client only ever gets answers to its own requests, however often its fd was
\* given out before: also when a refused CLOSE has its packages served under the
\* session of an earlier connection, whose id the answers then bear (net.c:432).
ReplyReachesOwner == wire # NoBlock => wire.to = wire.asker

\* When everything pushed has been handled, both tables hold the same
\* connections, but for those whose CLOSE or FIN block was refused.
Quiescent ==
    /\ alive /\ cpc = "idle" /\ recvq = <<>> /\ sendq = <<>>
    /\ ppc = "events" /\ fin = {}

TablesAgree ==
    Quiescent =>
        \A f \in Fd :
            \/ sess[f] = conn[f]
            \/ <<"CLOSE", sess[f]>> \in lost
            \/ <<"FIN", conn[f]>> \in lost

\* The tables, the queues and what is told of refused blocks are as they should.
TablesKept == TypeOK /\ TablesAgree

\* The worker learns of every connection the parent has closed (the session
\* goes and on_client_conn_closed is called), if its CLOSE was not refused.
Over(f, i) == sess[f] = i /\ conn[f] # i

ClosedIsReported ==
    \A f \in Fd, i \in Id :
        Over(f, i) ~> sess[f] # i \/ <<"CLOSE", i>> \in lost
------------------------------------------------------------------------------
(* The invariant of the proofs.  It follows each session from its OPEN block *)
(* at a place of recvq into the worker's table, which is place 0.            *)

Places == 0..Len(recvq)

Holds(f, j, s) == IF j = 0 THEN sess[f] = s ELSE recvq[j] = Block("OPEN", f, s)

ClosedBetween(f, j, i) ==
    \E c \in DOMAIN recvq : j < c /\ c < i /\ recvq[c].type = "CLOSE" /\ recvq[c].fd = f

ClosedAfter(f, j) == ClosedBetween(f, j, Len(recvq) + 1)

\* What each process relies on between its steps.
ParentInv ==
    /\ \A f \in Fd : conn[f] <= seq
    /\ \A f \in fin : conn[f] # None
    /\ ppc = "delete" => \A f \in victim : conn[f] # None
    /\ ppc = "hup" => ~alive /\ restarts <= RestartLimit

WorkerInv ==
    /\ ~alive => cpc = "idle" /\ \A f \in Fd : sess[f] = None
    /\ cpc = "process" => serving # NoBlock

\* No id is held twice, or before it has been given out.
HeldOnce ==
    /\ \A f \in Fd, j \in Places, s \in Id : Holds(f, j, s) => s <= seq
    /\ \A f, g \in Fd, j, k \in Places, s \in Id :
          Holds(f, j, s) /\ Holds(g, k, s) => f = g /\ j = k

\* A session, unless its CLOSE was refused, ends before a package of another
\* connection with its fd, and goes on only as long as its own connection.
EndsInTime ==
    \A f \in Fd, j \in Places, s \in Id : Holds(f, j, s) =>
        \/ <<"CLOSE", s>> \in lost
        \/ /\ \A i \in DOMAIN recvq :
                 j < i /\ recvq[i].type = "DATA" /\ recvq[i].fd = f /\ recvq[i].id # s
                    => ClosedBetween(f, j, i)
           /\ conn[f] # s => ClosedAfter(f, j)

\* The session of a connection that is still there is not about to be closed.
NotClosed ==
    \A f \in Fd, j \in Places :
        conn[f] # None /\ Holds(f, j, conn[f]) => ~ClosedAfter(f, j)

\* A FIN, on its way or noted, is about a session that is no more.
FinIsTrue ==
    /\ \A n \in DOMAIN sendq : sendq[n].type = "FIN" =>
          sendq[n].id <= seq /\ \A j \in Places : ~Holds(sendq[n].fd, j, sendq[n].id)
    /\ \A f \in fin, j \in Places : ~Holds(f, j, conn[f])

\* A connection has its session, or a FIN is on its way, noted or refused.
FinIsComing ==
    alive => \A f \in Fd : conn[f] # None =>
        \/ \E j \in Places : Holds(f, j, conn[f])
        \/ f \in fin \/ <<"FIN", conn[f]>> \in lost
        \/ \E n \in DOMAIN sendq : sendq[n] = Block("FIN", f, conn[f])

\* A package of another connection is answered only under a session whose CLOSE
\* was refused, and the connection of that session is no more.
Left(i) == <<"CLOSE", i>> \in lost

AnswersInv ==
    /\ \A f \in Fd : \A o \in asked[f] : o = sess[f] \/ Left(sess[f])
    /\ \A n \in DOMAIN sendq : sendq[n].type = "DATA" =>
          sendq[n].asker = sendq[n].id \/ Left(sendq[n].id)
    /\ \A i \in Id : Left(i) => i <= seq /\ \A f \in Fd : conn[f] # i
    /\ \A f, g \in Fd : conn[f] = conn[g] /\ conn[f] # None => f = g

IInv ==
    /\ TypeOK /\ ParentInv /\ WorkerInv /\ HeldOnce /\ EndsInTime /\ NotClosed
    /\ FinIsTrue /\ FinIsComing /\ ServedOwnSession /\ AnswersInv /\ ReplyReachesOwner
==============================================================================
