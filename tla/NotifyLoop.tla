------------------------------ MODULE NotifyLoop ------------------------------
(***************************************************************************)
(* How the parent and a worker wake each other: the two event loops        *)
(* (net_loop, src/async/net.c) around the two queues of a worker and the   *)
(* pipe beside each queue.  The writer of a queue first publishes the      *)
(* block and then writes a byte to the pipe; the reader sleeps in          *)
(* epoll_wait on the read end.  The parent sleeps without a time limit     *)
(* (net_loop(-1, ...), main.c:309), the worker for net_loop_interval.      *)
(*                                                                         *)
(* Both loops run the same function but not in the same order: the parent  *)
(* empties its queue before it handles the events, the worker after.       *)
(*                                                                         *)
(* Requests stand for packages of clients, one reply is sent to each.  The *)
(* queues are the channels BlockFifo specifies.                            *)
(***************************************************************************)
EXTENDS Naturals, Sequences

CONSTANTS Request,  \* the packages clients will send
          CAP,      \* blocks a queue holds
          PIPECAP   \* bytes a pipe holds

ASSUME LoopAssumption == CAP \in Nat \ {0} /\ PIPECAP \in Nat \ {0}

VARIABLES arrived,      \* packages in the parent's sockets, not yet read
          served,       \* packages clients have sent so far
          recvq, sendq, \* published blocks of the two queues
          rpipe, spipe, \* bytes in their pipes
          ppc, pevs,    \* parent: place in net_loop, events still to handle
          cpc, cevs,    \* worker: the same
          back,         \* worker: where shmq_push returns to
          open,         \* worker: requests it has not replied to
          written       \* replies the parent has passed on to the clients

parentVars == <<ppc, pevs>>
workerVars == <<cpc, cevs, back, open>>
vars == <<arrived, served, recvq, sendq, rpipe, spipe, parentVars, workerVars,
          written>>

Pipe == "pipe"      \* the readable end of the pipe, among the events

Init ==
    /\ arrived = {} /\ served = {}
    /\ recvq = <<>> /\ sendq = <<>> /\ rpipe = 0 /\ spipe = 0
    /\ ppc = "wait" /\ pevs = {}
    /\ cpc = "wait" /\ cevs = {} /\ back = "wait" /\ open = {}
    /\ written = {}

AddByte(bytes) == bytes + 1     \* mutated form: a pipe without a limit
WriteByte(bytes) == IF bytes < PIPECAP THEN bytes + 1 ELSE bytes
Elements(q) == {q[i] : i \in DOMAIN q}

\* A client sends its package.
Send(r) ==
    /\ r \notin served
    /\ served' = served \cup {r}
    /\ arrived' = arrived \cup {r}
    /\ UNCHANGED <<recvq, sendq, rpipe, spipe, parentVars, workerVars, written>>

------------------------------------------------------------------------------
(* The parent: net_loop(-1, page_size, 1) *)

\* Mutated form: the pipe was not added to the parent's epoll set.
SocketsReady == arrived

ParentReady == arrived \cup (IF spipe > 0 THEN {Pipe} ELSE {})

\* epoll_wait returns only when there is something to return.
ParentWait ==
    /\ ppc = "wait"
    /\ ParentReady # {}
    /\ pevs' = ParentReady
    /\ ppc' = "pop"
    /\ UNCHANGED <<arrived, served, recvq, sendq, rpipe, spipe, workerVars, written>>

\* handle_send_queue: shmq_pop until it fails, each block to its client.
ParentPop ==
    /\ ppc = "pop"
    /\ IF sendq # <<>>
       THEN /\ written' = written \cup {Head(sendq)}
            /\ sendq' = Tail(sendq)
            /\ UNCHANGED ppc
       ELSE /\ ppc' = "events"
            /\ UNCHANGED <<written, sendq>>
    /\ UNCHANGED <<arrived, served, recvq, rpipe, spipe, pevs, workerVars>>

\* handle_pipe_event: the pipe is read empty.
ParentDrain ==
    /\ ppc = "events" /\ Pipe \in pevs
    /\ spipe' = 0
    /\ pevs' = pevs \ {Pipe}
    /\ UNCHANGED <<arrived, served, recvq, sendq, rpipe, ppc, workerVars, written>>

\* net_recv of one package: published, or refused and dropped with its
\* connection.
ParentRecv(r) ==
    /\ ppc = "events" /\ r \in pevs
    /\ arrived' = arrived \ {r}
    /\ pevs' = pevs \ {r}
    /\ IF Len(recvq) < CAP
       THEN recvq' = Append(recvq, r) /\ ppc' = "notify"
       ELSE UNCHANGED <<recvq, ppc>>
    /\ UNCHANGED <<served, sendq, rpipe, spipe, workerVars, written>>

\* The second half of shmq_push.
ParentNotify ==
    /\ ppc = "notify"
    /\ rpipe' = WriteByte(rpipe)
    /\ ppc' = "events"
    /\ UNCHANGED <<arrived, served, recvq, sendq, spipe, pevs, workerVars, written>>

ParentDone ==
    /\ ppc = "events" /\ pevs = {}
    /\ ppc' = "wait"
    /\ UNCHANGED <<arrived, served, recvq, sendq, rpipe, spipe, pevs, workerVars,
                   written>>

------------------------------------------------------------------------------
(* The worker: net_loop(net_loop_interval, page_size, 0) *)

\* epoll_wait also returns when the interval is over.
WorkerWait ==
    /\ cpc = "wait"
    /\ cevs' = IF rpipe > 0 THEN {Pipe} ELSE {}
    /\ cpc' = "events"
    /\ UNCHANGED <<arrived, served, recvq, sendq, rpipe, spipe, parentVars, back,
                   open, written>>

\* The events of the round: the pipe is read empty.
WorkerDrain ==
    /\ cpc = "events"
    /\ rpipe' = IF Pipe \in cevs THEN 0 ELSE rpipe
    /\ cevs' = {}
    /\ cpc' = "timers"
    /\ UNCHANGED <<arrived, served, recvq, sendq, spipe, parentVars, back, open,
                   written>>

\* proc_events returns.
WorkerTimers ==
    /\ cpc = "timers"
    /\ cpc' = "pop"
    /\ UNCHANGED <<arrived, served, recvq, sendq, rpipe, spipe, parentVars, cevs,
                   back, open, written>>

\* Mutated form: the block is read, but tail does not pass it.
WorkerPeek ==
    /\ cpc = "pop"
    /\ IF recvq # <<>>
       THEN open' = open \cup {Head(recvq)} /\ cpc' = "process"
       ELSE cpc' = "wait" /\ UNCHANGED open
    /\ UNCHANGED <<arrived, served, recvq, sendq, rpipe, spipe, parentVars, cevs,
                   back, written>>

\* handle_recv_queue: the next block goes to the plugin, until there is none.
WorkerPop ==
    /\ cpc = "pop"
    /\ IF recvq # <<>>
       THEN /\ open' = open \cup {Head(recvq)}
            /\ recvq' = Tail(recvq)
            /\ cpc' = "process"
       ELSE /\ cpc' = "wait"
            /\ UNCHANGED <<open, recvq>>
    /\ UNCHANGED <<arrived, served, sendq, rpipe, spipe, parentVars, cevs, back,
                   written>>

\* Mutated form: one block a round.
WorkerProcessedOne ==
    /\ cpc = "process"
    /\ cpc' = "wait"
    /\ UNCHANGED <<arrived, served, recvq, sendq, rpipe, spipe, parentVars, cevs,
                   back, open, written>>

\* proc_pkg_from_client returns.
WorkerProcessed ==
    /\ cpc = "process"
    /\ cpc' = "pop"
    /\ UNCHANGED <<arrived, served, recvq, sendq, rpipe, spipe, parentVars, cevs,
                   back, open, written>>

\* The plugin replies to a request, at once or later, from any callback
\* (proc_pkg_from_serv, proc_events, proc_pkg_from_client);
\* send_pkg_to_client returns 0.
WorkerReply(r) ==
    /\ cpc \in {"events", "timers", "process"} /\ r \in open
    /\ Len(sendq) < CAP
    /\ sendq' = Append(sendq, r)
    /\ open' = open \ {r}
    /\ back' = cpc /\ cpc' = "notify"
    /\ UNCHANGED <<arrived, served, recvq, rpipe, spipe, parentVars, cevs, written>>

WorkerNotify ==
    /\ cpc = "notify"
    /\ spipe' = WriteByte(spipe)
    /\ cpc' = back /\ back' = "wait"
    /\ UNCHANGED <<arrived, served, recvq, sendq, rpipe, parentVars, cevs, open,
                   written>>

------------------------------------------------------------------------------
Parent ==
    \/ ParentWait \/ ParentPop \/ ParentDrain \/ ParentNotify \/ ParentDone
    \/ \E r \in Request : ParentRecv(r)

\* What the worker's loop does, whatever the plugin decides.
WorkerLoop ==
    \/ WorkerWait \/ WorkerDrain \/ WorkerTimers \/ WorkerPop
    \/ WorkerProcessed \/ WorkerNotify

Next ==
    \/ \E r \in Request : Send(r)
    \/ Parent
    \/ WorkerLoop
    \/ \E r \in Request : WorkerReply(r)

\* Both processes are scheduled and callbacks return.  No client has to send
\* anything and the plugin has to reply to nothing.
Fairness == WF_vars(Parent) /\ WF_vars(WorkerLoop)

Spec == Init /\ [][Next]_vars
FairSpec == Spec /\ Fairness

------------------------------------------------------------------------------
(* Properties *)

TypeOK ==
    /\ arrived \subseteq Request /\ served \subseteq Request
    /\ recvq \in Seq(Request) /\ Len(recvq) <= CAP
    /\ sendq \in Seq(Request) /\ Len(sendq) <= CAP
    /\ rpipe \in 0..PIPECAP /\ spipe \in 0..PIPECAP
    /\ ppc \in {"wait", "pop", "events", "notify"}
    /\ pevs \subseteq Request \cup {Pipe}
    /\ cpc \in {"wait", "events", "timers", "pop", "process", "notify"}
    /\ cevs \subseteq {Pipe}
    /\ back \in {"wait", "events", "timers", "process"}
    /\ open \subseteq Request /\ written \subseteq Request

\* The worker never goes to sleep on a block it would not be woken for: its
\* queue is empty, or a byte is in the pipe, or the parent is about to write
\* one.  (It pops after draining the pipe; the time limit is not needed.)
WorkerWoken == cpc = "wait" /\ recvq # <<>> => rpipe > 0 \/ ppc = "notify"

\* A package the parent has pushed reaches proc_pkg_from_client.
RequestHandled == \A r \in Request :
    r \in Elements(recvq) ~> r \notin Elements(recvq)

\* A reply can only be left behind by a parent asleep in epoll_wait, with an
\* empty pipe and no client sending: any later event delivers it.
LeftOnlyAsleep == \A r \in Request :
    r \in Elements(sendq) ~>
        r \in written \/ (ppc = "wait" /\ spipe = 0 /\ arrived = {})

\* A reply send_pkg_to_client took reaches the client's connection
\* (net_if.h:168-174, "Send a package to a client ... 0 on success").
ReplyDelivered == \A r \in Request : r \in Elements(sendq) ~> r \in written
==============================================================================
