------------------------------- MODULE NetLoop -------------------------------
(***************************************************************************)
(* net_loop with the connections of one process in detail: the buffers of  *)
(* a connection, edge-triggered epoll, the queues of descriptors to read   *)
(* again (etin) and to close, output kept back, asynchronous connects, the *)
(* batch of events epoll_wait returns, and the callbacks of the plugin.    *)
(*                                                                         *)
(* The process is the parent (is_parent, with a listening socket and       *)
(* clients) or a worker (with connections to other servers); both run this *)
(* code.  The kernel and the peers act between any two steps.  Bytes are   *)
(* counted, their contents left out; what get_pkg_len finds in them is a   *)
(* choice.  The pipes between parent and worker are in NotifyLoop and      *)
(* WorkerPipes, ids and sessions in ConnSession.                           *)
(***************************************************************************)
EXTENDS Integers, Sequences, FiniteSets

CONSTANTS MaxFd,       \* connections have the numbers 1..MaxFd
          page_size,   \* bytes of a receive buffer, the max_len of net_loop
          SendLimit,   \* g_send_buf_limit_size
          Room,        \* bytes the kernel takes before send says EAGAIN
          Budget       \* bound, for each role: what arrives, bytes and blocks included

ASSUME SizesAssumption ==
    /\ MaxFd \in Nat \ {0} /\ page_size \in Nat \ {0} /\ SendLimit \in Nat \ {0}
    /\ Room \in Nat \ {0} /\ Budget \in [{"parent", "tame", "wild"} -> Nat]

VARIABLES is_parent, \* the parent, or a worker
          tame,      \* the plugin keeps to its own connection while events are handled
          ep,        \* the fd table, its queues, and the kernel's sockets
          pc,        \* where net_loop is
          it,        \* the element iterate_etin_queue takes next
          evs,       \* events of the batch still to handle
          cur,       \* the event or queue element being handled
          budget,    \* what the environment may still do
          aborted    \* an accept has failed for another reason than a full table

vars == <<is_parent, tame, ep, pc, it, evs, cur, budget, aborted>>

Fd     == 0..MaxFd
Conn   == 1..MaxFd
Listen == 0
None   == -1        \* no descriptor: the head of a list, a failed connect

Least(a, b)    == IF a < b THEN a ELSE b
OnQueue(q, f)  == \E i \in DOMAIN q : q[i] = f
Place(q, f)    == CHOOSE i \in DOMAIN q : q[i] = f

\* list_del of the node of f
Without(q, f) ==
    [i \in 1..Len(q)-1 |-> IF i < Place(q, f) THEN q[i] ELSE q[i + 1]]

-----------------------------------------------------------------------------
(* Sockets.  ready: the kernel has the socket on epoll's ready list.       *)

NoSocket == [st |-> "none", rx |-> 0, end |-> "no", room |-> 0, ready |-> FALSE]

Poll(k) ==
    (IF k.rx > 0 \/ k.end # "no" \/ k.st = "failed" THEN {"IN"} ELSE {}) \cup
    (IF (k.st = "up" /\ k.room > 0) \/ k.st = "failed" THEN {"OUT"} ELSE {}) \cup
    (IF k.end \in {"rst", "gone"} \/ k.st = "failed" THEN {"HUP"} ELSE {})

Reported(s, f) == Poll(s.sock[f]) \cap (s.fds[f].mask \cup {"HUP"})

NotedIf(s, f) == [s EXCEPT !.sock[f].ready = @ \/ Reported(s, f) # {}]

-----------------------------------------------------------------------------
(* The fd table.  A state of it is a record s.                             *)

Blank == [type |-> "unused", flag |-> {}, mask |-> {}, et |-> TRUE,
          rcvprotlen |-> 0, recvlen |-> 0, sendlen |-> 0, idle |-> FALSE]

Used(s, f) == s.fds[f].type # "unused"

DelFromClose(s, f) ==
    IF "CLOSE" \in s.fds[f].flag
    THEN [s EXCEPT !.fds[f].flag = @ \ {"CLOSE"}, !.close_head = Without(@, f)]
    ELSE s

DelFromEtin(s, f) ==
    IF "POLLIN" \in s.fds[f].flag
    THEN [s EXCEPT !.fds[f].flag = @ \ {"POLLIN"}, !.etin_head = Without(@, f)]
    ELSE s

AddToEtin(s, f) ==
    IF s.fds[f].flag = {}
    THEN [s EXCEPT !.fds[f].flag = {"POLLIN"}, !.etin_head = Append(@, f)]
    ELSE s

AddToClose(s, f) ==
    LET t == DelFromEtin(s, f)
    IN  IF "CLOSE" \in t.fds[f].flag THEN t
        ELSE [t EXCEPT !.fds[f].flag = @ \cup {"CLOSE"}, !.close_head = Append(@, f)]

ModEvents(s, f, mask) ==
    IF s.sock[f].st = "none" THEN s
    ELSE NotedIf([s EXCEPT !.fds[f] = [@ EXCEPT !.mask = mask, !.et = TRUE]], f)

\* a bug: a connect in progress waits for input like the rest
EventsForIn(type) == {"IN"}

EventsFor(type) == IF type = "asyn_connect" THEN {"OUT"} ELSE {"IN"}

AddConn(s, f, type, socket) ==
    LET fi == [Blank EXCEPT !.type = type, !.mask = EventsFor(type),
                            !.et = type # "asyn_connect"]
    IN  NotedIf([s EXCEPT !.fds[f] = fi, !.sock[f] = socket,
                          !.maxfd = IF f > @ THEN f ELSE @], f)

Highest(s, below) ==
    LET used == {g \in Fd : g < below /\ Used(s, g)}
    IN  IF used = {} THEN None ELSE CHOOSE g \in used : \A h \in used : h <= g

\* a bug: the close queue is cleaned, the etin queue is not
UnqueuedClose(s, f) == DelFromClose(s, f)

Unqueued(s, f) == DelFromClose(DelFromEtin(s, f), f)

\* do_del_conn without its callback (is_conn = 2, or the parent, whose CLOSE
\* block is in ConnSession)
DelConn(s, f) ==
    IF ~Used(s, f) THEN s
    ELSE [Unqueued(s, f) EXCEPT
             !.fds[f] = [@ EXCEPT !.type = "unused", !.recvlen = 0, !.sendlen = 0],
             !.sock[f] = NoSocket,
             !.maxfd = IF @ = f THEN Highest(s, f) ELSE @]

-----------------------------------------------------------------------------
(* Connecting, and the plugin's on_fd_closed.                              *)

Free(s) == {f \in Conn : s.sock[f].st = "none"}

Lowest(S) == CHOOSE f \in S : \A g \in S : f <= g

AsynConnect(s) ==
    IF Free(s) = {} THEN s
    ELSE LET f == Lowest(Free(s))
         IN  [AddConn(s, f, "asyn_connect", [NoSocket EXCEPT !.st = "connecting"])
                EXCEPT !.owed = @ \cup {f}]

ConnectToSvr(s) ==
    IF Free(s) = {} THEN s
    ELSE AddConn(s, Lowest(Free(s)), "remote",
                 [NoSocket EXCEPT !.st = "up", !.room = Room])

CloseSvr(s, f) == [DelConn(s, f) EXCEPT !.owed = @ \ {f}]

\* a bug: the socket is closed before the plugin is told
DeletedThenTold(s, f) ==
    IF is_parent \/ ~Used(s, f) THEN {DelConn(s, f)}
    ELSE {DelConn(s, f), AsynConnect(DelConn(s, f))}

\* do_del_conn(fd, is_conn): the worker tells its plugin, which may connect again
Deleted(s, f) ==
    IF is_parent \/ ~Used(s, f) THEN {DelConn(s, f)}
    ELSE {DelConn(t, f) : t \in {s, AsynConnect(s)}}

-----------------------------------------------------------------------------
(* Sending.                                                                *)

Broken(s, f) == s.sock[f].end \in {"rst", "gone"}

\* do_write_conn, when send does not fail
WriteConn(s, f) ==
    LET fi == s.fds[f]
        n  == Least(fi.sendlen, s.sock[f].room)
    IN  [s EXCEPT !.fds[f] = [fi EXCEPT !.sendlen = @ - n, !.idle = @ /\ n = 0],
                  !.sock[f].room = @ - n]

\* a bug: the limit is looked at before the new output is added
OverLimitNever(len) == FALSE

OverLimit(len) == is_parent /\ len > SendLimit

\* a bug: output kept back before is not remembered
ArmedAnew(s, f, prev) ==
    IF s.fds[f].sendlen > 0 THEN ModEvents(s, f, {"IN", "OUT"}) ELSE s

\* which events to ask for after net_send; prev: output was kept back before
Armed(s, f, prev) ==
    IF s.fds[f].sendlen > 0 /\ ~prev THEN ModEvents(s, f, {"IN", "OUT"})
    ELSE IF prev /\ s.fds[f].sendlen = 0 THEN ModEvents(s, f, {"IN"})
    ELSE s

\* net_send(fd, data, n): every table it can leave behind
NetSend(s, f, n) ==
    IF Broken(s, f) THEN Deleted(s, f)
    ELSE LET prev  == s.fds[f].sendlen > 0
             t     == IF prev THEN WriteConn(s, f) ELSE s
             n0    == IF t.fds[f].sendlen = 0 THEN Least(n, t.sock[f].room) ELSE 0
             u     == [t EXCEPT !.fds[f].sendlen = @ + n - n0, !.sock[f].room = @ - n0]
         IN  IF n > n0 /\ OverLimit(u.fds[f].sendlen) THEN Deleted(u, f)
             ELSE {Armed(u, f, prev)}

-----------------------------------------------------------------------------
(* What the plugin may do in a callback: while the events of a batch or    *)
(* the etin queue are handled, and afterwards (proc_events and the blocks  *)
(* of the receive queue).                                                  *)

Remotes(s) == {f \in Conn : s.fds[f].type = "remote"}

InPackage(s, f) ==
    {s, CloseSvr(s, f)} \cup NetSend(s, f, 1)
    \cup (IF tame THEN {} ELSE {CloseSvr(s, g) : g \in Conn} \cup {AsynConnect(CloseSvr(s, f))})

Reconnecting(s) == {AsynConnect(s), ConnectToSvr(s)} \cup {CloseSvr(s, f) : f \in Conn}

Sending(s) == UNION {NetSend(s, f, n) : f \in Remotes(s), n \in 1..2}

-----------------------------------------------------------------------------
Role == IF is_parent THEN "parent" ELSE IF tame THEN "tame" ELSE "wild"

Empty == [f \in {} |-> {}]
Nothing == [fd |-> None, events |-> {}, from |-> "events"]

Init ==
    /\ is_parent \in BOOLEAN
    /\ tame \in BOOLEAN /\ (is_parent => tame)
    /\ ep = [fds  |-> [f \in Fd |-> IF f = Listen /\ is_parent
                                    THEN [Blank EXCEPT !.type = "listen", !.mask = {"IN"}]
                                    ELSE IF f = Listen THEN [Blank EXCEPT !.type = "pipe"]
                                    ELSE Blank],
             sock |-> [f \in Fd |-> IF f = Listen /\ is_parent
                                    THEN [NoSocket EXCEPT !.st = "listening"]
                                    ELSE NoSocket],
             close_head |-> <<>>, etin_head |-> <<>>, maxfd |-> 0,
             owed |-> {}, lied |-> FALSE, lost |-> FALSE]
    /\ pc = "close" /\ it = None /\ evs = Empty
    /\ cur = Nothing
    /\ budget = Budget[Role] /\ aborted = FALSE

-----------------------------------------------------------------------------
(* iterate_close_queue: one attempt at what is left to send.               *)

\* a bug: closed without the attempt
NoLastWrite(s, f) == s

LastWrite(s, f) == IF s.fds[f].sendlen > 0 /\ ~Broken(s, f) THEN WriteConn(s, f) ELSE s

Sendable(s, f) == s.fds[f].sendlen > 0 /\ s.sock[f].room > 0 /\ ~Broken(s, f)

IterateCloseQueue ==
    /\ pc = "close" /\ ep.close_head # <<>>
    /\ LET f == Head(ep.close_head)
           s == LastWrite(ep, f)
       IN  ep' = [DelConn(s, f) EXCEPT !.lost = @ \/ Sendable(s, f)]
    /\ UNCHANGED <<is_parent, tame, pc, it, evs, cur, budget, aborted>>

After(q, f) ==
    IF Place(q, f) = Len(q) THEN None ELSE q[Place(q, f) + 1]

First(q) == IF q = <<>> THEN None ELSE q[1]

CloseQueueDone ==
    /\ pc = "close" /\ ep.close_head = <<>>
    /\ pc' = "etin" /\ it' = First(ep.etin_head)
    /\ UNCHANGED <<is_parent, tame, ep, evs, cur, budget, aborted>>

(* iterate_etin_queue: list_for_each_safe has its next element before it   *)
(* handles the present one.  A saved element a callback has unlinked       *)
(* points to itself or, its number given out again, to nothing.            *)

\* a bug: the walk goes on from the element it has handled
SavedNextSame(f) == f

SavedNext(f) == After(ep.etin_head, f)

IterateEtinQueue ==
    /\ pc = "etin" /\ it # None
    /\ IF OnQueue(ep.etin_head, it)
       THEN /\ cur' = [fd |-> it, events |-> {}, from |-> "etin"]
            /\ it' = SavedNext(it)
            /\ pc' = IF ep.fds[it].type = "listen" THEN "accept" ELSE "recv"
       ELSE pc' = "broken" /\ UNCHANGED <<cur, it>>
    /\ UNCHANGED <<is_parent, tame, ep, evs, budget, aborted>>

EtinQueueDone ==
    /\ pc = "etin" /\ it = None /\ pc' = "wait" /\ cur' = Nothing
    /\ UNCHANGED <<is_parent, tame, ep, it, evs, budget, aborted>>

-----------------------------------------------------------------------------
(* epoll_wait: the parent waits without a limit, a worker a second.        *)

Hits == {f \in Fd : ep.sock[f].ready /\ Reported(ep, f) # {}}

StillReady(f) == ~ep.fds[f].et /\ f \in Hits

Woken ==
    /\ pc = "wait"
    /\ evs' = [f \in Hits |-> Reported(ep, f)]
    /\ ep' = [ep EXCEPT !.sock = [f \in Fd |-> [@[f] EXCEPT !.ready = StillReady(f)]]]
    /\ pc' = IF is_parent THEN "sendq" ELSE "events"
    /\ UNCHANGED <<is_parent, tame, it, cur, budget, aborted>>

Wait == (~is_parent \/ Hits # {}) /\ Woken

\* the parent's pipes, or a signal
Nudged == is_parent /\ Hits = {} /\ Woken

(* handle_send_queue: a DATA block of n bytes, or a FIN block.             *)

ScheduleData ==
    /\ pc = "sendq" /\ budget > 0 /\ budget' = budget - 1
    /\ \E f \in Remotes(ep), n \in 1..2 : ep' \in NetSend(ep, f, n)
    /\ UNCHANGED <<is_parent, tame, pc, it, evs, cur, aborted>>

ScheduleFin ==
    /\ pc = "sendq" /\ budget > 0 /\ budget' = budget - 1
    /\ \E f \in Remotes(ep) : ep' = AddToClose(ep, f)
    /\ UNCHANGED <<is_parent, tame, pc, it, evs, cur, aborted>>

SendQueueDone ==
    /\ pc = "sendq" /\ pc' = "events"
    /\ UNCHANGED <<is_parent, tame, ep, it, evs, cur, budget, aborted>>

-----------------------------------------------------------------------------
(* The batch: one event at a time, in any order.  An event for a number    *)
(* that is not in use any more is dropped.                                 *)

Rest(f) == [g \in DOMAIN evs \ {f} |-> evs[g]]

Delayed(f) == f > ep.maxfd \/ ~Used(ep, f)

DropEvent(f) ==
    /\ pc = "events" /\ f \in DOMAIN evs /\ Delayed(f)
    /\ evs' = Rest(f)
    /\ UNCHANGED <<is_parent, tame, ep, pc, it, cur, budget, aborted>>

TakeEvent(f) ==
    /\ pc = "events" /\ f \in DOMAIN evs /\ ~Delayed(f)
    /\ ep.fds[f].type # "asyn_connect"
    /\ evs' = Rest(f)
    /\ cur' = [fd |-> f, events |-> evs[f], from |-> "events"]
    /\ pc' = IF "IN" \notin evs[f] THEN "out"
             ELSE IF ep.fds[f].type = "listen" THEN "accept" ELSE "recv"
    /\ UNCHANGED <<is_parent, tame, ep, it, budget, aborted>>

\* a bug: the error is not asked for
ConnectErrorNever(s, f) == FALSE

\* SO_ERROR
ConnectError(s, f) == s.sock[f].st = "failed"

AsynOutcome(s, f) ==
    IF ConnectError(s, f) THEN DelConn(s, f)
    ELSE ModEvents([s EXCEPT !.fds[f].type = "remote", !.lied = @ \/ s.sock[f].st # "up"],
                   f, {"IN"})

\* handle_asyn_connect; the callback is called with the fd, or with -1
HandleAsynConnect(f) ==
    /\ pc = "events" /\ f \in DOMAIN evs /\ ~Delayed(f)
    /\ ep.fds[f].type = "asyn_connect"
    /\ evs' = Rest(f)
    /\ LET s == [AsynOutcome(ep, f) EXCEPT !.owed = @ \ {f}]
       IN  ep' \in {s} \cup (IF Used(s, f) THEN {CloseSvr(s, f)} \cup NetSend(s, f, 1)
                             ELSE IF tame THEN {} ELSE {AsynConnect(s)})
    /\ UNCHANGED <<is_parent, tame, pc, it, cur, budget, aborted>>

-----------------------------------------------------------------------------
(* do_open_conn, called until it fails.                                    *)

Back == IF cur.from = "etin" THEN "etin" ELSE "out"

AcceptOne ==
    /\ pc = "accept" /\ ep.sock[Listen].rx > 0 /\ Free(ep) # {}
    /\ LET f == Lowest(Free(ep))
           s == [ep EXCEPT !.sock[Listen].rx = @ - 1]
           t == AddConn(s, f, "remote", [NoSocket EXCEPT !.st = "up", !.room = Room])
       IN  ep' \in {t, DelConn(t, f)}          \* the OPEN block is taken or refused
    /\ UNCHANGED <<is_parent, tame, pc, it, evs, cur, budget, aborted>>

AcceptFull ==
    /\ pc = "accept" /\ ep.sock[Listen].rx > 0 /\ Free(ep) = {}
    /\ ep' = AddToEtin(ep, Listen) /\ pc' = Back
    /\ UNCHANGED <<is_parent, tame, it, evs, cur, budget, aborted>>

AcceptEmpty ==
    /\ pc = "accept" /\ ep.sock[Listen].rx = 0
    /\ ep' = DelFromEtin(ep, Listen) /\ pc' = Back
    /\ UNCHANGED <<is_parent, tame, it, evs, cur, budget, aborted>>

\* ECONNABORTED and the like: the loop ends, whatever is still waiting
AcceptAborted ==
    /\ pc = "accept" /\ ep.sock[Listen].rx > 0 /\ budget > 0
    /\ ep' = [ep EXCEPT !.sock[Listen].rx = @ - 1] /\ pc' = Back
    /\ aborted' = TRUE /\ budget' = budget - 1
    /\ UNCHANGED <<is_parent, tame, it, evs, cur>>

-----------------------------------------------------------------------------
(* do_read_conn.                                                           *)

Full(s, f) == s.fds[f].recvlen = page_size

\* a bug: a full buffer is not put on the etin queue
RequeuedNever(s, f) == DelFromEtin(s, f)

Requeued(s, f) == IF Full(s, f) THEN AddToEtin(s, f) ELSE DelFromEtin(s, f)

\* a bug: what the buffer holds already is forgotten
ReceiveAll(s, f) ==
    LET n == Least(s.sock[f].rx, page_size)
    IN  [s EXCEPT !.sock[f].rx = @ - n, !.fds[f].recvlen = @ + n]

\* recv returns data, or an error (EAGAIN, or once ECONNRESET) taken as none
Receive(s, f) ==
    LET fi == s.fds[f]
        n  == Least(s.sock[f].rx, page_size - fi.recvlen)
    IN  IF n > 0
        THEN [s EXCEPT !.sock[f].rx = @ - n,
                       !.fds[f] = [fi EXCEPT !.recvlen = @ + n, !.idle = FALSE]]
        ELSE IF s.sock[f].end = "rst" THEN [s EXCEPT !.sock[f].end = "gone"] ELSE s

PeerClosed(s, f) == s.sock[f].rx = 0 /\ s.sock[f].end \in {"fin", "gone"}

ReadConn ==
    /\ pc = "recv"
    /\ LET f == cur.fd
       IN  IF ~Full(ep, f) /\ PeerClosed(ep, f)
           THEN ep' \in Deleted(ep, f) /\ pc' = Back
           ELSE /\ ep' = IF Full(ep, f) THEN ep ELSE Requeued(Receive(ep, f), f)
                /\ pc' = "parse"
    /\ UNCHANGED <<is_parent, tame, it, evs, cur, budget, aborted>>

(* net_recv after the read, one package at a time.  get_pkg_len says 0     *)
(* while it cannot tell; page_size + 1 stands for every length too large.  *)

Lengths(s, f) ==
    IF s.fds[f].rcvprotlen # 0 THEN {s.fds[f].rcvprotlen}
    ELSE IF s.fds[f].recvlen = 0 THEN {0}
    ELSE 0..(page_size + 1)

\* a bug: a full buffer without a package is kept
HopelessLong(s, f, len) == len > page_size

Hopeless(s, f, len) == len > page_size \/ (len = 0 /\ Full(s, f))

ParseBad ==
    /\ pc = "parse"
    /\ \E len \in Lengths(ep, cur.fd) : Hopeless(ep, cur.fd, len)
    /\ ep' \in Deleted(ep, cur.fd) /\ pc' = Back
    /\ UNCHANGED <<is_parent, tame, it, evs, cur, budget, aborted>>

ParseWait ==
    /\ pc = "parse"
    /\ \E len \in Lengths(ep, cur.fd) :
          /\ ~Hopeless(ep, cur.fd, len)
          /\ len = 0 \/ len > ep.fds[cur.fd].recvlen
          /\ ep' = [ep EXCEPT !.fds[cur.fd].rcvprotlen = len]
    /\ pc' = Back
    /\ UNCHANGED <<is_parent, tame, it, evs, cur, budget, aborted>>

\* the package has been handed over: the rest of the buffer
Consumed(s, f, len) ==
    [s EXCEPT !.fds[f] = [s.fds[f] EXCEPT !.recvlen = @ - len, !.rcvprotlen = 0]]

Whole(len) == len > 0 /\ len <= ep.fds[cur.fd].recvlen

ParentPackage ==
    /\ pc = "parse" /\ is_parent
    /\ \E len \in Lengths(ep, cur.fd) :
          /\ Whole(len)
          /\ \/ /\ ep' = Consumed(ep, cur.fd, len)
                /\ pc' = IF ep.fds[cur.fd].recvlen > len THEN "parse" ELSE Back
             \/ ep' \in Deleted(ep, cur.fd) /\ pc' = Back      \* the push is refused
    /\ UNCHANGED <<is_parent, tame, it, evs, cur, budget, aborted>>

\* proc_pkg_from_serv, then the test whether the plugin has closed it.  A
\* connection opened in its place starts with lengths of 0.
WorkerPackage ==
    /\ pc = "parse" /\ ~is_parent
    /\ \E len \in Lengths(ep, cur.fd) :
          /\ Whole(len)
          /\ LET before == [ep EXCEPT !.fds[cur.fd].rcvprotlen = len]
             IN  \E s \in InPackage(before, cur.fd) :
                    LET fi == s.fds[cur.fd]
                    IN  /\ ep' = IF Used(s, cur.fd) THEN Consumed(s, cur.fd, fi.rcvprotlen) ELSE s
                        /\ pc' = IF Used(s, cur.fd) /\ fi.recvlen > fi.rcvprotlen
                                 THEN "parse" ELSE Back
    /\ UNCHANGED <<is_parent, tame, it, evs, cur, budget, aborted>>

-----------------------------------------------------------------------------
(* The rest of an event: EPOLLOUT, then EPOLLHUP, for whatever connection  *)
(* has the number by now.                                                  *)

Flushed(s, f) ==
    IF s.fds[f].sendlen > 0 THEN IF Broken(s, f) THEN Deleted(s, f) ELSE {WriteConn(s, f)}
    ELSE {s}

Disarmed(s, f) == IF s.fds[f].sendlen = 0 THEN ModEvents(s, f, {"IN"}) ELSE s

FinishEvent ==
    /\ pc = "out" /\ pc' = "events" /\ cur' = Nothing
    /\ LET f == cur.fd
           flushed == IF "OUT" \in cur.events THEN {Disarmed(s, f) : s \in Flushed(ep, f)}
                      ELSE {ep}
       IN  ep' \in IF "HUP" \in cur.events THEN UNION {Deleted(s, f) : s \in flushed}
                   ELSE flushed
    /\ UNCHANGED <<is_parent, tame, it, evs, budget, aborted>>

-----------------------------------------------------------------------------
(* After the batch: socket_timeout in the parent, callbacks in the worker. *)

TimedOut(s) == {f \in Remotes(s) : s.fds[f].idle}

CheckTimeout ==
    /\ pc = "events" /\ evs = Empty /\ is_parent /\ TimedOut(ep) # {}
    /\ ep' = DelConn(ep, Lowest(TimedOut(ep)))
    /\ UNCHANGED <<is_parent, tame, pc, it, evs, cur, budget, aborted>>

PluginConnects ==
    /\ pc = "events" /\ evs = Empty /\ ~is_parent
    /\ ep' \in Reconnecting(ep)
    /\ UNCHANGED <<is_parent, tame, pc, it, evs, cur, budget, aborted>>

PluginSends ==
    /\ pc = "events" /\ evs = Empty /\ ~is_parent /\ budget > 0
    /\ ep' \in Sending(ep) /\ budget' = budget - 1
    /\ UNCHANGED <<is_parent, tame, pc, it, evs, cur, aborted>>

LoopDone ==
    /\ pc = "events" /\ evs = Empty
    /\ is_parent => TimedOut(ep) = {}
    /\ pc' = "close"
    /\ UNCHANGED <<is_parent, tame, ep, it, evs, cur, budget, aborted>>

-----------------------------------------------------------------------------
(* The kernel and the peers.                                               *)

Kernel(s) ==
    /\ ep' = s
    /\ UNCHANGED <<is_parent, tame, pc, it, evs, cur, aborted>>

Woke(s, f, ev) ==
    [s EXCEPT !.sock[f].ready = @ \/ ev \in s.fds[f].mask \cup {"HUP"}]

\* a byte, or a client at the listening socket
Arrive(f) ==
    /\ budget > 0 /\ budget' = budget - 1
    /\ ep.sock[f].st \in {"up", "listening"} /\ ep.sock[f].end = "no"
    /\ Kernel(Woke([ep EXCEPT !.sock[f].rx = @ + 1], f, "IN"))

PeerEnds(f) ==
    /\ budget > 0 /\ budget' = budget - 1
    /\ ep.sock[f].st = "up" /\ ep.sock[f].end = "no"
    /\ \/ Kernel(Woke([ep EXCEPT !.sock[f].end = "fin"], f, "IN"))
       \/ Kernel(Woke([ep EXCEPT !.sock[f].end = "rst"], f, "HUP"))

PeerReads(f) ==
    /\ ep.sock[f].st = "up" /\ ep.sock[f].room < Room
    /\ Kernel(Woke([ep EXCEPT !.sock[f].room = Room], f, "OUT"))
    /\ UNCHANGED budget

Connected(f) ==
    /\ ep.sock[f].st = "connecting"
    /\ \/ Kernel(Woke([ep EXCEPT !.sock[f] = [@ EXCEPT !.st = "up", !.room = Room]], f, "OUT"))
       \/ Kernel(Woke([ep EXCEPT !.sock[f].st = "failed"], f, "HUP"))
    /\ UNCHANGED budget

\* socket_timeout seconds without traffic
Tick ==
    /\ budget > 0 /\ budget' = budget - 1 /\ is_parent /\ Remotes(ep) # {}
    /\ Kernel([ep EXCEPT !.fds = [f \in Fd |->
                  IF f \in Remotes(ep) THEN [@[f] EXCEPT !.idle = TRUE] ELSE @[f]]])

Loop ==
    \/ IterateCloseQueue \/ CloseQueueDone \/ IterateEtinQueue \/ EtinQueueDone
    \/ Wait \/ SendQueueDone
    \/ \E f \in Fd : DropEvent(f) \/ TakeEvent(f) \/ HandleAsynConnect(f)
    \/ AcceptOne \/ AcceptFull \/ AcceptEmpty
    \/ ReadConn \/ ParseBad \/ ParseWait \/ ParentPackage \/ WorkerPackage
    \/ FinishEvent \/ CheckTimeout \/ LoopDone

Outside ==
    \/ Nudged \/ ScheduleData \/ ScheduleFin \/ AcceptAborted \/ PluginConnects
    \/ PluginSends \/ Tick
    \/ \E f \in Fd : Arrive(f)
    \/ \E f \in Conn : PeerEnds(f) \/ PeerReads(f)

Next == Loop \/ Outside \/ \E f \in Conn : Connected(f)

Spec == Init /\ [][Next]_vars

\* The process runs; a connect is answered in the end, by a timeout at worst.
FairSpec == Spec /\ WF_vars(Loop) /\ \A f \in Conn : WF_vars(Connected(f))
-----------------------------------------------------------------------------
(* Properties.                                                             *)

FdInfo == [type : {"unused", "listen", "pipe", "remote", "asyn_connect"},
           flag : SUBSET {"CLOSE", "POLLIN"}, mask : SUBSET {"IN", "OUT"}, et : BOOLEAN,
           rcvprotlen : 0..page_size, recvlen : 0..page_size, sendlen : Nat, idle : BOOLEAN]

Socket == [st : {"none", "listening", "connecting", "up", "failed"}, rx : Nat,
           end : {"no", "fin", "rst", "gone"}, room : 0..Room, ready : BOOLEAN]

\* Every variable has its type; pc is never a place net_loop does not have.
TypeOK ==
    /\ ep.fds \in [Fd -> FdInfo] /\ ep.sock \in [Fd -> Socket]
    /\ ep.close_head \in Seq(Fd) /\ ep.etin_head \in Seq(Fd)
    /\ ep.maxfd \in Fd /\ ep.owed \in SUBSET Conn
    /\ pc \in {"close", "etin", "wait", "sendq", "events", "accept", "recv", "parse", "out",
              "broken"}
    /\ it \in Fd \cup {None} /\ DOMAIN evs \subseteq Fd /\ budget \in 0..Budget[Role]

Places(q, f) == {i \in DOMAIN q : q[i] = f}

\* The flags of a descriptor, its place in the two queues (a single list node
\* serves both) and the table agree, and maxfd is the highest number in use:
\* otherwise a walk over a queue leaves it, or an event is dropped (net.c:67-96).
QueuesAgree ==
    /\ \A f \in Fd :
          LET closing == Cardinality(Places(ep.close_head, f))
              again   == Cardinality(Places(ep.etin_head, f))
          IN  /\ closing = (IF "CLOSE" \in ep.fds[f].flag THEN 1 ELSE 0)
              /\ again = (IF "POLLIN" \in ep.fds[f].flag THEN 1 ELSE 0)
              /\ closing + again <= (IF Used(ep, f) THEN 1 ELSE 0)
    /\ Used(ep, ep.maxfd) /\ \A f \in Fd : Used(ep, f) => f <= ep.maxfd

\* Between two events every connection has room for another byte and waits for
\* a package that fits: a recv into no room would return 0 and be taken for a
\* close by the peer (net.c:310-326).
RoomToRead ==
    pc \notin {"recv", "parse"} =>
        \A f \in Remotes(ep) :
            /\ ep.fds[f].recvlen < page_size
            /\ ep.fds[f].rcvprotlen # 0 => ep.fds[f].recvlen < ep.fds[f].rcvprotlen

InHand(f, ev) ==
    \/ f \in DOMAIN evs /\ ev \in evs[f]
    \/ cur.fd = f /\ (pc \in {"recv", "parse", "accept"} \/ (pc = "out" /\ ev \in cur.events))

\* What waits in the kernel for an edge-triggered descriptor is never left
\* without notice: a new event is due, one is being handled, or the descriptor
\* is on the etin or the close queue.  The exception is a listening socket
\* whose accept failed otherwise than by a full table (net.c:260-268).
UnreadNoticed ==
    \A f \in Fd :
        (ep.fds[f].type \in {"remote", "listen"} /\ ep.sock[f].rx > 0
           /\ (f = Listen => ~aborted) /\ pc # "broken")
        => \/ ep.sock[f].ready \/ InHand(f, "IN")
           \/ OnQueue(ep.etin_head, f) \/ OnQueue(ep.close_head, f)

\* EPOLLOUT is asked for exactly while output is kept back, and then room in
\* the kernel is never overlooked (net_if.c:191-240, net.c:608-615).
OutputArmed ==
    \A f \in Remotes(ep) :
        /\ ep.fds[f].sendlen > 0 <=> "OUT" \in ep.fds[f].mask
        /\ ep.fds[f].sendlen > 0 /\ ep.sock[f].room > 0
              => ep.sock[f].ready \/ InHand(f, "OUT")

\* The parent keeps no more than send_buf_limit_size back for a connection
\* (net_if.c:228-234).
SendBounded == is_parent => \A f \in Conn : ep.fds[f].sendlen <= SendLimit

\* If the plugin keeps to its own connection, the walk over the etin queue
\* never reaches an element that has left it (net.c:114-128).
WalkSafe == tame => pc # "broken"

\* If the plugin keeps to its own connection, a connect whose callback is still
\* owed is in the table as one, with EPOLLOUT asked for: no delayed event of the
\* number's former owner takes it away (net.c:527, net_if.h:70-72).
CallbackKept ==
    tame => \A f \in ep.owed : ep.fds[f].type = "asyn_connect" /\ "OUT" \in ep.fds[f].mask

\* If the plugin keeps to its own connection, a callback is told of a connection
\* only when there is one (net.c:723-747).
ConnectedTrue == tame => ~ep.lied

\* A connection on the close queue loses output only when the kernel takes no
\* more of it or the peer has reset it (net.c:105-111).
FinFlushes == ~ep.lost

\* A worker, woken every second, reads what an edge-triggered socket holds
\* although the edge is past (net.c:510, 632).
UnreadRead ==
    \A f \in Conn :
        (~is_parent /\ pc # "broken" /\ ep.sock[f].rx > 0)
            ~> (ep.sock[f].rx = 0 \/ pc = "broken")

\* A callback is called once the connect is over, for a plugin that keeps to
\* its own connection (net_if.h:70-72).
ConnectAnswered == \A f \in Conn : (tame /\ f \in ep.owed) ~> (f \notin ep.owed)

\* The invariants above by what they are about: the table and its two queues
\* (net.c:66-98, 208-242) ...
QueuesKept == TypeOK /\ QueuesAgree /\ WalkSafe

\* ... input, of which no byte is read without room for it or left without
\* notice (net.c:296-350) ...
InputKept == RoomToRead /\ UnreadNoticed

\* ... output, which is armed, bounded and tried once more at the close
\* (net.c:105-111, 273-294; net_if.c:186-243) ...
OutputKept == OutputArmed /\ SendBounded /\ FinFlushes

\* ... and asynchronous connects (net.c:527, 723-747; net_if.h:70-72).
ConnectKept == CallbackKept /\ ConnectedTrue
==============================================================================
