-------------------------------- MODULE TcpOpen --------------------------------
(***************************************************************************)
(* The calls of tcp.c that return a new socket: safe_socket_listen,        *)
(* create_passive_endpoint, safe_tcp_accept and safe_tcp_connect.  Each is *)
(* a row of system calls, any of which may fail; a process has other calls *)
(* in between that fail too, so errno is what the last failing one left.   *)
(***************************************************************************)
EXTENDS Integers, Sequences

CONSTANTS Fds,     \* descriptors
          MaxCalls \* a bound

ASSUME OpenAssumption == MaxCalls \in Nat /\ 0 \notin Fds

VARIABLES doing,  \* the call in progress: [fn, type, nonblock, at, fd], or <<>>
          errno,  \* the system call that failed last
          last,   \* the last call that ended: [fn, ok, failed]
          fds,    \* descriptors in use, with their blockability
          held,   \* those callers were returned and have not closed
          calls   \* how many were made

openvars == <<doing, errno, last, fds, held, calls>>

Nobody == <<>>
NoFd == 0

OpenInit ==
    /\ doing = Nobody /\ errno = "none" /\ last = [fn |-> "none", ok |-> TRUE, failed |-> "none"]
    /\ fds = [f \in {} |-> "blocking"] /\ held = {} /\ calls = 0

Options == <<"rcvbuf", "sndbuf", "bind">>
Reuse(type) == IF type = "stream" THEN <<"reuse">> ELSE <<>>
Backlog(type) == IF type = "stream" THEN <<"listen">> ELSE <<>>

\* The system calls of each, in their order.
Row(fn, type, nonblock) ==
    CASE fn = "safe_socket_listen" -> <<"socket">> \o Reuse(type) \o Options \o Backlog(type)
      [] fn = "create_passive_endpoint" ->
            <<"getaddrinfo", "socket">> \o Reuse(type) \o Options \o Backlog(type)
      [] fn = "safe_tcp_accept" -> <<"accept">> \o (IF nonblock THEN <<"fcntl">> ELSE <<>>)
      [] fn = "safe_tcp_connect" -> <<"inet_pton", "socket", "connect", "fcntl">>

OpenFns == {"safe_socket_listen", "create_passive_endpoint", "safe_tcp_accept", "safe_tcp_connect"}

Begin(fn, type, nonblock) ==
    /\ doing = Nobody /\ calls < MaxCalls /\ calls' = calls + 1
    /\ (fn \in {"safe_tcp_accept", "safe_tcp_connect"} => type = "stream")
    /\ (fn \notin {"safe_tcp_accept", "safe_tcp_connect"} => ~nonblock)
    /\ doing' = [fn |-> fn, type |-> type, nonblock |-> nonblock, at |-> 1, fd |-> NoFd]
    /\ UNCHANGED <<errno, last, fds, held>>

ThisRow == Row(doing.fn, doing.type, doing.nonblock)
System == ThisRow[doing.at]
Creates(system) == system \in {"socket", "accept"}
Finish(ok, failed) == doing' = Nobody /\ last' = [fn |-> doing.fn, ok |-> ok, failed |-> failed]

\* safe_tcp_connect does not look at the result of set_io_blockability
Ignored == doing.fn = "safe_tcp_connect" /\ System = "fcntl"

Blockability(fd) ==
    IF System = "fcntl" /\ doing.nonblock THEN [fds EXCEPT ![fd] = "nonblocking"] ELSE fds

\* on to the next system call, or return the descriptor
Onwards(fd) ==
    IF doing.at = Len(ThisRow)
    THEN Finish(TRUE, "none") /\ held' = held \cup {fd}
    ELSE doing' = [doing EXCEPT !.at = @ + 1, !.fd = fd] /\ UNCHANGED <<last, held>>

Succeed ==
    /\ doing # Nobody
    /\ IF Creates(System)
       THEN \E fd \in Fds \ DOMAIN fds :
               /\ fds' = [f \in DOMAIN fds \cup {fd} |-> IF f = fd THEN "blocking" ELSE fds[f]]
               /\ Onwards(fd)
       ELSE fds' = Blockability(doing.fd) /\ Onwards(doing.fd)
    /\ errno' = IF doing.fn = "create_passive_endpoint" /\ doing' = Nobody THEN "none" ELSE errno
    /\ UNCHANGED calls

Released(fd) == [f \in DOMAIN fds \ {fd} |-> fds[f]]

\* a bug: the new descriptor stays open
ClosedNever(fd) == fds

\* close, of the descriptor the call made if it has come that far
Closed(fd) == Released(fd)

\* a bug: errno is not put back after close
ErrnoAfter(system, byClose) == byClose

\* errno, saved and put back by all but safe_tcp_connect; byClose is what close
\* leaves when it fails itself
ErrnoOf(system, byClose) == IF doing.fn = "safe_tcp_connect" THEN byClose ELSE system

Fail(closes) ==
    /\ doing # Nobody /\ ~Ignored
    /\ (doing.fd = NoFd => closes)
    /\ errno' = ErrnoOf(System, IF closes THEN System ELSE "close")
    /\ fds' = Closed(doing.fd)
    /\ Finish(FALSE, System)
    /\ UNCHANGED <<held, calls>>

\* the socket stays blocking
FailIgnored ==
    /\ doing # Nobody /\ Ignored /\ errno' = "fcntl"
    /\ Onwards(doing.fd) /\ UNCHANGED <<fds, calls>>

\* the caller is done with it
CloseFd(fd) ==
    /\ doing = Nobody /\ fd \in held
    /\ held' = held \ {fd} /\ fds' = Released(fd) /\ UNCHANGED <<doing, errno, last, calls>>

OpenNext ==
    \/ \E fn \in OpenFns, type \in {"stream", "dgram"}, nonblock \in BOOLEAN : Begin(fn, type, nonblock)
    \/ Succeed \/ FailIgnored
    \/ \E closes \in BOOLEAN : Fail(closes)
    \/ \E fd \in held : CloseFd(fd)

OpenSpec == OpenInit /\ [][OpenNext]_openvars
-----------------------------------------------------------------------------
(* Properties.                                                             *)

\* Whichever system call fails, no descriptor is left that no caller has, and
\* none that a caller has is closed (tcp.c:129-164, 186-225, 245-250, 277-280).
NoFdLeft ==
    DOMAIN fds = held \cup (IF doing # Nobody /\ doing.fd # NoFd THEN {doing.fd} ELSE {})

\* After a failure errno is that of the system call that failed, whatever close
\* did in between, except after safe_tcp_connect (tcp.c:157-163, 218-225, 245-249).
ErrnoKept ==
    doing = Nobody /\ ~last.ok => errno = last.failed \/ last.fn = "safe_tcp_connect"

\* A failing call leaves no descriptor behind and says why it failed
\* (tcp.c:110-286).
CallsClean == NoFdLeft /\ ErrnoKept
=============================================================================
