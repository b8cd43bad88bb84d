------------------------------ MODULE TcpStream ------------------------------
(***************************************************************************)
(* The calls of tcp.c that move bytes over a connected socket, each a loop *)
(* of system calls that may do a part, be interrupted, find the socket not *)
(* ready or find the connection gone, and the callers at both ends, who go *)
(* on from the count they are returned and take 0 for the end as tcp.h     *)
(* tells them.  A byte is its place in what the sender has to send.        *)
(***************************************************************************)
EXTENDS Integers, Sequences

CONSTANTS Bytes,     \* how many the sender has
          Capacity,  \* of the connection
          Totals     \* a call asks for

ASSUME StreamAssumption == Bytes \in Nat /\ Capacity \in Nat \ {0} /\ Totals \subseteq Nat \ {0}

VARIABLES ready,   \* per end: may a call find the socket not ready (EAGAIN)
          out,     \* bytes the sender's caller has been told were sent
          sending, \* the call in progress: [total, done], or <<>>
          wire,    \* bytes on their way
          peer,    \* the sender's end: "open", "closed", "reset"
          reading, \* the call in progress: [call, total, buf], or <<>>
          got,     \* bytes the receiver's caller was given
          saw      \* what its caller knows of the connection

streamvars == <<ready, out, sending, wire, peer, reading, got, saw>>

None == <<>>
Ends == {"sender", "receiver"}

StreamInit ==
    /\ ready = [e \in Ends |-> FALSE] /\ out = 0 /\ sending = None /\ wire = <<>>
    /\ peer = "open" /\ reading = None /\ got = <<>> /\ saw = "open"

\* set_io_blockability, set_sock_snd_timeo, set_sock_rcv_timeo
SetSocket(e, again) ==
    /\ ready[e] # again /\ ready' = [ready EXCEPT ![e] = again]
    /\ (e = "sender" => sending = None) /\ (e = "receiver" => reading = None)
    /\ UNCHANGED <<out, sending, wire, peer, reading, got, saw>>

-----------------------------------------------------------------------------
(* safe_tcp_send_n.                                                        *)

CallSend(total) ==
    /\ sending = None /\ peer = "open" /\ out + total <= Bytes
    /\ sending' = [total |-> total, done |-> 0]
    /\ UNCHANGED <<ready, out, wire, peer, reading, got, saw>>

\* a bug: the buffer is sent from its start
NextFromStart(k) == [i \in 1..k |-> out + i]

\* the next bytes of the buffer
NextBytes(k) == [i \in 1..k |-> out + sending.done + i]

\* a bug: the -1 of an interrupted call is added to the count
InterruptedMinus(done) == done - 1

\* cur_len is 0 after EINTR
Interrupted(done) == done

SendInterrupted ==
    /\ sending # None /\ sending' = [sending EXCEPT !.done = Interrupted(@)]
    /\ UNCHANGED <<ready, out, wire, peer, reading, got, saw>>

SendSome(k) ==
    /\ sending # None /\ peer = "open"
    /\ k \in 1..(sending.total - sending.done) /\ Len(wire) + k <= Capacity
    /\ wire' = wire \o NextBytes(k)
    /\ IF sending.done + k = sending.total
       THEN sending' = None /\ out' = out + sending.total
       ELSE sending' = [sending EXCEPT !.done = @ + k] /\ UNCHANGED out
    /\ UNCHANGED <<ready, peer, reading, got, saw>>

\* EAGAIN: the count so far, 0 included
SendAgain ==
    /\ sending # None /\ ready["sender"] /\ Len(wire) = Capacity
    /\ sending' = None /\ out' = out + sending.done
    /\ UNCHANGED <<ready, wire, peer, reading, got, saw>>

\* -1: what was sent before is not told
SendFails ==
    /\ sending # None /\ peer = "reset" /\ sending' = None
    /\ UNCHANGED <<ready, out, wire, peer, reading, got, saw>>

Close ==
    /\ sending = None /\ peer = "open" /\ peer' = "closed"
    /\ UNCHANGED <<ready, out, sending, wire, reading, got, saw>>

Reset ==
    /\ peer = "open" /\ peer' = "reset" /\ wire' = <<>>
    /\ UNCHANGED <<ready, out, sending, reading, got, saw>>

-----------------------------------------------------------------------------
(* safe_tcp_recv and safe_tcp_recv_n; an interrupted call is made again.   *)

Call(call, total) ==
    /\ reading = None /\ saw = "open"
    /\ reading' = [call |-> call, total |-> total, buf |-> <<>>]
    /\ UNCHANGED <<ready, out, sending, wire, peer, got, saw>>

\* recv is content with one call, recv_n has it all
Complete(r, n) == r.call = "recv" \/ n = r.total

Returns(bytes, knows) == reading' = None /\ got' = got \o bytes /\ saw' = knows

ReceiveSome(k) ==
    /\ reading # None
    /\ k \in 1..(reading.total - Len(reading.buf)) /\ k <= Len(wire)
    /\ wire' = SubSeq(wire, k + 1, Len(wire))
    /\ LET buf == reading.buf \o SubSeq(wire, 1, k)
       IN  IF Complete(reading, Len(buf)) THEN Returns(buf, "open")
           ELSE reading' = [reading EXCEPT !.buf = buf] /\ UNCHANGED <<got, saw>>
    /\ UNCHANGED <<ready, out, sending, peer>>

\* 0, whatever recv_n has received
ReceiveEnd ==
    /\ reading # None /\ wire = <<>> /\ peer = "closed"
    /\ Returns(<<>>, "closed")
    /\ UNCHANGED <<ready, out, sending, wire, peer>>

\* a bug: recv_n gives an error and what it received is lost
PartialNone(buf) == <<>>

Partial(buf) == buf

\* EAGAIN: recv says -1, recv_n the count so far, which its caller takes for the
\* end when it is 0
ReceiveAgain ==
    /\ reading # None /\ ready["receiver"] /\ wire = <<>> /\ peer = "open"
    /\ IF reading.call = "recv" THEN Returns(<<>>, "open")
       ELSE Returns(Partial(reading.buf), IF reading.buf = <<>> THEN "closed" ELSE "open")
    /\ UNCHANGED <<ready, out, sending, wire, peer>>

ReceiveFails ==
    /\ reading # None /\ peer = "reset" /\ Returns(<<>>, "failed")
    /\ UNCHANGED <<ready, out, sending, wire, peer>>

StreamNext ==
    \/ \E e \in Ends, again \in BOOLEAN : SetSocket(e, again)
    \/ \E total \in Totals :
          \/ CallSend(total)
          \/ \E call \in {"recv", "recv_n"} : Call(call, total)
    \/ \E k \in 1..Capacity : SendSome(k) \/ ReceiveSome(k)
    \/ SendInterrupted \/ SendAgain \/ SendFails \/ Close \/ Reset
    \/ ReceiveEnd \/ ReceiveAgain \/ ReceiveFails

StreamSpec == StreamInit /\ [][StreamNext]_streamvars
-----------------------------------------------------------------------------
(* Properties.                                                             *)

Taken == out + (IF sending = None THEN 0 ELSE sending.done)
InHand == IF reading = None THEN <<>> ELSE reading.buf

\* Whatever the system calls do, the receiver has a beginning of what was to be
\* sent, each byte once and in order, and while the connection stands no byte is
\* between the two ends but on its way (tcp.c:63-108).
Intact ==
    /\ got = [i \in DOMAIN got |-> i]
    /\ peer # "reset" /\ saw = "open" =>
          got \o InHand \o wire = [i \in 1..Taken |-> i]

\* A receiver that is told of the end has all there was when it reads with recv,
\* and misses less than one call asks for with recv_n; recv_n also tells of an
\* end that is none on a socket that is not ready (tcp.c:71-78, tcp.h:108-116).
EndIsTold ==
    saw' = "closed" /\ saw = "open" =>
        /\ reading.call = "recv" => peer = "closed" /\ Len(got) = out
        /\ reading.call = "recv_n" =>
              \/ peer = "closed" /\ out - Len(got) < reading.total
              \/ peer = "open" /\ ready["receiver"] /\ reading.buf = <<>>

\* The bytes are whole, and the end is told only when it is one, but for the
\* exceptions named (tcp.c:63-108).
StreamKept == [][Intact' /\ EndIsTold]_streamvars
=============================================================================
