------------------------------- MODULE ShmQueue -------------------------------
(***************************************************************************)
(* One shared-memory queue of AsyncServ (src/async/shmq.c): a ring of      *)
(* variable-length blocks in an anonymous shared mapping, written by one   *)
(* process with shmq_push and read by one other process with shmq_pop,     *)
(* without a lock.  The only words both processes touch are the offsets    *)
(* `head' (moved by the writer) and `tail' (moved by the reader), and the  *)
(* block headers; a pipe beside the ring wakes the reader.                 *)
(*                                                                         *)
(* One action is one access to a shared word, so the two calls interleave  *)
(* as finely as the compiled code does.  (The object code of the           *)
(* repository keeps the order of the source: header and data are stored    *)
(* before `head', the PAD header before the `head' that makes it visible;  *)
(* x86 keeps both orders.)  The reader gets a pointer into the ring: the   *)
(* block it looks at, `held', lies outside [tail, head) already.           *)
(***************************************************************************)
EXTENDS Integers, Sequences

CONSTANTS HDR,      \* sizeof(shm_head_t), the first offset a block can have
          BLK,      \* sizeof(shm_block_t), the header in front of the data
          PAGE,     \* page_size, the longest block shmq_push takes
          LEN,      \* shmq_length, the size of the mapping
          TRIES,    \* times shmq_push looks for room, 10 in the code
          PIPECAP,  \* bytes the pipe holds before write() fails with EAGAIN
          Val,      \* what blocks carry (ids, fds and data), opaque here
          NoVal     \* what a PAD block and a free byte carry

\* The sizes for which the ring works.  The code checks none of them: the
\* defaults are 12, 13, 8192 and 2^26.
ASSUME SizesAssumption ==
    /\ HDR \in Nat \ {0} /\ BLK \in Nat \ {0}
    /\ PAGE \in Nat /\ LEN \in Nat
    /\ TRIES \in Nat \ {0} /\ PIPECAP \in Nat \ {0}
    /\ BLK <= PAGE
    /\ HDR + PAGE <= LEN

VARIABLES head, tail,   \* shm_head: the writer's and the reader's offset
          mem,          \* the block header found at each offset
          pipe,         \* wake-up bytes in the pipe
          ppc, mb, cnt, \* the writer: where it is in shmq_push, its locals
          cpc, held,    \* the reader: where it is in shmq_pop, the block it has
          unread        \* history: where the published, unread blocks start

prodVars == <<ppc, mb, cnt>>
consVars == <<cpc, held>>
vars == <<head, tail, mem, pipe, ppc, mb, cnt, cpc, held, unread>>

Offset == HDR..LEN
NoBlock == 0            \* held: no pointer into the ring is in use

Msg == [type : {"data"}, len : BLK..PAGE, val : Val]
Request == [type : {"data"}, len : BLK..PAGE+1, val : Val]
PadBlock(n) == [type |-> "pad", len |-> n, val |-> NoVal]
Junk == [type |-> "junk", len |-> 0, val |-> NoVal]
NoMsg == Junk           \* mb between two calls

\* The bytes of a block that were ever written: only the header of a PAD.
Extent(b) == IF b.type = "pad" THEN BLK ELSE b.len

\* Storing b, n bytes long, at offset p: a block of which any byte is
\* overwritten is a block no longer.
Store(m, p, n, b) ==
    [o \in Offset |-> IF o = p THEN b
                      ELSE IF o < p + n /\ p < o + Extent(m[o]) THEN Junk
                      ELSE m[o]]

Init ==
    /\ head = HDR /\ tail = HDR
    /\ mem = [o \in Offset |-> Junk]
    /\ pipe = 0
    /\ ppc = "idle" /\ mb = NoMsg /\ cnt = 0
    /\ cpc = "idle" /\ held = NoBlock
    /\ unread = <<>>

------------------------------------------------------------------------------
(* shmq_push, run by the writer *)

\* A block longer than a page is refused at once and nothing changes.
PushCall(b) ==
    /\ ppc = "idle"
    /\ b.len <= PAGE
    /\ mb' = b
    /\ ppc' = "align"
    /\ UNCHANGED <<head, tail, mem, pipe, cnt, consVars, unread>>

\* Mutated forms: the ring's length taken for the length behind its header,
\* and a page kept free at the end of the ring as well.
SurplusBehindHeader == LEN + HDR - head
SurplusLessPage == LEN - head - PAGE

Surplus == LEN - head

\* shmq_push returns to its caller: its locals are gone.
PushReturn == ppc' = "idle" /\ mb' = NoMsg /\ cnt' = 0

\* align_queue_head: the block fits between head and the end of the ring ...
AlignFits ==
    /\ ppc = "align"
    /\ Surplus >= mb.len
    /\ ppc' = "behind"
    /\ UNCHANGED <<head, tail, mem, pipe, mb, cnt, consVars, unread>>

\* ... or does not, and the reader has not left the first block: full ...
AlignFull ==
    /\ ppc = "align"
    /\ Surplus < mb.len
    /\ tail = HDR
    /\ PushReturn
    /\ UNCHANGED <<head, tail, mem, pipe, consVars, unread>>

\* ... or head has to go back to the start of the ring.
AlignWrap ==
    /\ ppc = "align"
    /\ Surplus < mb.len
    /\ tail # HDR
    /\ ppc' = "wrap"
    /\ UNCHANGED <<head, tail, mem, pipe, mb, cnt, consVars, unread>>

\* No header fits in what is left: head just moves, the reader will see that
\* by itself.  The branch before it, which the code logs as a bug ("should be
\* impossible"), moves the reader's tail as well.
WrapBug == ppc = "wrap" /\ tail > head

WrapShort ==
    /\ ppc = "wrap"
    /\ WrapBug \/ Surplus < BLK
    /\ head' = HDR
    /\ tail' = IF WrapBug THEN HDR ELSE tail
    /\ ppc' = "behind"
    /\ UNCHANGED <<mem, pipe, mb, cnt, consVars, unread>>

\* Otherwise what is left becomes a PAD block, and then head moves.
WrapPad ==
    /\ ppc = "wrap"
    /\ tail <= head
    /\ Surplus >= BLK
    /\ mem' = Store(mem, head, BLK, PadBlock(Surplus))
    /\ ppc' = "turn"
    /\ UNCHANGED <<head, tail, pipe, mb, cnt, consVars, unread>>

TurnHead ==
    /\ ppc = "turn"
    /\ head' = HDR
    /\ ppc' = "behind"
    /\ UNCHANGED <<tail, mem, pipe, mb, cnt, consVars, unread>>

\* The room test reads tail twice, once on each side of its `&&'.
NotBehind ==
    /\ ppc = "behind"
    /\ tail <= head
    /\ ppc' = "copy"
    /\ UNCHANGED <<head, tail, mem, pipe, mb, cnt, consVars, unread>>

Behind ==
    /\ ppc = "behind"
    /\ tail > head
    /\ ppc' = "room"
    /\ UNCHANGED <<head, tail, mem, pipe, mb, cnt, consVars, unread>>

\* A page more than the block is kept free: the block the reader still
\* looks at lies just below tail and is at most a page long.
NoRoomForBlock == tail < head + mb.len      \* mutated form: no page kept
NoRoom == tail < head + mb.len + PAGE

Room ==
    /\ ppc = "room"
    /\ ~NoRoom
    /\ ppc' = "copy"
    /\ UNCHANGED <<head, tail, mem, pipe, mb, cnt, consVars, unread>>

Retry ==    \* usleep(5)
    /\ ppc = "room"
    /\ NoRoom
    /\ cnt + 1 < TRIES
    /\ cnt' = cnt + 1
    /\ ppc' = "behind"
    /\ UNCHANGED <<head, tail, mem, pipe, mb, consVars, unread>>

GiveUp ==
    /\ ppc = "room"
    /\ NoRoom
    /\ cnt + 1 = TRIES
    /\ PushReturn
    /\ UNCHANGED <<head, tail, mem, pipe, consVars, unread>>

Copy ==
    /\ ppc = "copy"
    /\ mem' = Store(mem, head, mb.len, mb)
    /\ ppc' = "publish"
    /\ UNCHANGED <<head, tail, pipe, mb, cnt, consVars, unread>>

Publish ==
    /\ ppc = "publish"
    /\ head' = head + mb.len
    /\ unread' = Append(unread, head)
    /\ ppc' = "notify"
    /\ UNCHANGED <<tail, mem, pipe, mb, cnt, consVars>>

\* One byte into the non-blocking pipe; a full pipe is left as it is.
Notify ==
    /\ ppc = "notify"
    /\ pipe' = IF pipe < PIPECAP THEN pipe + 1 ELSE pipe
    /\ PushReturn
    /\ UNCHANGED <<head, tail, mem, consVars, unread>>

------------------------------------------------------------------------------
(* shmq_pop, run by the reader.  On an empty queue it returns -1 at once    *)
(* and nothing changes.                                                     *)

PopCall ==
    /\ cpc = "idle"
    /\ tail # head
    /\ cpc' = "align"
    /\ UNCHANGED <<head, tail, mem, pipe, prodVars, held, unread>>

\* align_queue_tail: nothing to do while tail has not passed head ...
AlignTail ==
    /\ cpc = "align"
    /\ cpc' = IF head >= tail THEN "recheck" ELSE "turn"
    /\ UNCHANGED <<head, tail, mem, pipe, prodVars, held, unread>>

\* ... and else tail follows head to the start of the ring when it stands
\* at the place from where head went back.
TailAtPad == mem[tail].type = "pad"         \* mutated form
TailAtTurn == LEN - tail < BLK \/ mem[tail].type = "pad"

TurnTail ==
    /\ cpc = "turn"
    /\ tail' = IF TailAtTurn THEN HDR ELSE tail
    /\ cpc' = "recheck"
    /\ UNCHANGED <<head, mem, pipe, prodVars, held, unread>>

\* Mutated form: the second test for an empty queue left out.
RecheckNot ==
    /\ cpc = "recheck"
    /\ cpc' = "load"
    /\ UNCHANGED <<head, tail, mem, pipe, prodVars, held, unread>>

\* Empty after all: the writer has only wrapped.
Recheck ==
    /\ cpc = "recheck"
    /\ cpc' = IF tail = head THEN "idle" ELSE "load"
    /\ UNCHANGED <<head, tail, mem, pipe, prodVars, held, unread>>

\* The check compiled in with DEBUG, which ends the process.
TailOverflow ==
    LET n == mem[tail].len IN
    \/ n < BLK
    \/ tail < head /\ tail + n > head
    \/ tail > head /\ tail + n > LEN

\* "too large packet": shmq_pop fails and leaves the block where it is.
TooLarge == mem[tail].len > PAGE

\* Otherwise the caller gets a pointer to the block and tail passes it.
Load ==
    /\ cpc = "load"
    /\ IF TailOverflow \/ TooLarge
       THEN /\ cpc' = IF TailOverflow THEN "exited" ELSE "idle"
            /\ UNCHANGED <<tail, held, unread>>
       ELSE /\ cpc' = "use"
            /\ held' = tail
            /\ tail' = tail + mem[tail].len
            /\ unread' = SubSeq(unread, 2, Len(unread))
    /\ UNCHANGED <<head, mem, pipe, prodVars>>

\* The caller (handle_send_queue, handle_recv_queue) is done with the block
\* and is about to pop again.
Release ==
    /\ cpc = "use"
    /\ held' = NoBlock
    /\ cpc' = "idle"
    /\ UNCHANGED <<head, tail, mem, pipe, prodVars, unread>>

\* handle_pipe_event: the reader empties the pipe, between two calls.
DrainPipe ==
    /\ cpc = "idle"
    /\ pipe > 0
    /\ pipe' = 0
    /\ UNCHANGED <<head, tail, mem, prodVars, consVars, unread>>

------------------------------------------------------------------------------
Producer ==
    \/ \E b \in Request : PushCall(b)
    \/ AlignFits \/ AlignFull \/ AlignWrap
    \/ WrapShort \/ WrapPad \/ TurnHead
    \/ NotBehind \/ Behind \/ Room \/ Retry \/ GiveUp
    \/ Copy \/ Publish \/ Notify

Consumer ==
    \/ PopCall \/ AlignTail \/ TurnTail \/ Recheck
    \/ Load \/ Release \/ DrainPipe

Next == Producer \/ Consumer

Spec == Init /\ [][Next]_vars

------------------------------------------------------------------------------
(* Properties *)

TypeOK ==
    /\ head \in Offset /\ tail \in Offset
    /\ mem \in [Offset -> Msg \cup {Junk} \cup {PadBlock(n) : n \in BLK..PAGE}]
    /\ pipe \in 0..PIPECAP
    /\ ppc \in {"idle", "align", "wrap", "turn", "behind", "room", "copy",
                "publish", "notify"}
    /\ mb \in Msg \cup {NoMsg}
    /\ cnt \in 0..TRIES-1
    /\ cpc \in {"idle", "align", "turn", "recheck", "load", "use", "exited"}
    /\ held \in Offset \cup {NoBlock}
    /\ unread \in Seq(Offset)

\* Neither process ever finds the queue corrupt: the writer never takes the
\* branch of align_queue_head that is logged as a bug (shmq.c:81-91) and the
\* reader never fails the overflow check that ends it (shmq.c:126-135), nor
\* meets a block too large to pop, on which it would stay for ever.
NeverCorrupt ==
    /\ ~WrapBug
    /\ cpc # "exited"
    /\ cpc = "load" => ~TailOverflow /\ ~TooLarge

\* The block the reader got from shmq_pop does not change while it looks at
\* it, although tail has passed it already: the writer keeps a page clear
\* ("prevent overwriting the buffer which shmq_pop refers to", shmq.c:167).
HeldIntact ==
    [][cpc = "use" /\ cpc' = "use" => mem'[held] = mem[held]]_vars

\* When nothing is unread and the ring has three pages, there is room for
\* any block, even right after the writer went back to the start and before
\* the reader has followed (nothing wakes the reader to make it follow).
EmptyRingHasRoom ==
    HDR + 3 * PAGE <= LEN /\ unread = <<>> /\ tail # head
        => tail >= head + 2 * PAGE

\* The ring is a first-in first-out channel: what shmq_push accepted is what
\* shmq_pop lends, whole, once and in the order of the pushes.
Fifo == INSTANCE BlockFifo WITH
    offered <- IF ppc = "notify" THEN NoMsg ELSE mb,
    queue   <- [i \in 1..Len(unread) |-> mem[unread[i]]],
    lent    <- IF cpc = "use" THEN mem[held] ELSE NoMsg

FifoSpec == Fifo!Spec
==============================================================================
