------------------------------ MODULE ShmQueueInv -----------------------------
(***************************************************************************)
(* The inductive invariant of the shared-memory queue: where the unread    *)
(* blocks lie in the ring, in both of its shapes, and what each process    *)
(* may rely on at each step of its call.                                   *)
(*                                                                         *)
(* The ring is straight when tail <= head (the unread blocks lie between   *)
(* them) and wrapped when head < tail (they lie above tail, up to the      *)
(* place where the writer turned, and then below head).                    *)
(***************************************************************************)
EXTENDS ShmQueue

Wrapped == head < tail
N == Len(unread)
Block(i) == mem[unread[i]]
End(i) == unread[i] + Block(i).len

\* The writer turned at p: a PAD block stands there or no header fits.
TurnMark(p) == LEN - p < PAGE /\ (LEN - p < BLK \/ mem[p].type = "pad")

\* Every unread block is whole and inside the ring, in its shape's range.
BlocksInv ==
    \A i \in 1..N :
        /\ Block(i) \in Msg
        /\ IF Wrapped THEN \/ tail <= unread[i] /\ End(i) <= LEN
                           \/ End(i) <= head
                      ELSE tail <= unread[i] /\ End(i) <= head

\* In the order of the pushes they do not overlap, and those above tail
\* come before those below head.
OrderInv ==
    \A i, j \in 1..N : i < j =>
        \/ End(i) <= unread[j] /\ (Wrapped /\ tail <= unread[j] => tail <= unread[i])
        \/ Wrapped /\ tail <= unread[i] /\ unread[j] < tail

\* Each begins where the one before ends, or at the start after a turn.
ChainInv ==
    \A i \in 1..N-1 :
        \/ unread[i+1] = End(i)
        \/ Wrapped /\ tail <= unread[i] /\ unread[i+1] = HDR /\ TurnMark(End(i))

\* The first is at tail, and head is where the last one ends, or tail (head)
\* is about to follow (has just taken) a turn.
EndsInv ==
    IF N = 0
    THEN head = tail \/ (Wrapped /\ head = HDR /\ TurnMark(tail))
    ELSE /\ \/ unread[1] = tail
            \/ Wrapped /\ unread[1] = HDR /\ TurnMark(tail)
         /\ \/ head = End(N)
            \/ Wrapped /\ tail <= unread[N] /\ head = HDR /\ TurnMark(End(N))

\* Once the writer has turned it keeps a page away from tail.
GapInv == Wrapped => head = HDR \/ head + PAGE <= tail

ProducerInv ==
    /\ mb = NoMsg <=> ppc = "idle"
    /\ ppc \in {"wrap", "turn"} =>
           ~Wrapped /\ HDR < tail /\ Surplus < mb.len
    /\ ppc = "turn" => BLK <= Surplus /\ mem[head].type = "pad"
    /\ ppc \in {"behind", "room", "copy", "publish"} => head + mb.len <= LEN
    /\ ppc \in {"copy", "publish"} /\ Wrapped => head + mb.len + PAGE <= tail
    /\ ppc = "publish" => mem[head] = mb

ConsumerInv ==
    LET FirstAtTail == N > 0 /\ unread[1] = tail IN
    /\ cpc = "align" => FirstAtTail \/ Wrapped
    /\ cpc = "turn" => Wrapped
    /\ cpc = "recheck" => FirstAtTail \/ (N = 0 /\ tail = HDR /\ head = HDR)
    /\ cpc = "load" => FirstAtTail
    /\ cpc = "use" <=> held # NoBlock
    /\ cpc = "use" => mem[held] \in Msg /\ held + mem[held].len = tail
    /\ cpc # "exited"

\* Where the blocks lie: what depends on the shared words alone.
Layout == BlocksInv /\ OrderInv /\ ChainInv /\ EndsInv /\ GapInv

IInv == TypeOK /\ Layout /\ ProducerInv /\ ConsumerInv
==============================================================================
