---------------------------- MODULE ShmQueueProofs ----------------------------
(***************************************************************************)
(* The shared-memory queue works for every size the assumption allows:     *)
(* the invariant of ShmQueueInv is inductive, it implies the safety        *)
(* properties of ShmQueue, and every step of the ring is a step of         *)
(* BlockFifo or leaves it as it is.                                        *)
(***************************************************************************)
EXTENDS ShmQueueInv, SequenceTheorems, TLAPS

------------------------------------------------------------------------------
(* What Store does to the header at an offset. *)

LEMMA StoreType ==
    ASSUME NEW S, NEW m \in [Offset -> S], Junk \in S, NEW b \in S,
           NEW p, NEW n
    PROVE  Store(m, p, n, b) \in [Offset -> S]
BY DEF Store

LEMMA StoreAt ==
    ASSUME NEW m, NEW p \in Offset, NEW n, NEW b
    PROVE  Store(m, p, n, b)[p] = b
BY DEF Store

\* A block that ends before the stored bytes, or begins after them, stays.
LEMMA StoreElse ==
    ASSUME NEW m, NEW p \in Int, NEW n \in Int, NEW b, NEW o \in Offset,
           o # p, Extent(m[o]) \in Int,
           o + Extent(m[o]) <= p \/ p + n <= o
    PROVE  Store(m, p, n, b)[o] = m[o]
BY SizesAssumption DEF Store, Offset

------------------------------------------------------------------------------
(* Type facts used everywhere. *)

LEMMA MsgFacts ==
    ASSUME NEW b \in Msg
    PROVE  /\ b.type = "data" /\ b.len \in BLK..PAGE /\ b.len \in Int
           /\ Extent(b) = b.len
           /\ b # NoMsg
BY SizesAssumption DEF Msg, Extent, NoMsg, Junk

LEMMA SizeFacts ==
    /\ HDR \in Int /\ BLK \in Int /\ PAGE \in Int /\ LEN \in Int
    /\ 0 < HDR /\ 0 < BLK /\ BLK <= PAGE /\ HDR + PAGE <= LEN
    /\ HDR \in Offset /\ NoBlock \notin Offset
BY SizesAssumption DEF Offset, NoBlock

------------------------------------------------------------------------------
(* What is left of a sequence without its first element. *)

LEMMA DropFirst ==
    ASSUME NEW S, NEW s \in Seq(S), NEW n \in Nat, n = Len(s), n > 0
    PROVE  /\ SubSeq(s, 2, n) \in Seq(S)
           /\ Len(SubSeq(s, 2, n)) = n - 1
           /\ \A i \in 1..n-1 : SubSeq(s, 2, n)[i] = s[i+1]
<1>1. SubSeq(s, 2, n) \in Seq(S)
  BY SubSeqProperties
<1>2. Len(SubSeq(s, 2, n)) = n - 1
  OBVIOUS
<1>3. \A i \in 1..n-1 : SubSeq(s, 2, n)[i] = s[i+1]
  OBVIOUS
<1> QED
  BY <1>1, <1>2, <1>3

------------------------------------------------------------------------------
(* The invariant is inductive. *)

LEMMA InitIInv == Init => IInv
<1> SUFFICES ASSUME Init PROVE IInv
  OBVIOUS
<1> USE SizesAssumption DEF Init
<1>1. TypeOK
  BY DEF TypeOK, Offset, NoBlock, NoMsg
<1>2. Layout
  BY DEF Layout, BlocksInv, OrderInv, ChainInv, EndsInv, GapInv, N, Wrapped
<1>3. ProducerInv /\ ConsumerInv
  BY DEF ProducerInv, ConsumerInv, NoBlock, NoMsg
<1> QED
  BY <1>1, <1>2, <1>3 DEF IInv

\* Where the blocks lie depends on the shared words alone.
LEMMA LayoutFrame ==
    ASSUME Layout, UNCHANGED <<head, tail, mem, unread>>
    PROVE  Layout'
BY DEF Layout, BlocksInv, OrderInv, ChainInv, EndsInv, GapInv, N, Wrapped,
       Block, End, TurnMark

\* The writer's steps that touch only its locals.
LEMMA QuietProducer ==
    ASSUME IInv,
           \/ \E b \in Request : PushCall(b)
           \/ AlignFits \/ AlignFull \/ AlignWrap
           \/ NotBehind \/ Behind \/ Room \/ Retry \/ GiveUp \/ Notify
    PROVE  IInv'
<1> USE SizesAssumption DEF IInv
<1>1. UNCHANGED <<head, tail, mem, unread, consVars>>
  BY DEF PushCall, AlignFits, AlignFull, AlignWrap, NotBehind, Behind, Room,
         Retry, GiveUp, Notify
<1>2. Layout'
  BY <1>1, LayoutFrame
<1>3. ConsumerInv'
  BY <1>1 DEF ConsumerInv, consVars, Wrapped, N
<1>4. TypeOK' /\ ProducerInv'
  <2> USE DEF TypeOK, ProducerInv, Wrapped, Surplus
  <2>1. CASE \E b \in Request : PushCall(b)
    <3>1. PICK b \in Request : PushCall(b)
      BY <2>1
    <3>2. b \in Msg
      BY <3>1 DEF PushCall, Request, Msg
    <3> QED
      BY <1>1, <3>1, <3>2, MsgFacts DEF PushCall, consVars
  <2>2. CASE AlignFits
    BY <1>1, <2>2, MsgFacts DEF AlignFits, consVars, Offset
  <2>3. CASE AlignFull
    BY <1>1, <2>3 DEF AlignFull, PushReturn, consVars
  <2>4. CASE AlignWrap
    <3>1. mb \in Msg /\ mb.len \in BLK..PAGE
      BY <2>4, MsgFacts DEF AlignWrap
    <3>2. ~Wrapped
      BY <2>4, <3>1, SizeFacts DEF AlignWrap, Layout, GapInv, Offset
    <3> QED
      BY <1>1, <2>4, <3>1, <3>2 DEF AlignWrap, consVars, Offset
  <2>5. CASE NotBehind
    BY <1>1, <2>5 DEF NotBehind, consVars, Offset
  <2>6. CASE Behind
    BY <1>1, <2>6 DEF Behind, consVars
  <2>7. CASE Room
    BY <1>1, <2>7, MsgFacts DEF Room, NoRoom, consVars, Offset
  <2>8. CASE Retry
    BY <1>1, <2>8 DEF Retry, consVars
  <2>9. CASE GiveUp
    BY <1>1, <2>9 DEF GiveUp, PushReturn, consVars
  <2>10. CASE Notify
    BY <1>1, <2>10 DEF Notify, PushReturn, consVars
  <2> QED
    BY <2>1, <2>2, <2>3, <2>4, <2>5, <2>6, <2>7, <2>8, <2>9, <2>10
<1> QED
  BY <1>2, <1>3, <1>4

\* head goes back to the start: a straight ring becomes a wrapped one, and
\* the place head leaves carries the mark of the turn.
LEMMA WrapHead ==
    ASSUME IInv, WrapShort \/ TurnHead
    PROVE  IInv'
<1> USE SizesAssumption DEF IInv
<1>1. /\ ppc \in {"wrap", "turn"} /\ ~Wrapped /\ HDR < tail
      /\ head' = HDR /\ UNCHANGED <<tail, mem, unread, pipe, mb, cnt, consVars>>
      /\ ppc' = "behind"
  BY DEF WrapShort, TurnHead, WrapBug, ProducerInv, Wrapped, TypeOK, Offset
<1>2. mb \in Msg /\ mb.len \in BLK..PAGE
  BY <1>1, MsgFacts DEF ProducerInv, TypeOK
<1>3. Wrapped'
  BY <1>1 DEF Wrapped, TypeOK, Offset
<1>4. TurnMark(head)
  BY <1>1, <1>2 DEF WrapShort, TurnHead, WrapBug, TurnMark, ProducerInv,
                    Surplus, Wrapped, TypeOK, Offset
<1>5. Layout'
  <2> USE <1>1, <1>3 DEF Layout, N, Block, End, TurnMark
  <2> DEFINE E(i) == unread[i] + mem[unread[i]].len
  <2>1. \A i \in 1..N : /\ tail <= unread[i] /\ E(i) <= head
                        /\ unread[i] \in Int /\ E(i) \in Int
    BY DEF BlocksInv, Msg, TypeOK, Offset
  <2>2. BlocksInv'
    BY <2>1 DEF BlocksInv, TypeOK, Offset
  <2>3. OrderInv'
    BY <2>1 DEF OrderInv, Wrapped
  <2>4. ChainInv'
    BY DEF ChainInv, Wrapped
  <2>5. EndsInv'
    BY <1>4, <2>1 DEF EndsInv, Wrapped, TypeOK
  <2>6. GapInv'
    BY DEF GapInv
  <2> QED
    BY <2>2, <2>3, <2>4, <2>5, <2>6
<1>6. TypeOK'
  BY <1>1 DEF TypeOK, Offset, consVars
<1>7. ProducerInv'
  BY <1>1, <1>2, SizeFacts, MsgFacts DEF ProducerInv
<1>8. ConsumerInv'
  BY <1>1, <1>3 DEF ConsumerInv, consVars, N, Wrapped
<1> QED
  BY <1>5, <1>6, <1>7, <1>8

\* Storing into the free part of the ring leaves every block alone that the
\* invariant speaks of.
LEMMA StoreFrame ==
    ASSUME IInv, NEW b \in Msg \cup {PadBlock(k) : k \in BLK..PAGE},
           NEW n \in Nat \ {0}, n <= PAGE,
           mem' = Store(mem, head, n, b),
           Wrapped => head + n + PAGE <= tail,
           UNCHANGED <<head, tail, unread, consVars>>
    PROVE  /\ Layout' /\ ConsumerInv'
           /\ cpc = "use" => mem'[held] = mem[held]
           /\ \A i \in 1..N : mem'[unread[i]] = mem[unread[i]]
<1> USE SizesAssumption DEF IInv
<1>1. /\ head \in Offset /\ head \in Int /\ tail \in Int
      /\ \A i \in 1..N : unread[i] \in Offset /\ unread[i] \in Int
  BY DEF TypeOK, Offset, N
<1>2. \A o \in Offset : Extent(mem[o]) \in Int
  BY DEF TypeOK, Extent, Msg, Junk, PadBlock
<1>3. \A i \in 1..N : /\ Block(i) \in Msg /\ Extent(Block(i)) = Block(i).len
                      /\ Block(i).len \in BLK..PAGE
  BY MsgFacts DEF Layout, BlocksInv
<1>4. ASSUME NEW i \in 1..N, Wrapped, tail <= unread[i]
       PROVE  End(i) \in Offset /\ tail <= End(i)
  <2>1. /\ End(i) = unread[i] + Block(i).len
        /\ unread[i] \in Offset /\ Block(i).len \in BLK..PAGE
    BY <1>1, <1>3 DEF End
  <2>2. End(i) <= LEN \/ End(i) <= head
    BY <1>4 DEF Layout, BlocksInv
  <2> HIDE DEF IInv, End, Block, N
  <2> QED
    BY <1>1, <1>4, <2>1, <2>2 DEF Offset, Wrapped
<1>5. \A i \in 1..N : mem'[unread[i]] = mem[unread[i]]
  <2> SUFFICES ASSUME NEW i \in 1..N PROVE mem'[unread[i]] = mem[unread[i]]
    OBVIOUS
  <2>1. unread[i] # head /\ (End(i) <= head \/ head + n <= unread[i])
    BY <1>1, <1>3 DEF Layout, BlocksInv, End, Wrapped
  <2> QED
    BY <1>1, <1>2, <1>3, <2>1, StoreElse DEF Block, End
<1>6. ASSUME NEW p \in Offset, Wrapped, tail <= p, mem[p].type = "pad"
      PROVE  mem'[p] = mem[p]
  BY <1>1, <1>2, <1>6, StoreElse DEF Wrapped, Offset
<1>7. ASSUME NEW p \in Offset, Wrapped, tail <= p, TurnMark(p)
      PROVE  LEN - p < PAGE /\ (LEN - p < BLK \/ mem'[p].type = "pad")
  BY <1>6, <1>7 DEF TurnMark
<1>8. cpc = "use" => mem'[held] = mem[held]
  <2> SUFFICES ASSUME cpc = "use" PROVE mem'[held] = mem[held]
    OBVIOUS
  <2>1. /\ held \in Offset /\ held \in Int /\ mem[held] \in Msg
        /\ held + mem[held].len = tail
    BY DEF ConsumerInv, TypeOK, Offset
  <2>2. Extent(mem[held]) = mem[held].len /\ mem[held].len \in BLK..PAGE
    BY <2>1, MsgFacts
  <2>3. held # head /\ (tail <= head \/ head + n <= held)
    BY <1>1, <2>1, <2>2 DEF Wrapped
  <2>4. held + Extent(mem[held]) <= head \/ head + n <= held
    BY <1>1, <2>1, <2>2, <2>3
  <2> QED
    BY <1>1, <2>1, <2>2, <2>3, <2>4, StoreElse
<1>9. Layout'
  <2> USE <1>1, <1>5 DEF Layout, N, Block, End, Wrapped
  <2>0. /\ unread' = unread /\ N' = N /\ Wrapped' = Wrapped
        /\ \A i \in 1..N : unread[i] + mem'[unread[i]].len = End(i)
    OBVIOUS
  <2>1. BlocksInv'
    BY DEF BlocksInv
  <2>2. OrderInv'
    BY DEF OrderInv
  <2>3. ChainInv'
    <3> SUFFICES ASSUME NEW i \in (1..N-1)'
                 PROVE  (\/ unread[i+1] = End(i)
                         \/ Wrapped /\ tail <= unread[i] /\ unread[i+1] = HDR
                            /\ TurnMark(End(i)))'
      BY DEF ChainInv
    <3>1. i \in 1..N-1 /\ i \in 1..N
      BY <2>0 DEF TypeOK
    <3>2. End(i)' = End(i)
      BY <2>0, <3>1
    <3>3. \/ unread[i+1] = End(i)
          \/ Wrapped /\ tail <= unread[i] /\ unread[i+1] = HDR /\ TurnMark(End(i))
      BY <3>1 DEF ChainInv
    <3>4. CASE unread[i+1] = End(i)
      <4> HIDE DEF IInv, Layout, N, Block, End, Wrapped
      <4> QED
        BY <2>0, <3>2, <3>4
    <3>5. CASE /\ Wrapped /\ tail <= unread[i] /\ unread[i+1] = HDR
               /\ TurnMark(End(i))
      <4>1. End(i) \in Offset /\ tail <= End(i)
        BY <1>4, <3>1, <3>5
      <4> HIDE DEF IInv, Layout, N, Block, End, Wrapped
      <4>2. LEN - End(i) < PAGE /\ (LEN - End(i) < BLK \/ mem'[End(i)].type = "pad")
        BY <1>7, <3>5, <4>1
      <4> QED
        BY <2>0, <3>2, <3>5, <4>2 DEF TurnMark
    <3> QED
      BY <3>3, <3>4, <3>5
  <2>4. EndsInv'
    <3>1. Wrapped /\ TurnMark(tail) =>
              LEN - tail < PAGE /\ (LEN - tail < BLK \/ mem'[tail].type = "pad")
      BY <1>7 DEF TypeOK
    <3>2. ASSUME N > 0, Wrapped, tail <= unread[N], TurnMark(End(N))
          PROVE  LEN - End(N) < PAGE
                 /\ (LEN - End(N) < BLK \/ mem'[End(N)].type = "pad")
      <4>1. N \in 1..N
        BY <3>2 DEF TypeOK
      <4>2. End(N) \in Offset /\ tail <= End(N)
        BY <1>4, <3>2, <4>1
      <4> QED
        BY <1>7, <3>2, <4>2
    <3>3. CASE N = 0
      BY <2>0, <3>1, <3>3 DEF EndsInv, TurnMark
    <3>4. CASE N # 0
      <4>1. N > 0 /\ N \in 1..N
        BY <3>4 DEF TypeOK
      <4>2. unread[N] + mem'[unread[N]].len = End(N)
        BY <2>0, <4>1
      <4> QED
        BY <2>0, <3>1, <3>2, <3>4, <4>1, <4>2 DEF EndsInv, TurnMark
    <3> QED
      BY <3>3, <3>4
  <2>5. GapInv'
    BY DEF GapInv
  <2> QED
    BY <2>1, <2>2, <2>3, <2>4, <2>5
<1>10. ConsumerInv'
  BY <1>8 DEF ConsumerInv, consVars, N, Wrapped
<1> QED
  BY <1>5, <1>8, <1>9, <1>10

LEMMA StorePad ==
    ASSUME IInv, WrapPad
    PROVE  IInv'
<1> USE SizesAssumption DEF IInv
<1>1. /\ ~Wrapped /\ HDR < tail /\ Surplus \in BLK..PAGE /\ Surplus < mb.len
      /\ mb \in Msg
  BY MsgFacts DEF WrapPad, ProducerInv, TypeOK, Surplus, Offset, Wrapped
<1>2. PadBlock(Surplus) \in {PadBlock(k) : k \in BLK..PAGE}
  BY <1>1
<1>3. Layout' /\ ConsumerInv'
  BY <1>1, <1>2, StoreFrame DEF WrapPad, consVars
<1>4. TypeOK'
  <2>1. mem' \in [Offset -> Msg \cup {Junk} \cup {PadBlock(k) : k \in BLK..PAGE}]
    BY <1>2, StoreType DEF WrapPad, TypeOK
  <2> QED
    BY <2>1 DEF WrapPad, TypeOK, consVars
<1>5. mem'[head].type = "pad"
  BY StoreAt DEF WrapPad, TypeOK, PadBlock
<1>6. ProducerInv'
  BY <1>1, <1>5, MsgFacts DEF ProducerInv, WrapPad, Wrapped, Surplus
<1> QED
  BY <1>3, <1>4, <1>6

LEMMA StoreBlock ==
    ASSUME IInv, Copy
    PROVE  IInv'
<1> USE SizesAssumption DEF IInv
<1>1. mb \in Msg /\ mb.len \in BLK..PAGE
  BY MsgFacts DEF Copy, ProducerInv, TypeOK
<1>2. Layout' /\ ConsumerInv'
  BY <1>1, StoreFrame DEF Copy, ProducerInv, consVars
<1>3. TypeOK'
  <2>1. mem' \in [Offset -> Msg \cup {Junk} \cup {PadBlock(k) : k \in BLK..PAGE}]
    BY <1>1, StoreType DEF Copy, TypeOK
  <2> QED
    BY <2>1 DEF Copy, TypeOK, consVars
<1>4. mem'[head] = mb
  BY StoreAt DEF Copy, TypeOK
<1>5. ProducerInv'
  BY <1>4 DEF ProducerInv, Copy, Wrapped
<1> QED
  BY <1>2, <1>3, <1>5

\* The stored block becomes the last of the unread ones.
LEMMA PublishBlock ==
    ASSUME IInv, Publish
    PROVE  IInv'
<1> USE SizesAssumption DEF IInv
<1>1. /\ mb \in Msg /\ mb.len \in BLK..PAGE /\ mem[head] = mb
      /\ head + mb.len <= LEN /\ (Wrapped => head + mb.len + PAGE <= tail)
  BY MsgFacts DEF Publish, ProducerInv, TypeOK
<1>2. /\ head \in Int /\ HDR <= head /\ head' = head + mb.len
      /\ head' \in Int /\ tail' = tail /\ tail \in Int /\ mem' = mem
  BY <1>1 DEF Publish, TypeOK, Offset
<1>3. /\ N \in Nat /\ N' = N + 1
      /\ \A i \in 1..N : unread'[i] = unread[i]
      /\ unread'[N+1] = head
  BY DEF Publish, TypeOK, N
<1>4. Wrapped' <=> Wrapped
  BY <1>1, <1>2, SizeFacts DEF Layout, EndsInv, BlocksInv, Wrapped
<1>5. /\ \A i \in 1..N : Block(i)' = Block(i) /\ End(i)' = End(i)
      /\ \A i : i = N + 1 => Block(i)' = mb /\ End(i)' = head'
  BY <1>1, <1>2, <1>3 DEF Block, End
<1>6. ASSUME NEW i \in 1..N
      PROVE  /\ unread[i] \in Int /\ End(i) \in Int
             /\ Block(i) \in Msg /\ unread[i] < End(i)
             /\ ~Wrapped => tail <= unread[i] /\ End(i) <= head
             /\ Wrapped => \/ tail <= unread[i] /\ End(i) <= LEN
                           \/ End(i) <= head
  <2>1. unread[i] \in Int /\ Block(i) \in Msg
    BY DEF Layout, BlocksInv, TypeOK, Offset, N
  <2>2. Block(i).len \in BLK..PAGE
    BY <2>1, MsgFacts
  <2>3. End(i) \in Int /\ unread[i] < End(i)
    BY <2>1, <2>2 DEF End
  <2> QED
    BY <1>2, <2>1, <2>3 DEF Layout, BlocksInv, Wrapped
<1>7. Layout'
  <2>1. BlocksInv'
    <3> SUFFICES ASSUME NEW i \in 1..N+1
                 PROVE  /\ Block(i)' \in Msg
                        /\ IF Wrapped THEN \/ tail <= unread'[i] /\ End(i)' <= LEN
                                           \/ End(i)' <= head'
                           ELSE tail <= unread'[i] /\ End(i)' <= head'
      BY <1>2, <1>3, <1>4 DEF BlocksInv
    <3>1. CASE i = N + 1
      BY <3>1, <1>1, <1>2, <1>3, <1>5 DEF Wrapped
    <3>2. CASE i \in 1..N
      BY <3>2, <1>1, <1>2, <1>3, <1>5, <1>6 DEF Wrapped
    <3> QED
      BY <3>1, <3>2, <1>3
  <2>2. OrderInv'
    <3> SUFFICES ASSUME NEW i \in 1..N+1, NEW j \in 1..N+1, i < j
                 PROVE  \/ /\ End(i)' <= unread'[j]
                           /\ Wrapped /\ tail <= unread'[j] => tail <= unread'[i]
                        \/ Wrapped /\ tail <= unread'[i] /\ unread'[j] < tail
      BY <1>2, <1>3, <1>4 DEF OrderInv
    <3>1. i \in 1..N
      BY <1>3
    <3>2. CASE j = N + 1
      BY <3>1, <3>2, <1>1, <1>2, <1>3, <1>5, <1>6 DEF Wrapped
    <3>3. CASE j \in 1..N
      BY <3>1, <3>3, <1>3, <1>5 DEF Layout, OrderInv
    <3> QED
      BY <3>2, <3>3, <1>3
  <2>3. ChainInv'
    <3> SUFFICES ASSUME NEW i \in 1..N
                 PROVE  \/ unread'[i+1] = End(i)'
                        \/ /\ Wrapped /\ tail <= unread'[i]
                           /\ unread'[i+1] = HDR /\ TurnMark(End(i))'
      BY <1>2, <1>3, <1>4 DEF ChainInv
    <3>1. \A q : TurnMark(q)' <=> TurnMark(q)
      BY <1>2 DEF TurnMark
    <3>2. CASE i = N
      BY <3>1, <3>2, <1>2, <1>3, <1>5 DEF Layout, EndsInv, TurnMark
    <3>3. CASE i \in 1..N-1
      BY <3>1, <3>3, <1>2, <1>3, <1>5 DEF Layout, ChainInv, TurnMark
    <3> QED
      BY <3>2, <3>3, <1>3
  <2>4. EndsInv'
    <3>1. N' # 0 /\ head' = End(N)'
      BY <1>2, <1>3, <1>1 DEF End, Block
    <3>2. \/ unread'[1] = tail
          \/ Wrapped /\ unread'[1] = HDR /\ TurnMark(tail)
      <4>1. CASE N = 0
        BY <4>1, <1>3 DEF Layout, EndsInv
      <4>2. CASE N # 0
        BY <4>2, <1>3 DEF Layout, EndsInv
      <4> QED
        BY <4>1, <4>2
    <3> QED
      BY <3>1, <3>2, <1>2, <1>4 DEF EndsInv, TurnMark
  <2>5. GapInv'
    BY <1>1, <1>2, <1>4 DEF GapInv
  <2> QED
    BY <2>1, <2>2, <2>3, <2>4, <2>5 DEF Layout
<1>8. TypeOK'
  BY <1>1 DEF Publish, TypeOK, Offset, consVars
<1>9. ProducerInv'
  BY <1>1, MsgFacts DEF ProducerInv, Publish
<1>10. ConsumerInv'
  <2>1. ~(cpc = "recheck" /\ N = 0 /\ tail = HDR /\ head = HDR) \/ unread'[1] = tail
    BY <1>3
  <2> QED
    BY <1>2, <1>3, <1>4, <2>1 DEF ConsumerInv, Publish, consVars
<1> QED
  BY <1>7, <1>8, <1>9, <1>10

\* The reader's steps that move neither offset.
LEMMA QuietConsumer ==
    ASSUME IInv, PopCall \/ AlignTail \/ Recheck \/ Release \/ DrainPipe
    PROVE  IInv'
<1> USE SizesAssumption DEF IInv
<1>1. UNCHANGED <<head, tail, mem, unread, prodVars>>
  BY DEF PopCall, AlignTail, Recheck, Release, DrainPipe
<1>2. Layout'
  BY <1>1, LayoutFrame
<1>3. ProducerInv'
  BY <1>1 DEF ProducerInv, prodVars, Wrapped, Surplus
<1>4. TypeOK'
  BY <1>1 DEF TypeOK, prodVars, PopCall, AlignTail, Recheck, Release,
              DrainPipe, consVars
<1>5. N \in Nat /\ head \in Int /\ tail \in Int
  BY DEF TypeOK, N, Offset
<1>6. ConsumerInv'
  <2> USE DEF ConsumerInv, N, Wrapped
  <2>1. CASE PopCall
    <3>1. (N > 0 /\ unread[1] = tail) \/ Wrapped
      BY <1>5, <2>1 DEF PopCall, Layout, EndsInv
    <3> QED
      BY <1>1, <2>1, <3>1 DEF PopCall
  <2>2. CASE AlignTail
    BY <1>1, <1>5, <2>2 DEF AlignTail
  <2>3. CASE Recheck
    BY <1>1, <2>3 DEF Recheck
  <2>4. CASE Release
    BY <1>1, <2>4 DEF Release
  <2>5. CASE DrainPipe
    BY <1>1, <2>5 DEF DrainPipe, consVars
  <2> QED
    BY <2>1, <2>2, <2>3, <2>4, <2>5
<1> QED
  BY <1>2, <1>3, <1>4, <1>6

\* tail follows head to the start: every block above tail has been read, and
\* the ring is straight again.
LEMMA FollowTurn ==
    ASSUME IInv, TurnTail
    PROVE  IInv'
<1> USE SizesAssumption DEF IInv
<1>1. /\ Wrapped /\ N \in Nat /\ head \in Int /\ tail \in Int /\ HDR <= head
      /\ tail <= LEN
      /\ UNCHANGED <<head, mem, unread, pipe, held, prodVars>>
  BY DEF TurnTail, ConsumerInv, TypeOK, N, Offset
<1>2. ASSUME NEW i \in 1..N
      PROVE  /\ unread[i] \in Int /\ HDR <= unread[i]
             /\ Block(i) \in Msg /\ Block(i).len \in BLK..PAGE
             /\ Block(i).type = "data"
             /\ End(i) \in Int /\ unread[i] < End(i)
  <2>1. unread[i] \in Int /\ HDR <= unread[i] /\ Block(i) \in Msg
    BY DEF Layout, BlocksInv, TypeOK, Offset, N
  <2>2. Block(i).len \in BLK..PAGE /\ Block(i).type = "data"
    BY <2>1, MsgFacts
  <2> QED
    BY <2>1, <2>2 DEF End
<1>3. CASE TailAtTurn
  <2>1. tail' = HDR /\ ~Wrapped' /\ cpc' = "recheck"
    BY <1>1, <1>3, SizeFacts DEF TurnTail, Wrapped
  <2>2. N > 0 => unread[1] = HDR
    <3> SUFFICES ASSUME N > 0, unread[1] = tail PROVE FALSE
      BY <1>1 DEF Layout, EndsInv
    <3>1. Block(1).type = "data" /\ tail + Block(1).len <= LEN
          /\ Block(1).len \in BLK..PAGE
      BY <1>1, <1>2 DEF Layout, BlocksInv, End, Wrapped
    <3>2. Block(1) = mem[tail]
      BY DEF Block
    <3> QED
      BY <1>1, <1>3, <3>1, <3>2 DEF TailAtTurn
  <2>3. \A i \in 1..N : unread[i] < tail
    <3> SUFFICES ASSUME NEW i \in 1..N, tail <= unread[i] PROVE FALSE
      BY <1>1, <1>2
    <3>1. unread[1] = HDR /\ 1 \in 1..N
      BY <1>1, <2>2
    <3> QED
      BY <1>1, <1>2, <3>1 DEF Layout, OrderInv, Wrapped
  <2>4. \A i \in 1..N : End(i) <= head
    BY <1>1, <1>2, <2>3 DEF Layout, BlocksInv
  <2>5. Layout'
    <3> USE <1>1, <2>1 DEF Layout, Block, End
    <3>1. BlocksInv'
      BY <1>2, <2>4 DEF BlocksInv, N
    <3>2. OrderInv'
      BY <1>2, <2>3 DEF OrderInv, N
    <3>3. ChainInv'
      <4>1. ASSUME NEW i \in 1..N-1 PROVE unread[i+1] = End(i)
        <5>1. i \in 1..N /\ ~(tail <= unread[i])
          BY <1>2, <2>3
        <5> QED
          BY <5>1 DEF ChainInv
      <4> QED
        BY <4>1 DEF ChainInv, N
    <3>4. EndsInv'
      <4>1. CASE N = 0
        BY <4>1, SizeFacts DEF EndsInv, N, Wrapped, TurnMark, TailAtTurn
      <4>2. CASE N # 0
        BY <4>2, <1>2, <2>2, <2>3 DEF EndsInv, N
      <4> QED
        BY <4>1, <4>2
    <3>5. GapInv'
      BY DEF GapInv
    <3> QED
      BY <3>1, <3>2, <3>3, <3>4, <3>5
  <2>6. TypeOK'
    BY <1>1, <2>1, SizeFacts DEF TypeOK, prodVars
  <2>7. ProducerInv'
    BY <1>1, <2>1 DEF ProducerInv, prodVars, Wrapped, Surplus
  <2>8. ConsumerInv'
    <3>1. (N > 0 /\ unread[1] = tail') \/ (N = 0 /\ tail' = HDR /\ head = HDR)
      <4>1. N = 0 => head = HDR
        BY <1>1 DEF Layout, EndsInv, Wrapped
      <4> QED
        BY <1>1, <2>1, <2>2, <4>1
    <3> QED
      BY <1>1, <2>1, <3>1 DEF ConsumerInv, N, TurnTail
  <2> QED
    BY <2>5, <2>6, <2>7, <2>8
<1>4. CASE ~TailAtTurn
  <2>1. tail' = tail /\ cpc' = "recheck"
    BY <1>4 DEF TurnTail
  <2>2. N > 0 /\ unread[1] = tail
    BY <1>1, <1>4 DEF Layout, EndsInv, TurnMark, TailAtTurn, Wrapped
  <2>3. Layout'
    BY <1>1, <2>1, LayoutFrame
  <2>4. TypeOK' /\ ProducerInv'
    BY <1>1, <2>1 DEF TypeOK, ProducerInv, prodVars, Wrapped, Surplus
  <2>5. ConsumerInv'
    BY <1>1, <2>1, <2>2 DEF ConsumerInv, N, TurnTail
  <2> QED
    BY <2>3, <2>4, <2>5
<1> QED
  BY <1>3, <1>4

\* The block at tail passes every check of shmq_pop.
LEMMA FirstIsGood ==
    ASSUME IInv, cpc = "load"
    PROVE  /\ N > 0 /\ unread[1] = tail /\ mem[tail] \in Msg
           /\ mem[tail].len \in BLK..PAGE
           /\ IF Wrapped THEN tail + mem[tail].len <= LEN
                         ELSE tail + mem[tail].len <= head
           /\ ~TailOverflow /\ ~TooLarge
<1> USE SizesAssumption DEF IInv
<1>1. /\ N \in Nat /\ N > 0 /\ unread[1] = tail /\ 1 \in 1..N
      /\ head \in Int /\ tail \in Int
  BY DEF ConsumerInv, TypeOK, N, Offset
<1>2. Block(1) = mem[tail] /\ mem[tail] \in Msg /\ mem[tail].len \in BLK..PAGE
  BY <1>1, MsgFacts DEF Layout, BlocksInv, Block
<1>3. IF Wrapped THEN tail + mem[tail].len <= LEN
                 ELSE tail + mem[tail].len <= head
  BY <1>1, <1>2 DEF Layout, BlocksInv, End, Wrapped
<1> QED
  BY <1>1, <1>2, <1>3 DEF TailOverflow, TooLarge, Wrapped

\* The first unread block is handed to the caller and tail passes it.
LEMMA LoadFirst ==
    ASSUME IInv, Load
    PROVE  IInv'
<1> USE SizesAssumption DEF IInv
<1>1. /\ N > 0 /\ unread[1] = tail /\ mem[tail] \in Msg
      /\ mem[tail].len \in BLK..PAGE
      /\ IF Wrapped THEN tail + mem[tail].len <= LEN
                    ELSE tail + mem[tail].len <= head
      /\ ~TailOverflow /\ ~TooLarge
  BY FirstIsGood DEF Load
<1>2. /\ cpc' = "use" /\ held' = tail /\ tail' = tail + mem[tail].len
      /\ unread' = SubSeq(unread, 2, N)
      /\ UNCHANGED <<head, mem, pipe, prodVars>>
  BY <1>1 DEF Load, N
<1>3. /\ N \in Nat /\ head \in Int /\ tail \in Int /\ tail' \in Int
      /\ tail < tail' /\ HDR <= tail /\ End(1) = tail'
  <2>1. N \in Nat /\ head \in Int /\ tail \in Int /\ HDR <= tail
    BY DEF TypeOK, N, Offset
  <2>2. End(1) = tail + mem[tail].len
    BY <1>1 DEF End, Block
  <2> HIDE DEF IInv
  <2> QED
    BY <1>1, <1>2, <2>1, <2>2
<1>4. /\ unread' \in Seq(Offset) /\ N' = N - 1
      /\ \A i \in 1..N-1 : unread'[i] = unread[i+1]
  <2>1. unread \in Seq(Offset) /\ N = Len(unread)
    BY DEF TypeOK, N
  <2>2. /\ SubSeq(unread, 2, N) \in Seq(Offset)
        /\ Len(SubSeq(unread, 2, N)) = N - 1
        /\ \A i \in 1..N-1 : SubSeq(unread, 2, N)[i] = unread[i+1]
    BY <1>1, <1>3, <2>1, DropFirst
  <2> QED
    BY <1>2, <2>2 DEF N
<1>5. ASSUME NEW i \in 1..N
      PROVE  unread[i] \in Int /\ End(i) \in Int /\ unread[i] < End(i)
  <2>1. unread[i] \in Int /\ Block(i).len \in BLK..PAGE
    BY MsgFacts DEF Layout, BlocksInv, TypeOK, Offset, N
  <2> QED
    BY <2>1 DEF End
<1>6. Wrapped' <=> Wrapped
  BY <1>1, <1>2, <1>3 DEF Wrapped
<1>7. \A i \in 1..N-1 : Block(i)' = Block(i+1) /\ End(i)' = End(i+1)
  BY <1>2, <1>4 DEF Block, End
\* a block above the old tail, other than the first, is above the new one
<1>8. ASSUME NEW i \in 2..N
      PROVE  IF Wrapped THEN tail <= unread[i] => tail' <= unread[i]
                        ELSE tail' <= unread[i]
  BY <1>1, <1>3, <1>5 DEF Layout, OrderInv, Wrapped
<1>9. Layout'
  <2>1. BlocksInv'
    <3> SUFFICES ASSUME NEW i \in 1..N-1
                 PROVE  /\ Block(i)' \in Msg
                        /\ IF Wrapped THEN \/ tail' <= unread'[i] /\ End(i)' <= LEN
                                           \/ End(i)' <= head
                           ELSE tail' <= unread'[i] /\ End(i)' <= head
      BY <1>2, <1>4, <1>6 DEF BlocksInv
    <3>1. i + 1 \in 2..N /\ i + 1 \in 1..N
      BY <1>3
    <3> QED
      BY <3>1, <1>4, <1>7, <1>8 DEF Layout, BlocksInv
  <2>2. OrderInv'
    <3> SUFFICES ASSUME NEW i \in 1..N-1, NEW j \in 1..N-1, i < j
                 PROVE  \/ /\ End(i)' <= unread'[j]
                           /\ Wrapped /\ tail' <= unread'[j] => tail' <= unread'[i]
                        \/ Wrapped /\ tail' <= unread'[i] /\ unread'[j] < tail'
      BY <1>2, <1>4, <1>6 DEF OrderInv
    <3>1. /\ i + 1 \in 2..N /\ i + 1 \in 1..N /\ j + 1 \in 2..N /\ j + 1 \in 1..N
          /\ i + 1 < j + 1
      BY <1>3
    <3>2. \/ /\ End(i+1) <= unread[j+1]
             /\ Wrapped /\ tail <= unread[j+1] => tail <= unread[i+1]
          \/ Wrapped /\ tail <= unread[i+1] /\ unread[j+1] < tail
      BY <3>1 DEF Layout, OrderInv
    <3>3. /\ unread'[i] = unread[i+1] /\ unread'[j] = unread[j+1]
          /\ End(i)' = End(i+1)
      BY <1>4, <1>7
    <3>4. /\ Wrapped /\ tail <= unread[i+1] => tail' <= unread[i+1]
          /\ unread[j+1] \in Int
      BY <1>5, <1>8, <3>1
    <3> HIDE DEF IInv
    <3> QED
      BY <1>3, <3>2, <3>3, <3>4
  <2>3. ChainInv'
    <3> SUFFICES ASSUME NEW i \in (1..N-1)'
                 PROVE  (\/ unread[i+1] = End(i)
                         \/ Wrapped /\ tail <= unread[i] /\ unread[i+1] = HDR
                            /\ TurnMark(End(i)))'
      BY DEF ChainInv
    <3>1. /\ i \in 1..N-1 /\ i + 1 \in 1..N-1 /\ i + 1 \in 2..N
      BY <1>3, <1>4
    <3>2. /\ unread'[i] = unread[i+1] /\ unread'[i+1] = unread[(i+1)+1]
          /\ End(i)' = End(i+1)
      BY <1>4, <1>7, <3>1
    <3>3. \/ unread[(i+1)+1] = End(i+1)
          \/ Wrapped /\ tail <= unread[i+1] /\ unread[(i+1)+1] = HDR
             /\ TurnMark(End(i+1))
      BY <3>1 DEF Layout, ChainInv
    <3>4. Wrapped /\ tail <= unread[i+1] => tail' <= unread[i+1]
      BY <1>8, <3>1
    <3>5. TurnMark(End(i+1)) => TurnMark(End(i))'
      BY <1>2, <3>2 DEF TurnMark
    <3> HIDE DEF IInv
    <3> QED
      BY <1>6, <3>2, <3>3, <3>4, <3>5
  <2>4. EndsInv'
    <3> USE DEF Layout, TurnMark
    <3>1. CASE N = 1
      <4>1. head = tail' \/ (Wrapped /\ head = HDR /\ TurnMark(tail'))
        <5>1. End(N) = tail' /\ EndsInv /\ N # 0
          BY <1>3, <3>1
        <5> HIDE DEF IInv, Layout, TurnMark
        <5> QED
          BY <5>1 DEF EndsInv
      <4> QED
        BY <3>1, <4>1, <1>2, <1>4, <1>6 DEF EndsInv
    <3>2. CASE N # 1
      <4>1. /\ N - 1 \in 1..N-1 /\ 1 \in 1..N-1 /\ N \in 2..N /\ (N - 1) + 1 = N
            /\ 2 \in 1..N
        BY <1>1, <1>3, <3>2
      <4>2. unread'[1] = unread[2] /\ unread'[N-1] = unread[N]
        BY <1>4, <4>1
      <4>3. \/ unread'[1] = tail'
            \/ Wrapped /\ unread'[1] = HDR /\ TurnMark(tail')
        BY <1>1, <1>3, <4>1, <4>2 DEF ChainInv
      <4>4. \/ head = End(N)
            \/ Wrapped /\ tail' <= unread'[N-1] /\ head = HDR /\ TurnMark(End(N))
        BY <1>1, <1>8, <4>1, <4>2 DEF EndsInv
      <4>5. End(N)' = End(N)
        BY <1>2, <1>4, <4>2 DEF End, Block
      <4>6. N' # 0 /\ unread'[N'] = unread'[N-1]
        BY <1>3, <1>4, <3>2
      <4>7. head' = head /\ (TurnMark(tail))' = TurnMark(tail')
            /\ (TurnMark(End(N)))' = TurnMark(End(N))
        BY <1>2, <4>5
      <4> QED
        BY <4>3, <4>4, <4>5, <4>6, <4>7, <1>6 DEF EndsInv
    <3> QED
      BY <3>1, <3>2
  <2>5. GapInv'
    BY <1>2, <1>3, <1>6, SizeFacts DEF Layout, GapInv
  <2> QED
    BY <2>1, <2>2, <2>3, <2>4, <2>5 DEF Layout
<1>10. TypeOK'
  <2>1. tail \in Offset /\ tail' \in Offset
    BY <1>1, <1>2, <1>3 DEF TypeOK, Offset, Wrapped
  <2> QED
    BY <1>2, <1>4, <2>1 DEF TypeOK, prodVars
<1>11. ProducerInv'
  BY <1>2, <1>3, <1>6 DEF ProducerInv, prodVars, Surplus, TypeOK, Msg, NoMsg, Junk
<1>12. ConsumerInv'
  BY <1>1, <1>2, <1>3, SizeFacts DEF ConsumerInv, NoBlock
<1> QED
  BY <1>9, <1>10, <1>11, <1>12

LEMMA NextIInv == IInv /\ [Next]_vars => IInv'
<1> SUFFICES ASSUME IInv, [Next]_vars PROVE IInv'
  OBVIOUS
<1>1. CASE \E b \in Request : PushCall(b)
  BY <1>1, QuietProducer
<1>2. CASE AlignFits \/ AlignFull \/ AlignWrap
  BY <1>2, QuietProducer
<1>3. CASE WrapShort \/ TurnHead
  BY <1>3, WrapHead
<1>4. CASE WrapPad
  BY <1>4, StorePad
<1>5. CASE NotBehind \/ Behind \/ Room \/ Retry \/ GiveUp \/ Notify
  BY <1>5, QuietProducer
<1>6. CASE Copy
  BY <1>6, StoreBlock
<1>7. CASE Publish
  BY <1>7, PublishBlock
<1>8. CASE PopCall \/ AlignTail \/ Recheck \/ Release \/ DrainPipe
  BY <1>8, QuietConsumer
<1>9. CASE TurnTail
  BY <1>9, FollowTurn
<1>10. CASE Load
  BY <1>10, LoadFirst
<1>11. CASE UNCHANGED vars
  <2>1. Layout'
    BY <1>11, LayoutFrame DEF vars, IInv
  <2>2. TypeOK' /\ ProducerInv' /\ ConsumerInv'
    BY <1>11 DEF vars, IInv, TypeOK, ProducerInv, ConsumerInv, Wrapped, N, Surplus
  <2> QED
    BY <2>1, <2>2 DEF IInv
<1> QED
  BY <1>1, <1>2, <1>3, <1>4, <1>5, <1>6, <1>7, <1>8, <1>9, <1>10, <1>11
     DEF Next, Producer, Consumer

\* The layout of the ring described by IInv (the place of every unread block,
\* the gap the writer keeps, what each process may rely on) always holds.
THEOREM Invariance == Spec => []IInv
BY InitIInv, NextIInv, PTL DEF Spec

------------------------------------------------------------------------------
(* What follows from it. *)

\* Offsets stay inside the mapping and headers are blocks the writer stored.
THEOREM TypeCorrect == Spec => []TypeOK
<1>1. IInv => TypeOK
  BY DEF IInv
<1> QED
  BY <1>1, Invariance, PTL

\* For every size of ring, page and header the assumption allows, neither
\* process ever finds the queue corrupt.
THEOREM QueueNeverCorrupt == Spec => []NeverCorrupt
<1>1. IInv => NeverCorrupt
  <2> SUFFICES ASSUME IInv PROVE NeverCorrupt
    OBVIOUS
  <2>1. ~WrapBug
    BY DEF IInv, ProducerInv, WrapBug, Wrapped
  <2>2. cpc # "exited"
    BY DEF IInv, ConsumerInv
  <2>3. cpc = "load" => ~TailOverflow /\ ~TooLarge
    BY FirstIsGood
  <2> QED
    BY <2>1, <2>2, <2>3 DEF NeverCorrupt
<1> QED
  BY <1>1, Invariance, PTL

\* With three pages of ring an empty queue has room for any block.
THEOREM EmptyQueueHasRoom == Spec => []EmptyRingHasRoom
<1>1. IInv => EmptyRingHasRoom
  BY SizesAssumption DEF IInv, Layout, EndsInv, TurnMark, EmptyRingHasRoom,
     TypeOK, N, Wrapped, Offset
<1> QED
  BY <1>1, Invariance, PTL

\* One step of the ring does not touch the block the reader looks at, nor any
\* unread one.
LEMMA BlocksKept ==
    ASSUME IInv, [Next]_vars
    PROVE  /\ cpc = "use" => mem'[held] = mem[held]
           /\ \A i \in 1..N : mem'[unread[i]] = mem[unread[i]]
<1> USE SizesAssumption
<1>1. CASE WrapPad
  <2>1. /\ ~Wrapped /\ Surplus \in BLK..PAGE
    BY <1>1, MsgFacts DEF IInv, WrapPad, ProducerInv, TypeOK, Surplus, Offset
  <2> QED
    BY <1>1, <2>1, StoreFrame DEF WrapPad, consVars
<1>2. CASE Copy
  <2>1. mb \in Msg /\ mb.len \in BLK..PAGE
    BY <1>2, MsgFacts DEF IInv, Copy, ProducerInv, TypeOK
  <2> QED
    BY <1>2, <2>1, StoreFrame DEF IInv, Copy, ProducerInv, consVars
<1>3. CASE ~WrapPad /\ ~Copy
  <2>1. mem' = mem
    BY <1>3 DEF Next, Producer, Consumer, vars, PushCall, AlignFits, AlignFull,
       AlignWrap, WrapShort, TurnHead, NotBehind, Behind, Room, Retry, GiveUp,
       Publish, Notify, PopCall, AlignTail, TurnTail, Recheck, Load, Release,
       DrainPipe
  <2> QED
    BY <2>1
<1> QED
  BY <1>1, <1>2, <1>3

\* The block lent to the reader never changes while it is lent.
THEOREM HeldBlockIntact == Spec => HeldIntact
<1>1. IInv /\ [Next]_vars => [cpc = "use" /\ cpc' = "use" => mem'[held] = mem[held]]_vars
  BY BlocksKept
<1> QED
  BY <1>1, Invariance, PTL DEF Spec, HeldIntact

------------------------------------------------------------------------------
(* The ring implements BlockFifo. *)

Offered == IF ppc = "notify" THEN NoMsg ELSE mb
Queue == [i \in 1..Len(unread) |-> mem[unread[i]]]
Lent == IF cpc = "use" THEN mem[held] ELSE NoMsg

LEMMA InitRefines == Init => Fifo!Init
BY DEF Init, Fifo!Init

\* The abstract queue keeps its blocks as long as none is added or taken.
LEMMA QueueFrame ==
    ASSUME IInv, [Next]_vars, unread' = unread
    PROVE  Queue' = Queue
BY BlocksKept DEF Queue, N

LEMMA LentFrame ==
    ASSUME IInv, [Next]_vars, UNCHANGED consVars
    PROVE  Lent' = Lent
BY BlocksKept DEF Lent, consVars

\* Publishing the block accepts it.
LEMMA PublishRefines ==
    ASSUME IInv, Publish
    PROVE  Offered # NoMsg /\ Offered' = NoMsg
           /\ Queue' = Append(Queue, Offered) /\ Lent' = Lent
<1>1. /\ mb \in Msg /\ mem[head] = mb /\ Offered = mb
      /\ unread \in Seq(Offset) /\ mem' = mem /\ unread' = Append(unread, head)
  BY DEF IInv, Publish, ProducerInv, TypeOK, Offered
<1>2. Offered # NoMsg /\ Offered' = NoMsg
  BY <1>1, MsgFacts DEF Publish, Offered
<1>3. Lent' = Lent
  BY DEF Publish, Lent, consVars
<1>4. Queue' = Append(Queue, mb)
  <2> DEFINE S == {mem[o] : o \in Offset} \cup {mb}
             Q == Append(Queue, mb)
  <2>1. /\ Len(unread') = Len(unread) + 1 /\ Len(unread) \in Nat
        /\ \A i \in 1..Len(unread) : unread'[i] = unread[i]
        /\ unread'[Len(unread) + 1] = head
    BY <1>1
  <2>2. /\ Queue \in Seq(S) /\ Len(Queue) = Len(unread)
        /\ \A i \in 1..Len(unread) : Queue[i] = mem[unread[i]]
    BY <1>1 DEF Queue
  <2>3. /\ Q \in Seq(S) /\ Len(Q) = Len(unread) + 1
        /\ \A i \in 1..Len(unread) : Q[i] = mem[unread[i]]
        /\ Q[Len(unread) + 1] = mb
    BY <2>2, AppendProperties
  <2>4. Queue' = [i \in 1..Len(unread)+1 |-> mem[unread'[i]]]
    BY <1>1, <2>1 DEF Queue
  <2>5. \A i \in 1..Len(unread)+1 : mem[unread'[i]] = Q[i]
    <3> HIDE DEF Q
    <3> QED
      BY <1>1, <2>1, <2>3
  <2>6. Q = [i \in 1..Len(unread)+1 |-> Q[i]]
    <3> HIDE DEF Q, S
    <3> QED
      BY <2>1, <2>3
  <2> QED
    BY <2>4, <2>5, <2>6
<1> QED
  BY <1>1, <1>2, <1>3, <1>4

\* Popping lends the oldest block.
LEMMA LoadRefines ==
    ASSUME IInv, Load
    PROVE  Lent = NoMsg /\ Queue # <<>> /\ Offered' = Offered
           /\ Lent' = Head(Queue) /\ Queue' = Tail(Queue)
<1>1. /\ N > 0 /\ unread[1] = tail /\ ~TailOverflow /\ ~TooLarge
  BY FirstIsGood DEF Load
<1>2. /\ cpc = "load" /\ cpc' = "use" /\ held' = tail /\ mem' = mem
      /\ unread' = SubSeq(unread, 2, Len(unread)) /\ UNCHANGED <<ppc, mb>>
      /\ unread \in Seq(Offset) /\ Len(unread) \in Nat /\ Len(unread) > 0
  BY <1>1 DEF IInv, TypeOK, Load, prodVars, N
<1>3. Queue \in Seq({mem[o] : o \in Offset}) /\ Len(Queue) = Len(unread)
      /\ Queue[1] = mem[tail]
  BY <1>1, <1>2 DEF Queue
<1>4. Queue' = Tail(Queue)
  <2> DEFINE T == Tail(Queue)
  <2>1. /\ Len(unread') = Len(unread) - 1
        /\ \A i \in 1..Len(unread)-1 : unread'[i] = unread[i+1]
    <3>1. /\ Len(SubSeq(unread, 2, Len(unread))) = Len(unread) - 1
          /\ \A i \in 1..Len(unread)-1 :
                SubSeq(unread, 2, Len(unread))[i] = unread[i+1]
      BY <1>2, DropFirst
    <3> QED
      BY <1>2, <3>1
  <2>2. Queue' = [i \in 1..Len(unread)-1 |-> mem[unread[i+1]]]
    BY <1>2, <2>1 DEF Queue
  <2>3. /\ T \in Seq({mem[o] : o \in Offset}) /\ Len(T) = Len(unread) - 1
        /\ \A i \in 1..Len(unread)-1 : T[i] = Queue[i+1]
    <3>1. Queue # <<>>
      BY <1>2, <1>3
    <3> QED
      BY <1>3, <3>1, HeadTailProperties
  <2>4. \A i \in 1..Len(unread)-1 : T[i] = mem[unread[i+1]]
    BY <1>2, <2>3 DEF Queue
  <2>5. T = [i \in 1..Len(unread)-1 |-> T[i]]
    <3> HIDE DEF T
    <3> QED
      BY <1>2, <2>3
  <2> QED
    BY <2>2, <2>4, <2>5
<1> QED
  BY <1>2, <1>3, <1>4 DEF Lent, Offered

LEMMA NextRefines == IInv /\ [Next]_vars => [Fifo!Next]_(Fifo!vars)
<1> SUFFICES ASSUME IInv, [Next]_vars
             PROVE  \/ Fifo!Next
                    \/ UNCHANGED <<Offered, Queue, Lent>>
  BY DEF Fifo!vars, Offered, Queue, Lent
<1> USE DEF Fifo!Next, Fifo!Offer, Fifo!Accept, Fifo!Refuse, Fifo!Lend,
            Fifo!GiveBack
<1>1. CASE \E b \in Request : PushCall(b)
  <2>1. Offered = NoMsg /\ Offered' \in Msg /\ UNCHANGED <<unread, consVars>>
    BY <1>1 DEF PushCall, IInv, ProducerInv, Offered, Request, Msg
  <2> QED
    BY <2>1, QueueFrame, LentFrame DEF Offered, Queue, Lent
<1>2. CASE AlignFull \/ GiveUp
  <2>1. Offered # NoMsg /\ Offered' = NoMsg /\ UNCHANGED <<unread, consVars>>
    BY <1>2 DEF AlignFull, GiveUp, PushReturn, IInv, ProducerInv, Offered
  <2> QED
    BY <2>1, QueueFrame, LentFrame DEF Offered, Queue, Lent
<1>3. CASE Publish
  BY <1>3, PublishRefines DEF Offered, Queue, Lent
<1>4. CASE Load
  BY <1>4, LoadRefines DEF Offered, Queue, Lent
<1>5. CASE Release
  <2>1. Lent # NoMsg /\ Lent' = NoMsg /\ UNCHANGED <<unread, Offered>>
    BY <1>5, MsgFacts DEF Release, IInv, ConsumerInv, prodVars, Lent, Offered
  <2> QED
    BY <2>1, QueueFrame DEF Offered, Queue, Lent
<1>6. CASE \/ AlignFits \/ AlignWrap \/ WrapShort \/ WrapPad \/ TurnHead
           \/ NotBehind \/ Behind \/ Room \/ Retry \/ Copy \/ Notify
  <2>1. UNCHANGED <<unread, consVars, Offered>>
    BY <1>6 DEF AlignFits, AlignWrap, WrapShort, WrapPad, TurnHead, NotBehind,
       Behind, Room, Retry, Copy, Notify, PushReturn, Offered
  <2> QED
    BY <2>1, QueueFrame, LentFrame
<1>7. CASE PopCall \/ AlignTail \/ TurnTail \/ Recheck \/ DrainPipe
  <2>1. UNCHANGED <<unread, Offered>> /\ cpc # "use" /\ cpc' # "use"
    BY <1>7 DEF PopCall, AlignTail, TurnTail, Recheck, DrainPipe, prodVars,
       consVars, Offered
  <2> QED
    BY <2>1, QueueFrame DEF Lent
<1>8. CASE UNCHANGED vars
  BY <1>8 DEF vars, Offered, Queue, Lent
<1> QED
  BY <1>1, <1>2, <1>3, <1>4, <1>5, <1>6, <1>7, <1>8 DEF Next, Producer, Consumer

\* The byte ring is a first-in first-out channel of whole blocks, for every
\* size of ring, page and header the assumption allows.
THEOREM RingIsFifo == Spec => FifoSpec
BY InitRefines, NextRefines, Invariance, PTL DEF Spec, FifoSpec, Fifo!Spec
==============================================================================
