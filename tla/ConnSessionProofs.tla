---------------------------- MODULE ConnSessionProofs ----------------------------
(***************************************************************************)
(* Proofs about ConnSession, for any number of socket numbers and          *)
(* connections, queues of any length, and any number of crashes.           *)
(***************************************************************************)
EXTENDS ConnSession, TLAPS

------------------------------------------------------------------------------
(* Queues.                                                                  *)

\* What the worker finds when it takes the first block of a queue.
LEMMA TailOf ==
    ASSUME NEW S, NEW q \in Seq(S), q # <<>>
    PROVE  /\ Tail(q) \in Seq(S) /\ Head(q) \in S /\ Head(q) = q[1]
           /\ Len(q) \in Nat \ {0} /\ Len(Tail(q)) = Len(q) - 1
           /\ DOMAIN q = 1..Len(q) /\ DOMAIN Tail(q) = 1..(Len(q) - 1)
           /\ \A i \in 1..(Len(q) - 1) : Tail(q)[i] = q[i + 1]
  OBVIOUS

\* A push puts the block at the end, or is refused by a full queue.
LEMMA PushOf ==
    ASSUME NEW S, NEW q \in Seq(S), NEW b \in S, CAP \in Nat, Len(q) <= CAP
    PROVE  /\ Push(q, b) \in Seq(S) /\ Len(Push(q, b)) <= CAP
           /\ Len(q) \in Nat /\ DOMAIN q = 1..Len(q)
           /\ DOMAIN Push(q, b) = 1..Len(Push(q, b))
           /\ \A i \in 1..Len(q) : Push(q, b)[i] = q[i]
           /\ Refused(q) => Push(q, b) = q
           /\ ~Refused(q) => Len(Push(q, b)) = Len(q) + 1 /\ Push(q, b)[Len(q) + 1] = b
  BY DEF Push, Refused

------------------------------------------------------------------------------
(* Types.                                                                   *)

RecvBlock == BlockOf({"OPEN", "DATA", "CLOSE"})
SendBlock == AnswerBlock \cup BlockOf({"FIN"})

\* The queues restart_child_process makes for a new worker are queues.
LEMMA EmptyQueue ==
    ASSUME ConnAssumption, NEW S
    PROVE  <<>> \in Seq(S) /\ Len(<<>>) <= CAP
  BY DEF ConnAssumption

\* The state net_start begins with is of the declared types.
LEMMA TypeInit == ConnAssumption /\ Init => TypeOK
  BY DEF Init, TypeOK, ConnAssumption, None, Id, NoBlock

\* do_del_conn(fd, 1) keeps the types.
LEMMA TypeTold ==
    ASSUME ConnAssumption, TypeOK, NEW f \in Fd, conn[f] # None, TellClosed(f), Forget(f)
    PROVE  /\ conn' \in [Fd -> Id \cup {None}] /\ fin' \subseteq Fd
           /\ recvq' \in Seq(RecvBlock) /\ Len(recvq') <= CAP
           /\ lost' \subseteq {"CLOSE", "FIN"} \X Id
  <1>1. conn[f] \in Id
    BY DEF TypeOK
  <1>2. Block("CLOSE", f, conn[f]) \in RecvBlock
    BY <1>1 DEF Block, RecvBlock, BlockOf
  <1>3. recvq' \in Seq(RecvBlock) /\ Len(recvq') <= CAP
    BY <1>2, PushOf DEF TypeOK, ConnAssumption, TellClosed, RecvBlock
  <1>4. lost' \subseteq {"CLOSE", "FIN"} \X Id
    BY <1>1 DEF TypeOK, TellClosed
  <1> QED
    BY <1>3, <1>4 DEF TypeOK, Forget

\* A FIN block fits on sendq.
LEMMA TypeFin ==
    ASSUME ConnAssumption, TypeOK, NEW f \in Fd, NEW i \in Id
    PROVE  /\ Push(sendq, Block("FIN", f, i)) \in Seq(SendBlock)
           /\ Len(Push(sendq, Block("FIN", f, i))) <= CAP
  <1>1. Block("FIN", f, i) \in SendBlock
    BY DEF Block, SendBlock, AnswerBlock, BlockOf
  <1> QED
    BY <1>1, PushOf DEF TypeOK, ConnAssumption, SendBlock, AnswerBlock

\* Every step of the parent keeps the types.
LEMMA TypeParent ==
    ASSUME ConnAssumption, TypeOK, ParentInv, Parent
    PROVE  TypeOK'
  <1> USE DEF SendBlock, AnswerBlock, RecvBlock
  <1>1. CASE CloseFlagged
    BY <1>1 DEF CloseFlagged, TypeOK, workerVars
  <1>2. ASSUME sendq # <<>>, UNCHANGED ppc
        PROVE  /\ Tail(sendq) \in Seq(SendBlock) /\ Len(Tail(sendq)) <= CAP
               /\ Head(sendq) \in SendBlock
    BY <1>2, TailOf DEF TypeOK, ConnAssumption
  <1>3. CASE OutputDiscard
    BY <1>2, <1>3 DEF OutputDiscard, TypeOK, workerVars, parentVars
  <1>4. CASE OutputFin
    BY <1>2, <1>4 DEF OutputFin, TypeOK, workerVars, BlockOf
  <1>5. CASE OutputData
    <2> DEFINE b == Head(sendq)
    <2>1. b.fd \in Fd /\ b.id \in Id /\ conn[b.fd] # None /\ conn[b.fd] \in Id
      BY <1>2, <1>5 DEF OutputData, Current, TypeOK, BlockOf, AnswerBlock
    <2>2. CASE wire' = [to |-> conn[b.fd], asker |-> b.asker] /\ UNCHANGED <<conn, fin, recvq, lost>>
      <3>1. b.asker \in Id
        BY <1>2, <1>5 DEF OutputData, AnswerBlock, BlockOf
      <3>2. wire' \in [to : Id, asker : Id]
        BY <2>1, <2>2, <3>1
      <3> HIDE DEF b
      <3> QED
        BY <1>2, <1>5, <2>2, <3>2 DEF OutputData, TypeOK, workerVars
    <2>3. CASE TellClosed(b.fd) /\ Forget(b.fd) /\ UNCHANGED wire
      BY <1>2, <1>5, <2>1, <2>3, TypeTold DEF OutputData, TypeOK, workerVars
    <2> QED
      BY <1>5, <2>2, <2>3 DEF OutputData
  <1>6. CASE OutputDone \/ WorkerHup \/ EventsDone
    BY <1>6 DEF OutputDone, WorkerHup, EventsDone, TypeOK, workerVars
  <1>7. ASSUME NEW f \in Fd, Accept(f) PROVE TypeOK'
    <2>1. seq' \in Id /\ Block("OPEN", f, seq') \in RecvBlock
      BY <1>7 DEF Accept, TypeOK, ConnAssumption, Id, Block, BlockOf
    <2>2. recvq' \in Seq(RecvBlock) /\ Len(recvq') <= CAP
      BY <1>7, <2>1, PushOf DEF Accept, TypeOK, ConnAssumption
    <2> QED
      BY <1>7, <2>1, <2>2 DEF Accept, TypeOK, workerVars, Id, ConnAssumption
  <1>8. ASSUME NEW f \in Fd, Receive(f) PROVE TypeOK'
    <2>1. Block("DATA", f, conn[f]) \in RecvBlock
      BY <1>8 DEF Receive, TypeOK, Block, BlockOf
    <2>2. recvq' \in Seq(RecvBlock) /\ Len(recvq') <= CAP
      BY <1>8, <2>1, PushOf DEF Receive, TypeOK, ConnAssumption
    <2> QED
      BY <1>8, <2>2 DEF Receive, TypeOK, workerVars
  <1>9. ASSUME NEW f \in Fd, DeleteVictim(f) \/ PeerGone(f) \/ HupDelete(f) PROVE TypeOK'
    <2>1. conn[f] # None /\ TellClosed(f) /\ Forget(f)
      BY <1>9 DEF DeleteVictim, PeerGone, HupDelete, ParentInv
    <2> QED
      BY <1>9, <2>1, TypeTold DEF DeleteVictim, PeerGone, HupDelete, TypeOK, workerVars
  <1>10. CASE HupRestart
    <2>1. restarts' \in 0..RestartLimit+1
      BY <1>10 DEF HupRestart, TypeOK, ParentInv, ConnAssumption
    <2>2. recvq' \in {<<>>, recvq} /\ sendq' \in {<<>>, sendq}
      BY <1>10 DEF HupRestart
    <2>3. alive' \in BOOLEAN
      BY <1>10 DEF HupRestart, TypeOK
    <2>4. recvq' \in Seq(RecvBlock) /\ Len(recvq') <= CAP
      BY <2>2, EmptyQueue DEF TypeOK
    <2>5. sendq' \in Seq(SendBlock) /\ Len(sendq') <= CAP
      BY <2>2, EmptyQueue DEF TypeOK
    <2> QED
      BY <1>10, <2>1, <2>3, <2>4, <2>5 DEF HupRestart, TypeOK
  <1> QED
    BY <1>1, <1>3, <1>4, <1>5, <1>6, <1>7, <1>8, <1>9, <1>10 DEF Parent

\* close_client_conn keeps the types.
LEMMA TypeClose ==
    ASSUME ConnAssumption, TypeOK, NEW f \in Fd, CloseClient(f)
    PROVE  /\ sess' \in [Fd -> Id \cup {None}] /\ lost' \subseteq {"CLOSE", "FIN"} \X Id
           /\ asked' \in [Fd -> SUBSET Id]
           /\ sendq' \in Seq(SendBlock) /\ Len(sendq') <= CAP
  <1>1. sess[f] \in Id
    BY DEF CloseClient, TypeOK
  <1> QED
    BY <1>1, TypeFin DEF CloseClient, TypeOK

\* Every step of the worker keeps the types.
LEMMA TypeWorker ==
    ASSUME ConnAssumption, TypeOK, WorkerInv, Worker
    PROVE  TypeOK'
  <1> USE DEF SendBlock, AnswerBlock, RecvBlock
  <1>1. ASSUME NEW t, WorkerTakes(t)
        PROVE  /\ recvq' \in Seq(RecvBlock) /\ Len(recvq') <= CAP
               /\ Head(recvq).fd \in Fd /\ Head(recvq).id \in Id
    <2>1. recvq' \in Seq(RecvBlock) /\ Len(recvq') <= CAP /\ Head(recvq) \in RecvBlock
      BY <1>1, TailOf DEF WorkerTakes, TypeOK, ConnAssumption
    <2> QED
      BY <2>1 DEF BlockOf
  <1>2. CASE HandleOpen
    <2> DEFINE b == Head(recvq)
    <2>1. recvq' \in Seq(RecvBlock) /\ Len(recvq') <= CAP /\ b.fd \in Fd /\ b.id \in Id
      BY <1>1, <1>2 DEF HandleOpen
    <2>2. sess' \in [Fd -> Id \cup {None}] /\ asked' \in [Fd -> SUBSET Id]
      BY <1>2, <2>1 DEF HandleOpen, TypeOK
    <2>4. lost' \subseteq {"CLOSE", "FIN"} \X Id
      <3>1. lost' \subseteq lost \cup {<<"FIN", b.id>>}
        BY <1>2 DEF HandleOpen
      <3> QED
        BY <2>1, <3>1 DEF TypeOK
    <2>3. sendq' \in Seq(SendBlock) /\ Len(sendq') <= CAP
      BY <1>2, <2>1, TypeFin DEF HandleOpen, TypeOK
    <2> QED
      BY <1>2, <2>1, <2>2, <2>3, <2>4 DEF HandleOpen, TypeOK, parentVars
  <1>3. CASE HandleClose
    <2>1. recvq' \in Seq(RecvBlock) /\ Len(recvq') <= CAP
      BY <1>1, <1>3 DEF HandleClose
    <2> QED
      BY <1>3, <2>1 DEF HandleClose, TypeOK, parentVars, None
  <1>4. CASE HandleProcess
    <2>1. recvq' \in Seq(RecvBlock) /\ Len(recvq') <= CAP
      BY <1>1, <1>4 DEF HandleProcess
    <2>2. Head(recvq) \in RecvBlock /\ Head(recvq).type = "DATA"
      BY <1>4, TailOf DEF HandleProcess, WorkerTakes, TypeOK
    <2>3. Head(recvq) \in BlockOf({"DATA"}) /\ Head(recvq).fd \in Fd /\ Head(recvq).id \in Id
      BY <2>2 DEF BlockOf
    <2>4. asked' \in [Fd -> SUBSET Id]
      BY <1>4, <2>3 DEF HandleProcess, TypeOK
    <2>5. serving' \in {NoBlock} \cup BlockOf({"DATA"}) /\ cpc' \in {"idle", "process"}
      BY <1>4, <2>3 DEF HandleProcess, TypeOK
    <2> QED
      BY <1>4, <2>1, <2>4, <2>5 DEF HandleProcess, TypeOK, parentVars
  <1>5. CASE ProcessKeeps
    BY <1>5 DEF ProcessKeeps, TypeOK, parentVars
  <1>6. CASE ProcessCloses
    <2>1. serving.fd \in Fd
      BY <1>6 DEF ProcessCloses, WorkerInv, TypeOK, BlockOf
    <2> QED
      BY <1>6, <2>1, TypeClose DEF ProcessCloses, TypeOK, parentVars
  <1>7. ASSUME NEW f \in Fd, PluginCloses(f) PROVE TypeOK'
    BY <1>7, TypeClose DEF PluginCloses, TypeOK, parentVars
  <1>8. ASSUME NEW f \in Fd, Reply(f) PROVE TypeOK'
    <2>0. PICK o \in asked[f] : sendq' = Push(sendq, Answer(f, sess[f], o))
      BY <1>8 DEF Reply
    <2>1. Answer(f, sess[f], o) \in SendBlock
      BY <1>8, <2>0 DEF Reply, TypeOK, Answer, AnswerBlock
    <2>2. sendq' \in Seq(SendBlock) /\ Len(sendq') <= CAP
      BY <2>0, <2>1, PushOf DEF TypeOK, ConnAssumption
    <2> QED
      BY <1>8, <2>2 DEF Reply, TypeOK, parentVars, workerVars
  <1>9. CASE Crash
    BY <1>9 DEF Crash, TypeOK, parentVars
  <1> QED
    BY <1>2, <1>3, <1>4, <1>5, <1>6, <1>7, <1>8, <1>9 DEF Worker, Takes

------------------------------------------------------------------------------
(* What a push, a take and the end of a session do to the places of recvq.  *)

\* A push leaves every place as it is and may add one at the end.
LEMMA PushPlaces ==
    ASSUME ConnAssumption, TypeOK, NEW b \in RecvBlock, recvq' = Push(recvq, b), UNCHANGED sess
    PROVE  /\ \A g \in Fd, j \in Places, s \in Id :
                 j \in Places' /\ (Holds(g, j, s)' <=> Holds(g, j, s))
           /\ \A j \in Places' : j \in Places \/ (j = Len(recvq) + 1 /\ recvq'[j] = b)
           /\ \A g \in Fd, j \in Places, i \in 1..(Len(recvq) + 1) :
                 ClosedBetween(g, j, i)' <=> ClosedBetween(g, j, i)
           /\ \A g \in Fd, j \in Places : ClosedAfter(g, j) => ClosedAfter(g, j)'
           /\ \A g \in Fd, j \in Places :
                 ClosedAfter(g, j)' => ClosedAfter(g, j) \/ (b.type = "CLOSE" /\ b.fd = g)
           /\ \A g \in Fd, j \in Places :
                 ~Refused(recvq) /\ b.type = "CLOSE" /\ b.fd = g => ClosedAfter(g, j)'
           /\ Refused(recvq) => Places' = Places /\ recvq' = recvq
  <1> DEFINE n == Len(recvq)
  <1>1. /\ recvq \in Seq(RecvBlock) /\ recvq' \in Seq(RecvBlock)
        /\ n \in Nat /\ DOMAIN recvq = 1..n /\ DOMAIN recvq' = 1..Len(recvq')
        /\ \A i \in 1..n : recvq'[i] = recvq[i]
        /\ \/ Refused(recvq) /\ recvq' = recvq
           \/ ~Refused(recvq) /\ Len(recvq') = n + 1 /\ recvq'[n + 1] = b
    <2>1. recvq \in Seq(RecvBlock)
      BY DEF TypeOK, RecvBlock
    <2>2. CASE Refused(recvq)
      BY <2>1, <2>2 DEF Push
    <2>3. CASE ~Refused(recvq)
      <3>1. recvq' = Append(recvq, b)
        BY <2>3 DEF Push
      <3> QED
        BY <2>1, <2>3, <3>1
    <2> QED
      BY <2>2, <2>3
  <1>2. /\ \A g \in Fd, j \in Places, s \in Id :
              j \in Places' /\ (Holds(g, j, s)' <=> Holds(g, j, s))
        /\ \A j \in Places' : j \in Places \/ (j = n + 1 /\ recvq'[j] = b)
    <2>1. Len(recvq') = n \/ (Len(recvq') = n + 1 /\ recvq'[n + 1] = b)
      BY <1>1
    <2>2. n \in Nat /\ \A i \in 1..n : recvq'[i] = recvq[i]
      BY <1>1
    <2>3. \A j \in 0..n : j \in 0..Len(recvq') /\ (j > 0 => recvq'[j] = recvq[j])
      BY <2>1, <2>2
    <2>4. \A g \in Fd, j \in Places, s \in Id : Holds(g, j, s)' <=> Holds(g, j, s)
      BY <2>3 DEF Holds, Places
    <2>5. \A j \in 0..Len(recvq') : j \in 0..n \/ (j = n + 1 /\ recvq'[j] = b)
      BY <2>1, <2>2
    <2> QED
      BY <2>3, <2>4, <2>5 DEF Places
  <1>3. CASE Refused(recvq)
    <2>1. recvq' = recvq
      BY <1>1, <1>3
    <2>2. \A g, j, i : ClosedBetween(g, j, i)' <=> ClosedBetween(g, j, i)
      BY <2>1 DEF ClosedBetween
    <2>3. \A g, j : ClosedAfter(g, j)' <=> ClosedAfter(g, j)
      BY <2>1 DEF ClosedBetween, ClosedAfter
    <2> QED
      BY <1>2, <1>3, <2>1, <2>2, <2>3 DEF Places
  <1>4. CASE ~Refused(recvq)
    <2>1. Len(recvq') = n + 1 /\ recvq'[n + 1] = b
      BY <1>1, <1>4
    <2>2. \A g \in Fd, j \in Places, i \in 1..(n + 1) : ClosedBetween(g, j, i)' <=> ClosedBetween(g, j, i)
      BY <1>1, <2>1 DEF ClosedBetween, Places
    <2>3. \A g \in Fd, j \in Places : ClosedAfter(g, j) => ClosedAfter(g, j)'
      BY <1>1, <2>1 DEF ClosedBetween, ClosedAfter, Places
    <2>4. \A g \in Fd, j \in Places :
              ClosedAfter(g, j)' => ClosedAfter(g, j) \/ (b.type = "CLOSE" /\ b.fd = g)
      BY <1>1, <2>1 DEF ClosedBetween, ClosedAfter, Places
    <2>5. \A g \in Fd, j \in Places : b.type = "CLOSE" /\ b.fd = g => ClosedAfter(g, j)'
      BY <1>1, <2>1 DEF ClosedBetween, ClosedAfter, Places
    <2> QED
      BY <1>2, <1>4, <2>2, <2>3, <2>4, <2>5
  <1> QED
    BY <1>3, <1>4

\* A block on recvq after a push was there before, or is the one pushed.
LEMMA PushedAt ==
    ASSUME ConnAssumption, TypeOK, NEW b \in RecvBlock, recvq' = Push(recvq, b), NEW i \in DOMAIN recvq'
    PROVE  /\ i \in 1..(Len(recvq) + 1)
           /\ \/ i \in DOMAIN recvq /\ i \in 1..Len(recvq) /\ recvq'[i] = recvq[i]
              \/ i = Len(recvq) + 1 /\ ~Refused(recvq) /\ recvq'[i] = b
  <1>1. recvq \in Seq(RecvBlock)
    BY DEF TypeOK, RecvBlock
  <1>2. CASE Refused(recvq)
    BY <1>1, <1>2 DEF Push
  <1>3. CASE ~Refused(recvq)
    <2>1. recvq' = Append(recvq, b)
      BY <1>3 DEF Push
    <2> QED
      BY <1>1, <1>3, <2>1
  <1> QED
    BY <1>2, <1>3

\* Where the session or OPEN block now at place j was before the worker took
\* a block.
Opens == Head(recvq).type = "OPEN" /\ sess[Head(recvq).fd] = None
Origin(f, j) == IF j > 0 THEN j + 1 ELSE IF Opens /\ f = Head(recvq).fd THEN 1 ELSE 0

\* Taking a block moves every place one towards the session table; an OPEN
\* that is accepted arrives there, and a CLOSE removes what is there.
LEMMA TakePlaces ==
    ASSUME ConnAssumption, TypeOK, Takes
    PROVE  /\ Head(recvq) \in RecvBlock /\ recvq # <<>> /\ recvq \in Seq(RecvBlock) /\ Head(recvq) = recvq[1]
           /\ Len(recvq) \in Nat \ {0} /\ DOMAIN recvq = 1..Len(recvq)
           /\ Len(recvq') = Len(recvq) - 1 /\ DOMAIN recvq' = 1..(Len(recvq) - 1)
           /\ \A i \in 1..(Len(recvq) - 1) : recvq'[i] = recvq[i + 1]
           /\ \A g \in Fd, j \in Places', s \in Id : Holds(g, j, s)' =>
                 /\ Origin(g, j) \in Places /\ Holds(g, Origin(g, j), s)
                 /\ j = 0 /\ Origin(g, j) = 0 => ~(Head(recvq).type = "CLOSE" /\ Head(recvq).fd = g)
           /\ \A g \in Fd, j \in Places, s \in Id : Holds(g, j, s) =>
                 \/ \E k \in Places' : Origin(g, k) = j /\ Holds(g, k, s)'
                 \/ j = 1 /\ Head(recvq).type = "OPEN" /\ ~Opens
                 \/ j = 0 /\ Head(recvq).type = "CLOSE" /\ Head(recvq).fd = g
  <1> DEFINE h == Head(recvq)
             n == Len(recvq)
  <1>1. recvq # <<>> /\ recvq' = Tail(recvq) /\ h.type \in {"OPEN", "CLOSE", "DATA"}
    BY DEF Takes, HandleOpen, HandleClose, HandleProcess, WorkerTakes
  <1>2. /\ h \in RecvBlock /\ recvq \in Seq(RecvBlock) /\ h = recvq[1]
        /\ n \in Nat \ {0} /\ DOMAIN recvq = 1..n /\ Len(recvq') = n - 1
        /\ DOMAIN recvq' = 1..(n - 1)
        /\ \A i \in 1..(n - 1) : recvq'[i] = recvq[i + 1]
    BY <1>1, TailOf DEF TypeOK, RecvBlock
  <1>3. h.fd \in Fd /\ h.id \in Id
    BY <1>2 DEF RecvBlock, BlockOf
  <1>4. /\ Opens => sess' = [sess EXCEPT ![h.fd] = h.id]
        /\ h.type = "CLOSE" => sess' = [sess EXCEPT ![h.fd] = None]
        /\ ~Opens /\ h.type # "CLOSE" => sess' = sess
        /\ Opens => h.type = "OPEN" /\ sess[h.fd] = None
    BY <1>1 DEF Takes, HandleOpen, HandleClose, HandleProcess, WorkerTakes, Opens
  <1>5. h.type = "OPEN" => h = Block("OPEN", h.fd, h.id)
    BY <1>2 DEF RecvBlock, BlockOf, Block
  <1>6. ASSUME NEW g \in Fd, NEW j \in Places', NEW s \in Id, Holds(g, j, s)'
        PROVE  /\ Origin(g, j) \in Places /\ Holds(g, Origin(g, j), s)
               /\ j = 0 /\ Origin(g, j) = 0 => ~(h.type = "CLOSE" /\ h.fd = g)
    <2>1. CASE j > 0
      BY <1>2, <1>6, <2>1 DEF Places, Holds, Origin
    <2>2. CASE j = 0
      <3>1. sess'[g] = s /\ s # None
        BY <1>6, <2>2 DEF Holds, Id, None
      <3>2. CASE Opens /\ g = h.fd
        <4>1. h = Block("OPEN", g, s)
          BY <1>4, <1>5, <3>1, <3>2 DEF TypeOK
        <4> QED
          BY <1>2, <2>2, <3>2, <4>1 DEF Origin, Holds, Places
      <3>3. CASE ~(Opens /\ g = h.fd)
        <4>1. sess[g] = s /\ ~(h.type = "CLOSE" /\ h.fd = g)
          BY <1>3, <1>4, <3>1, <3>3 DEF TypeOK
        <4> QED
          BY <1>2, <2>2, <3>3, <4>1 DEF Origin, Holds, Places
      <3> QED
        BY <3>2, <3>3
    <2> QED
      BY <1>2, <2>1, <2>2 DEF Places
  <1>7. ASSUME NEW g \in Fd, NEW j \in Places, NEW s \in Id, Holds(g, j, s)
        PROVE  \/ \E k \in Places' : Origin(g, k) = j /\ Holds(g, k, s)'
               \/ j = 1 /\ h.type = "OPEN" /\ ~Opens
               \/ j = 0 /\ h.type = "CLOSE" /\ h.fd = g
    <2>1. CASE j > 1
      <3>1. j - 1 \in Places' /\ j - 1 > 0 /\ Origin(g, j - 1) = j
        BY <1>2, <2>1 DEF Places, Origin
      <3>2. Holds(g, j - 1, s)'
        BY <1>2, <1>7, <2>1, <3>1 DEF Places, Holds
      <3> QED
        BY <3>1, <3>2
    <2>2. CASE j = 1
      <3>1. h = Block("OPEN", g, s)
        BY <1>2, <1>7, <2>2 DEF Holds
      <3>2. h.type = "OPEN" /\ h.fd = g /\ h.id = s
        BY <3>1 DEF Block
      <3>3. ASSUME Opens PROVE 0 \in Places' /\ Origin(g, 0) = 1 /\ Holds(g, 0, s)'
        BY <1>2, <1>3, <1>4, <3>2, <3>3 DEF Places, Origin, Holds, TypeOK
      <3> QED
        BY <2>2, <3>2, <3>3
    <2>3. CASE j = 0
      <3>1. sess[g] = s /\ s # None
        BY <1>7, <2>3 DEF Holds, Id, None
      <3>2. ~(Opens /\ h.fd = g)
        BY <1>4, <3>1
      <3>3. ~(h.type = "CLOSE" /\ h.fd = g) => sess'[g] = s
        BY <1>3, <1>4, <3>1, <3>2 DEF TypeOK
      <3>4. 0 \in Places' /\ Origin(g, 0) = 0
        BY <1>2, <3>2 DEF Places, Origin
      <3>5. ~(h.type = "CLOSE" /\ h.fd = g) => Holds(g, 0, s)'
        BY <3>3 DEF Holds
      <3> QED
        BY <2>3, <3>4, <3>5
    <2> QED
      BY <1>2, <2>1, <2>2, <2>3 DEF Places
  <1> QED
    BY <1>1, <1>2, <1>6, <1>7

------------------------------------------------------------------------------
(* The three parts about places, by what a step does to them.               *)

PlaceInv == HeldOnce /\ EndsInTime /\ NotClosed

\* Sessions end, connections end that have no session, or neither.
LEMMA FewerHeld ==
    ASSUME TypeOK, PlaceInv, FinIsTrue, UNCHANGED <<recvq, seq>>, lost \subseteq lost',
           \A g \in Fd : sess'[g] \in {None, sess[g]},
           \A g \in Fd : conn'[g] = conn[g] \/ (conn'[g] = None /\ g \in fin)
    PROVE  /\ Places' = Places
           /\ \A g \in Fd, j \in Places, s \in Id : Holds(g, j, s)' => Holds(g, j, s)
           /\ PlaceInv'
  <1>1. Places' = Places
    BY DEF Places
  <1>2. ASSUME NEW g \in Fd, NEW j \in Places, NEW s \in Id, Holds(g, j, s)' PROVE Holds(g, j, s)
    BY <1>2 DEF Holds, Id, None
  <1>3. /\ \A g, j, i : ClosedBetween(g, j, i)' <=> ClosedBetween(g, j, i)
        /\ \A g, j : ClosedAfter(g, j)' <=> ClosedAfter(g, j)
    BY DEF ClosedBetween, ClosedAfter
  <1>4. HeldOnce'
    BY <1>1, <1>2 DEF PlaceInv, HeldOnce
  <1>5. EndsInTime'
    <2> SUFFICES ASSUME NEW f \in Fd, NEW j \in Places, NEW s \in Id, Holds(f, j, s)',
                        <<"CLOSE", s>> \notin lost'
                 PROVE  /\ \A i \in DOMAIN recvq :
                              j < i /\ recvq[i].type = "DATA" /\ recvq[i].fd = f /\ recvq[i].id # s
                                 => ClosedBetween(f, j, i)
                        /\ conn'[f] # s => ClosedAfter(f, j)
      BY <1>1, <1>3 DEF EndsInTime
    <2>1. Holds(f, j, s) /\ <<"CLOSE", s>> \notin lost
      BY <1>2
    <2>2. f \in fin => conn[f] # s
      BY <2>1 DEF FinIsTrue
    <2> QED
      BY <2>1, <2>2 DEF PlaceInv, EndsInTime
  <1>6. NotClosed'
    <2> SUFFICES ASSUME NEW f \in Fd, NEW j \in Places, conn'[f] # None, Holds(f, j, conn[f])'
                 PROVE  ~ClosedAfter(f, j)
      BY <1>1, <1>3 DEF NotClosed, Holds
    <2>1. conn[f] \in Id /\ conn[f] = conn'[f]
      BY DEF TypeOK
    <2> QED
      BY <1>2, <2>1 DEF PlaceInv, NotClosed
  <1> QED
    BY <1>1, <1>2, <1>4, <1>5, <1>6 DEF PlaceInv

\* The parent deletes a connection and tells the worker.
LEMMA ToldHeld ==
    ASSUME ConnAssumption, TypeOK, PlaceInv, UNCHANGED <<sess, seq>>,
           NEW f \in Fd, conn[f] # None, TellClosed(f), Forget(f)
    PROVE  /\ \A g \in Fd, j \in Places', s \in Id : Holds(g, j, s)' => j \in Places /\ Holds(g, j, s)
           /\ \A g \in Fd, j \in Places, s \in Id : Holds(g, j, s) => j \in Places' /\ Holds(g, j, s)'
           /\ PlaceInv'
  <1> DEFINE b == Block("CLOSE", f, conn[f])
             n == Len(recvq)
  <1>1. /\ b \in RecvBlock /\ recvq' = Push(recvq, b) /\ b.type = "CLOSE" /\ b.fd = f
        /\ lost \subseteq lost' /\ (Refused(recvq) => <<"CLOSE", conn[f]>> \in lost')
        /\ conn' = [conn EXCEPT ![f] = None]
    BY DEF TellClosed, Forget, TypeOK, RecvBlock, BlockOf, Block
  <1>2. /\ \A g \in Fd, j \in Places, s \in Id : j \in Places' /\ (Holds(g, j, s)' <=> Holds(g, j, s))
        /\ \A j \in Places' : j \in Places \/ (j = n + 1 /\ recvq'[j] = b)
        /\ \A g \in Fd, j \in Places, i \in 1..(n + 1) : ClosedBetween(g, j, i)' <=> ClosedBetween(g, j, i)
        /\ \A g \in Fd, j \in Places : ClosedAfter(g, j) => ClosedAfter(g, j)'
        /\ \A g \in Fd, j \in Places :
              ClosedAfter(g, j)' => ClosedAfter(g, j) \/ (b.type = "CLOSE" /\ b.fd = g)
        /\ \A g \in Fd, j \in Places :
              ~Refused(recvq) /\ b.type = "CLOSE" /\ b.fd = g => ClosedAfter(g, j)'
    BY <1>1, PushPlaces
  <1>3. ASSUME NEW g \in Fd, NEW j \in Places', NEW s \in Id, Holds(g, j, s)'
        PROVE  j \in Places /\ Holds(g, j, s)
    <2>1. CASE j = n + 1 /\ recvq'[j] = b
      <3>1. n + 1 # 0
        BY DEF TypeOK
      <3> QED
        BY <1>1, <1>3, <2>1, <3>1 DEF Holds, Block
    <2> QED
      BY <1>2, <1>3, <2>1
  <1>4. HeldOnce'
    BY <1>3 DEF PlaceInv, HeldOnce
  <1>5. EndsInTime'
    <2> SUFFICES ASSUME NEW g \in Fd, NEW j \in Places', NEW s \in Id, Holds(g, j, s)',
                        <<"CLOSE", s>> \notin lost'
                 PROVE  /\ \A i \in DOMAIN recvq' :
                              j < i /\ recvq'[i].type = "DATA" /\ recvq'[i].fd = g /\ recvq'[i].id # s
                                 => ClosedBetween(g, j, i)'
                        /\ conn'[g] # s => ClosedAfter(g, j)'
      BY DEF EndsInTime
    <2>1. j \in Places /\ Holds(g, j, s) /\ <<"CLOSE", s>> \notin lost
      BY <1>1, <1>3
    <2>2. ASSUME NEW i \in DOMAIN recvq', j < i, recvq'[i].type = "DATA", recvq'[i].fd = g, recvq'[i].id # s
          PROVE  ClosedBetween(g, j, i)'
      <3>1. i \in DOMAIN recvq /\ i \in 1..(n + 1) /\ recvq'[i] = recvq[i]
        BY <1>1, <2>2, PushedAt
      <3> QED
        BY <1>2, <2>1, <2>2, <3>1 DEF PlaceInv, EndsInTime
    <2>3. ASSUME conn'[g] # s PROVE ClosedAfter(g, j)'
      <3>1. CASE g = f /\ conn[f] = s
        BY <1>1, <1>2, <2>1, <3>1
      <3>2. CASE ~(g = f /\ conn[f] = s)
        <4>1. conn[g] # s
          BY <1>1, <2>3, <3>2 DEF TypeOK
        <4> QED
          BY <1>2, <2>1, <4>1 DEF PlaceInv, EndsInTime
      <3> QED
        BY <3>1, <3>2
    <2> QED
      BY <2>2, <2>3
  <1>6. NotClosed'
    <2>1. \A g \in Fd : conn'[g] # None => g # f /\ conn'[g] = conn[g] /\ conn[g] \in Id
      BY <1>1 DEF TypeOK
    <2> SUFFICES ASSUME NEW g \in Fd, NEW j \in Places', NEW s \in Id, s = conn'[g], s # None, Holds(g, j, s)'
                 PROVE  ~ClosedAfter(g, j)'
      BY <2>1 DEF NotClosed, Holds
    <2>2. j \in Places /\ Holds(g, j, s) /\ s = conn[g] /\ g # f
      BY <1>3, <2>1
    <2> QED
      BY <1>1, <1>2, <2>2 DEF PlaceInv, NotClosed
  <1> QED
    BY <1>2, <1>3, <1>4, <1>5, <1>6 DEF PlaceInv

\* A package is pushed on the queue.
LEMMA DataHeld ==
    ASSUME ConnAssumption, TypeOK, PlaceInv, UNCHANGED <<conn, sess, seq, lost>>,
           NEW f \in Fd, conn[f] # None, recvq' = Push(recvq, Block("DATA", f, conn[f]))
    PROVE  /\ \A g \in Fd, j \in Places', s \in Id : Holds(g, j, s)' => j \in Places /\ Holds(g, j, s)
           /\ \A g \in Fd, j \in Places, s \in Id : Holds(g, j, s) => j \in Places' /\ Holds(g, j, s)'
           /\ PlaceInv'
  <1> DEFINE b == Block("DATA", f, conn[f])
             n == Len(recvq)
  <1>1. b \in RecvBlock /\ b.type = "DATA" /\ b.fd = f /\ b.id = conn[f]
    BY DEF TypeOK, RecvBlock, BlockOf, Block
  <1>2. /\ \A g \in Fd, j \in Places, s \in Id : j \in Places' /\ (Holds(g, j, s)' <=> Holds(g, j, s))
        /\ \A j \in Places' : j \in Places \/ (j = n + 1 /\ recvq'[j] = b)
        /\ \A g \in Fd, j \in Places, i \in 1..(n + 1) : ClosedBetween(g, j, i)' <=> ClosedBetween(g, j, i)
        /\ \A g \in Fd, j \in Places : ClosedAfter(g, j) => ClosedAfter(g, j)'
        /\ \A g \in Fd, j \in Places :
              ClosedAfter(g, j)' => ClosedAfter(g, j) \/ (b.type = "CLOSE" /\ b.fd = g)
    BY <1>1, PushPlaces
  <1>3. ASSUME NEW g \in Fd, NEW j \in Places', NEW s \in Id, Holds(g, j, s)'
        PROVE  j \in Places /\ Holds(g, j, s)
    <2>1. CASE j = n + 1 /\ recvq'[j] = b
      <3>1. n + 1 # 0
        BY DEF TypeOK
      <3> QED
        BY <1>1, <1>3, <2>1, <3>1 DEF Holds, Block
    <2> QED
      BY <1>2, <1>3, <2>1
  <1>4. HeldOnce'
    BY <1>3 DEF PlaceInv, HeldOnce
  <1>5. EndsInTime'
    <2> SUFFICES ASSUME NEW g \in Fd, NEW j \in Places', NEW s \in Id, Holds(g, j, s)',
                        <<"CLOSE", s>> \notin lost'
                 PROVE  /\ \A i \in DOMAIN recvq' :
                              j < i /\ recvq'[i].type = "DATA" /\ recvq'[i].fd = g /\ recvq'[i].id # s
                                 => ClosedBetween(g, j, i)'
                        /\ conn'[g] # s => ClosedAfter(g, j)'
      BY DEF EndsInTime
    <2>1. j \in Places /\ Holds(g, j, s) /\ <<"CLOSE", s>> \notin lost
      BY <1>3
    <2>2. conn[g] # s => ClosedAfter(g, j)
      BY <2>1 DEF PlaceInv, EndsInTime
    <2>3. ASSUME NEW i \in DOMAIN recvq', j < i, recvq'[i].type = "DATA", recvq'[i].fd = g, recvq'[i].id # s
          PROVE  ClosedBetween(g, j, i)'
      <3>1. i \in 1..(n + 1)
        BY <1>1, PushedAt
      <3>2. CASE i \in DOMAIN recvq /\ i \in 1..n /\ recvq'[i] = recvq[i]
        BY <1>2, <2>1, <2>3, <3>1, <3>2 DEF PlaceInv, EndsInTime
      <3>3. CASE i = n + 1 /\ recvq'[i] = b
        <4>1. ClosedAfter(g, j)
          BY <1>1, <2>2, <2>3, <3>3
        <4> QED
          BY <1>2, <2>1, <3>1, <3>3, <4>1 DEF ClosedAfter
      <3> QED
        BY <1>1, <3>2, <3>3, PushedAt
    <2> QED
      BY <1>2, <2>1, <2>2, <2>3
  <1>6. NotClosed'
    <2>1. \A g \in Fd : conn'[g] # None => conn'[g] = conn[g] /\ conn[g] \in Id
      BY DEF TypeOK
    <2> SUFFICES ASSUME NEW g \in Fd, NEW j \in Places', NEW s \in Id, s = conn'[g], s # None, Holds(g, j, s)'
                 PROVE  ~ClosedAfter(g, j)'
      BY <2>1 DEF NotClosed, Holds
    <2>2. j \in Places /\ Holds(g, j, s) /\ s = conn[g]
      BY <1>3, <2>1
    <2> QED
      BY <1>1, <1>2, <2>2 DEF PlaceInv, NotClosed
  <1> QED
    BY <1>2, <1>3, <1>4, <1>5, <1>6 DEF PlaceInv

\* A client is accepted; its OPEN block may be refused.
LEMMA OpenHeld ==
    ASSUME ConnAssumption, TypeOK, PlaceInv, NEW f \in Fd, Accept(f)
    PROVE  /\ \A g \in Fd, j \in Places', s \in Id : Holds(g, j, s)' =>
                 \/ j \in Places /\ Holds(g, j, s)
                 \/ j = Len(recvq) + 1 /\ g = f /\ s = seq + 1 /\ conn'[f] = s
           /\ \A g \in Fd, j \in Places, s \in Id : Holds(g, j, s) => j \in Places' /\ Holds(g, j, s)'
           /\ conn'[f] # None => \E j \in Places' : Holds(f, j, conn[f])'
           /\ PlaceInv'
  <1> DEFINE b == Block("OPEN", f, seq + 1)
             n == Len(recvq)
  <1>1. /\ b \in RecvBlock /\ b.type = "OPEN" /\ b.fd = f /\ b.id = seq + 1 /\ recvq' = Push(recvq, b)
        /\ seq \in Nat /\ seq' = seq + 1 /\ seq + 1 \in Id /\ seq + 1 # None /\ n \in Nat /\ n + 1 # 0
        /\ UNCHANGED <<sess, lost>> /\ conn[f] = None
        /\ conn' = [conn EXCEPT ![f] = IF Refused(recvq) THEN None ELSE seq + 1]
    BY DEF Accept, TypeOK, ConnAssumption, RecvBlock, BlockOf, Block, Id, None, workerVars
  <1>2. /\ \A g \in Fd, j \in Places, s \in Id : j \in Places' /\ (Holds(g, j, s)' <=> Holds(g, j, s))
        /\ \A j \in Places' : j \in Places \/ (j = n + 1 /\ recvq'[j] = b)
        /\ \A g \in Fd, j \in Places, i \in 1..(n + 1) : ClosedBetween(g, j, i)' <=> ClosedBetween(g, j, i)
        /\ \A g \in Fd, j \in Places : ClosedAfter(g, j) => ClosedAfter(g, j)'
        /\ \A g \in Fd, j \in Places :
              ClosedAfter(g, j)' => ClosedAfter(g, j) \/ (b.type = "CLOSE" /\ b.fd = g)
        /\ Refused(recvq) => Places' = Places /\ recvq' = recvq
    BY <1>1, PushPlaces
  <1>3. n + 1 \notin Places
    BY <1>1 DEF Places
  <1>4. ASSUME ~Refused(recvq)
        PROVE  /\ n + 1 \in Places' /\ recvq'[n + 1] = b /\ Len(recvq') = n + 1 /\ DOMAIN recvq' = 1..(n + 1)
               /\ conn'[f] = seq + 1
    <2>1. recvq \in Seq(RecvBlock) /\ recvq' = Append(recvq, b)
      BY <1>1, <1>4 DEF TypeOK, RecvBlock, Push
    <2>2. Len(recvq') = n + 1 /\ recvq'[n + 1] = b /\ DOMAIN recvq' = 1..(n + 1)
      BY <1>1, <2>1
    <2> QED
      BY <1>1, <1>4, <2>2 DEF Places, TypeOK
  <1>5. ASSUME NEW g \in Fd, NEW j \in Places', NEW s \in Id, Holds(g, j, s)'
        PROVE  \/ j \in Places /\ Holds(g, j, s)
               \/ j = n + 1 /\ g = f /\ s = seq + 1 /\ conn'[f] = s /\ ~Refused(recvq)
    <2>1. CASE j \in Places
      BY <1>2, <1>5, <2>1
    <2>2. CASE j \notin Places
      <3>1. j = n + 1 /\ recvq'[j] = b /\ ~Refused(recvq)
        BY <1>2, <2>2
      <3>2. b = Block("OPEN", g, s)
        BY <1>1, <1>5, <3>1 DEF Holds
      <3> QED
        BY <1>1, <1>4, <3>1, <3>2 DEF Block
    <2> QED
      BY <2>1, <2>2
  <1>6. ASSUME conn'[f] # None PROVE \E j \in Places' : Holds(f, j, conn[f])'
    <2>1. ~Refused(recvq)
      BY <1>1, <1>6 DEF TypeOK
    <2>2. n + 1 \in Places' /\ recvq'[n + 1] = Block("OPEN", f, conn'[f])
      BY <1>4, <2>1
    <2> QED
      BY <1>1, <2>2 DEF Holds
  <1>7. HeldOnce'
    <2>1. \A g \in Fd, j \in Places, s \in Id : Holds(g, j, s) => s <= seq
      BY DEF PlaceInv, HeldOnce
    <2>2. \A g \in Fd, j \in Places', s \in Id : Holds(g, j, s)' =>
             \/ j \in Places /\ Holds(g, j, s) /\ s <= seq
             \/ j = n + 1 /\ g = f /\ s = seq + 1
      BY <1>5, <2>1
    <2>3. \A g \in Fd, j \in Places', s \in Id : Holds(g, j, s)' => s <= seq'
      BY <1>1, <2>2 DEF Id
    <2>4. ASSUME NEW g \in Fd, NEW h \in Fd, NEW j \in Places', NEW k \in Places', NEW s \in Id,
                 Holds(g, j, s)', Holds(h, k, s)'
          PROVE  g = h /\ j = k
      <3>1. CASE s <= seq
        <4>1. s # seq + 1
          BY <1>1, <3>1 DEF Id
        <4> QED
          BY <2>2, <2>4, <4>1 DEF PlaceInv, HeldOnce
      <3>2. CASE ~(s <= seq)
        BY <2>2, <2>4, <3>2
      <3> QED
        BY <3>1, <3>2
    <2> QED
      BY <2>3, <2>4 DEF HeldOnce
  <1>8. EndsInTime'
    <2> SUFFICES ASSUME NEW g \in Fd, NEW j \in Places', NEW s \in Id, Holds(g, j, s)',
                        <<"CLOSE", s>> \notin lost'
                 PROVE  /\ \A i \in DOMAIN recvq' :
                              j < i /\ recvq'[i].type = "DATA" /\ recvq'[i].fd = g /\ recvq'[i].id # s
                                 => ClosedBetween(g, j, i)'
                        /\ conn'[g] # s => ClosedAfter(g, j)'
      BY DEF EndsInTime
    <2>1. CASE j \in Places /\ Holds(g, j, s)
      <3>1. ASSUME NEW i \in DOMAIN recvq', j < i, recvq'[i].type = "DATA", recvq'[i].fd = g, recvq'[i].id # s
            PROVE  ClosedBetween(g, j, i)'
        <4>1. i \in 1..(n + 1) /\ i \in DOMAIN recvq /\ recvq'[i] = recvq[i]
          BY <1>1, <3>1, PushedAt
        <4> QED
          BY <1>1, <1>2, <2>1, <3>1, <4>1 DEF PlaceInv, EndsInTime
      <3>2. ASSUME conn'[g] # s PROVE ClosedAfter(g, j)'
        <4>1. conn[g] # s
          BY <1>1, <3>2 DEF TypeOK, Id, None
        <4> QED
          BY <1>1, <1>2, <2>1, <4>1 DEF PlaceInv, EndsInTime
      <3> QED
        BY <3>1, <3>2
    <2>2. CASE j = n + 1 /\ g = f /\ s = seq + 1 /\ conn'[f] = s /\ ~Refused(recvq)
      <3>1. DOMAIN recvq' = 1..(n + 1)
        BY <1>4, <2>2
      <3> QED
        BY <1>1, <2>2, <3>1
    <2> QED
      BY <1>5, <2>1, <2>2
  <1>9. NotClosed'
    <2>1. \A g \in Fd : conn'[g] # None => conn'[g] \in Id /\ (g # f => conn'[g] = conn[g])
      BY <1>1 DEF TypeOK
    <2> SUFFICES ASSUME NEW g \in Fd, NEW j \in Places', NEW s \in Id, s = conn'[g], s # None, Holds(g, j, s)'
                 PROVE  ~ClosedAfter(g, j)'
      BY <2>1 DEF NotClosed, Holds
    <2>2. CASE j \in Places /\ Holds(g, j, s)
      <3>1. s <= seq /\ s # seq + 1
        BY <1>1, <2>2 DEF PlaceInv, HeldOnce, Id
      <3>2. g # f /\ s = conn[g]
        BY <1>1, <2>1, <3>1 DEF TypeOK
      <3> QED
        BY <1>1, <1>2, <2>2, <3>2 DEF PlaceInv, NotClosed
    <2>3. CASE j = n + 1 /\ ~Refused(recvq)
      <3>1. DOMAIN recvq' = 1..(n + 1) /\ Len(recvq') = n + 1
        BY <1>4, <2>3
      <3> QED
        BY <1>1, <2>3, <3>1 DEF ClosedAfter, ClosedBetween
    <2> QED
      BY <1>5, <2>2, <2>3
  <1> QED
    BY <1>2, <1>5, <1>6, <1>7, <1>8, <1>9 DEF PlaceInv

\* The worker takes a block: every place moves one towards the table.
LEMMA TakeHeld ==
    ASSUME ConnAssumption, TypeOK, PlaceInv, Takes
    PROVE  PlaceInv'
  <1> DEFINE n == Len(recvq)
             h == Head(recvq)
  <1>1. UNCHANGED <<conn, seq>> /\ lost \subseteq lost'
    BY DEF Takes, HandleOpen, HandleClose, HandleProcess, parentVars
  <1>2. /\ n \in Nat \ {0} /\ DOMAIN recvq = 1..n /\ h = recvq[1]
        /\ Len(recvq') = n - 1 /\ DOMAIN recvq' = 1..(n - 1)
        /\ \A i \in 1..(n - 1) : recvq'[i] = recvq[i + 1]
    BY TakePlaces
  <1>3. ASSUME NEW g \in Fd, NEW j \in Places', NEW s \in Id, Holds(g, j, s)'
        PROVE  /\ Origin(g, j) \in Places /\ Holds(g, Origin(g, j), s)
               /\ j = 0 /\ Origin(g, j) = 0 => ~(h.type = "CLOSE" /\ h.fd = g)
    BY <1>3, TakePlaces
  <1>4. ASSUME NEW g \in Fd, NEW j \in Places'
        PROVE  /\ j \in Nat /\ Origin(g, j) \in Nat
               /\ j > 0 => Origin(g, j) = j + 1
               /\ j = 0 => Origin(g, j) \in {0, 1}
    BY <1>2 DEF Origin, Places
  <1>5. ASSUME NEW g \in Fd, NEW j \in Places', NEW i \in 1..n
        PROVE  /\ ClosedBetween(g, j, i)' => ClosedBetween(g, Origin(g, j), i + 1)
               /\ /\ ClosedBetween(g, Origin(g, j), i + 1)
                  /\ j = 0 /\ Origin(g, j) = 0 => ~(h.type = "CLOSE" /\ h.fd = g)
                  => ClosedBetween(g, j, i)'
    <2> DEFINE o == Origin(g, j)
    <2>1. /\ j \in Nat /\ o \in Nat
          /\ j > 0 => o = j + 1
          /\ j = 0 => o \in {0, 1}
      BY <1>4
    <2> HIDE DEF o
    <2>2. ASSUME ClosedBetween(g, j, i)' PROVE ClosedBetween(g, o, i + 1)
      <3>1. PICK c \in 1..(n - 1) :
                j < c /\ c < i /\ recvq'[c].type = "CLOSE" /\ recvq'[c].fd = g
        BY <1>2, <2>2 DEF ClosedBetween
      <3>2. c + 1 \in 1..n /\ o < c + 1 /\ c + 1 < i + 1 /\ recvq[c + 1] = recvq'[c]
        BY <1>2, <2>1, <3>1
      <3> QED
        BY <1>2, <3>1, <3>2 DEF ClosedBetween
    <2>3. ASSUME ClosedBetween(g, o, i + 1), j = 0 /\ o = 0 => ~(h.type = "CLOSE" /\ h.fd = g)
          PROVE  ClosedBetween(g, j, i)'
      <3>1. PICK c \in 1..n : o < c /\ c < i + 1 /\ recvq[c].type = "CLOSE" /\ recvq[c].fd = g
        BY <1>2, <2>3 DEF ClosedBetween
      <3>2. c # 1
        BY <1>2, <2>1, <2>3, <3>1
      <3>3. c - 1 \in 1..(n - 1) /\ j < c - 1 /\ c - 1 < i /\ (c - 1) + 1 = c
        BY <1>2, <2>1, <3>1, <3>2
      <3>4. recvq'[c - 1] = recvq[c]
        BY <1>2, <3>3
      <3> QED
        BY <1>2, <3>1, <3>3, <3>4 DEF ClosedBetween
    <2> QED
      BY <2>2, <2>3 DEF o
  <1>6. HeldOnce'
    <2>1. \A g \in Fd, j \in Places', s \in Id : Holds(g, j, s)' => s <= seq'
      BY <1>1, <1>3 DEF PlaceInv, HeldOnce
    <2>2. ASSUME NEW f \in Fd, NEW g \in Fd, NEW j \in Places', NEW k \in Places', NEW s \in Id,
                 Holds(f, j, s)', Holds(g, k, s)'
          PROVE  f = g /\ j = k
      <3>1. f = g /\ Origin(f, j) = Origin(g, k)
        BY <1>3, <2>2 DEF PlaceInv, HeldOnce
      <3> QED
        BY <1>4, <3>1
    <2> QED
      BY <2>1, <2>2 DEF HeldOnce
  <1>7. EndsInTime'
    <2> SUFFICES ASSUME NEW f \in Fd, NEW j \in Places', NEW s \in Id, Holds(f, j, s)',
                        <<"CLOSE", s>> \notin lost'
                 PROVE  /\ \A i \in DOMAIN recvq' :
                              j < i /\ recvq'[i].type = "DATA" /\ recvq'[i].fd = f /\ recvq'[i].id # s
                                 => ClosedBetween(f, j, i)'
                        /\ conn'[f] # s => ClosedAfter(f, j)'
      BY DEF EndsInTime
    <2> DEFINE o == Origin(f, j)
    <2>1. /\ o \in Places /\ Holds(f, o, s) /\ <<"CLOSE", s>> \notin lost
          /\ j = 0 /\ o = 0 => ~(h.type = "CLOSE" /\ h.fd = f)
      BY <1>1, <1>3
    <2>2. ASSUME NEW i \in DOMAIN recvq', j < i, recvq'[i].type = "DATA", recvq'[i].fd = f, recvq'[i].id # s
          PROVE  ClosedBetween(f, j, i)'
      <3>1. i \in 1..n /\ i + 1 \in DOMAIN recvq /\ recvq[i + 1] = recvq'[i] /\ o < i + 1
        BY <1>2, <1>4, <2>2
      <3>2. ClosedBetween(f, o, i + 1)
        BY <2>1, <2>2, <3>1 DEF PlaceInv, EndsInTime
      <3> QED
        BY <1>5, <2>1, <3>1, <3>2
    <2>3. ASSUME conn'[f] # s PROVE ClosedAfter(f, j)'
      <3>1. ClosedBetween(f, o, n + 1)
        BY <1>1, <2>1, <2>3 DEF PlaceInv, EndsInTime, ClosedAfter
      <3>2. n \in 1..n /\ n = Len(recvq') + 1
        BY <1>2
      <3>3. PICK m \in 1..n : m = n /\ m = Len(recvq') + 1
        BY <3>2
      <3>4. ClosedBetween(f, o, m + 1)
        BY <3>1, <3>3
      <3>5. ClosedBetween(f, j, m)'
        BY <1>5, <2>1, <3>4
      <3> QED
        BY <3>3, <3>5 DEF ClosedAfter
    <2> QED
      BY <2>2, <2>3
  <1>8. NotClosed'
    <2>1. \A g \in Fd : conn'[g] = conn[g] /\ (conn[g] # None => conn[g] \in Id)
      BY <1>1 DEF TypeOK
    <2> SUFFICES ASSUME NEW g \in Fd, NEW j \in Places', NEW s \in Id, s = conn'[g], s # None, Holds(g, j, s)'
                 PROVE  ~ClosedAfter(g, j)'
      BY <2>1 DEF NotClosed, Holds
    <2>2. Origin(g, j) \in Places /\ Holds(g, Origin(g, j), s) /\ s = conn[g]
      BY <1>3, <2>1
    <2>3. ~ClosedBetween(g, Origin(g, j), n + 1)
      BY <2>2 DEF PlaceInv, NotClosed, ClosedAfter
    <2>4. n \in 1..n /\ n = Len(recvq') + 1
      BY <1>2
    <2>5. PICK m \in 1..n : m = n /\ m = Len(recvq') + 1
      BY <2>4
    <2>6. ~ClosedBetween(g, Origin(g, j), m + 1)
      BY <2>3, <2>5
    <2>7. ~ClosedBetween(g, j, m)'
      BY <1>5, <2>6
    <2> QED
      BY <2>5, <2>7 DEF ClosedAfter
  <1> QED
    BY <1>6, <1>7, <1>8 DEF PlaceInv

\* A new worker starts with empty queues and an empty table.
LEMMA RestartHeld ==
    ASSUME TypeOK, ParentInv, WorkerInv, HupRestart, recvq' = <<>>
    PROVE  /\ \A g \in Fd, j \in Places', s \in Id : ~Holds(g, j, s)'
           /\ PlaceInv'
  <1>1. /\ \A g \in Fd : sess'[g] = None /\ conn'[g] = None
        /\ Places' = {0}
    BY DEF HupRestart, ParentInv, WorkerInv, Places
  <1>2. \A g \in Fd, j \in Places', s \in Id : ~Holds(g, j, s)'
    BY <1>1 DEF Holds, Id, None
  <1> QED
    BY <1>1, <1>2 DEF PlaceInv, HeldOnce, EndsInTime, NotClosed

------------------------------------------------------------------------------
(* What each process relies on, and the package being processed.            *)

\* Every step of the parent keeps what it relies on itself.
LEMMA ParentKept ==
    ASSUME ConnAssumption, TypeOK, ParentInv, Parent
    PROVE  ParentInv'
  <1>1. CASE CloseFlagged
    <2>1. \A f \in Fd : conn'[f] \in {None, conn[f]}
      BY <1>1 DEF CloseFlagged
    <2> QED
      BY <1>1, <2>1 DEF CloseFlagged, ParentInv, TypeOK, None
  <1>2. CASE OutputDiscard \/ OutputDone \/ WorkerHup \/ EventsDone
    BY <1>2 DEF OutputDiscard, OutputDone, WorkerHup, EventsDone, ParentInv, parentVars, workerVars
  <1>3. CASE OutputFin
    BY <1>3 DEF OutputFin, Current, ParentInv, workerVars
  <1>4. ASSUME NEW f \in Fd, Forget(f), seq' = seq, ppc \in {"send", "events", "hup"} => ppc' = ppc,
               ppc = "delete" => ppc' = "events", UNCHANGED <<alive, restarts>>,
               ppc # "close"
        PROVE  ParentInv'
    <2>1. \A g \in Fd : conn'[g] \in {None, conn[g]} /\ (g # f => conn'[g] = conn[g])
      BY <1>4 DEF Forget, TypeOK
    <2> QED
      BY <1>4, <2>1 DEF Forget, ParentInv, TypeOK, None
  <1>5. CASE OutputData
    <2>1. CASE UNCHANGED <<conn, fin, recvq, lost>>
      BY <1>5, <2>1 DEF OutputData, ParentInv, workerVars
    <2>2. CASE Forget(Head(sendq).fd)
      <3>1. Head(sendq).fd \in Fd
        <4>1. Head(sendq) \in SendBlock
          BY <1>5, TailOf DEF OutputData, TypeOK, SendBlock, AnswerBlock
        <4> QED
          BY <4>1 DEF SendBlock, AnswerBlock, BlockOf
      <3> QED
        BY <1>4, <1>5, <2>2, <3>1 DEF OutputData, workerVars
    <2> QED
      BY <1>5, <2>1, <2>2 DEF OutputData
  <1>6. ASSUME NEW f \in Fd, Accept(f) PROVE ParentInv'
    <2>1. \A g \in Fd : conn'[g] \in {None, seq'} \/ (conn'[g] = conn[g] /\ g # f)
      BY <1>6 DEF Accept, TypeOK
    <2>2. \A g \in Fd : conn'[g] <= seq'
      BY <1>6, <2>1 DEF Accept, TypeOK, ParentInv, None, Id
    <2> QED
      BY <1>6, <2>1, <2>2 DEF Accept, ParentInv, TypeOK
  <1>7. ASSUME NEW f \in Fd, Receive(f) PROVE ParentInv'
    BY <1>7 DEF Receive, ParentInv, workerVars
  <1>8. ASSUME NEW f \in Fd, DeleteVictim(f) \/ PeerGone(f) \/ HupDelete(f) PROVE ParentInv'
    BY <1>4, <1>8 DEF DeleteVictim, PeerGone, HupDelete, workerVars
  <1>9. CASE HupRestart
    BY <1>9 DEF HupRestart, ParentInv
  <1> QED
    BY <1>1, <1>2, <1>3, <1>5, <1>6, <1>7, <1>8, <1>9 DEF Parent

\* Every step of either process keeps what both rely on.
LEMMA WorkerKept ==
    ASSUME ConnAssumption, TypeOK, ParentInv, WorkerInv, Next
    PROVE  ParentInv' /\ WorkerInv'
  <1>1. CASE Parent
    <2>1. UNCHANGED <<sess, cpc, serving>> /\ (alive' = alive \/ alive' = TRUE)
      BY <1>1 DEF Parent, CloseFlagged, OutputDiscard, OutputFin, OutputData, OutputDone, Accept, Receive,
                  DeleteVictim, PeerGone, HupDelete, WorkerHup, HupRestart, EventsDone, workerVars
    <2>2. WorkerInv'
      BY <2>1 DEF WorkerInv
    <2> QED
      BY <1>1, <2>2, ParentKept
  <1>2. CASE Worker
    <2>1. alive /\ UNCHANGED parentVars
      BY <1>2 DEF Worker, Takes, HandleOpen, HandleClose, HandleProcess, WorkerTakes, ProcessKeeps, ProcessCloses,
             PluginCloses, Reply, Crash
    <2>2. ParentInv'
      BY <2>1 DEF ParentInv, parentVars
    <2>3. CASE Crash
      BY <2>2, <2>3 DEF Crash, WorkerInv, parentVars
    <2>4. CASE HandleProcess
      <3>1. Head(recvq) \in RecvBlock
        BY <2>4, TailOf DEF HandleProcess, WorkerTakes, TypeOK, RecvBlock
      <3>2. "type" \in DOMAIN Head(recvq) /\ "type" \notin DOMAIN NoBlock
        BY <3>1 DEF RecvBlock, BlockOf, NoBlock
      <3> QED
        BY <2>1, <2>2, <2>4, <3>2 DEF HandleProcess, WorkerInv
    <2>5. CASE ~Crash /\ ~HandleProcess
      BY <1>2, <2>1, <2>2, <2>5 DEF Worker, Takes, HandleOpen, HandleClose, WorkerTakes, ProcessKeeps,
             ProcessCloses, PluginCloses, Reply, WorkerInv, workerVars
    <2> QED
      BY <2>2, <2>3, <2>4, <2>5
  <1> QED
    BY <1>1, <1>2 DEF Next

\* What is being processed, and what is next in line, comes from the
\* connection whose session it is given to.
LEMMA ServedKept ==
    ASSUME ConnAssumption, TypeOK, WorkerInv, ServedOwnSession, Next, TypeOK', EndsInTime'
    PROVE  ServedOwnSession'
  <1> DEFINE Own(b) == sess[b.fd] \in {None, b.id} \/ <<"CLOSE", sess[b.fd]>> \in lost
  <1>1. ASSUME recvq' # <<>>, Head(recvq').type = "DATA"
        PROVE  \/ sess'[Head(recvq').fd] \in {None, Head(recvq').id}
               \/ <<"CLOSE", sess'[Head(recvq').fd]>> \in lost'
    <2>1. PICK b \in RecvBlock : b = Head(recvq')
      BY <1>1, TailOf DEF TypeOK, RecvBlock
    <2>2. b.fd \in Fd /\ sess'[b.fd] \in Id \cup {None}
      BY <2>1 DEF RecvBlock, BlockOf, TypeOK
    <2>3. recvq'[1] = b /\ 1 \in DOMAIN recvq'
      BY <1>1, <2>1, TailOf DEF TypeOK
    <2>4. SUFFICES ASSUME NEW s \in Id, s = sess'[b.fd], s # b.id, <<"CLOSE", s>> \notin lost' PROVE FALSE
      BY <2>1, <2>2
    <2>5. 0 \in Places' /\ Holds(b.fd, 0, s)'
      BY <2>3, <2>4, TailOf DEF Places, Holds, TypeOK
    <2>6. ClosedBetween(b.fd, 0, 1)'
      BY <1>1, <2>1, <2>2, <2>3, <2>4, <2>5 DEF EndsInTime
    <2> QED
      BY <2>6, TailOf DEF ClosedBetween, TypeOK
  <1>2. ASSUME cpc' = "process" PROVE Own(serving)'
    <2>1. CASE HandleProcess
      BY <1>2, <2>1 DEF HandleProcess, WorkerTakes, ServedOwnSession
    <2>2. CASE ~HandleProcess
      <3>1. UNCHANGED <<cpc, serving>> /\ lost \subseteq lost'
        BY <1>2, <2>2 DEF Next, Parent, Worker, Takes, HandleOpen, HandleClose, WorkerTakes, ProcessKeeps,
              ProcessCloses, PluginCloses, Reply, Crash, CloseFlagged, OutputDiscard, OutputFin, OutputData,
              OutputDone, Accept, Receive, DeleteVictim, PeerGone, HupDelete, WorkerHup, HupRestart, EventsDone,
              workerVars, TellClosed, CloseClient
      <3>2. serving.fd \in Fd
        BY <1>2, <3>1 DEF WorkerInv, TypeOK, BlockOf
      <3>3. \A g \in Fd : sess'[g] \in {None, sess[g]}
        BY <1>2, <2>2, <3>1 DEF Next, Parent, Worker, Takes, HandleOpen, HandleClose, WorkerTakes, ProcessKeeps,
              ProcessCloses, PluginCloses, Reply, Crash, CloseFlagged, OutputDiscard, OutputFin, OutputData,
              OutputDone, Accept, Receive, DeleteVictim, PeerGone, HupDelete, WorkerHup, HupRestart, EventsDone,
              workerVars, CloseClient, TypeOK
      <3> QED
        BY <1>2, <3>1, <3>2, <3>3 DEF ServedOwnSession
    <2> QED
      BY <2>1, <2>2
  <1> QED
    BY <1>1, <1>2 DEF ServedOwnSession

------------------------------------------------------------------------------
(* The places in every step, and the FIN blocks.                            *)

Gone(g, s) == \A j \in Places : ~Holds(g, j, s)

\* Every step keeps the sessions apart, and brings none back that is gone.
LEMMA PlacesKept ==
    ASSUME ConnAssumption, TypeOK, ParentInv, WorkerInv, PlaceInv, FinIsTrue, Next
    PROVE  /\ PlaceInv'
           /\ \A g \in Fd, s \in Id : s <= seq /\ Gone(g, s) => Gone(g, s)'
  <1>1. ASSUME UNCHANGED <<recvq, seq>>, lost \subseteq lost',
               \A g \in Fd : sess'[g] \in {None, sess[g]},
               \A g \in Fd : conn'[g] = conn[g] \/ (conn'[g] = None /\ g \in fin)
        PROVE  /\ PlaceInv'
               /\ \A g \in Fd, s \in Id : Gone(g, s) => Gone(g, s)'
    BY <1>1, FewerHeld DEF Gone
  <1>2. ASSUME NEW f \in Fd, conn[f] # None, TellClosed(f), Forget(f), UNCHANGED <<sess, seq>>
        PROVE  /\ PlaceInv'
               /\ \A g \in Fd, s \in Id : Gone(g, s) => Gone(g, s)'
    BY <1>2, ToldHeld DEF Gone
  <1>3. CASE CloseFlagged \/ OutputDiscard \/ OutputFin \/ OutputDone \/ WorkerHup \/ EventsDone
             \/ ProcessKeeps \/ Crash
    <2>1. UNCHANGED <<recvq, seq, lost>> /\ \A g \in Fd : sess'[g] \in {None, sess[g]}
      BY <1>3 DEF CloseFlagged, OutputDiscard, OutputFin, OutputDone, WorkerHup, EventsDone, ProcessKeeps,
                  Crash, parentVars, workerVars
    <2>2. \A g \in Fd : conn'[g] = conn[g] \/ (conn'[g] = None /\ g \in fin)
      BY <1>3 DEF CloseFlagged, OutputDiscard, OutputFin, OutputDone, WorkerHup, EventsDone, ProcessKeeps,
                  Crash, parentVars
    <2> QED
      BY <1>1, <2>1, <2>2
  <1>4. CASE OutputData
    <2>1. UNCHANGED <<sess, seq>>
      BY <1>4 DEF OutputData, workerVars
    <2>2. CASE UNCHANGED <<conn, fin, recvq, lost>>
      BY <1>1, <2>1, <2>2
    <2>3. CASE TellClosed(Head(sendq).fd) /\ Forget(Head(sendq).fd)
      <3>1. Head(sendq) \in SendBlock
        BY <1>4, TailOf DEF OutputData, TypeOK, SendBlock, AnswerBlock
      <3>2. Head(sendq).fd \in Fd /\ conn[Head(sendq).fd] # None
        BY <1>4, <3>1 DEF OutputData, Current, SendBlock, AnswerBlock, BlockOf
      <3> QED
        BY <1>2, <2>1, <2>3, <3>2
    <2> QED
      BY <1>4, <2>2, <2>3 DEF OutputData
  <1>5. ASSUME NEW f \in Fd, Accept(f)
        PROVE  /\ PlaceInv'
               /\ \A g \in Fd, s \in Id : s <= seq /\ Gone(g, s) => Gone(g, s)'
    <2>1. \A s \in Id : s <= seq => s # seq + 1
      BY DEF TypeOK, ConnAssumption, Id
    <2> QED
      BY <1>5, <2>1, OpenHeld DEF Gone
  <1>6. ASSUME NEW f \in Fd, Receive(f)
        PROVE  /\ PlaceInv'
               /\ \A g \in Fd, s \in Id : Gone(g, s) => Gone(g, s)'
    <2>1. /\ conn[f] # None /\ recvq' = Push(recvq, Block("DATA", f, conn[f]))
          /\ UNCHANGED <<conn, sess, seq, lost>>
      BY <1>6 DEF Receive, workerVars
    <2> QED
      BY <2>1, DataHeld DEF Gone
  <1>7. ASSUME NEW f \in Fd, DeleteVictim(f) \/ PeerGone(f) \/ HupDelete(f)
        PROVE  /\ PlaceInv'
               /\ \A g \in Fd, s \in Id : Gone(g, s) => Gone(g, s)'
    BY <1>2, <1>7 DEF DeleteVictim, PeerGone, HupDelete, workerVars, ParentInv
  <1>8. CASE HupRestart
    <2>1. CASE recvq' = <<>>
      BY <1>8, <2>1, RestartHeld DEF Gone
    <2>2. CASE recvq' = recvq
      BY <1>1, <1>8, <2>2 DEF HupRestart
    <2> QED
      BY <1>8, <2>1, <2>2 DEF HupRestart
  <1>9. CASE Takes
    BY <1>9, TakeHeld, TakePlaces DEF Gone
  <1>10. ASSUME NEW f \in Fd, CloseClient(f), UNCHANGED <<recvq, parentVars>>
         PROVE  /\ PlaceInv'
                /\ \A g \in Fd, s \in Id : Gone(g, s) => Gone(g, s)'
    BY <1>1, <1>10 DEF CloseClient, parentVars, TypeOK
  <1>11. CASE ProcessCloses
    <2>1. serving.fd \in Fd
      BY <1>11 DEF ProcessCloses, WorkerInv, TypeOK, BlockOf
    <2> QED
      BY <1>1, <1>10, <1>11, <2>1 DEF ProcessCloses, parentVars
  <1>12. ASSUME NEW f \in Fd, PluginCloses(f) \/ Reply(f)
         PROVE  /\ PlaceInv'
                /\ \A g \in Fd, s \in Id : Gone(g, s) => Gone(g, s)'
    BY <1>1, <1>10, <1>12 DEF PluginCloses, Reply, parentVars, workerVars
  <1> QED
    BY <1>3, <1>4, <1>5, <1>6, <1>7, <1>8, <1>9, <1>11, <1>12 DEF Next, Parent, Worker

\* What is on sendq after a step was there before, or was pushed.
LEMMA SendPush ==
    ASSUME TypeOK, NEW b \in SendBlock, NEW n \in DOMAIN Push(sendq, b)
    PROVE  (\E m \in DOMAIN sendq : Push(sendq, b)[n] = sendq[m]) \/ Push(sendq, b)[n] = b
  <1>1. sendq \in Seq(SendBlock)
    BY DEF TypeOK, SendBlock, AnswerBlock
  <1> QED
    BY <1>1 DEF Push

\* What is left on sendq when the parent has taken a block.
LEMMA SendTail ==
    ASSUME TypeOK, sendq # <<>>
    PROVE  /\ Head(sendq) \in SendBlock /\ 1 \in DOMAIN sendq /\ Head(sendq) = sendq[1]
           /\ \A n \in DOMAIN Tail(sendq) : \E m \in DOMAIN sendq : Tail(sendq)[n] = sendq[m]
           /\ \A m \in DOMAIN sendq : sendq[m] = Head(sendq) \/ \E n \in DOMAIN Tail(sendq) : Tail(sendq)[n] = sendq[m]
  <1>1. sendq \in Seq(SendBlock)
    BY DEF TypeOK, SendBlock, AnswerBlock
  <1>2. /\ Head(sendq) \in SendBlock /\ Head(sendq) = sendq[1] /\ Len(sendq) \in Nat \ {0}
        /\ DOMAIN sendq = 1..Len(sendq) /\ DOMAIN Tail(sendq) = 1..(Len(sendq) - 1)
        /\ \A i \in 1..(Len(sendq) - 1) : Tail(sendq)[i] = sendq[i + 1]
    BY <1>1, TailOf
  <1>3. ASSUME NEW m \in DOMAIN sendq, m # 1
        PROVE  m - 1 \in DOMAIN Tail(sendq) /\ Tail(sendq)[m - 1] = sendq[m]
    BY <1>2, <1>3
  <1>4. ASSUME NEW n \in DOMAIN Tail(sendq)
        PROVE  n + 1 \in DOMAIN sendq /\ Tail(sendq)[n] = sendq[n + 1]
    BY <1>2, <1>4
  <1>5. 1 \in DOMAIN sendq
    BY <1>2
  <1>6. \A n \in DOMAIN Tail(sendq) : \E m \in DOMAIN sendq : Tail(sendq)[n] = sendq[m]
    BY <1>4
  <1>7. ASSUME NEW m \in DOMAIN sendq
        PROVE  sendq[m] = Head(sendq) \/ \E n \in DOMAIN Tail(sendq) : Tail(sendq)[n] = sendq[m]
    BY <1>2, <1>3
  <1> QED
    BY <1>2, <1>5, <1>6, <1>7

\* What is on sendq stays there when a block is pushed.
LEMMA SendPushed ==
    ASSUME ConnAssumption, TypeOK, NEW b \in SendBlock
    PROVE  /\ \A m \in DOMAIN sendq : \E n \in DOMAIN Push(sendq, b) : Push(sendq, b)[n] = sendq[m]
           /\ ~Refused(sendq) => \E n \in DOMAIN Push(sendq, b) : Push(sendq, b)[n] = b
  <1>1. sendq \in Seq(SendBlock)
    BY DEF TypeOK, SendBlock, AnswerBlock
  <1>2. \A m \in DOMAIN sendq : m \in DOMAIN Push(sendq, b) /\ Push(sendq, b)[m] = sendq[m]
    BY <1>1 DEF Push
  <1>3. ~Refused(sendq) =>
           Len(sendq) + 1 \in DOMAIN Push(sendq, b) /\ Push(sendq, b)[Len(sendq) + 1] = b
    BY <1>1 DEF Push
  <1> QED
    BY <1>2, <1>3

\* FIN blocks stay true when each is an old one, or about a session that is
\* gone, and the close queue only takes over what a FIN block said.
LEMMA FinsKept ==
    ASSUME TypeOK, TypeOK', ParentInv, FinIsTrue,
           seq <= seq',
           \A g \in Fd, s \in Id : s <= seq /\ Gone(g, s) => Gone(g, s)',
           \A n \in DOMAIN sendq' :
              \/ \E m \in DOMAIN sendq : sendq'[n] = sendq[m]
              \/ \E g \in Fd, s \in Id : sendq'[n] = Block("FIN", g, s) /\ s <= seq /\ Gone(g, s)'
              \/ sendq'[n].type # "FIN",
           \A f \in fin' : \E s \in Id :
              /\ s = conn'[f]
              /\ \/ f \in fin /\ s = conn[f]
                 \/ \E m \in DOMAIN sendq : sendq[m] = Block("FIN", f, s)
    PROVE  FinIsTrue'
  <1>1. \A m \in DOMAIN sendq : sendq[m] \in SendBlock
    BY DEF TypeOK, SendBlock, AnswerBlock
  <1>2. \A m \in DOMAIN sendq : sendq[m].fd \in Fd /\ sendq[m].id \in Id
    BY <1>1 DEF SendBlock, AnswerBlock, BlockOf
  <1>3. \A s \in Id : s <= seq => s <= seq'
    BY DEF TypeOK, Id
  <1>4. ASSUME NEW n \in DOMAIN sendq', sendq'[n].type = "FIN"
        PROVE  sendq'[n].id <= seq' /\ \A j \in Places' : ~Holds(sendq[n].fd, j, sendq[n].id)'
    <2>1. CASE \E m \in DOMAIN sendq : sendq'[n] = sendq[m]
      <3>1. PICK m \in DOMAIN sendq : sendq'[n] = sendq[m]
        BY <2>1
      <3>2. PICK g \in Fd, s \in Id : g = sendq[m].fd /\ s = sendq[m].id
        BY <1>2
      <3>3. s <= seq /\ Gone(g, s)
        BY <1>4, <3>1, <3>2 DEF FinIsTrue, Gone
      <3>4. s <= seq' /\ \A j \in Places' : ~Holds(g, j, s)'
        BY <1>3, <3>3 DEF Gone
      <3> QED
        BY <3>1, <3>2, <3>4 DEF Holds
    <2>2. CASE \E g \in Fd, s \in Id : sendq'[n] = Block("FIN", g, s) /\ s <= seq /\ Gone(g, s)'
      <3>1. PICK g \in Fd, s \in Id : sendq'[n] = Block("FIN", g, s) /\ s <= seq /\ Gone(g, s)'
        BY <2>2
      <3>2. sendq'[n].fd = g /\ sendq'[n].id = s
        BY <3>1 DEF Block
      <3>3. s <= seq' /\ \A j \in Places' : ~Holds(g, j, s)'
        BY <1>3, <3>1 DEF Gone
      <3> QED
        BY <3>2, <3>3 DEF Holds
    <2> QED
      BY <1>4, <2>1, <2>2
  <1>5. ASSUME NEW f \in fin', NEW j \in Places'
        PROVE  ~Holds(f, j, conn[f])'
    <2>1. PICK s \in Id : /\ s = conn'[f]
                          /\ \/ f \in fin /\ s = conn[f]
                             \/ \E m \in DOMAIN sendq : sendq[m] = Block("FIN", f, s)
      BY <1>5
    <2>2. f \in Fd
      BY DEF TypeOK
    <2>3. s <= seq /\ Gone(f, s)
      <3>1. CASE f \in fin /\ s = conn[f]
        BY <2>2, <3>1 DEF FinIsTrue, Gone, ParentInv
      <3>2. CASE \E m \in DOMAIN sendq : sendq[m] = Block("FIN", f, s)
        BY <3>2 DEF FinIsTrue, Gone, Block
      <3> QED
        BY <2>1, <3>1, <3>2
    <2>4. ~Holds(f, j, s)'
      BY <2>2, <2>3 DEF Gone
    <2> QED
      BY <2>1, <2>4 DEF Holds
  <1> QED
    BY <1>4, <1>5 DEF FinIsTrue

\* The session of a connection, or the OPEN block for it, goes with a FIN.
LEMMA EndedByOpen ==
    ASSUME ConnAssumption, TypeOK, PlaceInv, HandleOpen, ~Opens
    PROVE  \E g \in Fd, s \in Id : Head(recvq).fd = g /\ Head(recvq).id = s /\ s <= seq /\ Gone(g, s)'
  <1> DEFINE b == Head(recvq)
  <1>1. b \in RecvBlock /\ b = recvq[1] /\ b.type = "OPEN" /\ 1 \in Places /\ Takes
    <2>1. Takes
      BY DEF Takes
    <2>2. Len(recvq) \in Nat \ {0} /\ b \in RecvBlock /\ b = recvq[1]
      BY <2>1, TakePlaces
    <2> QED
      BY <2>1, <2>2 DEF HandleOpen, WorkerTakes, Places
  <1>2. b.fd \in Fd /\ b.id \in Id /\ b = Block("OPEN", b.fd, b.id)
    BY <1>1 DEF RecvBlock, BlockOf, Block
  <1>3. Holds(b.fd, 1, b.id)
    BY <1>1, <1>2 DEF Holds
  <1>4. b.id <= seq
    BY <1>1, <1>2, <1>3 DEF PlaceInv, HeldOnce
  <1>5. PICK g \in Fd, s \in Id : g = b.fd /\ s = b.id
    BY <1>2
  <1>6. ASSUME NEW j \in Places', Holds(g, j, s)' PROVE FALSE
    <2>1. Origin(g, j) \in Places /\ Holds(g, Origin(g, j), s)
      BY <1>1, <1>6, TakePlaces
    <2>2. Origin(g, j) = 1
      BY <1>1, <1>3, <1>5, <2>1 DEF PlaceInv, HeldOnce
    <2>3. j \in Nat /\ (j > 0 => j + 1 # 1)
      BY <1>1, TakePlaces DEF Places
    <2> QED
      BY <2>2, <2>3 DEF Origin
  <1>7. Gone(g, s)'
    BY <1>6 DEF Gone
  <1> QED
    BY <1>4, <1>5, <1>7

\* close_client_conn leaves nothing of the session it tells the parent of.
LEMMA EndedByClose ==
    ASSUME ConnAssumption, TypeOK, PlaceInv, UNCHANGED recvq, NEW f \in Fd, CloseClient(f)
    PROVE  \E s \in Id : sess[f] = s /\ s <= seq /\ Gone(f, s)'
  <1>1. PICK s \in Id : s = sess[f]
    BY DEF CloseClient, TypeOK
  <1>2. 0 \in Places /\ Holds(f, 0, s) /\ Places' = Places
    BY <1>1 DEF Places, Holds, TypeOK
  <1>3. s <= seq
    BY <1>2 DEF PlaceInv, HeldOnce
  <1>4. ASSUME NEW j \in Places', Holds(f, j, s)' PROVE FALSE
    <2>1. j # 0
      BY <1>4 DEF Holds, CloseClient, TypeOK, Id, None
    <2>2. Holds(f, j, s)
      BY <1>4, <2>1 DEF Holds
    <2> QED
      BY <1>2, <2>1, <2>2 DEF PlaceInv, HeldOnce
  <1> QED
    BY <1>1, <1>3, <1>4 DEF Gone

\* In every step a FIN is about a session that is no more.
LEMMA FinTrueKept ==
    ASSUME ConnAssumption, TypeOK, TypeOK', ParentInv, WorkerInv, PlaceInv, FinIsTrue, Next
    PROVE  FinIsTrue'
  <1>1. \A g \in Fd, s \in Id : s <= seq /\ Gone(g, s) => Gone(g, s)'
    BY PlacesKept
  <1>2. seq <= seq'
    <2>1. seq' = seq \/ seq' = seq + 1
      BY DEF Next, Parent, Worker, Takes, HandleOpen, HandleClose, HandleProcess, ProcessKeeps, ProcessCloses,
             PluginCloses, Reply, Crash, CloseFlagged, OutputDiscard, OutputFin, OutputData, OutputDone, Accept,
             Receive, DeleteVictim, PeerGone, HupDelete, WorkerHup, HupRestart, EventsDone, parentVars
    <2> QED
      BY <2>1 DEF TypeOK
  <1> DEFINE Old(n) == \E m \in DOMAIN sendq : sendq'[n] = sendq[m]
             New(n) == \E g \in Fd, s \in Id : sendq'[n] = Block("FIN", g, s) /\ s <= seq /\ Gone(g, s)'
             Kept(f) == \E s \in Id : s = conn'[f] /\ f \in fin /\ s = conn[f]
             Noted(f) == \E s \in Id : s = conn'[f] /\ \E m \in DOMAIN sendq : sendq[m] = Block("FIN", f, s)
  <1>3. SUFFICES /\ \A n \in DOMAIN sendq' : Old(n) \/ New(n) \/ sendq'[n].type # "FIN"
                 /\ \A f \in fin' : Kept(f) \/ Noted(f)
    BY <1>1, <1>2, FinsKept
  <1>4. \A f \in fin : f \in Fd /\ conn[f] \in Id
    BY DEF ParentInv, TypeOK
  <1>5. \A f \in fin : conn'[f] = conn[f] => Kept(f)
    BY <1>4
  <1>6. sendq' = sendq => \A n \in DOMAIN sendq' : Old(n)
    OBVIOUS
  <1>7. ASSUME NEW f \in Fd, Forget(f) PROVE \A g \in fin' : Kept(g)
    BY <1>5, <1>7 DEF Forget, TypeOK
  <1>8. fin' = fin /\ conn' = conn => \A f \in fin' : Kept(f)
    BY <1>5
  <1> HIDE DEF Old, New, Kept, Noted
  <1>9. CASE CloseFlagged
    BY <1>6, <1>9 DEF CloseFlagged
  <1>10. CASE OutputDone \/ WorkerHup \/ EventsDone \/ HandleClose \/ HandleProcess \/ ProcessKeeps \/ Crash
    BY <1>6, <1>8, <1>10 DEF OutputDone, WorkerHup, EventsDone, HandleClose, HandleProcess, ProcessKeeps, Crash,
                             parentVars
  <1>11. ASSUME sendq # <<>>, sendq' = Tail(sendq) PROVE \A n \in DOMAIN sendq' : Old(n)
    BY <1>11, SendTail DEF Old
  <1>12. CASE OutputDiscard
    BY <1>8, <1>11, <1>12 DEF OutputDiscard, parentVars
  <1>13. CASE OutputFin
    <2>1. sendq # <<>> /\ sendq' = Tail(sendq) /\ conn' = conn /\ fin' = fin \cup {Head(sendq).fd}
      BY <1>13 DEF OutputFin
    <2>2. PICK b \in SendBlock : b = Head(sendq) /\ \E m \in DOMAIN sendq : sendq[m] = b
      BY <2>1, SendTail
    <2>3. b = Block("FIN", b.fd, b.id) /\ b.id = conn[b.fd] /\ b.id \in Id
      BY <1>13, <2>2 DEF OutputFin, Current, SendBlock, AnswerBlock, BlockOf, Block
    <2>4. Noted(b.fd)
      BY <2>1, <2>2, <2>3 DEF Noted
    <2> QED
      BY <1>5, <1>11, <2>1, <2>2, <2>4
  <1>14. CASE OutputData
    <2>1. sendq # <<>> /\ sendq' = Tail(sendq) /\ Head(sendq).fd \in Fd
      BY <1>14, SendTail DEF OutputData, SendBlock, AnswerBlock, BlockOf
    <2> QED
      BY <1>7, <1>8, <1>11, <1>14, <2>1 DEF OutputData
  <1>15. ASSUME NEW f \in Fd, Accept(f)
         PROVE  /\ \A n \in DOMAIN sendq' : Old(n)
                /\ \A g \in fin' : Kept(g)
    <2>1. sendq' = sendq /\ fin' = fin /\ f \notin fin /\ \A g \in Fd : g # f => conn'[g] = conn[g]
      BY <1>15 DEF Accept, ParentInv, TypeOK
    <2> QED
      BY <1>4, <1>5, <1>6, <2>1
  <1>16. ASSUME NEW f \in Fd, Receive(f)
         PROVE  /\ \A n \in DOMAIN sendq' : Old(n)
                /\ \A g \in fin' : Kept(g)
    BY <1>6, <1>8, <1>16 DEF Receive
  <1>17. ASSUME NEW f \in Fd, DeleteVictim(f) \/ PeerGone(f) \/ HupDelete(f)
         PROVE  /\ \A n \in DOMAIN sendq' : Old(n)
                /\ \A g \in fin' : Kept(g)
    BY <1>6, <1>7, <1>17 DEF DeleteVictim, PeerGone, HupDelete
  <1>18. CASE HupRestart
    BY <1>6, <1>8, <1>18 DEF HupRestart
  <1>19. ASSUME NEW g \in Fd, NEW s \in Id, s <= seq, Gone(g, s)', sendq' = Push(sendq, Block("FIN", g, s))
         PROVE  \A n \in DOMAIN sendq' : Old(n) \/ New(n)
    <2>1. Block("FIN", g, s) \in SendBlock
      BY DEF Block, SendBlock, AnswerBlock, BlockOf
    <2> QED
      BY <1>19, <2>1, SendPush DEF Old, New
  <1>20. CASE HandleOpen
    <2>1. CASE Opens
      BY <1>6, <1>8, <1>20, <2>1 DEF HandleOpen, Opens, parentVars
    <2>2. CASE ~Opens
      <3>1. sendq' = Push(sendq, Block("FIN", Head(recvq).fd, Head(recvq).id))
        BY <1>20, <2>2 DEF HandleOpen, Opens, WorkerTakes
      <3> QED
        BY <1>8, <1>19, <1>20, <2>2, <3>1, EndedByOpen DEF HandleOpen, parentVars
    <2> QED
      BY <2>1, <2>2
  <1>21. ASSUME NEW f \in Fd, CloseClient(f), UNCHANGED recvq
         PROVE  \A n \in DOMAIN sendq' : Old(n) \/ New(n)
    <2>1. sendq' = Push(sendq, Block("FIN", f, sess[f]))
      BY <1>21 DEF CloseClient
    <2> QED
      BY <1>19, <1>21, <2>1, EndedByClose
  <1>22. CASE ProcessCloses
    <2>1. serving.fd \in Fd
      BY <1>22 DEF ProcessCloses, WorkerInv, TypeOK, BlockOf
    <2> QED
      BY <1>6, <1>8, <1>21, <1>22, <2>1 DEF ProcessCloses, parentVars
  <1>23. ASSUME NEW f \in Fd, PluginCloses(f)
         PROVE  /\ \A n \in DOMAIN sendq' : Old(n) \/ New(n)
                /\ \A g \in fin' : Kept(g)
    BY <1>8, <1>21, <1>23 DEF PluginCloses, parentVars
  <1>24. ASSUME NEW f \in Fd, Reply(f)
         PROVE  /\ \A n \in DOMAIN sendq' : Old(n) \/ sendq'[n].type # "FIN"
                /\ \A g \in fin' : Kept(g)
    <2>1. PICK b \in SendBlock : sendq' = Push(sendq, b) /\ b.type = "DATA"
      BY <1>24 DEF Reply, Answer, SendBlock, AnswerBlock, TypeOK
    <2> QED
      BY <1>8, <1>24, <2>1, SendPush DEF Reply, parentVars, Old
  <1> QED
    BY <1>9, <1>10, <1>12, <1>13, <1>14, <1>15, <1>16, <1>17, <1>18, <1>20, <1>22, <1>23, <1>24
       DEF Next, Parent, Worker, Takes

\* A FIN on its way, noted or refused stays so, as long as the connection it
\* is about is there.
Told(f, s) ==
    \/ f \in fin \/ <<"FIN", s>> \in lost
    \/ \E n \in DOMAIN sendq : sendq[n] = Block("FIN", f, s)

LEMMA ToldKept ==
    ASSUME ConnAssumption, TypeOK, WorkerInv, Next, alive,
           NEW f \in Fd, NEW s \in Id, conn[f] = s, conn'[f] = s, Told(f, s)
    PROVE  Told(f, s)'
  <1>1. s # None
    BY DEF Id, None
  <1>2. ASSUME f \in fin => f \in fin', lost \subseteq lost',
               sendq' = sendq \/ \E b \in SendBlock : sendq' = Push(sendq, b)
        PROVE  Told(f, s)'
    BY <1>2, SendPushed DEF Told
  <1>3. ASSUME NEW g \in Fd, Forget(g) PROVE f \in fin => f \in fin'
    BY <1>1, <1>3 DEF Forget, TypeOK
  <1>4. CASE CloseFlagged \/ OutputDone \/ WorkerHup \/ EventsDone \/ HandleClose \/ HandleProcess
             \/ ProcessKeeps \/ Crash
    BY <1>1, <1>2, <1>4 DEF CloseFlagged, OutputDone, WorkerHup, EventsDone, HandleClose, HandleProcess,
                            ProcessKeeps, Crash, parentVars
  <1>5. ASSUME sendq # <<>>, sendq' = Tail(sendq), f \in fin => f \in fin', lost \subseteq lost',
               Head(sendq) = Block("FIN", f, s) => f \in fin'
        PROVE  Told(f, s)'
    BY <1>5, SendTail DEF Told
  <1>6. CASE OutputDiscard
    <2>1. Head(sendq) # Block("FIN", f, s)
      BY <1>1, <1>6 DEF OutputDiscard, Current, Block
    <2> QED
      BY <1>5, <1>6, <2>1 DEF OutputDiscard, parentVars
  <1>7. CASE OutputFin
    BY <1>5, <1>7 DEF OutputFin, Block
  <1>8. CASE OutputData
    <2>1. Head(sendq).fd \in Fd /\ Head(sendq) # Block("FIN", f, s)
      BY <1>8, SendTail DEF OutputData, SendBlock, AnswerBlock, BlockOf, Block
    <2>2. f \in fin => f \in fin'
      BY <1>3, <1>8, <2>1 DEF OutputData
    <2>3. lost \subseteq lost'
      BY <1>8 DEF OutputData, TellClosed
    <2> QED
      BY <1>5, <1>8, <2>1, <2>2, <2>3 DEF OutputData
  <1>9. ASSUME NEW g \in Fd, Accept(g) \/ Receive(g) PROVE Told(f, s)'
    BY <1>2, <1>9 DEF Accept, Receive
  <1>10. ASSUME NEW g \in Fd, DeleteVictim(g) \/ PeerGone(g) \/ HupDelete(g) PROVE Told(f, s)'
    <2>1. Forget(g) /\ TellClosed(g) /\ sendq' = sendq
      BY <1>10 DEF DeleteVictim, PeerGone, HupDelete
    <2> QED
      BY <1>2, <1>3, <2>1 DEF TellClosed
  <1>11. CASE HupRestart
    BY <1>1, <1>11 DEF HupRestart
  <1>12. ASSUME NEW g \in Fd, CloseClient(g), UNCHANGED parentVars PROVE Told(f, s)'
    <2>1. Block("FIN", g, sess[g]) \in SendBlock
      BY <1>12 DEF CloseClient, TypeOK, SendBlock, AnswerBlock, BlockOf, Block
    <2> QED
      BY <1>2, <1>12, <2>1 DEF CloseClient, parentVars
  <1>13. CASE HandleOpen
    <2>1. Block("FIN", Head(recvq).fd, Head(recvq).id) \in SendBlock
      <3>1. Head(recvq) \in RecvBlock
        BY <1>13, TakePlaces DEF Takes
      <3> QED
        BY <3>1 DEF RecvBlock, SendBlock, AnswerBlock, BlockOf, Block
    <2>2. sendq' = sendq \/ sendq' = Push(sendq, Block("FIN", Head(recvq).fd, Head(recvq).id))
      BY <1>13 DEF HandleOpen
    <2>3. lost \subseteq lost' /\ fin' = fin
      BY <1>13 DEF HandleOpen, parentVars
    <2> QED
      BY <1>2, <2>1, <2>2, <2>3
  <1>14. CASE ProcessCloses
    <2>1. serving.fd \in Fd
      BY <1>14 DEF ProcessCloses, WorkerInv, TypeOK, BlockOf
    <2> QED
      BY <1>2, <1>12, <1>14, <2>1 DEF ProcessCloses, parentVars
  <1>15. ASSUME NEW g \in Fd, PluginCloses(g) PROVE Told(f, s)'
    BY <1>12, <1>15 DEF PluginCloses
  <1>16. ASSUME NEW g \in Fd, Reply(g) PROVE Told(f, s)'
    <2>1. PICK o \in asked[g] : sendq' = Push(sendq, Answer(g, sess[g], o))
      BY <1>16 DEF Reply
    <2>2. Answer(g, sess[g], o) \in SendBlock
      BY <1>16, <2>1 DEF Reply, TypeOK, Answer, SendBlock, AnswerBlock
    <2> QED
      BY <1>2, <1>16, <2>1, <2>2 DEF Reply, parentVars
  <1> QED
    BY <1>4, <1>6, <1>7, <1>8, <1>9, <1>10, <1>11, <1>13, <1>14, <1>15, <1>16 DEF Next, Parent, Worker, Takes

\* The session of a connection stays, or is ended with a FIN.
LEMMA SessionKept ==
    ASSUME ConnAssumption, TypeOK, ParentInv, WorkerInv, PlaceInv, Next, alive, alive',
           NEW f \in Fd, NEW s \in Id, conn[f] = s, conn'[f] = s,
           NEW j \in Places, Holds(f, j, s)
    PROVE  (\E k \in Places' : Holds(f, k, s)') \/ Told(f, s)'
  <1>1. s # None
    BY DEF Id, None
  <1>2. ASSUME recvq' = recvq, sess'[f] = sess[f]
        PROVE  \E k \in Places' : Holds(f, k, s)'
    BY <1>2 DEF Holds, Places
  <1>3. CASE CloseFlagged \/ OutputDiscard \/ OutputFin \/ OutputDone \/ WorkerHup \/ EventsDone \/ ProcessKeeps
             \/ Crash
    BY <1>2, <1>3 DEF CloseFlagged, OutputDiscard, OutputFin, OutputDone, WorkerHup, EventsDone, ProcessKeeps,
                      Crash, workerVars, parentVars
  <1>4. ASSUME NEW g \in Fd, conn[g] # None, TellClosed(g), Forget(g), UNCHANGED <<sess, seq>>
        PROVE  \E k \in Places' : Holds(f, k, s)'
    BY <1>4, ToldHeld
  <1>5. CASE OutputData
    <2>1. Head(sendq).fd \in Fd /\ conn[Head(sendq).fd] # None /\ UNCHANGED <<sess, seq>>
      BY <1>5, SendTail DEF OutputData, SendBlock, AnswerBlock, BlockOf, Current, workerVars
    <2> QED
      BY <1>2, <1>4, <1>5, <2>1 DEF OutputData
  <1>6. ASSUME NEW g \in Fd, Accept(g) PROVE \E k \in Places' : Holds(f, k, s)'
    BY <1>6, OpenHeld
  <1>7. ASSUME NEW g \in Fd, Receive(g) PROVE \E k \in Places' : Holds(f, k, s)'
    BY <1>7, DataHeld DEF Receive, workerVars
  <1>8. ASSUME NEW g \in Fd, PeerGone(g) \/ HupDelete(g) PROVE \E k \in Places' : Holds(f, k, s)'
    BY <1>4, <1>8 DEF PeerGone, HupDelete, workerVars
  <1>9. ASSUME NEW g \in Fd, DeleteVictim(g) PROVE \E k \in Places' : Holds(f, k, s)'
    BY <1>4, <1>9 DEF DeleteVictim, ParentInv, workerVars
  <1>10. CASE HupRestart
    BY <1>1, <1>10 DEF HupRestart
  <1>11. CASE Takes
    <2>1. /\ \/ \E k \in Places' : Origin(f, k) = j /\ Holds(f, k, s)'
             \/ j = 1 /\ Head(recvq).type = "OPEN" /\ ~Opens
             \/ j = 0 /\ Head(recvq).type = "CLOSE" /\ Head(recvq).fd = f
          /\ Head(recvq) = recvq[1] /\ Len(recvq) \in Nat \ {0} /\ DOMAIN recvq = 1..Len(recvq)
      BY <1>11, TakePlaces
    <2>2. CASE j = 1 /\ Head(recvq).type = "OPEN" /\ ~Opens
      <3>1. HandleOpen
        BY <1>11, <2>2 DEF Takes, HandleClose, HandleProcess, WorkerTakes
      <3>2. Head(recvq) = Block("OPEN", f, s)
        BY <2>1, <2>2 DEF Holds
      <3>3. Head(recvq).fd = f /\ Head(recvq).id = s
        BY <3>2 DEF Block
      <3>4. /\ sendq' = Push(sendq, Block("FIN", f, s))
            /\ lost' = IF Refused(sendq) THEN lost \cup {<<"FIN", s>>} ELSE lost
        BY <2>2, <3>1, <3>3 DEF HandleOpen, Opens
      <3>5. Block("FIN", f, s) \in SendBlock
        BY DEF Block, SendBlock, AnswerBlock, BlockOf
      <3> QED
        BY <3>4, <3>5, SendPushed DEF Told
    <2>3. CASE j = 0 /\ Head(recvq).type = "CLOSE" /\ Head(recvq).fd = f
      <3>1. ClosedAfter(f, j)
        BY <2>1, <2>3 DEF ClosedAfter, ClosedBetween
      <3> QED
        BY <1>1, <3>1 DEF PlaceInv, NotClosed
    <2> QED
      BY <2>1, <2>2, <2>3
  <1>12. ASSUME NEW g \in Fd, CloseClient(g), UNCHANGED recvq
         PROVE  (\E k \in Places' : Holds(f, k, s)') \/ Told(f, s)'
    <2>1. CASE g # f
      BY <1>2, <1>12, <2>1 DEF CloseClient, TypeOK
    <2>2. CASE g = f /\ j # 0
      BY <1>12, <2>2 DEF Holds, Places
    <2>3. CASE g = f /\ j = 0
      <3>1. sess[g] = s
        BY <2>3 DEF Holds
      <3>2. Block("FIN", f, s) \in SendBlock
        BY DEF Block, SendBlock, AnswerBlock, BlockOf
      <3>3. /\ sendq' = Push(sendq, Block("FIN", f, s))
            /\ lost' = IF Refused(sendq) THEN lost \cup {<<"FIN", s>>} ELSE lost
        BY <1>12, <2>3, <3>1 DEF CloseClient
      <3> QED
        BY <3>2, <3>3, SendPushed DEF Told
    <2> QED
      BY <2>1, <2>2, <2>3
  <1>13. CASE ProcessCloses
    <2>1. serving.fd \in Fd
      BY <1>13 DEF ProcessCloses, WorkerInv, TypeOK, BlockOf
    <2> QED
      BY <1>2, <1>12, <1>13, <2>1 DEF ProcessCloses
  <1>14. ASSUME NEW g \in Fd, PluginCloses(g) \/ Reply(g)
         PROVE  (\E k \in Places' : Holds(f, k, s)') \/ Told(f, s)'
    BY <1>2, <1>12, <1>14 DEF PluginCloses, Reply, workerVars
  <1> QED
    BY <1>3, <1>5, <1>6, <1>7, <1>8, <1>9, <1>10, <1>11, <1>13, <1>14 DEF Next, Parent, Worker

\* In every step a connection has its session, or a FIN that is on its way.
LEMMA FinComingKept ==
    ASSUME ConnAssumption, TypeOK, TypeOK', ParentInv, WorkerInv, PlaceInv, FinIsComing, Next
    PROVE  FinIsComing'
  <1> SUFFICES ASSUME alive', NEW f \in Fd, NEW s \in Id, conn'[f] = s
               PROVE  (\E k \in Places' : Holds(f, k, s)') \/ Told(f, s)'
    <2>1. \A f \in Fd : conn'[f] # None => conn'[f] \in Id
      BY DEF TypeOK
    <2> QED
      BY <2>1 DEF FinIsComing, Told, Holds
  <1>1. CASE conn[f] = s /\ alive
    <2>1. s # None
      BY DEF Id, None
    <2>2. CASE Told(f, s)
      BY <1>1, <2>2, ToldKept
    <2>3. CASE \E j \in Places : Holds(f, j, s)
      BY <1>1, <2>3, SessionKept
    <2> QED
      BY <1>1, <2>1, <2>2, <2>3 DEF FinIsComing, Told
  <1>2. CASE conn[f] # s
    <2>1. PICK g \in Fd : Accept(g)
      <3>1. conn'[f] # conn[f] /\ conn'[f] # None
        BY <1>2 DEF Id, None
      <3>2. \A g \in Fd : Forget(g) => conn'[f] \in {None, conn[f]}
        BY DEF Forget, TypeOK
      <3>3. CloseFlagged => conn'[f] \in {None, conn[f]}
        BY DEF CloseFlagged
      <3>4. ~CloseFlagged /\ \A g \in Fd : ~Forget(g)
        BY <3>1, <3>2, <3>3
      <3>5. OutputData => Head(sendq).fd \in Fd
        BY SendTail DEF OutputData, SendBlock, AnswerBlock, BlockOf
      <3>6. ~OutputData
        BY <3>1, <3>4, <3>5 DEF OutputData
      <3>7. Parent
        BY <3>1 DEF Next, Worker, Takes, HandleOpen, HandleClose, HandleProcess, ProcessKeeps, ProcessCloses,
               PluginCloses, Reply, Crash, parentVars
      <3>8. ~(OutputDiscard \/ OutputFin \/ OutputDone \/ WorkerHup \/ HupRestart \/ EventsDone)
        BY <3>1 DEF OutputDiscard, OutputFin, OutputDone, WorkerHup, HupRestart, EventsDone, parentVars
      <3>9. \A g \in Fd : ~(Receive(g) \/ DeleteVictim(g) \/ PeerGone(g) \/ HupDelete(g))
        BY <3>1, <3>4 DEF Receive, DeleteVictim, PeerGone, HupDelete
      <3> QED
        BY <3>4, <3>6, <3>7, <3>8, <3>9 DEF Parent
    <2>2. g = f /\ s # None
      BY <1>2, <2>1 DEF Accept, TypeOK, Id, None
    <2>3. PICK k \in Places' : Holds(f, k, conn[f])'
      BY <2>1, <2>2, OpenHeld
    <2>4. Holds(f, k, s)'
      BY <2>3 DEF Holds
    <2> QED
      BY <2>4
  <1>3. CASE conn[f] = s /\ ~alive
    <2>1. HupRestart
      BY <1>3 DEF Next, Parent, Worker, Takes, HandleOpen, HandleClose, HandleProcess, WorkerTakes, ProcessKeeps,
             ProcessCloses, PluginCloses, Reply, Crash, CloseFlagged, OutputDiscard, OutputFin, OutputData,
             OutputDone, Accept, Receive, DeleteVictim, PeerGone, HupDelete, WorkerHup, EventsDone, workerVars
    <2> QED
      BY <1>3, <2>1 DEF HupRestart, Id, None
  <1> QED
    BY <1>1, <1>2, <1>3

------------------------------------------------------------------------------
(* Whose requests the replies answer.                                       *)

\* A CLOSE that is refused is about a connection that is no more; ids are given
\* out once.
LEMMA LeftKept ==
    ASSUME ConnAssumption, TypeOK, ParentInv, AnswersInv, Next
    PROVE  /\ \A i \in Id : Left(i)' => i <= seq' /\ \A f \in Fd : conn'[f] # i
           /\ \A f, g \in Fd : conn'[f] = conn'[g] /\ conn'[f] # None => f = g
  <1> DEFINE Goal == /\ \A i \in Id : Left(i)' => i <= seq' /\ \A f \in Fd : conn'[f] # i
                     /\ \A f, g \in Fd : conn'[f] = conn'[g] /\ conn'[f] # None => f = g
  <1> SUFFICES Goal
    OBVIOUS
  <1>1. /\ \A i \in Id : Left(i) => i <= seq /\ \A f \in Fd : conn[f] # i
        /\ \A f, g \in Fd : conn[f] = conn[g] /\ conn[f] # None => f = g
        /\ \A f \in Fd : conn[f] <= seq /\ conn[f] \in Id \cup {None}
        /\ seq \in Nat /\ \A i \in Id : i \in Nat /\ i # None
    BY DEF AnswersInv, ParentInv, TypeOK, ConnAssumption, Id, None
  <1>2. ASSUME seq' = seq, \A i \in Id : Left(i)' => Left(i), \A f \in Fd : conn'[f] \in {None, conn[f]}
        PROVE  Goal
    BY <1>1, <1>2
  <1>3. ASSUME NEW f \in Fd, conn[f] # None, TellClosed(f), Forget(f), seq' = seq
        PROVE  Goal
    <2>1. \A i \in Id : Left(i)' => Left(i) \/ i = conn[f]
      BY <1>3 DEF TellClosed, Left
    <2>2. conn'[f] = None /\ \A g \in Fd : g # f => conn'[g] = conn[g]
      BY <1>3 DEF Forget, TypeOK
    <2> QED
      BY <1>1, <1>3, <2>1, <2>2
  <1>4. CASE CloseFlagged \/ OutputDiscard \/ OutputFin \/ OutputDone \/ WorkerHup \/ HupRestart
             \/ EventsDone \/ HandleClose \/ HandleProcess \/ ProcessKeeps \/ Crash
    <2>1. UNCHANGED <<seq, lost>> /\ \A f \in Fd : conn'[f] \in {None, conn[f]}
      BY <1>4 DEF CloseFlagged, OutputDiscard, OutputFin, OutputDone, WorkerHup, HupRestart, EventsDone,
                  HandleClose, HandleProcess, ProcessKeeps, Crash, parentVars
    <2> QED
      BY <1>2, <2>1 DEF Left
  <1>5. CASE OutputData
    <2>1. Head(sendq).fd \in Fd /\ conn[Head(sendq).fd] # None /\ seq' = seq
      BY <1>5, SendTail DEF OutputData, SendBlock, AnswerBlock, BlockOf, Current
    <2>2. CASE UNCHANGED <<conn, fin, recvq, lost>>
      BY <1>2, <2>1, <2>2 DEF Left
    <2> QED
      BY <1>3, <1>5, <2>1, <2>2 DEF OutputData
  <1>6. ASSUME NEW f \in Fd, Accept(f) PROVE Goal
    <2>1. /\ seq' = seq + 1 /\ lost' = lost /\ conn'[f] \in {None, seq + 1}
          /\ \A g \in Fd : g # f => conn'[g] = conn[g]
      BY <1>6 DEF Accept, TypeOK
    <2>2. \A i \in Id : Left(i)' => Left(i)
      BY <2>1 DEF Left
    <2>3. \A g \in Fd : conn[g] # seq + 1
      BY <1>1 DEF None
    <2>4. \A i \in Id : i <= seq => i # seq + 1 /\ i <= seq + 1
      BY <1>1
    <2> QED
      BY <1>1, <2>1, <2>2, <2>3, <2>4
  <1>7. ASSUME NEW f \in Fd, Receive(f) PROVE Goal
    BY <1>2, <1>7 DEF Receive, Left
  <1>8. ASSUME NEW f \in Fd, DeleteVictim(f) \/ PeerGone(f) \/ HupDelete(f) PROVE Goal
    <2>1. conn[f] # None /\ TellClosed(f) /\ Forget(f) /\ seq' = seq
      BY <1>8 DEF DeleteVictim, PeerGone, HupDelete, ParentInv
    <2> QED
      BY <1>3, <2>1
  <1>9. ASSUME \/ HandleOpen \/ ProcessCloses
               \/ \E f \in Fd : PluginCloses(f) \/ Reply(f)
        PROVE  Goal
    <2>1. UNCHANGED <<seq, conn>>
      BY <1>9 DEF HandleOpen, ProcessCloses, PluginCloses, Reply, parentVars
    <2>2. \A i \in Id : Left(i)' => Left(i)
      BY <1>9 DEF HandleOpen, ProcessCloses, PluginCloses, Reply, CloseClient, Left
    <2> QED
      BY <1>2, <2>1, <2>2
  <1> HIDE DEF Goal
  <1> QED
    BY <1>4, <1>5, <1>6, <1>7, <1>8, <1>9 DEF Next, Parent, Worker, Takes

\* A package of another connection comes to a session only when the CLOSE for that
\* session was refused, and no reply forgets that.
LEMMA AnswersKept ==
    ASSUME ConnAssumption, TypeOK, ParentInv, WorkerInv, ServedOwnSession, AnswersInv, Next
    PROVE  AnswersInv'
  <1>1. \A i : Left(i) => Left(i)'
    BY DEF Next, Parent, Worker, Takes, HandleOpen, HandleClose, HandleProcess, ProcessKeeps,
           ProcessCloses, PluginCloses, Reply, Crash, CloseFlagged, OutputDiscard, OutputFin, OutputData,
           OutputDone, Accept, Receive, DeleteVictim, PeerGone, HupDelete, WorkerHup, HupRestart, EventsDone,
           TellClosed, CloseClient, Left
  <1>2. /\ \A f \in Fd : \A o \in asked[f] : o = sess[f] \/ Left(sess[f])
        /\ \A n \in DOMAIN sendq : sendq[n].type = "DATA" => sendq[n].asker = sendq[n].id \/ Left(sendq[n].id)
    BY DEF AnswersInv
  <1> DEFINE Asked == \A f \in Fd : \A o \in asked'[f] : o = sess'[f] \/ Left(sess[f])'
             Sent == \A n \in DOMAIN sendq' : sendq'[n].type = "DATA" =>
                        sendq'[n].asker = sendq'[n].id \/ Left(sendq[n].id)'
  <1>3. ASSUME \A f \in Fd : asked'[f] = {} \/ (asked'[f] = asked[f] /\ sess'[f] = sess[f])
        PROVE  Asked
    BY <1>1, <1>2, <1>3 DEF Left
  <1>4. ASSUME \A n \in DOMAIN sendq' : \/ \E m \in DOMAIN sendq : sendq'[n] = sendq[m]
                                        \/ sendq'[n].type # "DATA"
                                        \/ sendq'[n].asker = sendq'[n].id
                                        \/ \E i \in Id : i = sendq'[n].id /\ Left(i)
        PROVE  Sent
    BY <1>1, <1>2, <1>4 DEF Left
  <1>5. ASSUME NEW f \in Fd, NEW i \in Id, sendq' = Push(sendq, Block("FIN", f, i)) PROVE Sent
    <2>1. Block("FIN", f, i) \in SendBlock /\ Block("FIN", f, i).type # "DATA"
      BY DEF Block, SendBlock, BlockOf
    <2> QED
      BY <1>4, <1>5, <2>1, SendPush
  <1>6. ASSUME NEW f \in Fd, CloseClient(f) PROVE Asked /\ Sent
    <2>1. \A g \in Fd : asked'[g] = {} \/ (asked'[g] = asked[g] /\ sess'[g] = sess[g])
      BY <1>6 DEF CloseClient, TypeOK
    <2>2. sess[f] \in Id /\ sendq' = Push(sendq, Block("FIN", f, sess[f]))
      BY <1>6 DEF CloseClient, TypeOK
    <2> HIDE DEF Asked, Sent
    <2> QED
      BY <1>3, <1>5, <2>1, <2>2
  <1>7. sendq' = sendq => Sent
    BY <1>4
  <1>8. UNCHANGED <<asked, sess>> => Asked
    BY <1>3
  <1>20. SUFFICES Asked /\ Sent
    BY LeftKept DEF AnswersInv, Left
  <1> HIDE DEF Asked, Sent
  <1>9. CASE CloseFlagged \/ OutputDone \/ WorkerHup \/ EventsDone \/ ProcessKeeps
             \/ \E f \in Fd : Accept(f) \/ Receive(f) \/ DeleteVictim(f) \/ PeerGone(f) \/ HupDelete(f)
    <2>1. UNCHANGED <<sendq, asked, sess>>
      BY <1>9 DEF CloseFlagged, OutputDone, WorkerHup, EventsDone, ProcessKeeps, Accept, Receive, DeleteVictim,
                  PeerGone, HupDelete, workerVars
    <2> QED
      BY <1>7, <1>8, <2>1
  <1>10. CASE OutputDiscard \/ OutputFin \/ OutputData
    <2>1. sendq # <<>> /\ sendq' = Tail(sendq) /\ UNCHANGED <<asked, sess>>
      BY <1>10 DEF OutputDiscard, OutputFin, OutputData, workerVars
    <2> QED
      BY <1>4, <1>8, <2>1, SendTail
  <1>11. CASE HupRestart
    <2>1. sendq' \in {<<>>, sendq} /\ UNCHANGED <<asked, sess>>
      BY <1>11 DEF HupRestart
    <2>2. sendq' = <<>> => Sent
      BY DEF Sent
    <2> QED
      BY <1>7, <1>8, <2>1, <2>2
  <1>12. CASE HandleOpen
    <2>1. Head(recvq).fd \in Fd /\ Head(recvq).id \in Id
      <3>1. Head(recvq) \in RecvBlock
        BY <1>12, TakePlaces DEF Takes
      <3> QED
        BY <3>1 DEF RecvBlock, BlockOf
    <2>2. CASE sess[Head(recvq).fd] = None
      <3>1. /\ sendq' = sendq
            /\ asked' = [asked EXCEPT ![Head(recvq).fd] = {Head(recvq).id}]
            /\ sess' = [sess EXCEPT ![Head(recvq).fd] = Head(recvq).id]
        BY <1>12, <2>2 DEF HandleOpen
      <3>2. Asked
        BY <1>1, <1>2, <2>1, <3>1 DEF Asked, TypeOK, Left
      <3> QED
        BY <1>7, <3>1, <3>2
    <2>3. CASE sess[Head(recvq).fd] # None
      <3>1. UNCHANGED <<asked, sess>> /\ sendq' = Push(sendq, Block("FIN", Head(recvq).fd, Head(recvq).id))
        BY <1>12, <2>3 DEF HandleOpen
      <3> QED
        BY <1>5, <1>8, <2>1, <3>1
    <2> QED
      BY <2>2, <2>3
  <1>13. CASE HandleClose
    <2>1. sendq' = sendq /\ \A g \in Fd : asked'[g] = {} \/ (asked'[g] = asked[g] /\ sess'[g] = sess[g])
      BY <1>13 DEF HandleClose, TypeOK
    <2> QED
      BY <1>3, <1>7, <2>1
  <1>14. CASE HandleProcess
    <2>1. sendq' = sendq /\ sess' = sess
      BY <1>14 DEF HandleProcess
    <2>2. CASE sess[Head(recvq).fd] = None
      BY <1>7, <1>8, <1>14, <2>1, <2>2 DEF HandleProcess
    <2>3. CASE sess[Head(recvq).fd] # None
      <3>1. asked' = [asked EXCEPT ![Head(recvq).fd] = @ \cup {Head(recvq).id}]
        BY <1>14, <2>3 DEF HandleProcess
      <3>2. sess[Head(recvq).fd] = Head(recvq).id \/ Left(sess[Head(recvq).fd])
        BY <1>14, <2>3 DEF HandleProcess, WorkerTakes, ServedOwnSession, Left
      <3>3. Asked
        BY <1>1, <1>2, <2>1, <3>1, <3>2 DEF Asked, TypeOK, Left
      <3> QED
        BY <1>7, <2>1, <3>3
    <2> QED
      BY <2>2, <2>3
  <1>15. CASE ProcessCloses
    <2>1. serving.fd \in Fd
      BY <1>15 DEF ProcessCloses, WorkerInv, TypeOK, BlockOf
    <2> QED
      BY <1>6, <1>7, <1>8, <1>15, <2>1 DEF ProcessCloses
  <1>16. ASSUME NEW f \in Fd, PluginCloses(f) PROVE Asked /\ Sent
    BY <1>6, <1>16 DEF PluginCloses
  <1>17. ASSUME NEW f \in Fd, Reply(f) PROVE Asked /\ Sent
    <2>1. PICK o \in asked[f] : sendq' = Push(sendq, Answer(f, sess[f], o))
      BY <1>17 DEF Reply
    <2>2. UNCHANGED <<asked, sess>> /\ sess[f] \in Id /\ o \in Id
      BY <1>17, <2>1 DEF Reply, workerVars, TypeOK
    <2>7. /\ Answer(f, sess[f], o) \in SendBlock
          /\ Answer(f, sess[f], o).id = sess[f] /\ Answer(f, sess[f], o).asker = o
      BY <2>2 DEF Answer, SendBlock, AnswerBlock
    <2>3. PICK b \in SendBlock : b = Answer(f, sess[f], o) /\ b.id = sess[f] /\ b.asker = o
      BY <2>7
    <2>4. b.asker = b.id \/ Left(b.id)
      BY <1>2, <2>1, <2>3
    <2>5. \A n \in DOMAIN sendq' : (\E m \in DOMAIN sendq : sendq'[n] = sendq[m]) \/ sendq'[n] = b
      BY <2>1, <2>3, SendPush
    <2>6. \A n \in DOMAIN sendq' : \/ \E m \in DOMAIN sendq : sendq'[n] = sendq[m]
                                   \/ sendq'[n].type # "DATA"
                                   \/ sendq'[n].asker = sendq'[n].id
                                   \/ \E i \in Id : i = sendq'[n].id /\ Left(i)
      BY <2>2, <2>3, <2>4, <2>5
    <2> QED
      BY <1>4, <1>8, <2>2, <2>6
  <1>18. CASE Crash
    <2>1. sendq' = sendq /\ \A g \in Fd : asked'[g] = {}
      BY <1>18 DEF Crash
    <2> QED
      BY <1>3, <1>7, <2>1
  <1> QED
    BY <1>9, <1>10, <1>11, <1>12, <1>13, <1>14, <1>15, <1>16, <1>17, <1>18 DEF Next, Parent, Worker, Takes

\* When the parent writes a reply, the ids being the same, it answers a request of
\* that connection: its CLOSE was not refused, for it is still there.
LEMMA ReplyKept ==
    ASSUME TypeOK, AnswersInv, ReplyReachesOwner, Next
    PROVE  ReplyReachesOwner'
  <1>1. CASE OutputData
    <2>1. PICK b \in SendBlock : b = Head(sendq) /\ 1 \in DOMAIN sendq /\ sendq[1] = b
      BY <1>1, SendTail DEF OutputData
    <2>2. /\ b.type = "DATA" /\ b.id = conn[b.fd] /\ b.fd \in Fd /\ b.id \in Id
          /\ wire' = wire \/ wire' = [to |-> conn[b.fd], asker |-> b.asker]
      BY <1>1, <2>1 DEF OutputData, Current, SendBlock, AnswerBlock, BlockOf
    <2>3. b.asker = b.id
      BY <2>1, <2>2 DEF AnswersInv
    <2> QED
      BY <2>2, <2>3 DEF ReplyReachesOwner
  <1>2. CASE ~OutputData
    <2>1. wire' = wire
      BY <1>2 DEF Next, Parent, Worker, Takes, HandleOpen, HandleClose, HandleProcess, ProcessKeeps,
             ProcessCloses, PluginCloses, Reply, Crash, CloseFlagged, OutputDiscard, OutputFin, OutputDone,
             Accept, Receive, DeleteVictim, PeerGone, HupDelete, WorkerHup, HupRestart, EventsDone
    <2> QED
      BY <2>1 DEF ReplyReachesOwner
  <1> QED
    BY <1>1, <1>2

------------------------------------------------------------------------------
(* The invariant.                                                           *)

\* The invariant holds at the start.
LEMMA InvInit ==
    ASSUME ConnAssumption, Init
    PROVE  IInv
  <1>1. TypeOK
    BY TypeInit
  <1>2. Places = {0} /\ \A f \in Fd, j \in Places, s \in Id : ~Holds(f, j, s)
    BY DEF Init, Places, Holds, Id, None
  <1>3. HeldOnce /\ EndsInTime /\ FinIsTrue
    BY <1>2 DEF HeldOnce, EndsInTime, FinIsTrue, Init
  <1>5. AnswersInv
    BY DEF AnswersInv, Left, Init
  <1>4. ParentInv /\ WorkerInv /\ NotClosed /\ FinIsComing /\ ServedOwnSession /\ ReplyReachesOwner
    BY <1>1 DEF ParentInv, WorkerInv, NotClosed, FinIsComing, ServedOwnSession, ReplyReachesOwner, Init, None,
                NoBlock
  <1> QED
    BY <1>1, <1>3, <1>4, <1>5 DEF IInv

\* Every step keeps it.
LEMMA InvNext ==
    ASSUME ConnAssumption, IInv, Next
    PROVE  IInv'
  <1>1. /\ TypeOK /\ ParentInv /\ WorkerInv /\ PlaceInv /\ FinIsTrue /\ FinIsComing
        /\ ServedOwnSession /\ AnswersInv /\ ReplyReachesOwner
    BY DEF IInv, PlaceInv
  <1>2. TypeOK'
    BY <1>1, TypeParent, TypeWorker DEF Next
  <1>3. ParentInv' /\ WorkerInv'
    BY <1>1, WorkerKept
  <1>4. HeldOnce' /\ EndsInTime' /\ NotClosed'
    BY <1>1, PlacesKept DEF PlaceInv
  <1>5. FinIsTrue'
    BY <1>1, <1>2, FinTrueKept
  <1>6. FinIsComing'
    BY <1>1, <1>2, FinComingKept
  <1>7. ServedOwnSession'
    BY <1>1, <1>2, <1>4, ServedKept
  <1>8. AnswersInv' /\ ReplyReachesOwner'
    BY <1>1, AnswersKept, ReplyKept
  <1> QED
    BY <1>2, <1>3, <1>4, <1>5, <1>6, <1>7, <1>8 DEF IInv

\* A step that changes nothing keeps the invariant.
LEMMA InvStutter ==
    ASSUME IInv, UNCHANGED vars
    PROVE  IInv'
  <1> USE DEF vars, parentVars, workerVars
  <1>1. /\ Places' = Places
        /\ \A f, j, s : Holds(f, j, s)' <=> Holds(f, j, s)
        /\ \A f, j, i : ClosedBetween(f, j, i)' <=> ClosedBetween(f, j, i)
        /\ \A f, j : ClosedAfter(f, j)' <=> ClosedAfter(f, j)
    BY DEF Places, Holds, ClosedBetween, ClosedAfter
  <1>2. TypeOK' /\ ParentInv' /\ WorkerInv' /\ ServedOwnSession' /\ ReplyReachesOwner'
    BY DEF IInv, TypeOK, ParentInv, WorkerInv, ServedOwnSession, ReplyReachesOwner
  <1>8. AnswersInv'
    BY DEF IInv, AnswersInv, Left
  <1>3. HeldOnce'
    BY <1>1 DEF IInv, HeldOnce
  <1>4. EndsInTime'
    BY <1>1 DEF IInv, EndsInTime
  <1>5. NotClosed'
    BY <1>1 DEF IInv, NotClosed, ClosedAfter, ClosedBetween, Holds, Places
  <1>6. FinIsTrue'
    BY DEF IInv, FinIsTrue, Holds, Places
  <1>7. FinIsComing'
    BY DEF IInv, FinIsComing, Holds, Places
  <1> QED
    BY <1>2, <1>3, <1>4, <1>5, <1>6, <1>7, <1>8 DEF IInv

\* Wherever the two processes are, the tables, the queues and the close queue
\* fit together: an inductive invariant.
THEOREM ConnInvariance == ConnAssumption /\ Spec => []IInv
  <1>1. ConnAssumption /\ Init => IInv
    BY InvInit
  <1>2. ConnAssumption /\ IInv /\ [Next]_vars => IInv'
    BY InvNext, InvStutter
  <1> QED
    BY <1>1, <1>2, ConnAssumption, PTL DEF Spec

\* A package is processed under the session of the connection it came from,
\* unless the CLOSE block of an earlier one was refused.
THEOREM OwnSessionServed == ConnAssumption /\ Spec => []ServedOwnSession
  <1>1. IInv => ServedOwnSession
    BY DEF IInv
  <1> QED
    BY <1>1, ConnInvariance, PTL

\* A client only gets answers to its own requests, also where a refused CLOSE has
\* had packages of one connection served under the session of another.
THEOREM ReplyToOwner == ConnAssumption /\ Spec => []ReplyReachesOwner
  <1>1. IInv => ReplyReachesOwner
    BY DEF IInv
  <1> QED
    BY <1>1, ConnInvariance, PTL

\* When everything pushed has been handled, both processes know the same
\* connections, but for those whose CLOSE or FIN was refused.
THEOREM TablesTheSame == ConnAssumption /\ Spec => []TablesKept
  <1>1. ASSUME IInv, Quiescent PROVE TablesAgree
    <2> SUFFICES ASSUME NEW f \in Fd, sess[f] # conn[f],
                        <<"CLOSE", sess[f]>> \notin lost, <<"FIN", conn[f]>> \notin lost
                 PROVE  FALSE
      BY DEF TablesAgree
    <2>1. /\ Places = {0} /\ DOMAIN recvq = {} /\ DOMAIN sendq = {} /\ fin = {} /\ alive
          /\ conn[f] \in Id \cup {None} /\ sess[f] \in Id \cup {None}
      BY <1>1 DEF Quiescent, Places, IInv, TypeOK
    <2>2. CASE sess[f] # None
      <3>1. PICK s \in Id : s = sess[f]
        BY <2>1, <2>2
      <3>2. Holds(f, 0, s)
        BY <3>1 DEF Holds
      <3>3. ClosedAfter(f, 0)
        BY <1>1, <2>1, <3>1, <3>2 DEF IInv, EndsInTime
      <3> QED
        BY <2>1, <3>3 DEF ClosedAfter, ClosedBetween
    <2>3. CASE sess[f] = None
      BY <1>1, <2>1, <2>3 DEF IInv, FinIsComing, Holds
    <2> QED
      BY <2>2, <2>3
  <1>2. IInv => TypeOK /\ TablesAgree
    BY <1>1 DEF IInv, TablesAgree
  <1>3. IInv => TablesKept
    BY <1>2 DEF TablesKept
  <1> QED
    BY <1>3, ConnInvariance, PTL
=============================================================================
