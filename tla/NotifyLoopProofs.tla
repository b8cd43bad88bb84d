--------------------------- MODULE NotifyLoopProofs ---------------------------
(***************************************************************************)
(* The worker is never left asleep on a published block, for any number of *)
(* requests, any queue length and any size of pipe.  WorkerWoken is not    *)
(* inductive by itself: the invariant adds where shmq_push returns to.     *)
(***************************************************************************)
EXTENDS NotifyLoop, TLAPS

\* A push of the worker returns into a callback, not into epoll_wait.
Returns == cpc = "notify" => back \in {"events", "timers", "process"}

WInv == TypeOK /\ Returns /\ WorkerWoken

LEMMA ByteType ==
    ASSUME NEW bytes \in 0..PIPECAP
    PROVE  WriteByte(bytes) \in 0..PIPECAP /\ WriteByte(bytes) > 0
BY LoopAssumption DEF WriteByte

LEMMA InitWInv == Init => WInv
BY LoopAssumption DEF Init, WInv, TypeOK, Returns, WorkerWoken

\* A queue with room takes one more block.
LEMMA AppendType ==
    ASSUME NEW q \in Seq(Request), Len(q) < CAP, NEW r \in Request
    PROVE  Append(q, r) \in Seq(Request) /\ Len(Append(q, r)) <= CAP
BY LoopAssumption

LEMMA TailType ==
    ASSUME NEW q \in Seq(Request), Len(q) <= CAP, q # <<>>
    PROVE  /\ Tail(q) \in Seq(Request) /\ Len(Tail(q)) <= CAP
           /\ Head(q) \in Request
BY LoopAssumption

LEMMA NextType == TypeOK /\ [Next]_vars => TypeOK'
<1> SUFFICES ASSUME TypeOK, [Next]_vars PROVE TypeOK'
  OBVIOUS
<1> USE DEF TypeOK, parentVars, workerVars
<1>1. ASSUME NEW r \in Request, Send(r) PROVE TypeOK'
  BY <1>1 DEF Send
<1>2. CASE ParentWait
  BY <1>2 DEF ParentWait, ParentReady
<1>3. CASE ParentPop
  BY <1>3, TailType DEF ParentPop
<1>4. CASE ParentDrain
  BY <1>4, LoopAssumption DEF ParentDrain
<1>5. ASSUME NEW r \in Request, ParentRecv(r) PROVE TypeOK'
  BY <1>5, AppendType DEF ParentRecv
<1>6. CASE ParentNotify
  BY <1>6, ByteType DEF ParentNotify
<1>7. CASE ParentDone
  BY <1>7 DEF ParentDone
<1>8. CASE WorkerWait
  BY <1>8 DEF WorkerWait
<1>9. CASE WorkerDrain
  BY <1>9, LoopAssumption DEF WorkerDrain
<1>10. CASE WorkerTimers
  BY <1>10 DEF WorkerTimers
<1>11. CASE WorkerPop
  <2>1. CASE recvq # <<>>
    BY <1>11, <2>1, TailType DEF WorkerPop
  <2>2. CASE recvq = <<>>
    BY <1>11, <2>2 DEF WorkerPop
  <2> QED
    BY <2>1, <2>2
<1>12. CASE WorkerProcessed
  BY <1>12 DEF WorkerProcessed
<1>13. CASE WorkerNotify
  BY <1>13, ByteType DEF WorkerNotify
<1>14. ASSUME NEW r \in Request, WorkerReply(r) PROVE TypeOK'
  BY <1>14, AppendType DEF WorkerReply
<1>15. CASE UNCHANGED vars
  BY <1>15 DEF vars
<1> QED
  BY <1>1, <1>2, <1>3, <1>4, <1>5, <1>6, <1>7, <1>8, <1>9, <1>10, <1>11,
     <1>12, <1>13, <1>14, <1>15 DEF Next, Parent, WorkerLoop

LEMMA NextReturns == Returns /\ [Next]_vars => Returns'
BY DEF Returns, Next, vars, parentVars, workerVars, Parent, WorkerLoop, Send,
   ParentWait, ParentPop, ParentDrain, ParentRecv, ParentNotify, ParentDone,
   WorkerWait, WorkerDrain, WorkerTimers, WorkerPop, WorkerProcessed,
   WorkerReply, WorkerNotify

\* The worker enters epoll_wait only past an empty queue, and a block that
\* comes later is followed by its byte.
LEMMA NextWoken == WInv /\ [Next]_vars => WorkerWoken'
<1> SUFFICES ASSUME WInv, [Next]_vars, (cpc = "wait" /\ recvq # <<>>)'
             PROVE  rpipe' > 0 \/ ppc' = "notify"
  BY DEF WorkerWoken
<1> USE DEF parentVars, workerVars
<1>1. CASE ParentNotify
  BY <1>1, ByteType DEF ParentNotify, WInv, TypeOK
<1>2. ASSUME NEW r \in Request, ParentRecv(r)
      PROVE  rpipe' > 0 \/ ppc' = "notify"
  BY <1>2 DEF ParentRecv, WInv, WorkerWoken
<1>3. CASE WorkerPop
  BY <1>3 DEF WorkerPop
<1>4. CASE WorkerNotify
  BY <1>4 DEF WorkerNotify, WInv, Returns
<1>5. CASE WorkerWait \/ WorkerDrain \/ WorkerTimers \/ WorkerProcessed
  BY <1>5 DEF WorkerWait, WorkerDrain, WorkerTimers, WorkerProcessed
<1>6. ASSUME NEW r \in Request, WorkerReply(r)
      PROVE  rpipe' > 0 \/ ppc' = "notify"
  BY <1>6 DEF WorkerReply
<1>7. CASE ParentWait \/ ParentPop \/ ParentDrain \/ ParentDone
  BY <1>7 DEF ParentWait, ParentPop, ParentDrain, ParentDone, WInv, WorkerWoken
<1>8. ASSUME NEW r \in Request, Send(r)
      PROVE  rpipe' > 0 \/ ppc' = "notify"
  BY <1>8 DEF Send, WInv, WorkerWoken
<1>9. CASE UNCHANGED vars
  BY <1>9 DEF vars, WInv, WorkerWoken
<1> QED
  BY <1>1, <1>2, <1>3, <1>4, <1>5, <1>6, <1>7, <1>8, <1>9
     DEF Next, Parent, WorkerLoop

LEMMA WInvariance == Spec => []WInv
<1>1. WInv /\ [Next]_vars => WInv'
  BY NextType, NextReturns, NextWoken DEF WInv
<1> QED
  BY InitWInv, <1>1, PTL DEF Spec

\* Queues and pipes keep to their limits and every process counter to its
\* loop.
THEOREM LoopTypeCorrect == Spec => []TypeOK
<1>1. WInv => TypeOK
  BY DEF WInv
<1> QED
  BY <1>1, WInvariance, PTL

\* The worker never sleeps on a block without a byte in its pipe or on its
\* way: the order of shmq_push (publish, then write) against the order of the
\* worker's net_loop (drain the pipe, then pop) is enough, without the time
\* limit of its epoll_wait.
THEOREM WorkerNeverMissesBlock == Spec => []WorkerWoken
<1>1. WInv => WorkerWoken
  BY DEF WInv
<1> QED
  BY <1>1, WInvariance, PTL
===============================================================================
