--------------------------- MODULE WorkerPipesProofs ---------------------------
(***************************************************************************)
(* Each process holds the pipe ends that are its own and no others, and so *)
(* a pipe hangs up when a process has died, for any number of workers,     *)
(* restarts, clients and failures of fork.                                 *)
(*                                                                         *)
(* A worker closes by number, from numbers the parent remembers, so the    *)
(* argument is about three tables that have to agree: what is open under a *)
(* number (fds), what the number is registered for (conns) and what it is  *)
(* remembered as (handles).  IInv says they do.                            *)
(***************************************************************************)
EXTENDS WorkerPipes, TLAPS

\* The invariant of the proofs.  Workers are started in their order, once each,
\* and every pipe was made for a process that is started, or was to be ...
Started(w) == wstate[<<w, 0>>] # "none"

SpawnInv ==
    /\ \A w \in Worker : \A v \in 1..w-1 : Started(w) => Started(v)
    /\ state = "loop" => \A w \in Worker : Started(w)
    /\ state = "forking" => \A w \in Worker : restarts[w] = 0
    /\ \A w \in Worker, g \in Gen : wstate[<<w, g>>] # "none" => Started(w) /\ g <= restarts[w]

MadeInv ==
    \A e \in End, w \in Worker, g \in Gen, f \in Fd :
        fds[f] = <<e, w, g>> \/ (\E p \in Process : wfds[p][f] = <<e, w, g>>)
            => Started(w) /\ g <= restarts[w]

\* ... the parent has none of an earlier pipe (NoLeak, pipe by pipe) ...
LastPipes ==
    \A f \in Fd : \A e \in End, w \in Worker, g \in Gen :
        fds[f] = <<e, w, g>> => handles[w][e] = f /\ g = Latest(w)

\* ... and has closed the workers' ends, but where fork failed; its
\* connection table says what it has open ...
TableInv ==
    /\ LastPipes
    /\ \A f \in Fd, e \in {"recvq0", "sendq1"}, w \in Worker, g \in Gen :
          fds[f] = <<e, w, g>> => wstate[<<w, g>>] = "none"
    /\ state = "dead" => fds = Nothing
    /\ state # "dead" => \A f \in Fd, w \in Worker :
          /\ \A k \in {"client", "listen"} : fds[f] = <<k, w>> <=> conns[f] = <<k, w>>
          /\ conns[f] = <<"pipe", w>> => /\ fds[f] = <<"sendq0", w, restarts[w]>>
                                         /\ wstate[<<w, restarts[w]>>] # "none"

\* ... and the numbers it remembers for a worker are those of its ends, but for
\* the end that was closed when the worker was given up ...
HandlesInv ==
    state # "dead" => \A w \in Worker : Started(w) =>
        /\ handles[w]["recvq1"] \in Fd /\ fds[handles[w]["recvq1"]] = <<"recvq1", w, Latest(w)>>
        /\ ~PastLimit(w) => /\ handles[w]["sendq0"] \in Fd
                            /\ fds[handles[w]["sendq0"]] = <<"sendq0", w, restarts[w]>>

\* ... and a worker has its own ends, and what it still has to close.
Alive(p) == wstate[p] \in {"forked", "running"}

WorkerInv ==
    \A p \in Process :
        /\ ~Alive(p) => wfds[p] = Nothing
        /\ wstate[p] = "running" => todo[p] = {}
        /\ \A f \in Fd : f \in todo[p] \/ Kept(p, wfds[p][f])
        /\ Alive(p) => \A e \in {"recvq0", "sendq1"} :
              /\ own[p][e] \in Fd
              /\ wfds[p][own[p][e]] \in {Closed, <<e, p[1], p[2]>>}
              /\ (\A v \in Worker : ~PastLimit(v)) =>
                    own[p][e] \notin todo[p] /\ wfds[p][own[p][e]] = <<e, p[1], p[2]>>

IInv == TypeOK /\ SpawnInv /\ MadeInv /\ TableInv /\ HandlesInv /\ WorkerInv

------------------------------------------------------------------------------
(* What files and tables are *)

\* Files of different kinds differ, and a pipe's end tells its pipe.
LEMMA Files ==
    ASSUME NEW e \in End, NEW w, NEW g, NEW v, NEW k \in {"client", "listen", "pipe", "unused"}
    PROVE  /\ <<e, w, g>> # Closed
           /\ <<k, v>> # Closed
           /\ <<k, v>> # <<e, w, g>>
<1>1. <<e, w, g>>[1] = e /\ <<k, v>>[1] = k /\ Closed[1] = "closed"
  BY DEF Closed
<1>2. e # "closed" /\ k # "closed" /\ e # k
  BY DEF End
<1> QED BY <1>1, <1>2

LEMMA SameEnd ==
    ASSUME NEW e, NEW w, NEW g, NEW d, NEW v, NEW i, <<e, w, g>> = <<d, v, i>>
    PROVE  e = d /\ w = v /\ g = i
OBVIOUS

\* The four new numbers are different and were free.
LEMMA NewNumbers ==
    ASSUME NEW t, NEW h \in NewHandles(t)
    PROVE  /\ h \in [End -> Fd]
           /\ \A e \in End : t[h[e]] = Closed
           /\ \A e, d \in End : h[e] = h[d] => e = d
<1>1. PICK s0 \in Lowest(t, 1), s1 \in Lowest(t, 2), r0 \in Lowest(t, 3), r1 \in Lowest(t, 4) :
          h = [sendq0 |-> s0, sendq1 |-> s1, recvq0 |-> r0, recvq1 |-> r1]
  BY DEF NewHandles
<1>2. /\ s0 \in Fd /\ s1 \in Fd /\ r0 \in Fd /\ r1 \in Fd
      /\ t[s0] = Closed /\ t[s1] = Closed /\ t[r0] = Closed /\ t[r1] = Closed
  BY DEF Lowest
<1> DEFINE below(f) == Cardinality({i \in {j \in Fd : t[j] = Closed} : i < f})
<1>3. below(s0) = 0 /\ below(s1) = 1 /\ below(r0) = 2 /\ below(r1) = 3
  BY DEF Lowest
<1> HIDE DEF below
<1>4. s0 # s1 /\ s0 # r0 /\ s0 # r1 /\ s1 # r0 /\ s1 # r1 /\ r0 # r1
  BY <1>3
<1>5. /\ h["sendq0"] = s0 /\ h["sendq1"] = s1 /\ h["recvq0"] = r0 /\ h["recvq1"] = r1
      /\ h \in [End -> Fd]
  BY <1>1, <1>2 DEF End
<1> QED BY <1>2, <1>4, <1>5 DEF End

\* What opening the pipes does to a table.
LEMMA Opened ==
    ASSUME NEW t \in [Fd -> File], NEW h \in NewHandles(t), NEW w \in Worker, NEW g \in Gen
    PROVE  LET u == WithPipes(t, h, w, g)
           IN  /\ u \in [Fd -> File]
               /\ \A e \in End : u[h[e]] = <<e, w, g>>
               /\ \A f \in Fd : (\A e \in End : f # h[e]) => u[f] = t[f]
               /\ \A f \in Fd : t[f] # Closed => u[f] = t[f]
<1> DEFINE u == WithPipes(t, h, w, g)
<1>1. /\ h \in [End -> Fd]
      /\ \A e \in End : t[h[e]] = Closed
      /\ \A e, d \in End : h[e] = h[d] => e = d
  BY NewNumbers
<1>2. ASSUME NEW e \in End PROVE u[h[e]] = <<e, w, g>>
  <2>1. (CHOOSE d \in End : h[d] = h[e]) = e
    BY <1>1
  <2>2. h[e] \in Fd
    BY <1>1
  <2> QED BY <2>1, <2>2 DEF WithPipes
<1>3. \A f \in Fd : (\A e \in End : f # h[e]) => u[f] = t[f]
  BY DEF WithPipes
<1>4. ASSUME NEW f \in Fd PROVE u[f] \in File
  <2>1. ASSUME NEW e \in End, f = h[e] PROVE u[f] \in File
    <3>1. <<e, w, g>> \in PipeEnd
      BY DEF PipeEnd
    <3> QED BY <2>1, <3>1, <1>2 DEF File
  <2>2. CASE \A e \in End : f # h[e]
    BY <2>2, <1>3
  <2> QED BY <2>1, <2>2
<1>5. u \in [Fd -> File]
  BY <1>4 DEF WithPipes
<1> QED BY <1>1, <1>2, <1>3, <1>5

LEMMA Shut ==
    ASSUME NEW t \in [Fd -> File], NEW S
    PROVE  /\ Without(t, S) \in [Fd -> File]
           /\ \A f \in Fd : f \in S => Without(t, S)[f] = Closed
           /\ \A f \in Fd : f \notin S => Without(t, S)[f] = t[f]
BY DEF Without, File

LEMMA FreeNumber ==
    ASSUME NEW t, NEW k, NEW f \in Lowest(t, k)
    PROVE  f \in Fd /\ t[f] = Closed
BY DEF Lowest

------------------------------------------------------------------------------
(* Type correctness *)

LEMMA Typed == IInv => TypeOK
BY DEF IInv

\* A pipe is registered under the number its end has, and it is of the process
\* started last.
LEMMA Registration ==
    ASSUME IInv, state # "dead", NEW f \in Fd, NEW w \in Worker, conns[f] = <<"pipe", w>>
    PROVE  /\ fds[f] = <<"sendq0", w, restarts[w]>>
           /\ wstate[<<w, restarts[w]>>] # "none"
           /\ restarts[w] \in Gen /\ ~PastLimit(w) /\ Latest(w) = restarts[w]
           /\ handles[w]["sendq0"] = f
<1>1. fds[f] = <<"sendq0", w, restarts[w]>> /\ wstate[<<w, restarts[w]>>] # "none"
  BY DEF IInv, TableInv
<1>2. fds[f] \in File /\ restarts[w] \in 0..RestartLimit+1
  BY DEF IInv, TypeOK
<1>3. fds[f] \in PipeEnd
  <2>1. "sendq0" \in End
    BY DEF End
  <2>2. fds[f] # Closed /\ fds[f] \notin {"client", "listen"} \X Worker
    BY <1>1, <2>1, Files
  <2> QED BY <1>2, <2>2 DEF File
<1>4. restarts[w] \in Gen
  BY <1>1, <1>3 DEF PipeEnd
<1>5. ~PastLimit(w) /\ Latest(w) = restarts[w]
  BY <1>4, PipesAssumption DEF Gen, PastLimit, Latest
<1>6. handles[w]["sendq0"] = f
  BY <1>1, <1>4 DEF IInv, TableInv, LastPipes, End
<1> QED BY <1>1, <1>4, <1>5, <1>6

LEMMA ClosedType ==
    ASSUME NEW hs \in [Worker -> [End -> Fd \cup {0}]], NEW c, NEW n \in Worker
    PROVE  ClosedByWorker(hs, c, n) \subseteq Fd \cup {0}
<1>1. \A v \in 1..n : v \in Worker
  BY PipesAssumption DEF Worker
<1>2. \A v \in 1..n, e \in {"recvq1", "sendq0"} : hs[v][e] \in Fd \cup {0}
  BY <1>1 DEF End
<1> QED BY <1>2 DEF ClosedByWorker, Registered

Conns == [Fd -> {Unused} \cup ({"pipe", "listen", "client"} \X Worker)]

LEMMA ForkType ==
    ASSUME TypeOK, NEW w \in Worker, NEW g \in Gen, NEW t \in [Fd -> File],
           NEW h \in [End -> Fd], NEW hs \in [Worker -> [End -> Fd \cup {0}]],
           NEW c, NEW n \in Worker, Fork(<<w, g>>, t, h, hs, c, n)
    PROVE  /\ wfds' \in [Process -> [Fd -> File]]
           /\ own' \in [Process -> [End -> Fd \cup {0}]]
           /\ todo' \in [Process -> SUBSET (Fd \cup {0})]
           /\ wstate' \in [Process -> {"none", "forked", "running", "dead"}]
<1>1. <<w, g>> \in Process
  BY DEF Process
<1>2. ClosedByWorker(hs, c, n) \subseteq Fd \cup {0}
  BY ClosedType
<1>3. h \in [End -> Fd \cup {0}]
  OBVIOUS
<1> QED BY <1>1, <1>2, <1>3 DEF TypeOK, Fork

LEMMA ConnsType ==
    ASSUME NEW c \in Conns, NEW f \in Fd, NEW w \in Worker
    PROVE  /\ [c EXCEPT ![f] = <<"pipe", w>>] \in Conns
           /\ [c EXCEPT ![f] = <<"listen", w>>] \in Conns
           /\ [c EXCEPT ![f] = <<"client", w>>] \in Conns
           /\ [c EXCEPT ![f] = Unused] \in Conns
<1>1. \A k \in {"pipe", "listen", "client"} : <<k, w>> \in {"pipe", "listen", "client"} \X Worker
  OBVIOUS
<1> QED BY <1>1 DEF Conns

LEMMA HandledType ==
    ASSUME TypeOK, NEW f \in Fd, Handled(f)
    PROVE  events' \in [Fd -> File]
<1>1. Closed \in File
  BY DEF File
<1> QED BY <1>1 DEF TypeOK, Handled

LEMMA SpawnType ==
    ASSUME TypeOK, NEW w \in Worker, Spawn(w)
    PROVE  TypeOK'
<1>1. 0 \in Gen /\ w \in 0..NumWorkers
  BY PipesAssumption DEF Gen, Worker
<1>2. PICK h \in NewHandles(fds) :
          LET t  == WithPipes(fds, h, w, 0)
              hs == [handles EXCEPT ![w] = h]
              tp == Without(t, ClosedByParent(h))
          IN  /\ handles' = hs
              /\ Fork(<<w, 0>>, t, h, hs, conns, w)
              /\ \E l \in Lowest(tp, 1) :
                     /\ fds' = [tp EXCEPT ![l] = <<"listen", w>>]
                     /\ conns' = [WithPipe(conns, h, w) EXCEPT ![l] = <<"listen", w>>]
  BY DEF Spawn
<1> DEFINE t  == WithPipes(fds, h, w, 0)
           tp == Without(t, ClosedByParent(h))
           hs == [handles EXCEPT ![w] = h]
<1>3. h \in [End -> Fd] /\ fds \in [Fd -> File] /\ conns \in Conns
  BY NewNumbers DEF TypeOK, Conns
<1>4. t \in [Fd -> File]
  BY <1>1, <1>3, Opened
<1> HIDE DEF t
<1>5. tp \in [Fd -> File]
  BY <1>4, Shut
<1> HIDE DEF tp
<1>6. hs \in [Worker -> [End -> Fd \cup {0}]]
  BY <1>3 DEF TypeOK
<1> HIDE DEF hs
<1>7. /\ handles' = hs /\ Fork(<<w, 0>>, t, h, hs, conns, w)
      /\ \E l \in Lowest(tp, 1) :
             /\ fds' = [tp EXCEPT ![l] = <<"listen", w>>]
             /\ conns' = [WithPipe(conns, h, w) EXCEPT ![l] = <<"listen", w>>]
  BY <1>2 DEF t, tp, hs
<1>8. /\ wfds' \in [Process -> [Fd -> File]] /\ own' \in [Process -> [End -> Fd \cup {0}]]
      /\ todo' \in [Process -> SUBSET (Fd \cup {0})]
      /\ wstate' \in [Process -> {"none", "forked", "running", "dead"}]
  BY <1>1, <1>3, <1>4, <1>6, <1>7, ForkType
<1>9. WithPipe(conns, h, w) \in Conns
  BY <1>3, ConnsType DEF WithPipe, End
<1>10. conns' \in Conns /\ fds' \in [Fd -> File]
  <2>1. PICK l \in Lowest(tp, 1) :
             /\ fds' = [tp EXCEPT ![l] = <<"listen", w>>]
             /\ conns' = [WithPipe(conns, h, w) EXCEPT ![l] = <<"listen", w>>]
    BY <1>7
  <2>2. l \in Fd
    BY FreeNumber
  <2>3. conns' \in Conns
    BY <2>1, <2>2, <1>9, ConnsType
  <2>4. <<"listen", w>> \in File
    BY DEF File
  <2> QED BY <2>1, <2>2, <2>3, <2>4, <1>5
<1>11. state' \in {"forking", "loop", "dead"} /\ UNCHANGED <<events, restarts, forkFails>>
  BY DEF Spawn, TypeOK
<1> QED BY <1>6, <1>7, <1>8, <1>10, <1>11 DEF TypeOK, Conns

\* Closing all that belongs to a worker.
LEMMA WithoutWorkerType ==
    ASSUME TypeOK, NEW w \in Worker
    PROVE  WithoutWorker(w) \in Conns
BY DEF TypeOK, WithoutWorker, Conns

LEMMA RestartType ==
    ASSUME IInv, NEW f \in Fd, NEW w \in Worker, Restart(f, w)
    PROVE  TypeOK'
<1> DEFINE g == restarts[w] + 1
           b == BeforeRestart(w)
           c == WithoutWorker(w)
           hs(h) == [handles EXCEPT ![w] = h]
<1>1. TypeOK
  BY Typed
<1>2. g \in Gen /\ restarts' = [restarts EXCEPT ![w] = g]
  BY <1>1, PipesAssumption DEF Restart, WithinLimit, TypeOK, Gen
<1>3. PICK h \in NewHandles(b) :
          /\ handles' = hs(h)
          /\ \/ /\ Fork(<<w, g>>, WithPipes(b, h, w, g), h, hs(h), c, NumWorkers)
                /\ fds' = Without(WithPipes(b, h, w, g), ClosedByParent(h))
                /\ conns' = WithPipe(c, h, w)
                /\ UNCHANGED forkFails
             \/ /\ forkFails < MaxForkFail
                /\ forkFails' = forkFails + 1
                /\ fds' = WithPipes(b, h, w, g)
                /\ conns' = c
                /\ UNCHANGED workerVars
  BY DEF Restart
<1> DEFINE t == WithPipes(b, h, w, g)
<1>4. h \in [End -> Fd] /\ b \in [Fd -> File] /\ c \in Conns
  BY <1>1, NewNumbers, Shut, WithoutWorkerType DEF BeforeRestart, TypeOK
<1> HIDE DEF b, c, g
<1>5. t \in [Fd -> File]
  BY <1>2, <1>4, Opened
<1> HIDE DEF t
<1>6. Without(t, ClosedByParent(h)) \in [Fd -> File] /\ WithPipe(c, h, w) \in Conns
  BY <1>4, <1>5, Shut, ConnsType DEF WithPipe, End
<1>7. hs(h) \in [Worker -> [End -> Fd \cup {0}]]
  BY <1>1, <1>4 DEF TypeOK
<1> HIDE DEF hs
<1>8. /\ restarts' \in [Worker -> 0..RestartLimit+1] /\ state' \in {"forking", "loop", "dead"}
      /\ events' \in [Fd -> File]
  <2>1. events' \in [Fd -> File]
    BY <1>1, HandledType DEF Restart
  <2> QED BY <1>1, <1>2, <2>1, PipesAssumption DEF TypeOK, Restart, Gen
<1>9. CASE /\ Fork(<<w, g>>, t, h, hs(h), c, NumWorkers)
           /\ fds' = Without(t, ClosedByParent(h))
           /\ conns' = WithPipe(c, h, w)
           /\ UNCHANGED forkFails
  <2>1. NumWorkers \in Worker
    BY PipesAssumption DEF Worker
  <2>2. /\ wfds' \in [Process -> [Fd -> File]] /\ own' \in [Process -> [End -> Fd \cup {0}]]
        /\ todo' \in [Process -> SUBSET (Fd \cup {0})]
        /\ wstate' \in [Process -> {"none", "forked", "running", "dead"}]
    BY <1>1, <1>2, <1>4, <1>5, <1>7, <1>9, <2>1, ForkType
  <2> QED BY <1>1, <1>3, <1>6, <1>7, <1>8, <1>9, <2>2 DEF TypeOK, Conns
<1>10. CASE /\ forkFails < MaxForkFail
            /\ forkFails' = forkFails + 1
            /\ fds' = t
            /\ conns' = c
            /\ UNCHANGED workerVars
  <2>1. forkFails' \in 0..MaxForkFail
    BY <1>1, <1>10, PipesAssumption DEF TypeOK
  <2> QED BY <1>1, <1>3, <1>4, <1>5, <1>7, <1>8, <1>10, <2>1 DEF TypeOK, Conns, workerVars
<1> QED BY <1>3, <1>9, <1>10 DEF t

LEMMA TypeNext == IInv /\ [Next]_vars => TypeOK'
<1> SUFFICES ASSUME IInv, [Next]_vars PROVE TypeOK'
  OBVIOUS
<1>0. TypeOK
  BY Typed
<1>1. ASSUME NEW w \in Worker, Spawn(w) PROVE TypeOK'
  BY <1>0, <1>1, SpawnType
<1>2. ASSUME NEW w \in Worker, Accept(w) PROVE TypeOK'
  <2>1. PICK f \in Lowest(fds, 1) : /\ fds' = [fds EXCEPT ![f] = <<"client", w>>]
                                    /\ conns' = [conns EXCEPT ![f] = <<"client", w>>]
    BY <1>2 DEF Accept
  <2>2. f \in Fd
    BY FreeNumber
  <2>3. <<"client", w>> \in File /\ <<"client", w>> \in {"pipe", "listen", "client"} \X Worker
    BY DEF File
  <2>4. fds' \in [Fd -> File]
    BY <1>0, <2>1, <2>2, <2>3 DEF TypeOK
  <2>5. conns' \in Conns
    BY <1>0, <2>1, <2>2, ConnsType DEF TypeOK, Conns
  <2> QED BY <1>0, <1>2, <2>4, <2>5 DEF TypeOK, Conns, Accept, workerVars
<1>3. ASSUME NEW f \in Fd, CloseClient(f) \/ ClientHup(f) PROVE TypeOK'
  <2>1. fds' \in [Fd -> File]
    BY <1>0, <1>3, Shut DEF TypeOK, CloseClient, ClientHup, DelClient
  <2>2. conns' \in Conns
    BY <1>0, <1>3 DEF TypeOK, Conns, CloseClient, ClientHup, DelClient
  <2>3. events' \in [Fd -> File]
    BY <1>0, <1>3, HandledType DEF TypeOK, CloseClient, ClientHup
  <2>4. UNCHANGED <<handles, restarts, state, forkFails, workerVars>>
    BY <1>3 DEF CloseClient, ClientHup, DelClient
  <2> QED BY <1>0, <2>1, <2>2, <2>3, <2>4 DEF TypeOK, Conns, workerVars
<1>10. ASSUME NEW f \in Fd, SkipEvent(f) PROVE TypeOK'
  BY <1>0, <1>10, HandledType DEF TypeOK, SkipEvent, workerVars
<1>11. ASSUME NEW R \in SUBSET Clients, Fetch(R) PROVE TypeOK'
  <2>1. events' \in [Fd -> File]
    <3>1. fds \in [Fd -> File] /\ Closed \in File
      BY <1>0 DEF TypeOK, File
    <3> QED BY <1>11, <3>1 DEF Fetch
  <2> QED BY <1>0, <1>11, <2>1 DEF TypeOK, Fetch, workerVars
<1>4. ASSUME NEW f \in Fd, NEW w \in Worker, Restart(f, w) PROVE TypeOK'
  BY <1>4, RestartType
<1>5. ASSUME NEW f \in Fd, NEW w \in Worker, GiveUp(f, w) PROVE TypeOK'
  <2>1. restarts[w] + 1 \in 0..RestartLimit+1
    <3>1. restarts[w] \in Gen
      BY <1>5, Registration DEF GiveUp, PipeHup
    <3> QED BY <3>1, PipesAssumption DEF Gen
  <2>2. fds' \in [Fd -> File] /\ conns' \in Conns
    BY <1>0, <1>5, Shut, WithoutWorkerType DEF GiveUp, TypeOK
  <2>3. restarts' \in [Worker -> 0..RestartLimit+1]
    BY <1>0, <1>5, <2>1 DEF GiveUp, TypeOK
  <2>4. events' \in [Fd -> File]
    BY <1>0, <1>5, HandledType DEF GiveUp
  <2> QED BY <1>0, <1>5, <2>2, <2>3, <2>4 DEF TypeOK, Conns, GiveUp, workerVars
<1>6. CASE ParentDies
  <2>1. Nothing \in [Fd -> File]
    BY DEF Nothing, File
  <2> QED BY <1>0, <1>6, <2>1 DEF ParentDies, TypeOK, workerVars
<1>7. ASSUME NEW p \in Process, Initialise(p) PROVE TypeOK'
  <2>1. Without(wfds[p], todo[p]) \in [Fd -> File]
    BY <1>0, Shut DEF TypeOK
  <2> QED BY <1>0, <1>7, <2>1 DEF Initialise, TypeOK, parentVars
<1>8. ASSUME NEW p \in Process, Gone(p) PROVE TypeOK'
  <2>1. Nothing \in [Fd -> File]
    BY DEF Nothing, File
  <2> QED BY <1>0, <1>8, <2>1 DEF Gone, TypeOK, parentVars
<1>9. CASE UNCHANGED vars
  BY <1>0, <1>9 DEF TypeOK, vars, parentVars, workerVars
<1> QED
  BY <1>1, <1>2, <1>3, <1>4, <1>5, <1>6, <1>7, <1>8, <1>9, <1>10, <1>11
     DEF Next, ParentNext, WorkerNext, Crash, ParentGone

------------------------------------------------------------------------------
(* Making the pipes of a worker *)

\* The tables b and c, from which the pipes of the next process of w are made:
\* nothing of w's pipes is left in them, and what the other workers have is as
\* it was.
Fresh(b, c, w) ==
    /\ b \in [Fd -> File] /\ c \in Conns
    /\ \A f \in Fd, e \in End, i \in Gen : b[f] # <<e, w, i>>
    /\ \A f \in Fd, e \in End, v \in Worker, i \in Gen :
          v # w => (b[f] = <<e, v, i>> <=> fds[f] = <<e, v, i>>)
    /\ \A f \in Fd, v \in Worker : \A k \in {"client", "listen"} :
          b[f] = <<k, v>> <=> c[f] = <<k, v>>
    /\ \A f \in Fd, v \in Worker :
          c[f] = <<"pipe", v>> => v # w /\ conns[f] = <<"pipe", v>> /\ b[f] # Closed

LEMMA FreshSpawn ==
    ASSUME IInv, NEW w \in Worker, Spawn(w)
    PROVE  Fresh(fds, conns, w)
<1>1. fds \in [Fd -> File] /\ conns \in Conns /\ restarts \in [Worker -> 0..RestartLimit+1]
  BY DEF IInv, TypeOK, Conns
<1>2. state = "forking" /\ ~Started(w)
  BY DEF Spawn, Started
<1>3. \A f \in Fd, e \in End, i \in Gen : fds[f] # <<e, w, i>>
  BY <1>2 DEF IInv, MadeInv
<1>4. ASSUME NEW f \in Fd, NEW v \in Worker, conns[f] = <<"pipe", v>>
      PROVE  v # w /\ fds[f] # Closed
  <2>1. fds[f] = <<"sendq0", v, restarts[v]>> /\ restarts[v] = 0
    BY <1>2, <1>4 DEF IInv, TableInv, SpawnInv
  <2>2. 0 \in Gen /\ "sendq0" \in End
    BY PipesAssumption DEF Gen, End
  <2> QED BY <1>3, <2>1, <2>2, Files
<1>5. \A f \in Fd, v \in Worker : \A k \in {"client", "listen"} :
          fds[f] = <<k, v>> <=> conns[f] = <<k, v>>
  BY <1>2 DEF IInv, TableInv
<1> QED BY <1>1, <1>3, <1>4, <1>5 DEF Fresh

\* What is closed before a restart: clients, the pipe that hung up, and the one
\* other end that is left.
LEMMA ClosedNumbers ==
    ASSUME IInv, NEW f \in Fd, NEW w \in Worker, PipeHup(f, w)
    PROVE  /\ handles[w]["recvq1"] \in Fd
           /\ fds[handles[w]["recvq1"]] = <<"recvq1", w, restarts[w]>>
           /\ \A j \in OfWorker(w) : fds[j] = <<"client", w>> \/ fds[j] = <<"sendq0", w, restarts[w]>>
           /\ restarts[w] \in Gen
<1>1. state = "loop" /\ restarts[w] \in Gen /\ Latest(w) = restarts[w] /\ state # "dead"
  BY Registration DEF PipeHup
<1>2. Started(w)
  BY <1>1 DEF IInv, SpawnInv
<1>3. handles[w]["recvq1"] \in Fd /\ fds[handles[w]["recvq1"]] = <<"recvq1", w, restarts[w]>>
  BY <1>1, <1>2 DEF IInv, HandlesInv
<1>4. ASSUME NEW j \in OfWorker(w)
      PROVE  fds[j] = <<"client", w>> \/ fds[j] = <<"sendq0", w, restarts[w]>>
  BY <1>1, <1>4 DEF IInv, TableInv, OfWorker
<1> QED BY <1>1, <1>3, <1>4

\* What is left of the tables then: of w only its listening socket, and the end
\* of recvq's pipe where nothing is started.
LEMMA AfterHup ==
    ASSUME IInv, NEW f \in Fd, NEW w \in Worker, PipeHup(f, w),
           NEW S, OfWorker(w) \subseteq S, S \subseteq OfWorker(w) \cup {handles[w]["recvq1"]}
    PROVE  LET b == Without(fds, S)
               c == WithoutWorker(w)
           IN  /\ b \in [Fd -> File] /\ c \in Conns
               /\ \A j \in Fd, e \in End, i \in Gen :
                     b[j] = <<e, w, i>> => e = "recvq1" /\ j = handles[w]["recvq1"] /\ j \notin S
               /\ \A j \in Fd, e \in End, v \in Worker, i \in Gen :
                     v # w => (b[j] = <<e, v, i>> <=> fds[j] = <<e, v, i>>)
               /\ \A j \in Fd, v \in Worker : \A k \in {"client", "listen"} :
                     b[j] = <<k, v>> <=> c[j] = <<k, v>>
               /\ \A j \in Fd, v \in Worker :
                     c[j] = <<"pipe", v>> => v # w /\ conns[j] = <<"pipe", v>> /\ b[j] # Closed
<1> DEFINE b == Without(fds, S)
           c == WithoutWorker(w)
           r == handles[w]["recvq1"]
<1>1. /\ TypeOK /\ fds \in [Fd -> File] /\ b \in [Fd -> File] /\ c \in Conns
      /\ state # "dead"
  BY Typed, Shut, WithoutWorkerType DEF TypeOK, PipeHup
<1>2. /\ r \in Fd /\ fds[r] = <<"recvq1", w, restarts[w]>> /\ restarts[w] \in Gen
      /\ \A j \in OfWorker(w) : fds[j] = <<"client", w>> \/ fds[j] = <<"sendq0", w, restarts[w]>>
  BY ClosedNumbers
<1>3. \A j \in Fd : /\ j \in S => b[j] = Closed
                    /\ j \notin S => b[j] = fds[j]
  BY <1>1, Shut
<1>4. \A j \in Fd : /\ j \in OfWorker(w) => c[j] = Unused
                    /\ j \notin OfWorker(w) => c[j] = conns[j]
  BY DEF WithoutWorker
<1>5. {"recvq1", "sendq0"} \subseteq End
  BY DEF End
<1> HIDE DEF b, c
<1>6. ASSUME NEW j \in Fd, NEW e \in End, NEW i \in Gen, b[j] = <<e, w, i>>
      PROVE  e = "recvq1" /\ j = r /\ j \notin S
  <2>1. fds[j] = <<e, w, i>> /\ j \notin S
    BY <1>3, <1>6, Files
  <2>2. handles[w][e] = j /\ i = restarts[w]
    <3>1. Latest(w) = restarts[w]
      BY Registration DEF PipeHup
    <3> QED BY <2>1, <3>1 DEF IInv, TableInv, LastPipes
  <2>3. wstate[<<w, restarts[w]>>] # "none" /\ handles[w]["sendq0"] = f
    BY Registration DEF PipeHup
  <2>4. e \notin {"recvq0", "sendq1"}
    BY <2>1, <2>2, <2>3, <1>2 DEF IInv, TableInv
  <2>5. f \in OfWorker(w)
    BY DEF PipeHup, OfWorker
  <2>6. e # "sendq0"
    BY <2>1, <2>2, <2>3, <2>5
  <2> QED BY <2>1, <2>2, <2>4, <2>6 DEF End
<1>7. ASSUME NEW j \in Fd, NEW e \in End, NEW v \in Worker, NEW i \in Gen, v # w
      PROVE  b[j] = <<e, v, i>> <=> fds[j] = <<e, v, i>>
  <2>1. ASSUME fds[j] = <<e, v, i>> PROVE j \notin S
    <3>1. j # r
      BY <1>2, <1>7, <2>1, SameEnd
    <3>2. j \notin OfWorker(w)
      <4>1. fds[j] # <<"client", w>>
        BY <2>1, Files
      <4>2. fds[j] # <<"sendq0", w, restarts[w]>>
        BY <1>7, <2>1, SameEnd
      <4> QED BY <1>2, <4>1, <4>2
    <3> QED BY <3>1, <3>2
  <2> QED BY <1>3, <2>1, Files
<1>8. ASSUME NEW j \in Fd, NEW v \in Worker, NEW k \in {"client", "listen"}
      PROVE  b[j] = <<k, v>> <=> c[j] = <<k, v>>
  <2>1. fds[j] = <<k, v>> <=> conns[j] = <<k, v>>
    BY <1>1 DEF IInv, TableInv
  <2>2. CASE j \in OfWorker(w)
    <3>1. b[j] = Closed /\ c[j] = Unused
      BY <1>3, <1>4, <2>2
    <3>2. Unused[1] = "unused" /\ <<k, v>>[1] = k
      BY DEF Unused
    <3> QED BY <3>1, <3>2, <1>5, Files
  <2>3. CASE j = r /\ j \notin OfWorker(w)
    <3>1. fds[j] # <<k, v>>
      BY <1>2, <1>5, <2>3, Files
    <3>2. c[j] # <<k, v>>
      BY <1>4, <2>1, <2>3, <3>1
    <3>3. b[j] # <<k, v>>
      BY <1>3, <1>5, <3>1, Files
    <3> QED BY <3>2, <3>3
  <2>4. CASE j # r /\ j \notin OfWorker(w)
    BY <1>3, <1>4, <2>1, <2>4
  <2> QED BY <2>2, <2>3, <2>4
<1>9. ASSUME NEW j \in Fd, NEW v \in Worker, c[j] = <<"pipe", v>>
      PROVE  v # w /\ conns[j] = <<"pipe", v>> /\ b[j] # Closed
  <2>1. Unused[1] = "unused" /\ <<"pipe", v>>[1] = "pipe"
    BY DEF Unused
  <2>2. conns[j] = <<"pipe", v>> /\ j \notin OfWorker(w)
    BY <1>4, <1>9, <2>1
  <2>3. v # w
    BY <2>2 DEF OfWorker
  <2>4. fds[j] = <<"sendq0", v, restarts[v]>>
    BY <1>1, <2>2 DEF IInv, TableInv
  <2>5. j # r
    BY <1>2, <2>3, <2>4, SameEnd
  <2>6. b[j] = fds[j]
    BY <1>3, <2>2, <2>5
  <2> QED BY <1>5, <2>2, <2>3, <2>4, <2>6, Files
<1> QED BY <1>1, <1>6, <1>7, <1>8, <1>9 DEF b, c

LEMMA FreshRestart ==
    ASSUME IInv, NEW f \in Fd, NEW w \in Worker, PipeHup(f, w)
    PROVE  Fresh(BeforeRestart(w), WithoutWorker(w), w)
<1> DEFINE S == OfWorker(w) \cup {handles[w]["recvq1"]}
           b == Without(fds, S)
           c == WithoutWorker(w)
<1>1. /\ b \in [Fd -> File] /\ c \in Conns
      /\ \A j \in Fd, e \in End, i \in Gen :
            b[j] = <<e, w, i>> => e = "recvq1" /\ j = handles[w]["recvq1"] /\ j \notin S
      /\ \A j \in Fd, e \in End, v \in Worker, i \in Gen :
            v # w => (b[j] = <<e, v, i>> <=> fds[j] = <<e, v, i>>)
      /\ \A j \in Fd, v \in Worker : \A k \in {"client", "listen"} :
            b[j] = <<k, v>> <=> c[j] = <<k, v>>
      /\ \A j \in Fd, v \in Worker :
            c[j] = <<"pipe", v>> => v # w /\ conns[j] = <<"pipe", v>> /\ b[j] # Closed
  <2>1. OfWorker(w) \subseteq S /\ S \subseteq OfWorker(w) \cup {handles[w]["recvq1"]}
    OBVIOUS
  <2> HIDE DEF S
  <2> QED BY <2>1, AfterHup
<1>2. \A j \in Fd, e \in End, i \in Gen : b[j] # <<e, w, i>>
  <2> HIDE DEF b
  <2> QED BY <1>1
<1> QED BY <1>1, <1>2 DEF Fresh, BeforeRestart

Result == {"started", "failed"}    \* of a fork

\* The tables u and k after it: w has the pipes just made, of which the parent
\* keeps its own ends, and a registration, if the process was started.
Made(u, k, w, g, h, res) ==
    /\ \A f \in Fd, e \in End, v \in Worker, i \in Gen :
          v # w => (u[f] = <<e, v, i>> <=> fds[f] = <<e, v, i>>)
    /\ \A f \in Fd, e \in End, i \in Gen :
          u[f] = <<e, w, i>> => f = h[e] /\ i = g /\ (res = "started" => e \in {"sendq0", "recvq1"})
    /\ \A e \in {"sendq0", "recvq1"} : u[h[e]] = <<e, w, g>>
    /\ \A f \in Fd, v \in Worker : \A n \in {"client", "listen"} :
          u[f] = <<n, v>> <=> k[f] = <<n, v>>
    /\ \A f \in Fd, v \in Worker :
          k[f] = <<"pipe", v>> => \/ v # w /\ conns[f] = <<"pipe", v>>
                                  \/ res = "started" /\ v = w /\ f = h["sendq0"]

LEMMA PipesOpened ==
    ASSUME NEW b, NEW c, NEW w \in Worker, NEW g \in Gen, Fresh(b, c, w), NEW h \in NewHandles(b)
    PROVE  Made(WithPipes(b, h, w, g), c, w, g, h, "failed")
<1> DEFINE t == WithPipes(b, h, w, g)
<1>1. /\ b \in [Fd -> File] /\ h \in [End -> Fd]
      /\ \A e \in End : b[h[e]] = Closed
  BY NewNumbers DEF Fresh
<1>2. /\ \A e \in End : t[h[e]] = <<e, w, g>>
      /\ \A f \in Fd : (\A e \in End : f # h[e]) => t[f] = b[f]
  BY <1>1, Opened
<1> HIDE DEF t
<1>3. ASSUME NEW f \in Fd, NEW e \in End, NEW v \in Worker, NEW i \in Gen, v # w
      PROVE  t[f] = <<e, v, i>> <=> fds[f] = <<e, v, i>>
  <2>1. b[f] = <<e, v, i>> <=> fds[f] = <<e, v, i>>
    BY <1>3 DEF Fresh
  <2>2. ASSUME NEW d \in End, f = h[d] PROVE t[f] # <<e, v, i>> /\ b[f] # <<e, v, i>>
    <3>1. t[f] = <<d, w, g>> /\ b[f] = Closed
      BY <1>1, <1>2, <2>2
    <3>2. <<e, v, i>> # Closed /\ <<d, w, g>> # <<e, v, i>>
      BY <1>3, Files, SameEnd
    <3> QED BY <3>1, <3>2
  <2> QED BY <1>2, <2>1, <2>2
<1>4. ASSUME NEW f \in Fd, NEW e \in End, NEW i \in Gen, t[f] = <<e, w, i>>
      PROVE  f = h[e] /\ i = g
  <2>1. b[f] # <<e, w, i>>
    BY DEF Fresh
  <2>2. PICK d \in End : f = h[d]
    BY <1>2, <1>4, <2>1
  <2> QED BY <1>2, <1>4, <2>2, SameEnd
<1>5. ASSUME NEW f \in Fd, NEW v \in Worker, NEW k \in {"client", "listen"}
      PROVE  t[f] = <<k, v>> <=> c[f] = <<k, v>>
  <2>1. b[f] = <<k, v>> <=> c[f] = <<k, v>>
    BY DEF Fresh
  <2>2. ASSUME NEW d \in End, f = h[d] PROVE t[f] # <<k, v>> /\ b[f] # <<k, v>>
    <3>1. t[f] = <<d, w, g>> /\ b[f] = Closed
      BY <1>1, <1>2, <2>2
    <3>2. <<k, v>> # Closed /\ <<k, v>> # <<d, w, g>>
      BY Files
    <3> QED BY <3>1, <3>2
  <2> QED BY <1>2, <2>1, <2>2
<1>6. {"recvq1", "sendq0"} \subseteq End
  BY DEF End
<1>7. \A f \in Fd, v \in Worker : c[f] = <<"pipe", v>> => v # w /\ conns[f] = <<"pipe", v>>
  BY DEF Fresh
<1> QED BY <1>2, <1>3, <1>4, <1>5, <1>6, <1>7 DEF Made, t

LEMMA PipesKept ==
    ASSUME NEW b, NEW c, NEW w \in Worker, NEW g \in Gen, Fresh(b, c, w), NEW h \in NewHandles(b)
    PROVE  Made(Without(WithPipes(b, h, w, g), ClosedByParent(h)), WithPipe(c, h, w), w, g, h, "started")
<1> DEFINE t == WithPipes(b, h, w, g)
           u == Without(t, ClosedByParent(h))
           k == WithPipe(c, h, w)
<1>1. /\ b \in [Fd -> File] /\ c \in Conns /\ h \in [End -> Fd]
      /\ \A e, d \in End : h[e] = h[d] => e = d
      /\ \A e \in End : b[h[e]] = Closed
  BY NewNumbers DEF Fresh
<1>2. /\ t \in [Fd -> File]
      /\ \A e \in End : t[h[e]] = <<e, w, g>>
  BY <1>1, Opened
<1>3. Made(t, c, w, g, h, "failed")
  BY PipesOpened
<1> HIDE DEF t
<1>4. \A f \in Fd : /\ f \in {h["recvq0"], h["sendq1"]} => u[f] = Closed
                    /\ f \notin {h["recvq0"], h["sendq1"]} => u[f] = t[f]
  BY <1>2, Shut DEF ClosedByParent
<1>5. "sendq0" \in End /\ "sendq1" \in End /\ "recvq0" \in End /\ "recvq1" \in End
  BY DEF End
<1>6. h["sendq0"] \in Fd /\ k[h["sendq0"]] = <<"pipe", w>>
      /\ \A f \in Fd : f # h["sendq0"] => k[f] = c[f]
  BY <1>1, <1>5 DEF WithPipe, Conns
<1> HIDE DEF u, k
<1>7. ASSUME NEW f \in Fd, NEW e \in End, NEW v \in Worker, NEW i \in Gen, v # w
      PROVE  u[f] = <<e, v, i>> <=> fds[f] = <<e, v, i>>
  <2>1. t[f] = <<e, v, i>> <=> fds[f] = <<e, v, i>>
    BY <1>3, <1>7 DEF Made
  <2>2. f \in {h["recvq0"], h["sendq1"]} => u[f] # <<e, v, i>> /\ t[f] # <<e, v, i>>
    <3>1. <<e, v, i>> # Closed /\ \A d \in End : <<d, w, g>> # <<e, v, i>>
      BY <1>7, Files, SameEnd
    <3> QED BY <1>2, <1>4, <1>5, <3>1
  <2> QED BY <1>4, <2>1, <2>2
<1>8. ASSUME NEW f \in Fd, NEW e \in End, NEW i \in Gen, u[f] = <<e, w, i>>
      PROVE  f = h[e] /\ i = g /\ e \in {"sendq0", "recvq1"}
  <2>1. f \notin {h["recvq0"], h["sendq1"]} /\ t[f] = <<e, w, i>>
    BY <1>4, <1>8, Files
  <2>2. f = h[e] /\ i = g
    BY <1>3, <2>1 DEF Made
  <2> QED BY <2>1, <2>2 DEF End
<1>9. \A e \in {"sendq0", "recvq1"} : u[h[e]] = <<e, w, g>>
  BY <1>1, <1>2, <1>4, <1>5
<1>10. ASSUME NEW f \in Fd, NEW v \in Worker, NEW n \in {"client", "listen"}
       PROVE  u[f] = <<n, v>> <=> k[f] = <<n, v>>
  <2>1. t[f] = <<n, v>> <=> c[f] = <<n, v>>
    BY <1>3 DEF Made
  <2>2. f \in {h["recvq0"], h["sendq1"]} => u[f] # <<n, v>> /\ t[f] # <<n, v>>
    <3>1. ASSUME NEW d \in End PROVE <<n, v>> # Closed /\ <<d, w, g>> # <<n, v>>
      BY Files
    <3> QED BY <1>2, <1>4, <1>5, <3>1
  <2>3. f = h["sendq0"] => u[f] # <<n, v>> /\ k[f] # <<n, v>>
    <3>1. <<"sendq0", w, g>> # <<n, v>>
      BY <1>5, Files
    <3>2. <<"pipe", w>>[1] = "pipe" /\ <<n, v>>[1] = n
      OBVIOUS
    <3> QED BY <1>6, <1>9, <3>1, <3>2
  <2> QED BY <1>4, <1>6, <2>1, <2>2, <2>3
<1>11. ASSUME NEW f \in Fd, NEW v \in Worker, k[f] = <<"pipe", v>>
       PROVE  (v # w /\ conns[f] = <<"pipe", v>>) \/ (v = w /\ f = h["sendq0"])
  <2>1. CASE f = h["sendq0"]
    BY <1>6, <1>11, <2>1
  <2>2. CASE f # h["sendq0"]
    <3>1. c[f] = <<"pipe", v>>
      BY <1>6, <1>11, <2>2
    <3>2. v # w /\ conns[f] = <<"pipe", v>>
      BY <3>1 DEF Fresh
    <3> QED BY <3>2
  <2> QED BY <2>1, <2>2
<1> QED BY <1>7, <1>8, <1>9, <1>10, <1>11 DEF Made, t, u, k

\* Spawn opens the listening socket then.
LEMMA Listening ==
    ASSUME NEW u \in [Fd -> File], NEW k \in Conns, NEW w \in Worker, NEW g \in Gen,
           NEW h \in [End -> Fd], Made(u, k, w, g, h, "started"), NEW l \in Lowest(u, 1)
    PROVE  Made([u EXCEPT ![l] = <<"listen", w>>], [k EXCEPT ![l] = <<"listen", w>>],
                w, g, h, "started")
<1> DEFINE x == [u EXCEPT ![l] = <<"listen", w>>]
           y == [k EXCEPT ![l] = <<"listen", w>>]
<1>1. l \in Fd /\ u[l] = Closed
  BY FreeNumber
<1>2. /\ x[l] = <<"listen", w>> /\ y[l] = <<"listen", w>>
      /\ \A f \in Fd : f # l => x[f] = u[f] /\ y[f] = k[f]
  BY <1>1 DEF Conns
<1> HIDE DEF x, y
<1>3. ASSUME NEW f \in Fd, NEW e \in End, NEW v \in Worker, NEW i \in Gen
      PROVE  x[f] = <<e, v, i>> <=> u[f] = <<e, v, i>>
  BY <1>1, <1>2, Files
<1>4. \A e \in {"sendq0", "recvq1"} : x[h[e]] = <<e, w, g>>
  <2>1. \A e \in {"sendq0", "recvq1"} : u[h[e]] = <<e, w, g>> /\ e \in End /\ h[e] \in Fd
    BY DEF Made, End
  <2> QED BY <1>3, <2>1
<1>5. ASSUME NEW f \in Fd, NEW v \in Worker, NEW n \in {"client", "listen"}
      PROVE  x[f] = <<n, v>> <=> y[f] = <<n, v>>
  <2>1. u[f] = <<n, v>> <=> k[f] = <<n, v>>
    BY DEF Made
  <2> QED BY <1>2, <2>1
<1>6. ASSUME NEW f \in Fd, NEW v \in Worker, y[f] = <<"pipe", v>>
      PROVE  (v # w /\ conns[f] = <<"pipe", v>>) \/ (v = w /\ f = h["sendq0"])
  <2>1. f # l
    <3>1. <<"listen", w>>[1] = "listen" /\ <<"pipe", v>>[1] = "pipe"
      OBVIOUS
    <3> QED BY <1>2, <1>6, <3>1
  <2>2. k[f] = <<"pipe", v>>
    BY <1>2, <1>6, <2>1
  <2>3. (v # w /\ conns[f] = <<"pipe", v>>) \/ (v = w /\ f = h["sendq0"])
    BY <2>2 DEF Made
  <2> QED BY <2>3
<1>7. \A f \in Fd, e \in End, v \in Worker, i \in Gen :
          v # w => (x[f] = <<e, v, i>> <=> fds[f] = <<e, v, i>>)
  BY <1>3 DEF Made
<1>8. \A f \in Fd, e \in End, i \in Gen :
          x[f] = <<e, w, i>> => f = h[e] /\ i = g /\ ("started" = "started" => e \in {"sendq0", "recvq1"})
  BY <1>3 DEF Made
<1>9. Made(x, y, w, g, h, "started")
  BY <1>4, <1>5, <1>6, <1>7, <1>8 DEF Made
<1> QED BY <1>9 DEF x, y

\* The two steps that make pipes, in one form: the process <<w, g>> is started
\* from the tables b and c and closes the ends of the first n workers.
ForkStep(b, c, w, g, h, n, res) ==
    /\ Fresh(b, c, w) /\ h \in NewHandles(b) /\ h \in [End -> Fd] /\ g \in Gen
    /\ Made(fds', conns', w, g, h, res)
    /\ handles' = [handles EXCEPT ![w] = h]
    /\ restarts' = [restarts EXCEPT ![w] = g]
    /\ res = "started" => Fork(<<w, g>>, WithPipes(b, h, w, g), h, handles', c, n)
    /\ res = "failed" => UNCHANGED workerVars /\ Started(w)
    /\ state # "dead" /\ state' # "dead" /\ ~PastLimit(w)
    /\ \A v \in Worker : v \in 1..n <=> v = w \/ Started(v)
    /\ n \in Worker
    /\ \/ ~Started(w) /\ g = 0 /\ restarts[w] = 0
       \/ Started(w) /\ g = restarts[w] + 1

LEMMA SpawnMakes ==
    ASSUME IInv, NEW w \in Worker, Spawn(w)
    PROVE  \E h \in NewHandles(fds) : ForkStep(fds, conns, w, 0, h, w, "started")
<1> DEFINE t(h)  == WithPipes(fds, h, w, 0)
           hs(h) == [handles EXCEPT ![w] = h]
           tp(h) == Without(t(h), ClosedByParent(h))
<1>1. PICK h \in NewHandles(fds) :
          /\ handles' = hs(h)
          /\ Fork(<<w, 0>>, t(h), h, hs(h), conns, w)
          /\ \E l \in Lowest(tp(h), 1) :
                 /\ fds' = [tp(h) EXCEPT ![l] = <<"listen", w>>]
                 /\ conns' = [WithPipe(conns, h, w) EXCEPT ![l] = <<"listen", w>>]
  BY DEF Spawn
<1>2. Fresh(fds, conns, w)
  BY FreshSpawn
<1>3. 0 \in Gen /\ h \in [End -> Fd]
  BY PipesAssumption, NewNumbers DEF Gen, Worker
<1>4. Made(fds', conns', w, 0, h, "started")
  <2> DEFINE u == tp(h)
             k == WithPipe(conns, h, w)
  <2>1. Made(u, k, w, 0, h, "started")
    BY <1>2, <1>3, PipesKept
  <2>2. u \in [Fd -> File] /\ k \in Conns
    <3>1. fds \in [Fd -> File] /\ conns \in Conns
      BY <1>2 DEF Fresh
    <3>2. t(h) \in [Fd -> File]
      BY <1>3, <3>1, Opened
    <3> HIDE DEF t
    <3> QED BY <1>3, <3>1, <3>2, Shut, ConnsType DEF WithPipe, End
  <2>3. PICK l \in Lowest(u, 1) : /\ fds' = [u EXCEPT ![l] = <<"listen", w>>]
                                  /\ conns' = [k EXCEPT ![l] = <<"listen", w>>]
    BY <1>1
  <2> HIDE DEF u, k
  <2> QED BY <1>3, <2>1, <2>2, <2>3, Listening
<1>5. restarts[w] = 0 /\ restarts' = [restarts EXCEPT ![w] = 0]
  BY DEF Spawn, IInv, SpawnInv, TypeOK
<1>6. /\ ~Started(w) /\ state # "dead" /\ state' # "dead" /\ ~PastLimit(w)
  BY <1>5, PipesAssumption DEF Spawn, Started, PastLimit
<1>7. \A v \in Worker : v \in 1..w <=> v = w \/ Started(v)
  <2>1. ASSUME NEW v \in Worker, v < w PROVE Started(v)
    BY <2>1 DEF Spawn, Started, Worker
  <2>2. ASSUME NEW v \in Worker, w < v PROVE ~Started(v)
    <3>1. w \in 1..v-1
      BY <2>2 DEF Worker
    <3> QED BY <1>6, <3>1 DEF IInv, SpawnInv
  <2> QED BY <2>1, <2>2 DEF Worker
<1>8. Fork(<<w, 0>>, WithPipes(fds, h, w, 0), h, handles', conns, w)
  BY <1>1
<1>9. handles' = [handles EXCEPT ![w] = h]
  BY <1>1
<1>10. ForkStep(fds, conns, w, 0, h, w, "started")
  BY <1>2, <1>3, <1>4, <1>5, <1>6, <1>7, <1>8, <1>9 DEF ForkStep
<1> QED BY <1>10

LEMMA RestartMakes ==
    ASSUME IInv, NEW f \in Fd, NEW w \in Worker, Restart(f, w)
    PROVE  \E h \in NewHandles(BeforeRestart(w)), res \in Result :
              ForkStep(BeforeRestart(w), WithoutWorker(w), w, restarts[w] + 1, h, NumWorkers, res)
<1> DEFINE g == restarts[w] + 1
           b == BeforeRestart(w)
           c == WithoutWorker(w)
<1>1. PICK h \in NewHandles(b) :
          /\ handles' = [handles EXCEPT ![w] = h]
          /\ \/ /\ Fork(<<w, g>>, WithPipes(b, h, w, g), h, [handles EXCEPT ![w] = h], c, NumWorkers)
                /\ fds' = Without(WithPipes(b, h, w, g), ClosedByParent(h))
                /\ conns' = WithPipe(c, h, w)
             \/ /\ fds' = WithPipes(b, h, w, g)
                /\ conns' = c
                /\ UNCHANGED workerVars
  BY DEF Restart
<1>2. PipeHup(f, w) /\ state = "loop" /\ state' = state /\ restarts' = [restarts EXCEPT ![w] = g]
  BY DEF Restart, PipeHup
<1>3. Fresh(b, c, w)
  BY <1>2, FreshRestart
<1>4. g \in Gen /\ ~PastLimit(w)
  BY PipesAssumption DEF Restart, WithinLimit, IInv, TypeOK, Gen, PastLimit
<1>5. \A v \in Worker : Started(v)
  BY <1>2 DEF IInv, SpawnInv
<1>6. (\A v \in Worker : v \in 1..NumWorkers <=> v = w \/ Started(v)) /\ NumWorkers \in Worker
  BY <1>5, PipesAssumption DEF Worker
<1>7. h \in [End -> Fd]
  BY NewNumbers
<1> HIDE DEF g, b, c
<1>8. CASE /\ Fork(<<w, g>>, WithPipes(b, h, w, g), h, [handles EXCEPT ![w] = h], c, NumWorkers)
           /\ fds' = Without(WithPipes(b, h, w, g), ClosedByParent(h))
           /\ conns' = WithPipe(c, h, w)
  <2>1. Made(fds', conns', w, g, h, "started")
    BY <1>3, <1>4, <1>8, PipesKept
  <2>2. ForkStep(b, c, w, g, h, NumWorkers, "started")
    BY <1>1, <1>2, <1>3, <1>4, <1>5, <1>6, <1>7, <1>8, <2>1 DEF ForkStep, g
  <2> QED BY <2>2 DEF g, b, c, Result
<1>9. CASE /\ fds' = WithPipes(b, h, w, g)
           /\ conns' = c
           /\ UNCHANGED workerVars
  <2>1. Made(fds', conns', w, g, h, "failed")
    BY <1>3, <1>4, <1>9, PipesOpened
  <2>2. ForkStep(b, c, w, g, h, NumWorkers, "failed")
    BY <1>1, <1>2, <1>3, <1>4, <1>5, <1>6, <1>7, <1>9, <2>1 DEF ForkStep, g
  <2> QED BY <2>2 DEF g, b, c, Result
<1> QED BY <1>1, <1>8, <1>9

------------------------------------------------------------------------------
(* The invariant when a process is started, or fork fails *)

\* The process is new, and so are its pipes.
LEMMA NewProcess ==
    ASSUME IInv, NEW b, NEW c, NEW w \in Worker, NEW g, NEW h, NEW n, NEW res \in Result,
           ForkStep(b, c, w, g, h, n, res)
    PROVE  /\ <<w, g>> \in Process /\ wstate[<<w, g>>] = "none" /\ restarts[w] <= g
           /\ \A e \in End, p \in Process, f \in Fd : wfds[p][f] # <<e, w, g>>
<1>1. TypeOK /\ g \in Gen /\ <<w, g>> \in Process
  BY Typed DEF ForkStep, Process
<1>2. ~(Started(w) /\ g <= restarts[w]) /\ restarts[w] <= g
  BY <1>1, PipesAssumption DEF ForkStep, TypeOK, Gen
<1>3. wstate[<<w, g>>] = "none"
  BY <1>1, <1>2 DEF IInv, SpawnInv
<1>4. \A e \in End, p \in Process, f \in Fd : wfds[p][f] # <<e, w, g>>
  BY <1>1, <1>2 DEF IInv, MadeInv
<1> QED BY <1>1, <1>2, <1>3, <1>4

\* The parent's notes change for w only ...
LEMMA NewTables ==
    ASSUME IInv, NEW b, NEW c, NEW w \in Worker, NEW g, NEW h, NEW n, NEW res \in Result,
           ForkStep(b, c, w, g, h, n, res)
    PROVE  /\ handles'[w] = h /\ restarts'[w] = g
           /\ \A v \in Worker : v # w => handles'[v] = handles[v] /\ restarts'[v] = restarts[v]
BY Typed DEF ForkStep, TypeOK

\* ... the other processes are as they were ...
LEMMA OthersStay ==
    ASSUME IInv, NEW b, NEW c, NEW w \in Worker, NEW g, NEW h, NEW n, NEW res \in Result,
           ForkStep(b, c, w, g, h, n, res)
    PROVE  \A p \in Process : p # <<w, g>> =>
               /\ wfds'[p] = wfds[p] /\ own'[p] = own[p]
               /\ todo'[p] = todo[p] /\ wstate'[p] = wstate[p]
<1>1. CASE res = "started"
  <2>1. Fork(<<w, g>>, WithPipes(b, h, w, g), h, handles', c, n)
    BY <1>1 DEF ForkStep
  <2> QED BY <2>1, Typed DEF Fork, TypeOK
<1>2. CASE res = "failed"
  BY <1>2 DEF ForkStep, workerVars
<1> QED BY <1>1, <1>2 DEF Result

\* ... and the new one has what the parent had.
LEMMA NewOne ==
    ASSUME IInv, NEW b, NEW c, NEW w \in Worker, NEW g, NEW h, NEW n, NEW res \in Result,
           ForkStep(b, c, w, g, h, n, res)
    PROVE  res = "started" => /\ wfds'[<<w, g>>] = WithPipes(b, h, w, g) /\ own'[<<w, g>>] = h
                 /\ todo'[<<w, g>>] = ClosedByWorker(handles', c, n)
                 /\ wstate'[<<w, g>>] = "forked"
<1> SUFFICES ASSUME res = "started"
             PROVE  /\ wfds'[<<w, g>>] = WithPipes(b, h, w, g) /\ own'[<<w, g>>] = h
                    /\ todo'[<<w, g>>] = ClosedByWorker(handles', c, n)
                    /\ wstate'[<<w, g>>] = "forked"
  OBVIOUS
<1>1. Fork(<<w, g>>, WithPipes(b, h, w, g), h, handles', c, n)
  BY DEF ForkStep
<1>2. <<w, g>> \in Process
  BY NewProcess
<1> QED BY <1>1, <1>2, Typed DEF Fork, TypeOK

\* Which workers are started then.
LEMMA NowStarted ==
    ASSUME IInv, NEW b, NEW c, NEW w \in Worker, NEW g, NEW h, NEW n, NEW res \in Result,
           ForkStep(b, c, w, g, h, n, res)
    PROVE  \A v \in Worker : wstate'[<<v, 0>>] # "none" <=> v = w \/ Started(v)
<1>1. \A v \in Worker : <<v, 0>> \in Process
  BY PipesAssumption DEF Process, Gen
<1>2. \A v \in Worker : v # w => <<v, 0>> # <<w, g>>
  OBVIOUS
<1>3. ASSUME NEW v \in Worker, v # w PROVE wstate'[<<v, 0>>] = wstate[<<v, 0>>]
  <2>1. \A p \in Process : p # <<w, g>> => wstate'[p] = wstate[p]
    BY OthersStay
  <2> QED BY <1>1, <1>2, <1>3, <2>1
<1>4. wstate'[<<w, 0>>] # "none"
  <2>1. CASE Started(w)
    <3>1. wstate[<<w, 0>>] # "none"
      BY <2>1 DEF Started
    <3>2. <<w, 0>> # <<w, g>>
      BY <3>1, NewProcess
    <3> QED BY <1>1, <3>1, <3>2, OthersStay
  <2>2. CASE ~Started(w)
    <3>1. g = 0 /\ res = "started"
      BY <2>2 DEF ForkStep, Result
    <3> QED BY <3>1, NewOne
  <2> QED BY <2>1, <2>2
<1> QED BY <1>3, <1>4 DEF Started

LEMMA SpawnInvFork ==
    ASSUME IInv, NEW b, NEW c, NEW w \in Worker, NEW g, NEW h, NEW n, NEW res \in Result,
           ForkStep(b, c, w, g, h, n, res), TypeOK',
           state' = "loop" => n = NumWorkers,
           state' = "forking" => g = 0 /\ state = "forking"
    PROVE  SpawnInv'
<1>1. \A v \in Worker : Started(v)' <=> v = w \/ Started(v)
  BY NowStarted DEF Started
<1>2. ASSUME NEW x \in Worker, NEW v \in 1..x-1, Started(x)' PROVE Started(v)'
  <2>1. v \in Worker /\ v < x
    BY PipesAssumption DEF Worker
  <2>2. CASE x = w
    <3>1. w \in 1..n /\ n \in Nat
      BY DEF ForkStep, Worker
    <3>2. v \in 1..n
      BY <2>1, <2>2, <3>1 DEF Worker
    <3> QED BY <1>1, <2>1, <3>2 DEF ForkStep
  <2>3. CASE Started(x)
    BY <1>1, <2>1, <2>3 DEF IInv, SpawnInv
  <2> QED BY <1>1, <1>2, <2>2, <2>3
<1>3. ASSUME state' = "loop", NEW v \in Worker PROVE Started(v)'
  BY <1>1, <1>3 DEF ForkStep, Worker
<1>4. ASSUME state' = "forking", NEW v \in Worker PROVE restarts'[v] = 0
  <2>1. restarts'[w] = g /\ (v # w => restarts'[v] = restarts[v])
    BY NewTables
  <2> QED BY <1>4, <2>1 DEF IInv, SpawnInv
<1>5. ASSUME NEW v \in Worker, NEW i \in Gen, wstate'[<<v, i>>] # "none"
      PROVE  Started(v)' /\ i <= restarts'[v]
  <2>1. CASE <<v, i>> = <<w, g>>
    <3>1. v = w /\ i = g
      BY <2>1
    <3>2. restarts'[w] = g
      BY NewTables
    <3> QED BY <1>1, <3>1, <3>2 DEF Gen
  <2>2. CASE <<v, i>> # <<w, g>>
    <3>1. <<v, i>> \in Process
      BY DEF Process
    <3>2. wstate[<<v, i>>] # "none"
      <4>1. \A p \in Process : p # <<w, g>> => wstate'[p] = wstate[p]
        BY OthersStay
      <4> QED BY <1>5, <2>2, <3>1, <4>1
    <3>3. Started(v) /\ i <= restarts[v]
      BY <3>2 DEF IInv, SpawnInv
    <3>4. restarts[v] <= restarts'[v] /\ restarts[v] \in Nat /\ restarts'[v] \in Nat
      <4>1. restarts[w] <= g
        BY NewProcess
      <4>2. restarts'[w] = g /\ (v # w => restarts'[v] = restarts[v])
        BY NewTables
      <4>3. /\ \A x \in Worker : restarts[x] \in Nat
            /\ \A x \in Worker : restarts'[x] \in Nat
        BY PipesAssumption DEF IInv, TypeOK
      <4> QED BY <4>1, <4>2, <4>3
    <3> QED BY <1>1, <3>3, <3>4 DEF Gen
  <2> QED BY <2>1, <2>2
<1> QED BY <1>2, <1>3, <1>4, <1>5 DEF SpawnInv, Started

LEMMA MadeInvFork ==
    ASSUME IInv, NEW b, NEW c, NEW w \in Worker, NEW g, NEW h, NEW n, NEW res \in Result,
           ForkStep(b, c, w, g, h, n, res)
    PROVE  MadeInv'
<1>1. \A v \in Worker : Started(v)' <=> v = w \/ Started(v)
  BY NowStarted DEF Started
<1>2. /\ restarts[w] <= g
      /\ restarts'[w] = g
      /\ \A v \in Worker : v # w => restarts'[v] = restarts[v]
  <2>1. restarts[w] <= g
    BY NewProcess
  <2>2. restarts'[w] = g /\ \A v \in Worker : v # w => restarts'[v] = restarts[v]
    BY NewTables
  <2> QED BY <2>1, <2>2
<1>3. Made(fds', conns', w, g, h, res) /\ Made(WithPipes(b, h, w, g), c, w, g, h, "failed")
      /\ g \in Gen
  BY PipesOpened DEF ForkStep
<1>4. ASSUME NEW e \in End, NEW v \in Worker, NEW i \in Gen, NEW f \in Fd, NEW u,
             Made(u, conns', w, g, h, res) \/ Made(u, c, w, g, h, "failed"),
             u[f] = <<e, v, i>>
      PROVE  (v = w /\ i = g) \/ (v # w /\ fds[f] = <<e, v, i>>)
  <2>1. CASE v = w
    BY <1>4, <2>1 DEF Made
  <2>2. CASE v # w
    BY <1>4, <2>2 DEF Made
  <2> QED BY <2>1, <2>2
<1>5. ASSUME NEW e \in End, NEW v \in Worker, NEW i \in Gen, NEW f \in Fd,
             \/ v = w /\ i = g
             \/ v # w /\ fds[f] = <<e, v, i>>
             \/ \E p \in Process : wfds[p][f] = <<e, v, i>>
      PROVE  Started(v)' /\ i <= restarts'[v]
  <2>1. CASE v = w /\ i = g
    BY <1>1, <1>2, <2>1 DEF Gen
  <2>2. CASE (v # w /\ fds[f] = <<e, v, i>>) \/ \E p \in Process : wfds[p][f] = <<e, v, i>>
    <3>1. Started(v) /\ i <= restarts[v]
      BY <2>2 DEF IInv, MadeInv
    <3>2. g \in Nat /\ restarts[v] \in Nat
      BY <1>3, PipesAssumption DEF Gen, IInv, TypeOK
    <3> QED BY <1>1, <1>2, <3>1, <3>2 DEF Gen
  <2> QED BY <1>5, <2>1, <2>2
<1>6. ASSUME NEW e \in End, NEW v \in Worker, NEW i \in Gen, NEW f \in Fd, fds'[f] = <<e, v, i>>
      PROVE  Started(v)' /\ i <= restarts'[v]
  BY <1>3, <1>4, <1>5, <1>6
<1>7. ASSUME NEW e \in End, NEW v \in Worker, NEW i \in Gen, NEW f \in Fd,
             NEW p \in Process, wfds'[p][f] = <<e, v, i>>
      PROVE  Started(v)' /\ i <= restarts'[v]
  <2>1. CASE p # <<w, g>> \/ res = "failed"
    <3>1. wfds'[p] = wfds[p]
      <4>1. CASE res = "failed"
        BY <4>1 DEF ForkStep, workerVars
      <4>2. CASE p # <<w, g>>
        BY <4>2, OthersStay
      <4> QED BY <2>1, <4>1, <4>2
    <3> QED BY <1>5, <1>7, <3>1
  <2>2. CASE p = <<w, g>> /\ res = "started"
    <3>1. wfds'[p] = WithPipes(b, h, w, g)
      BY <2>2, NewOne
    <3>2. (v = w /\ i = g) \/ (v # w /\ fds[f] = <<e, v, i>>)
      BY <1>3, <1>4, <1>7, <3>1
    <3> QED BY <1>5, <3>2
  <2> QED BY <2>1, <2>2 DEF Result
<1> QED BY <1>6, <1>7 DEF MadeInv, Started

LEMMA TableInvFork ==
    ASSUME IInv, NEW b, NEW c, NEW w \in Worker, NEW g, NEW h, NEW n, NEW res \in Result,
           ForkStep(b, c, w, g, h, n, res)
    PROVE  TableInv'
<1>1. /\ handles'[w] = h /\ restarts'[w] = g
      /\ \A v \in Worker : v # w => handles'[v] = handles[v] /\ restarts'[v] = restarts[v]
  BY NewTables
<1>2. Made(fds', conns', w, g, h, res) /\ g \in Gen /\ state # "dead" /\ state' # "dead"
  BY DEF ForkStep
<1>3. \A p \in Process : p # <<w, g>> => wstate'[p] = wstate[p]
  BY OthersStay
<1>4. Latest(w)' = g /\ \A v \in Worker : v # w => Latest(v)' = Latest(v)
  <2>1. ~(g > RestartLimit)
    BY <1>2, PipesAssumption DEF Gen
  <2> QED BY <1>1, <2>1 DEF Latest, PastLimit
<1>5. ASSUME NEW f \in Fd, NEW e \in End, NEW v \in Worker, NEW i \in Gen, fds'[f] = <<e, v, i>>
      PROVE  /\ handles'[v][e] = f /\ i = Latest(v)'
             /\ e \in {"recvq0", "sendq1"} => wstate'[<<v, i>>] = "none"
  <2>1. CASE v # w
    <3>1. fds[f] = <<e, v, i>>
      BY <1>2, <1>5, <2>1 DEF Made
    <3>2. handles[v][e] = f /\ i = Latest(v)
      BY <3>1 DEF IInv, TableInv, LastPipes
    <3>3. e \in {"recvq0", "sendq1"} => wstate[<<v, i>>] = "none"
      BY <3>1 DEF IInv, TableInv
    <3>4. <<v, i>> \in Process /\ <<v, i>> # <<w, g>>
      BY <2>1 DEF Process
    <3> QED BY <1>1, <1>3, <1>4, <2>1, <3>2, <3>3, <3>4
  <2>2. CASE v = w
    <3>1. f = h[e] /\ i = g /\ (res = "started" => e \in {"sendq0", "recvq1"})
      BY <1>2, <1>5, <2>2 DEF Made
    <3>2. res = "failed" => wstate'[<<v, i>>] = "none"
      <4>1. wstate[<<w, g>>] = "none"
        BY NewProcess
      <4> QED BY <2>2, <3>1, <4>1 DEF ForkStep, workerVars
    <3> QED BY <1>1, <1>4, <2>2, <3>1, <3>2 DEF Result
  <2> QED BY <2>1, <2>2
<1>6. \A f \in Fd, v \in Worker : \A k \in {"client", "listen"} :
          fds'[f] = <<k, v>> <=> conns'[f] = <<k, v>>
  BY <1>2 DEF Made
<1>7. ASSUME NEW f \in Fd, NEW v \in Worker, conns'[f] = <<"pipe", v>>
      PROVE  fds'[f] = <<"sendq0", v, restarts'[v]>> /\ wstate'[<<v, restarts'[v]>>] # "none"
  <2>1. (v # w /\ conns[f] = <<"pipe", v>>) \/ (res = "started" /\ v = w /\ f = h["sendq0"])
    BY <1>2, <1>7 DEF Made
  <2>2. CASE v # w /\ conns[f] = <<"pipe", v>>
    <3>1. /\ fds[f] = <<"sendq0", v, restarts[v]>> /\ wstate[<<v, restarts[v]>>] # "none"
          /\ restarts[v] \in Gen
      BY <1>2, <2>2, Registration
    <3>2. "sendq0" \in End /\ <<v, restarts[v]>> \in Process /\ <<v, restarts[v]>> # <<w, g>>
      BY <2>2, <3>1 DEF End, Process
    <3>3. fds'[f] = <<"sendq0", v, restarts[v]>>
      BY <1>2, <2>2, <3>1, <3>2 DEF Made
    <3> QED BY <1>1, <1>3, <2>2, <3>1, <3>2, <3>3
  <2>3. CASE res = "started" /\ v = w /\ f = h["sendq0"]
    <3>1. wstate'[<<w, g>>] = "forked"
      BY <2>3, NewOne
    <3>2. fds'[h["sendq0"]] = <<"sendq0", w, g>>
      BY <1>2 DEF Made
    <3> QED BY <1>1, <2>3, <3>1, <3>2
  <2> QED BY <2>1, <2>2, <2>3
<1>8. LastPipes'
  BY <1>5 DEF LastPipes
<1>9. {"recvq0", "sendq1"} \subseteq End
  BY DEF End
<1> QED BY <1>2, <1>5, <1>6, <1>7, <1>8, <1>9 DEF TableInv

LEMMA LatestInGen ==
    ASSUME TypeOK, NEW w \in Worker
    PROVE  Latest(w) \in Gen
<1>1. restarts[w] \in 0..RestartLimit+1
  BY DEF TypeOK
<1> QED BY <1>1, PipesAssumption DEF Latest, PastLimit, Gen

LEMMA HandlesInvFork ==
    ASSUME IInv, NEW b, NEW c, NEW w \in Worker, NEW g, NEW h, NEW n, NEW res \in Result,
           ForkStep(b, c, w, g, h, n, res)
    PROVE  HandlesInv'
<1>1. /\ handles'[w] = h /\ restarts'[w] = g
      /\ \A v \in Worker : v # w => handles'[v] = handles[v] /\ restarts'[v] = restarts[v]
  BY NewTables
<1>2. /\ Made(fds', conns', w, g, h, res) /\ g \in Gen /\ state # "dead"
      /\ h \in [End -> Fd]
  BY DEF ForkStep
<1>3. \A v \in Worker : Started(v)' <=> v = w \/ Started(v)
  BY NowStarted DEF Started
<1>4. "sendq0" \in End /\ "recvq1" \in End
  BY DEF End
<1>5. ~(g > RestartLimit)
  BY <1>2, PipesAssumption DEF Gen
<1>6. ASSUME NEW v \in Worker, v # w, Started(v)
      PROVE  /\ handles'[v]["recvq1"] \in Fd
             /\ fds'[handles'[v]["recvq1"]] = <<"recvq1", v, Latest(v)>>
             /\ ~PastLimit(v) => /\ handles'[v]["sendq0"] \in Fd
                                 /\ fds'[handles'[v]["sendq0"]] = <<"sendq0", v, restarts[v]>>
  <2>1. handles'[v] = handles[v] /\ Latest(v) \in Gen /\ (~PastLimit(v) => Latest(v) = restarts[v])
    BY <1>1, <1>6, LatestInGen, Typed DEF Latest
  <2>2. /\ handles[v]["recvq1"] \in Fd /\ fds[handles[v]["recvq1"]] = <<"recvq1", v, Latest(v)>>
        /\ ~PastLimit(v) => /\ handles[v]["sendq0"] \in Fd
                            /\ fds[handles[v]["sendq0"]] = <<"sendq0", v, restarts[v]>>
    BY <1>2, <1>6 DEF IInv, HandlesInv
  <2>3. fds'[handles[v]["recvq1"]] = <<"recvq1", v, Latest(v)>>
    BY <1>2, <1>4, <1>6, <2>1, <2>2 DEF Made
  <2>4. ~PastLimit(v) => fds'[handles[v]["sendq0"]] = <<"sendq0", v, restarts[v]>>
    BY <1>2, <1>4, <1>6, <2>1, <2>2 DEF Made
  <2> QED BY <2>1, <2>2, <2>3, <2>4
<1>7. /\ handles'[w]["recvq1"] \in Fd /\ fds'[handles'[w]["recvq1"]] = <<"recvq1", w, g>>
      /\ handles'[w]["sendq0"] \in Fd /\ fds'[handles'[w]["sendq0"]] = <<"sendq0", w, g>>
  BY <1>1, <1>2, <1>4 DEF Made
<1>8. ASSUME NEW v \in Worker, Started(v)'
      PROVE  /\ handles'[v]["recvq1"] \in Fd
             /\ fds'[handles'[v]["recvq1"]] = <<"recvq1", v, Latest(v)'>>
             /\ ~PastLimit(v)' => /\ handles'[v]["sendq0"] \in Fd
                                  /\ fds'[handles'[v]["sendq0"]] = <<"sendq0", v, restarts'[v]>>
  <2>1. CASE v = w
    <3>1. Latest(v)' = g
      BY <1>1, <1>5, <2>1 DEF Latest, PastLimit
    <3> QED BY <1>1, <1>7, <2>1, <3>1
  <2>2. CASE v # w
    <3>1. Started(v) /\ Latest(v)' = Latest(v) /\ (PastLimit(v)' <=> PastLimit(v)) /\ restarts'[v] = restarts[v]
      BY <1>1, <1>3, <1>8, <2>2 DEF Latest, PastLimit
    <3> QED BY <1>6, <2>2, <3>1
  <2> QED BY <2>1, <2>2
<1> QED BY <1>8 DEF HandlesInv

\* What WorkerInv says of a process with the descriptors t, its pipe_handles o
\* and td still to close, in a state of all processes and restart counts.
KeptBy(p, file, ws) ==
    \/ file \in {Closed} \cup ({"recvq0", "sendq1"} \X {p[1]} \X {p[2]})
    \/ \E e \in End, q \in Process : file = <<e, q[1], q[2]>> /\ ws[q] = "none"

NobodyPast(rs) == \A v \in Worker : ~(rs[v] > RestartLimit)

WorkerOK(p, t, o, td, ws, rs) ==
    /\ ws[p] \notin {"forked", "running"} => t = Nothing
    /\ ws[p] = "running" => td = {}
    /\ \A f \in Fd : f \in td \/ KeptBy(p, t[f], ws)
    /\ ws[p] \in {"forked", "running"} => \A e \in {"recvq0", "sendq1"} :
          /\ o[e] \in Fd
          /\ t[o[e]] \in {Closed, <<e, p[1], p[2]>>}
          /\ NobodyPast(rs) => o[e] \notin td /\ t[o[e]] = <<e, p[1], p[2]>>

LEMMA WorkerInvIs ==
    /\ WorkerInv <=>
          \A p \in Process : WorkerOK(p, wfds[p], own[p], todo[p], wstate, restarts)
    /\ WorkerInv' <=>
          \A p \in Process : WorkerOK(p, wfds'[p], own'[p], todo'[p], wstate', restarts')
BY DEF WorkerInv, WorkerOK, Kept, KeptBy, Alive, NobodyPast, PastLimit

\* A process that does nothing itself.
LEMMA WorkerStays ==
    ASSUME NEW p \in Process, NEW t, NEW o, NEW td, NEW ws, NEW rs, NEW ws2, NEW rs2,
           WorkerOK(p, t, o, td, ws, rs), ws2[p] = ws[p],
           \A f \in Fd : KeptBy(p, t[f], ws) => KeptBy(p, t[f], ws2),
           NobodyPast(rs2) => NobodyPast(rs)
    PROVE  WorkerOK(p, t, o, td, ws2, rs2)
BY DEF WorkerOK

\* The new process keeps its own ends and nobody else's, once it has closed
\* the numbers it is to close ...
LEMMA NewKeeps ==
    ASSUME IInv, NEW b, NEW c, NEW w \in Worker, NEW g, NEW h, NEW n, NEW res \in Result,
           ForkStep(b, c, w, g, h, n, res), NEW f \in Fd
    PROVE  \/ f \in ClosedByWorker(handles', c, n)
           \/ KeptBy(<<w, g>>, WithPipes(b, h, w, g)[f], wstate')
<1> DEFINE t == WithPipes(b, h, w, g)
           td == ClosedByWorker(handles', c, n)
<1>1. /\ Fresh(b, c, w) /\ h \in NewHandles(b) /\ h \in [End -> Fd] /\ g \in Gen
      /\ b \in [Fd -> File]
  BY DEF ForkStep, Fresh
<1>2. Made(t, c, w, g, h, "failed")
  BY <1>1, PipesOpened
<1>3. t[f] \in File
  BY <1>1, Opened
<1> HIDE DEF t
<1>4. /\ handles'[w] = h
      /\ \A v \in Worker : v # w => handles'[v] = handles[v]
  BY NewTables
<1>5. \A v \in Worker : v = w \/ Started(v) => v \in 1..n
  BY DEF ForkStep
<1>6. CASE t[f] = Closed
  BY <1>6 DEF KeptBy, t
<1>7. ASSUME NEW k \in {"client", "listen"}, NEW v \in Worker, t[f] = <<k, v>> PROVE f \in td
  <2>1. c[f] = <<k, v>>
    BY <1>2, <1>7 DEF Made
  <2>2. Unused[1] = "unused" /\ <<k, v>>[1] = k
    BY DEF Unused
  <2> QED BY <2>1, <2>2 DEF ClosedByWorker, Registered
<1>8. ASSUME NEW e \in End, NEW i \in Gen, t[f] = <<e, w, i>>
      PROVE  f \in td \/ KeptBy(<<w, g>>, t[f], wstate')
  <2>1. f = h[e] /\ i = g
    BY <1>2, <1>8 DEF Made
  <2>2. CASE e \in {"recvq1", "sendq0"}
    BY <1>4, <1>5, <2>1, <2>2 DEF ClosedByWorker
  <2>3. CASE e \in {"recvq0", "sendq1"}
    BY <1>8, <2>1, <2>3 DEF KeptBy
  <2> QED BY <2>2, <2>3 DEF End
<1>9. ASSUME NEW e \in End, NEW v \in Worker, NEW i \in Gen, t[f] = <<e, v, i>>, v # w
      PROVE  f \in td \/ KeptBy(<<w, g>>, t[f], wstate')
  <2>1. fds[f] = <<e, v, i>>
    BY <1>2, <1>9 DEF Made
  <2>2. Started(v) /\ handles[v][e] = f
    BY <2>1 DEF IInv, MadeInv, TableInv, LastPipes
  <2>3. CASE e \in {"recvq1", "sendq0"}
    BY <1>4, <1>5, <1>9, <2>2, <2>3 DEF ClosedByWorker
  <2>4. CASE e \in {"recvq0", "sendq1"}
    <3>1. wstate[<<v, i>>] = "none"
      BY <2>1, <2>4 DEF IInv, TableInv
    <3>2. <<v, i>> \in Process /\ <<v, i>> # <<w, g>>
      BY <1>9 DEF Process
    <3>3. wstate'[<<v, i>>] = "none"
      BY <3>1, <3>2, OthersStay
    <3>4. \E d \in End, q \in Process : t[f] = <<d, q[1], q[2]>> /\ wstate'[q] = "none"
      BY <1>9, <3>2, <3>3
    <3> QED BY <3>4 DEF KeptBy
  <2> QED BY <2>3, <2>4 DEF End
<1>10. CASE t[f] \in PipeEnd
  <2>1. PICK e \in End, v \in Worker, i \in Gen : t[f] = <<e, v, i>>
    BY <1>10 DEF PipeEnd
  <2> QED BY <1>8, <1>9, <2>1 DEF t
<1>11. CASE t[f] \in {"client", "listen"} \X Worker
  BY <1>7, <1>11
<1> QED BY <1>3, <1>6, <1>10, <1>11 DEF File

\* ... and its own ends are not among these, while every worker has a pipe.
LEMMA NewHolds ==
    ASSUME IInv, NEW b, NEW c, NEW w \in Worker, NEW g, NEW h, NEW n, NEW res \in Result,
           ForkStep(b, c, w, g, h, n, res), NobodyPast(restarts'),
           NEW e \in {"recvq0", "sendq1"}
    PROVE  h[e] \notin ClosedByWorker(handles', c, n)
<1>1. /\ Fresh(b, c, w) /\ h \in NewHandles(b) /\ h \in [End -> Fd] /\ c \in Conns
      /\ \A v \in Worker : v \in 1..n => v = w \/ Started(v)
      /\ n \in Worker /\ state # "dead"
  BY DEF ForkStep, Fresh
<1>2. /\ \A d \in End : b[h[d]] = Closed
      /\ \A d, a \in End : h[d] = h[a] => d = a
      /\ e \in End /\ h[e] \in Fd
  BY <1>1, NewNumbers DEF End
<1>3. /\ handles'[w] = h
      /\ \A v \in Worker : v # w => handles'[v] = handles[v] /\ restarts'[v] = restarts[v]
  BY NewTables
<1>4. ASSUME NEW v \in 1..n, NEW d \in {"recvq1", "sendq0"} PROVE handles'[v][d] # h[e]
  <2>1. v \in Worker
    BY <1>1, PipesAssumption DEF Worker
  <2>2. d \in End /\ d # e
    BY DEF End
  <2>3. CASE v = w
    BY <1>2, <1>3, <2>2, <2>3
  <2>4. CASE v # w
    <3>1. Started(v) /\ ~PastLimit(v)
      BY <1>1, <1>3, <2>1, <2>4 DEF NobodyPast, PastLimit
    <3>2. Latest(v) = restarts[v] /\ restarts[v] \in Gen
      BY <2>1, <3>1, LatestInGen, Typed DEF Latest
    <3>3. handles[v][d] \in Fd /\ fds[handles[v][d]] = <<d, v, restarts[v]>>
      BY <1>1, <2>1, <3>1, <3>2 DEF IInv, HandlesInv
    <3>4. b[handles[v][d]] = <<d, v, restarts[v]>>
      BY <1>1, <2>1, <2>2, <2>4, <3>2, <3>3 DEF Fresh
    <3>5. <<d, v, restarts[v]>> # Closed
      BY <2>2, Files
    <3> QED BY <1>2, <1>3, <2>1, <2>4, <3>4, <3>5
  <2> QED BY <2>3, <2>4
<1>5. h[e] \notin Registered(c)
  <2>1. SUFFICES ASSUME NEW k \in {"pipe", "listen", "client"}, NEW v \in Worker,
                        c[h[e]] = <<k, v>>
                 PROVE  FALSE
    BY <1>1, <1>2 DEF Registered, Conns
  <2>2. b[h[e]] = Closed
    BY <1>2
  <2>3. CASE k = "pipe"
    BY <1>1, <1>2, <2>1, <2>2, <2>3 DEF Fresh
  <2>4. CASE k \in {"client", "listen"}
    <3>1. b[h[e]] = <<k, v>>
      BY <1>1, <1>2, <2>1, <2>4 DEF Fresh
    <3>2. <<k, v>> # Closed
      BY <1>2, <2>4, Files
    <3> QED BY <2>2, <3>1, <3>2
  <2> QED BY <2>3, <2>4
<1> QED BY <1>4, <1>5 DEF ClosedByWorker

LEMMA WorkerInvFork ==
    ASSUME IInv, NEW b, NEW c, NEW w \in Worker, NEW g, NEW h, NEW n, NEW res \in Result,
           ForkStep(b, c, w, g, h, n, res)
    PROVE  WorkerInv'
<1>1. \A p \in Process : WorkerOK(p, wfds[p], own[p], todo[p], wstate, restarts)
  BY WorkerInvIs DEF IInv
<1>2. NobodyPast(restarts') => NobodyPast(restarts)
  <2>1. \A v \in Worker : v # w => restarts'[v] = restarts[v]
    BY NewTables
  <2>2. ~PastLimit(w)
    BY DEF ForkStep
  <2> QED BY <2>1, <2>2 DEF NobodyPast, PastLimit
<1>3. ASSUME NEW p \in Process, p # <<w, g>> \/ res = "failed"
      PROVE  WorkerOK(p, wfds'[p], own'[p], todo'[p], wstate', restarts')
  <2>1. CASE res = "failed"
    <3>1. UNCHANGED <<wfds, own, todo, wstate>>
      BY <2>1 DEF ForkStep, workerVars
    <3>2. WorkerOK(p, wfds[p], own[p], todo[p], wstate, restarts)
      BY <1>1
    <3>3. WorkerOK(p, wfds[p], own[p], todo[p], wstate, restarts')
      BY <1>2, <3>2, WorkerStays
    <3> QED BY <3>1, <3>3
  <2>2. CASE p # <<w, g>>
    <3>1. /\ wfds'[p] = wfds[p] /\ own'[p] = own[p] /\ todo'[p] = todo[p]
          /\ \A q \in Process : q # <<w, g>> => wstate'[q] = wstate[q]
      BY <2>2, OthersStay
    <3>2. ASSUME NEW f \in Fd, KeptBy(p, wfds[p][f], wstate) PROVE KeptBy(p, wfds[p][f], wstate')
      <4>1. \A e \in End : wfds[p][f] # <<e, w, g>>
        BY NewProcess
      <4>2. ASSUME NEW e \in End, NEW q \in Process, wfds[p][f] = <<e, q[1], q[2]>>,
                   wstate[q] = "none"
            PROVE  wstate'[q] = "none"
        <5>1. q # <<w, g>>
          BY <4>1, <4>2
        <5> QED BY <3>1, <4>2, <5>1
      <4> QED BY <3>2, <4>2 DEF KeptBy
    <3>3. WorkerOK(p, wfds[p], own[p], todo[p], wstate, restarts) /\ wstate'[p] = wstate[p]
      BY <1>1, <2>2, <3>1
    <3>4. WorkerOK(p, wfds[p], own[p], todo[p], wstate', restarts')
      BY <1>2, <3>2, <3>3, WorkerStays
    <3> QED BY <3>1, <3>4
  <2> QED BY <1>3, <2>1, <2>2
<1>4. ASSUME res = "started"
      PROVE  WorkerOK(<<w, g>>, wfds'[<<w, g>>], own'[<<w, g>>], todo'[<<w, g>>], wstate', restarts')
  <2> DEFINE t == WithPipes(b, h, w, g)
             td == ClosedByWorker(handles', c, n)
  <2>1. wfds'[<<w, g>>] = t /\ own'[<<w, g>>] = h /\ todo'[<<w, g>>] = td
        /\ wstate'[<<w, g>>] = "forked"
    BY <1>4, NewOne
  <2>2. \A f \in Fd : f \in td \/ KeptBy(<<w, g>>, t[f], wstate')
    BY NewKeeps
  <2>3. /\ b \in [Fd -> File] /\ h \in NewHandles(b) /\ h \in [End -> Fd] /\ g \in Gen
    BY DEF ForkStep, Fresh
  <2>4. \A e \in {"recvq0", "sendq1"} : h[e] \in Fd /\ t[h[e]] = <<e, w, g>>
    BY <2>3, Opened DEF End
  <2>5. ASSUME NobodyPast(restarts'), NEW e \in {"recvq0", "sendq1"} PROVE h[e] \notin td
    BY <2>5, NewHolds
  <2> HIDE DEF t, td
  <2>6. WorkerOK(<<w, g>>, t, h, td, wstate', restarts')
    BY <2>1, <2>2, <2>4, <2>5 DEF WorkerOK
  <2> QED BY <2>1, <2>6
<1>5. \A p \in Process : WorkerOK(p, wfds'[p], own'[p], todo'[p], wstate', restarts')
  BY <1>3, <1>4 DEF Result
<1> QED BY <1>5, WorkerInvIs

------------------------------------------------------------------------------
(* The parent's other steps *)

\* Steps that open no pipe.
LEMMA ParentOnly ==
    ASSUME IInv, TypeOK', UNCHANGED workerVars,
           \A f \in Fd, e \in End, w \in Worker, i \in Gen :
               fds'[f] = <<e, w, i>> => fds[f] = <<e, w, i>>,
           \A w \in Worker : restarts[w] <= restarts'[w],
           state' = "loop" => state = "loop",
           state' = "forking" => state = "forking" /\ restarts' = restarts
    PROVE  SpawnInv' /\ MadeInv' /\ WorkerInv'
<1>1. /\ wstate' = wstate /\ wfds' = wfds /\ own' = own /\ todo' = todo
      /\ \A w \in Worker : Started(w)' <=> Started(w)
  BY DEF workerVars, Started
<1>2. \A w \in Worker : restarts[w] \in Nat /\ restarts'[w] \in Nat
  BY PipesAssumption DEF IInv, TypeOK
<1>3. SpawnInv'
  BY <1>1, <1>2 DEF IInv, SpawnInv, Gen, Started
<1>4. ASSUME NEW e \in End, NEW w \in Worker, NEW g \in Gen, NEW f \in Fd,
             fds'[f] = <<e, w, g>> \/ \E p \in Process : wfds'[p][f] = <<e, w, g>>
      PROVE  Started(w)' /\ g <= restarts'[w]
  <2>1. Started(w) /\ g <= restarts[w]
    BY <1>1, <1>4 DEF IInv, MadeInv
  <2> QED BY <1>1, <1>2, <2>1 DEF Gen
<1>5. WorkerInv'
  <2>1. \A p \in Process : WorkerOK(p, wfds[p], own[p], todo[p], wstate, restarts)
    BY WorkerInvIs DEF IInv
  <2>2. NobodyPast(restarts') => NobodyPast(restarts)
    BY <1>2, PipesAssumption DEF NobodyPast
  <2>3. \A p \in Process : WorkerOK(p, wfds[p], own[p], todo[p], wstate, restarts')
    BY <2>1, <2>2, WorkerStays
  <2> QED BY <1>1, <2>3, WorkerInvIs
<1> QED BY <1>3, <1>4, <1>5 DEF MadeInv, Started

\* A client that comes or goes.
LEMMA ClientStep ==
    ASSUME IInv, TypeOK', UNCHANGED <<handles, restarts, state, workerVars>>, state = "loop",
           NEW l \in Fd, NEW w \in Worker,
           \/ /\ fds[l] = Closed
              /\ fds' = [fds EXCEPT ![l] = <<"client", w>>]
              /\ conns' = [conns EXCEPT ![l] = <<"client", w>>]
           \/ /\ conns[l] = <<"client", w>>
              /\ fds' = [fds EXCEPT ![l] = Closed]
              /\ conns' = [conns EXCEPT ![l] = Unused]
    PROVE  IInv'
<1>1. /\ fds \in [Fd -> File] /\ conns \in Conns /\ state # "dead"
      /\ \A v \in Worker : restarts[v] \in Nat
  BY PipesAssumption DEF IInv, TypeOK, Conns
<1>2. fds[l] \in {Closed, <<"client", w>>} /\ fds'[l] \in {Closed, <<"client", w>>}
  BY <1>1 DEF IInv, TableInv
<1>3. \A f \in Fd : f # l => fds'[f] = fds[f] /\ conns'[f] = conns[f]
  BY <1>1 DEF Conns
<1>4. ASSUME NEW f \in Fd, NEW e \in End, NEW v, NEW i
      PROVE  fds'[f] = <<e, v, i>> <=> fds[f] = <<e, v, i>>
  <2>1. <<e, v, i>> \notin {Closed, <<"client", w>>}
    BY Files
  <2> QED BY <1>2, <1>3, <2>1
<1>5. SpawnInv' /\ MadeInv' /\ WorkerInv'
  <2>1. \A v \in Worker : restarts[v] <= restarts'[v]
    BY <1>1
  <2> QED BY <1>4, <2>1, ParentOnly
<1>6. ASSUME NEW f \in Fd, NEW v \in Worker, NEW k \in {"client", "listen"}
      PROVE  fds'[f] = <<k, v>> <=> conns'[f] = <<k, v>>
  <2>1. fds[f] = <<k, v>> <=> conns[f] = <<k, v>>
    BY <1>1 DEF IInv, TableInv
  <2>2. CASE f # l
    BY <1>3, <2>1, <2>2
  <2>3. CASE f = l
    <3>1. fds'[l] = conns'[l] \/ (fds'[l] = Closed /\ conns'[l] = Unused)
      BY <1>1 DEF Conns
    <3>2. Closed[1] = "closed" /\ Unused[1] = "unused" /\ <<k, v>>[1] = k
      BY DEF Closed, Unused
    <3> QED BY <2>3, <3>1, <3>2
  <2> QED BY <2>2, <2>3
<1>7. ASSUME NEW f \in Fd, NEW v \in Worker, conns'[f] = <<"pipe", v>>
      PROVE  conns[f] = <<"pipe", v>>
  <2>1. conns'[l] \in {<<"client", w>>, Unused}
    BY <1>1 DEF Conns
  <2>2. <<"client", w>>[1] = "client" /\ Unused[1] = "unused" /\ <<"pipe", v>>[1] = "pipe"
    BY DEF Unused
  <2> QED BY <1>3, <1>7, <2>1, <2>2
<1>8. "sendq0" \in End /\ "recvq1" \in End /\ "recvq0" \in End /\ "sendq1" \in End
  BY DEF End
<1>9. TableInv'
  <2>1. LastPipes'
    BY <1>4 DEF IInv, TableInv, LastPipes, Latest, PastLimit
  <2>2. \A f \in Fd, e \in {"recvq0", "sendq1"}, v \in Worker, i \in Gen :
          fds'[f] = <<e, v, i>> => wstate'[<<v, i>>] = "none"
    BY <1>4, <1>8 DEF IInv, TableInv, workerVars
  <2>3. ASSUME NEW f \in Fd, NEW v \in Worker, conns'[f] = <<"pipe", v>>
        PROVE  fds'[f] = <<"sendq0", v, restarts'[v]>> /\ wstate'[<<v, restarts'[v]>>] # "none"
    <3>1. conns[f] = <<"pipe", v>>
      BY <1>7, <2>3
    <3>2. fds[f] = <<"sendq0", v, restarts[v]>> /\ wstate[<<v, restarts[v]>>] # "none"
      BY <1>1, <3>1 DEF IInv, TableInv
    <3> QED BY <1>4, <1>8, <3>2 DEF workerVars
  <2> QED BY <1>1, <1>6, <2>1, <2>2, <2>3 DEF TableInv
<1>10. HandlesInv'
  <2>1. ASSUME NEW v \in Worker, Started(v)
        PROVE  /\ handles[v]["recvq1"] \in Fd
               /\ fds'[handles[v]["recvq1"]] = <<"recvq1", v, Latest(v)>>
               /\ ~PastLimit(v) => /\ handles[v]["sendq0"] \in Fd
                                   /\ fds'[handles[v]["sendq0"]] = <<"sendq0", v, restarts[v]>>
    <3>1. /\ handles[v]["recvq1"] \in Fd /\ fds[handles[v]["recvq1"]] = <<"recvq1", v, Latest(v)>>
          /\ ~PastLimit(v) => /\ handles[v]["sendq0"] \in Fd
                              /\ fds[handles[v]["sendq0"]] = <<"sendq0", v, restarts[v]>>
      BY <1>1, <2>1 DEF IInv, HandlesInv
    <3>2. fds'[handles[v]["recvq1"]] = <<"recvq1", v, Latest(v)>>
      BY <1>4, <1>8, <3>1
    <3>3. ~PastLimit(v) => fds'[handles[v]["sendq0"]] = <<"sendq0", v, restarts[v]>>
      BY <1>4, <1>8, <3>1
    <3> QED BY <3>1, <3>2, <3>3
  <2> QED BY <2>1 DEF HandlesInv, Latest, PastLimit, Started, workerVars
<1> QED BY <1>5, <1>9, <1>10 DEF IInv

LEMMA ParentDiesStep ==
    ASSUME IInv, TypeOK', ParentDies
    PROVE  IInv'
<1>1. fds' = Nothing /\ state' = "dead" /\ UNCHANGED <<workerVars, restarts>>
  BY DEF ParentDies
<1>2. \A f \in Fd, e \in End : \A w, i : fds'[f] # <<e, w, i>>
  BY <1>1, Files DEF Nothing
<1>3. SpawnInv' /\ MadeInv' /\ WorkerInv'
  <2>1. \A w \in Worker : restarts[w] <= restarts'[w]
    BY <1>1, PipesAssumption DEF IInv, TypeOK
  <2> QED BY <1>1, <1>2, <2>1, ParentOnly
<1>4. TableInv'
  <2>1. {"recvq0", "sendq1"} \subseteq End
    BY DEF End
  <2> QED BY <1>1, <1>2, <2>1 DEF TableInv, LastPipes
<1>5. HandlesInv'
  BY <1>1 DEF HandlesInv
<1> QED BY <1>3, <1>4, <1>5 DEF IInv

LEMMA GiveUpStep ==
    ASSUME IInv, TypeOK', NEW f \in Fd, NEW w \in Worker, GiveUp(f, w)
    PROVE  IInv'
<1> DEFINE b == Without(fds, OfWorker(w))
           c == WithoutWorker(w)
<1>1. /\ PipeHup(f, w) /\ state = "loop" /\ fds' = b /\ conns' = c
      /\ restarts' = [restarts EXCEPT ![w] = @ + 1]
      /\ UNCHANGED <<handles, state, workerVars>>
  BY DEF GiveUp, PipeHup
<1>2. restarts[w] = RestartLimit /\ Latest(w) = RestartLimit
  <2>1. restarts[w] \in Gen /\ Latest(w) = restarts[w]
    BY <1>1, Registration DEF PipeHup
  <2> QED BY <2>1, PipesAssumption DEF GiveUp, WithinLimit, Gen
<1>3. /\ restarts'[w] = RestartLimit + 1
      /\ \A v \in Worker : v # w => restarts'[v] = restarts[v]
      /\ \A v \in Worker : restarts[v] <= restarts'[v]
  BY <1>1, <1>2, PipesAssumption DEF IInv, TypeOK
<1>4. /\ Latest(w)' = RestartLimit /\ PastLimit(w)'
      /\ \A v \in Worker : v # w => Latest(v)' = Latest(v) /\ (PastLimit(v)' <=> PastLimit(v))
  BY <1>3, PipesAssumption DEF Latest, PastLimit
<1>5. /\ \A j \in Fd, e \in End, v \in Worker, i \in Gen :
            v # w => (b[j] = <<e, v, i>> <=> fds[j] = <<e, v, i>>)
      /\ \A j \in Fd, v \in Worker : \A k \in {"client", "listen"} :
            b[j] = <<k, v>> <=> c[j] = <<k, v>>
      /\ \A j \in Fd, v \in Worker :
            c[j] = <<"pipe", v>> => v # w /\ conns[j] = <<"pipe", v>>
  BY <1>1, AfterHup
<1>6. /\ \A j \in Fd : j \in OfWorker(w) => b[j] = Closed
      /\ \A j \in Fd : j \notin OfWorker(w) => b[j] = fds[j]
  BY DEF Without
<1> HIDE DEF b, c
<1>7. \A j \in Fd, e \in End, v \in Worker, i \in Gen :
          fds'[j] = <<e, v, i>> => fds[j] = <<e, v, i>>
  BY <1>1, <1>6, Files
<1>8. SpawnInv' /\ MadeInv' /\ WorkerInv'
  <2>1. state' = "loop"
    BY <1>1
  <2> QED BY <1>1, <1>3, <1>7, <2>1, ParentOnly
<1>9. LastPipes'
  <2>1. ASSUME NEW j \in Fd, NEW e \in End, NEW v \in Worker, NEW g \in Gen, fds'[j] = <<e, v, g>>
        PROVE  handles'[v][e] = j /\ g = Latest(v)'
    <3>1. handles[v][e] = j /\ g = Latest(v)
      BY <1>7, <2>1 DEF IInv, TableInv, LastPipes
    <3> QED BY <1>1, <1>2, <1>4, <3>1
  <2> QED BY <2>1 DEF LastPipes
<1>10. "sendq0" \in End /\ "recvq1" \in End /\ {"recvq0", "sendq1"} \subseteq End
  BY DEF End
<1>11. ASSUME NEW j \in Fd, NEW v \in Worker, conns'[j] = <<"pipe", v>>
       PROVE  fds'[j] = <<"sendq0", v, restarts'[v]>> /\ wstate'[<<v, restarts'[v]>>] # "none"
  <2>1. v # w /\ conns[j] = <<"pipe", v>>
    BY <1>1, <1>5, <1>11
  <2>2. /\ fds[j] = <<"sendq0", v, restarts[v]>> /\ wstate[<<v, restarts[v]>>] # "none"
        /\ restarts[v] \in Gen
    BY <1>1, <2>1, Registration
  <2>3. b[j] = <<"sendq0", v, restarts[v]>>
    BY <1>5, <1>10, <2>1, <2>2
  <2> QED BY <1>1, <1>3, <2>1, <2>2, <2>3 DEF workerVars
<1>12. TableInv'
  <2>1. \A j \in Fd, e \in {"recvq0", "sendq1"}, v \in Worker, g \in Gen :
           fds'[j] = <<e, v, g>> => wstate'[<<v, g>>] = "none"
    BY <1>1, <1>7, <1>10 DEF IInv, TableInv, workerVars
  <2> QED BY <1>1, <1>5, <1>9, <1>11, <2>1 DEF TableInv
<1>13. HandlesInv'
  <2>1. ASSUME NEW v \in Worker, Started(v)
        PROVE  /\ handles[v]["recvq1"] \in Fd
               /\ fds'[handles[v]["recvq1"]] = <<"recvq1", v, Latest(v)'>>
               /\ ~PastLimit(v)' => /\ handles[v]["sendq0"] \in Fd
                                    /\ fds'[handles[v]["sendq0"]] = <<"sendq0", v, restarts'[v]>>
    <3>1. /\ handles[v]["recvq1"] \in Fd /\ fds[handles[v]["recvq1"]] = <<"recvq1", v, Latest(v)>>
          /\ ~PastLimit(v) => /\ handles[v]["sendq0"] \in Fd
                              /\ fds[handles[v]["sendq0"]] = <<"sendq0", v, restarts[v]>>
      BY <1>1, <2>1 DEF IInv, HandlesInv
    <3>2. CASE v = w
      <4>1. \A j \in OfWorker(w) : fds[j] = <<"client", w>> \/ fds[j] = <<"sendq0", w, restarts[w]>>
        BY <1>1, ClosedNumbers
      <4>2. <<"recvq1", v, Latest(v)>> \notin {<<"client", w>>, <<"sendq0", w, restarts[w]>>}
        BY <1>10, Files, SameEnd
      <4>3. handles[v]["recvq1"] \notin OfWorker(w)
        BY <3>1, <4>1, <4>2
      <4> QED BY <1>1, <1>2, <1>4, <1>6, <3>1, <3>2, <4>3
    <3>3. CASE v # w
      <4>1. Latest(v) \in Gen /\ (~PastLimit(v) => Latest(v) = restarts[v])
        BY LatestInGen, Typed DEF Latest
      <4>2. b[handles[v]["recvq1"]] = <<"recvq1", v, Latest(v)>>
        BY <1>5, <1>10, <3>1, <3>3, <4>1
      <4>3. ~PastLimit(v) => b[handles[v]["sendq0"]] = <<"sendq0", v, restarts[v]>>
        BY <1>5, <1>10, <3>1, <3>3, <4>1
      <4> QED BY <1>1, <1>3, <1>4, <3>1, <3>3, <4>2, <4>3
    <3> QED BY <3>2, <3>3
  <2> QED BY <1>1, <2>1 DEF HandlesInv, Started, workerVars
<1> QED BY <1>8, <1>12, <1>13 DEF IInv

------------------------------------------------------------------------------
(* The steps of a worker process *)

\* A process that closes some or all of what it has.

LEMMA WorkerOnly ==
    ASSUME IInv, TypeOK', UNCHANGED parentVars, NEW p \in Process, Alive(p), wstate'[p] # "none",
           \A q \in Process : q # p => /\ wfds'[q] = wfds[q] /\ own'[q] = own[q]
                                       /\ todo'[q] = todo[q] /\ wstate'[q] = wstate[q],
           \A f \in Fd : wfds'[p][f] \in {Closed, wfds[p][f]},
           WorkerOK(p, wfds'[p], own'[p], todo'[p], wstate', restarts')
    PROVE  IInv'
<1>1. \A q \in Process : wstate'[q] = "none" <=> wstate[q] = "none"
  BY DEF Alive
<1>2. \A w \in Worker, g \in Gen : wstate'[<<w, g>>] = "none" <=> wstate[<<w, g>>] = "none"
  BY <1>1 DEF Process
<1>3. /\ fds' = fds /\ conns' = conns /\ handles' = handles /\ restarts' = restarts
      /\ state' = state
  BY DEF parentVars
<1>4. \A w \in Worker : Started(w)' <=> Started(w)
  <2>1. 0 \in Gen
    BY PipesAssumption DEF Gen
  <2> QED BY <1>2, <2>1 DEF Started
<1>5. \A w \in Worker : Latest(w)' = Latest(w) /\ (PastLimit(w)' <=> PastLimit(w))
  BY <1>3 DEF Latest, PastLimit
<1>6. SpawnInv'
  <2>1. \A w \in Worker : \A v \in 1..w-1 : v \in Worker
    BY PipesAssumption DEF Worker
  <2> QED BY <1>2, <1>3, <1>4, <2>1 DEF IInv, SpawnInv
<1>7. ASSUME NEW e \in End, NEW w \in Worker, NEW g \in Gen, NEW f \in Fd,
             fds'[f] = <<e, w, g>> \/ \E q \in Process : wfds'[q][f] = <<e, w, g>>
      PROVE  Started(w)' /\ g <= restarts'[w]
  <2>1. fds[f] = <<e, w, g>> \/ \E q \in Process : wfds[q][f] = <<e, w, g>>
    <3>1. ASSUME NEW q \in Process, wfds'[q][f] = <<e, w, g>> PROVE wfds[q][f] = <<e, w, g>>
      <4>1. <<e, w, g>> # Closed
        BY Files
      <4> QED BY <3>1, <4>1
    <3> QED BY <1>3, <1>7, <3>1
  <2>2. Started(w) /\ g <= restarts[w]
    BY <2>1 DEF IInv, MadeInv
  <2> QED BY <1>3, <1>4, <2>2
<1>8. TableInv'
  <2>1. LastPipes'
    BY <1>3, <1>5 DEF IInv, TableInv, LastPipes
  <2>2. \A f \in Fd, e \in {"recvq0", "sendq1"}, w \in Worker, g \in Gen :
           fds'[f] = <<e, w, g>> => wstate'[<<w, g>>] = "none"
    BY <1>2, <1>3 DEF IInv, TableInv
  <2>3. ASSUME state # "dead", NEW f \in Fd, NEW w \in Worker, conns[f] = <<"pipe", w>>
        PROVE  fds[f] = <<"sendq0", w, restarts[w]>> /\ wstate'[<<w, restarts[w]>>] # "none"
    BY <1>2, <2>3, Registration
  <2>4. state # "dead" => \A f \in Fd, w \in Worker : \A k \in {"client", "listen"} :
           fds[f] = <<k, w>> <=> conns[f] = <<k, w>>
    BY DEF IInv, TableInv
  <2>5. state = "dead" => fds = Nothing
    BY DEF IInv, TableInv
  <2> QED BY <1>3, <2>1, <2>2, <2>3, <2>4, <2>5 DEF TableInv
<1>9. HandlesInv'
  BY <1>3, <1>4, <1>5 DEF IInv, HandlesInv
<1>10. WorkerInv'
  <2>1. \A q \in Process : WorkerOK(q, wfds[q], own[q], todo[q], wstate, restarts)
    BY WorkerInvIs DEF IInv
  <2>2. ASSUME NEW q \in Process, q # p
        PROVE  WorkerOK(q, wfds[q], own[q], todo[q], wstate', restarts)
    <3>1. \A f \in Fd : KeptBy(q, wfds[q][f], wstate) => KeptBy(q, wfds[q][f], wstate')
      BY <1>1 DEF KeptBy
    <3>2. wstate'[q] = wstate[q] /\ WorkerOK(q, wfds[q], own[q], todo[q], wstate, restarts)
      BY <2>1, <2>2
    <3> QED BY <3>1, <3>2, WorkerStays
  <2>3. \A q \in Process : WorkerOK(q, wfds'[q], own'[q], todo'[q], wstate', restarts')
    BY <1>3, <2>2
  <2> QED BY <2>3, WorkerInvIs
<1> QED BY <1>6, <1>7, <1>8, <1>9, <1>10 DEF IInv, MadeInv, Started

LEMMA GoneStep ==
    ASSUME IInv, TypeOK', NEW p \in Process, Alive(p), Gone(p)
    PROVE  IInv'
<1>1. /\ wfds'[p] = Nothing /\ todo'[p] = {} /\ wstate'[p] = "dead" /\ UNCHANGED parentVars
      /\ \A q \in Process : q # p => /\ wfds'[q] = wfds[q] /\ own'[q] = own[q]
                                     /\ todo'[q] = todo[q] /\ wstate'[q] = wstate[q]
  BY DEF Gone, IInv, TypeOK
<1>2. WorkerOK(p, wfds'[p], own'[p], todo'[p], wstate', restarts')
  BY <1>1 DEF WorkerOK, KeptBy, Nothing
<1>3. \A f \in Fd : wfds'[p][f] = Closed
  BY <1>1 DEF Nothing
<1> QED BY <1>1, <1>2, <1>3, WorkerOnly

LEMMA InitialiseStep ==
    ASSUME IInv, TypeOK', NEW p \in Process, Initialise(p)
    PROVE  IInv'
<1> DEFINE t == Without(wfds[p], todo[p])
<1>1. /\ wfds'[p] = t /\ todo'[p] = {} /\ own'[p] = own[p] /\ wstate'[p] = "running"
      /\ UNCHANGED parentVars /\ wstate[p] = "forked"
      /\ \A q \in Process : q # p => /\ wfds'[q] = wfds[q] /\ own'[q] = own[q]
                                     /\ todo'[q] = todo[q] /\ wstate'[q] = wstate[q]
  BY DEF Initialise, IInv, TypeOK
<1>2. WorkerOK(p, wfds[p], own[p], todo[p], wstate, restarts)
  BY WorkerInvIs DEF IInv
<1>3. \A f \in Fd : /\ f \in todo[p] => t[f] = Closed
                    /\ f \notin todo[p] => t[f] = wfds[p][f]
  <2>1. wfds[p] \in [Fd -> File]
    BY DEF IInv, TypeOK
  <2> QED BY <2>1, Shut
<1> HIDE DEF t
<1>4. \A f \in Fd : KeptBy(p, wfds[p][f], wstate) => KeptBy(p, wfds[p][f], wstate')
  <2>1. \A q \in Process : wstate[q] = "none" => wstate'[q] = "none"
    BY <1>1
  <2> QED BY <2>1 DEF KeptBy
<1>5. \A f \in Fd : KeptBy(p, t[f], wstate')
  <2>1. KeptBy(p, Closed, wstate')
    BY DEF KeptBy
  <2>2. \A f \in Fd : f \in todo[p] \/ KeptBy(p, wfds[p][f], wstate)
    BY <1>2 DEF WorkerOK
  <2> QED BY <1>3, <1>4, <2>1, <2>2
<1>6. \A e \in {"recvq0", "sendq1"} :
          /\ own[p][e] \in Fd
          /\ t[own[p][e]] \in {Closed, <<e, p[1], p[2]>>}
          /\ NobodyPast(restarts) => t[own[p][e]] = <<e, p[1], p[2]>>
  <2>1. \A e \in {"recvq0", "sendq1"} :
           /\ own[p][e] \in Fd
           /\ wfds[p][own[p][e]] \in {Closed, <<e, p[1], p[2]>>}
           /\ NobodyPast(restarts) => /\ own[p][e] \notin todo[p]
                                      /\ wfds[p][own[p][e]] = <<e, p[1], p[2]>>
    BY <1>1, <1>2 DEF WorkerOK
  <2> QED BY <1>3, <2>1
<1>7. restarts' = restarts
  BY <1>1 DEF parentVars
<1>8. WorkerOK(p, wfds'[p], own'[p], todo'[p], wstate', restarts')
  BY <1>1, <1>5, <1>6, <1>7 DEF WorkerOK
<1>9. Alive(p) /\ \A f \in Fd : wfds'[p][f] \in {Closed, wfds[p][f]}
  BY <1>1, <1>3 DEF Alive
<1> QED BY <1>1, <1>8, <1>9, WorkerOnly

------------------------------------------------------------------------------
(* The invariant *)

LEMMA InitIInv == Init => IInv
<1> SUFFICES ASSUME Init PROVE IInv
  OBVIOUS
<1>1. TypeOK
  <2>1. Nothing \in [Fd -> File] /\ NoHandles \in [End -> Fd \cup {0}]
    BY DEF Nothing, File, NoHandles
  <2> QED BY <2>1, PipesAssumption DEF Init, TypeOK
<1>2. \A w \in Worker, g \in Gen : <<w, g>> \in Process /\ wstate[<<w, g>>] = "none"
  BY DEF Init, Process
<1>3. \A w \in Worker : ~Started(w)
  BY <1>2, PipesAssumption DEF Started, Gen
<1>4. \A e \in End : \A w, g : \A f \in Fd : /\ fds[f] # <<e, w, g>>
                                         /\ \A p \in Process : wfds[p][f] # <<e, w, g>>
  BY Files DEF Init, Nothing
<1>5. SpawnInv
  BY <1>2, <1>3 DEF SpawnInv, Init
<1>6. MadeInv
  BY <1>4 DEF MadeInv
<1>7. TableInv
  <2>1. {"recvq0", "sendq1"} \subseteq End
    BY DEF End
  <2>2. LastPipes
    BY <1>4 DEF LastPipes
  <2>3. \A f \in Fd : fds[f] = Closed /\ conns[f] = Unused
    BY DEF Init, Nothing
  <2>4. ASSUME NEW w, NEW k \in {"client", "listen", "pipe"}
        PROVE  <<k, w>> # Closed /\ <<k, w>> # Unused
    <3>1. Closed[1] = "closed" /\ Unused[1] = "unused" /\ <<k, w>>[1] = k
      BY DEF Closed, Unused
    <3> QED BY <3>1
  <2> QED BY <1>4, <2>1, <2>2, <2>3, <2>4 DEF TableInv, Init
<1>8. HandlesInv
  BY <1>3 DEF HandlesInv
<1>9. WorkerInv
  BY DEF WorkerInv, Init, Alive, Kept, Nothing
<1> QED BY <1>1, <1>5, <1>6, <1>7, <1>8, <1>9 DEF IInv

LEMMA ForkInv ==
    ASSUME IInv, TypeOK', NEW b, NEW c, NEW w \in Worker, NEW g, NEW h, NEW n, NEW res \in Result,
           ForkStep(b, c, w, g, h, n, res),
           state' = "loop" => n = NumWorkers,
           state' = "forking" => g = 0 /\ state = "forking"
    PROVE  IInv'
<1>1. SpawnInv'
  BY SpawnInvFork
<1>2. MadeInv' /\ TableInv'
  BY MadeInvFork, TableInvFork
<1>3. HandlesInv' /\ WorkerInv'
  BY HandlesInvFork, WorkerInvFork
<1> QED BY <1>1, <1>2, <1>3 DEF IInv

LEMMA IInvNext == IInv /\ [Next]_vars => IInv'
<1> SUFFICES ASSUME IInv, [Next]_vars PROVE IInv'
  OBVIOUS
<1>0. TypeOK'
  BY TypeNext
<1>1. ASSUME NEW w \in Worker, Spawn(w) PROVE IInv'
  <2>1. PICK h \in NewHandles(fds) : ForkStep(fds, conns, w, 0, h, w, "started")
    BY <1>1, SpawnMakes
  <2>2. (state' = "loop" => w = NumWorkers) /\ state = "forking"
    BY <1>1 DEF Spawn
  <2>3. "started" \in Result
    BY DEF Result
  <2> QED BY <1>0, <2>1, <2>2, <2>3, ForkInv
<1>2. ASSUME NEW w \in Worker, Accept(w) PROVE IInv'
  <2>1. PICK f \in Lowest(fds, 1) : /\ fds' = [fds EXCEPT ![f] = <<"client", w>>]
                                    /\ conns' = [conns EXCEPT ![f] = <<"client", w>>]
    BY <1>2 DEF Accept
  <2>2. f \in Fd /\ fds[f] = Closed
    BY FreeNumber
  <2>3. state = "loop" /\ UNCHANGED <<handles, restarts, state, workerVars>>
    BY <1>2 DEF Accept
  <2> QED BY <1>0, <2>1, <2>2, <2>3, ClientStep
<1>3. ASSUME NEW f \in Fd, CloseClient(f) \/ ClientHup(f) PROVE IInv'
  <2>0. DelClient(f)
    BY <1>3 DEF CloseClient, ClientHup
  <2>1. PICK w \in Worker : conns[f] = <<"client", w>>
    <3>1. conns[f] \in {Unused} \cup ({"pipe", "listen", "client"} \X Worker)
      BY DEF IInv, TypeOK
    <3>2. conns[f][1] = "client" /\ Unused[1] = "unused"
      BY <2>0 DEF DelClient, Clients, Unused
    <3> QED BY <3>1, <3>2
  <2>2. fds' = [fds EXCEPT ![f] = Closed]
    <3>1. fds \in [Fd -> File]
      BY DEF IInv, TypeOK
    <3> QED BY <2>0, <3>1 DEF DelClient, Without
  <2>3. /\ state = "loop" /\ conns' = [conns EXCEPT ![f] = Unused]
        /\ UNCHANGED <<handles, restarts, state, workerVars>>
    BY <2>0 DEF DelClient
  <2> QED BY <1>0, <2>1, <2>2, <2>3, ClientStep
<1>4. ASSUME NEW f \in Fd, NEW w \in Worker, Restart(f, w) PROVE IInv'
  <2>1. PICK h \in NewHandles(BeforeRestart(w)), res \in Result :
            ForkStep(BeforeRestart(w), WithoutWorker(w), w, restarts[w] + 1, h, NumWorkers, res)
    BY <1>4, RestartMakes
  <2>2. state' = "loop"
    BY <1>4 DEF Restart, PipeHup
  <2> QED BY <1>0, <2>1, <2>2, ForkInv
<1>5. ASSUME NEW f \in Fd, NEW w \in Worker, GiveUp(f, w) PROVE IInv'
  BY <1>0, <1>5, GiveUpStep
<1>6. CASE ParentDies
  BY <1>0, <1>6, ParentDiesStep
<1>7. ASSUME NEW p \in Process, Initialise(p) PROVE IInv'
  BY <1>0, <1>7, InitialiseStep
<1>8. ASSUME NEW p \in Process, Crash(p) \/ ParentGone(p) PROVE IInv'
  <2>1. Alive(p) /\ Gone(p)
    BY <1>8 DEF Crash, ParentGone, SeesHup, Alive
  <2> QED BY <1>0, <2>1, GoneStep
<1>9. ASSUME UNCHANGED <<fds, conns, handles, restarts, state, workerVars>> PROVE IInv'
  <2>1. SpawnInv' /\ MadeInv'
    BY <1>9 DEF workerVars, IInv, SpawnInv, MadeInv, Started
  <2>2. TableInv'
    BY <1>9 DEF workerVars, IInv, TableInv, LastPipes, Latest, PastLimit
  <2>3. HandlesInv'
    BY <1>9 DEF workerVars, IInv, HandlesInv, Latest, PastLimit, Started
  <2>4. WorkerInv'
    BY <1>9 DEF workerVars, IInv, WorkerInv, PastLimit, Alive, Kept
  <2> QED BY <1>0, <2>1, <2>2, <2>3, <2>4 DEF IInv
<1>10. ASSUME NEW f \in Fd, SkipEvent(f) PROVE IInv'
  BY <1>9, <1>10 DEF SkipEvent
<1>11. ASSUME NEW R \in SUBSET Clients, Fetch(R) PROVE IInv'
  BY <1>9, <1>11 DEF Fetch
<1>12. CASE UNCHANGED vars
  BY <1>9, <1>12 DEF vars, parentVars
<1> QED
  BY <1>1, <1>2, <1>3, <1>4, <1>5, <1>6, <1>7, <1>8, <1>10, <1>11, <1>12
     DEF Next, ParentNext, WorkerNext

\* The tables of the three agree in every reachable state.
THEOREM PipesInvariant == Spec => []IInv
<1>1. Init => IInv
  BY InitIInv
<1>2. IInv /\ [Next]_vars => IInv'
  BY IInvNext
<1> QED BY <1>1, <1>2, PTL DEF Spec

------------------------------------------------------------------------------
(* What it gives *)

\* A worker that has closed what it inherited holds its own ends and nothing
\* else, and the parent the ends of the last pipes of each worker only.
THEOREM EndsAreKept == Spec => []EndsKept
<1>1. IInv => EndsKept
  <2>1. IInv => HoldsOnlyOwn
    BY DEF IInv, WorkerInv, HoldsOnlyOwn
  <2>2. IInv => NoLeak
    <3>1. SUFFICES ASSUME IInv, NEW f \in Fd, fds[f] \in PipeEnd
                   PROVE  handles[fds[f][2]][fds[f][1]] = f /\ fds[f][3] = Latest(fds[f][2])
      BY DEF NoLeak
    <3>2. PICK e \in End, w \in Worker, g \in Gen : fds[f] = <<e, w, g>>
      BY <3>1 DEF PipeEnd
    <3>3. handles[w][e] = f /\ g = Latest(w)
      BY <3>1, <3>2 DEF IInv, TableInv, LastPipes
    <3> QED BY <3>2, <3>3
  <2> QED BY <2>1, <2>2 DEF IInv, EndsKept
<1> QED BY <1>1, PipesInvariant, PTL

\* As long as no worker has used up its restarts, each has both its ends.
THEOREM OwnEndsHeld == Spec => []HoldsOwnEndsAtFirst
<1>1. ASSUME IInv PROVE HoldsOwnEndsAtFirst
  <2>1. SUFFICES ASSUME \A v \in Worker : ~PastLimit(v), NEW w \in Worker, NEW g \in Gen,
                        wstate[<<w, g>>] = "running", NEW e \in {"recvq0", "sendq1"}
                 PROVE  wfds[<<w, g>>][own[<<w, g>>][e]] = <<e, w, g>>
    BY DEF HoldsOwnEndsAtFirst, HoldsOwnEnds
  <2>2. <<w, g>> \in Process /\ Alive(<<w, g>>)
    BY <2>1 DEF Process, Alive
  <2> QED BY <1>1, <2>1, <2>2 DEF IInv, WorkerInv
<1> QED BY <1>1, PipesInvariant, PTL

------------------------------------------------------------------------------
(* The events of a batch *)

\* An event not yet handled is of a client, or it is true: its number is the
\* worker's pipe still, and nobody can write to that any more.
EventInv ==
    /\ state # "loop" => events = Nothing
    /\ \A f \in Fd : Pending(f) =>
          \/ \E w \in Worker : events[f] = <<"client", w>>
          \/ \E w \in Worker : /\ events[f] = <<"sendq0", w, restarts[w]>>
                               /\ fds[f] = <<"sendq0", w, restarts[w]>>
                               /\ restarts[w] \in Gen
                               /\ NoWriter("sendq1", w, restarts[w])

\* The steps that fetch nothing: a pipe with an event is not closed but by the
\* step that handles it, and nobody opens the other end of an old pipe.
LEMMA EventsStay ==
    ASSUME EventInv, state = "loop", state' = "loop",
           \A f \in Fd : events'[f] \in {Closed, events[f]},
           \A f \in Fd, w \in Worker :
               Pending(f)' /\ restarts[w] \in Gen /\ fds[f] = <<"sendq0", w, restarts[w]>> =>
                   restarts'[w] = restarts[w] /\ fds'[f] = fds[f],
           \A f \in Fd, w \in Worker :
               restarts[w] \in Gen /\ restarts'[w] = restarts[w]
                   /\ fds'[f] = <<"sendq1", w, restarts[w]>> => fds[f] = fds'[f],
           \A p \in Process, f \in Fd, w \in Worker :
               restarts[w] \in Gen /\ restarts'[w] = restarts[w]
                   /\ wfds'[p][f] = <<"sendq1", w, restarts[w]>> =>
                       fds[f] = wfds'[p][f] \/ wfds[p][f] = wfds'[p][f]
    PROVE  EventInv'
<1>1. ASSUME NEW w \in Worker, restarts[w] \in Gen, restarts'[w] = restarts[w],
             NoWriter("sendq1", w, restarts[w])
      PROVE  NoWriter("sendq1", w, restarts[w])'
  BY <1>1 DEF NoWriter
<1>2. ASSUME NEW f \in Fd, Pending(f)'
      PROVE  \/ \E w \in Worker : events'[f] = <<"client", w>>
             \/ \E w \in Worker : /\ events'[f] = <<"sendq0", w, restarts'[w]>>
                                  /\ fds'[f] = <<"sendq0", w, restarts'[w]>>
                                  /\ restarts'[w] \in Gen
                                  /\ NoWriter("sendq1", w, restarts[w])'
  <2>1. events'[f] = events[f] /\ Pending(f)
    BY <1>2 DEF Pending
  <2>2. CASE \E w \in Worker : events[f] = <<"client", w>>
    BY <2>1, <2>2
  <2>3. ASSUME NEW w \in Worker, events[f] = <<"sendq0", w, restarts[w]>>,
               fds[f] = <<"sendq0", w, restarts[w]>>, restarts[w] \in Gen,
               NoWriter("sendq1", w, restarts[w])
        PROVE  /\ events'[f] = <<"sendq0", w, restarts'[w]>>
               /\ fds'[f] = <<"sendq0", w, restarts'[w]>>
               /\ restarts'[w] \in Gen
               /\ NoWriter("sendq1", w, restarts[w])'
    <3>1. restarts'[w] = restarts[w] /\ fds'[f] = fds[f]
      BY <1>2, <2>3
    <3> QED BY <1>1, <2>1, <2>3, <3>1
  <2> QED BY <2>1, <2>2, <2>3 DEF EventInv
<1> QED BY <1>2 DEF EventInv

\* No events at all.
LEMMA NoEvents ==
    ASSUME events' = Nothing
    PROVE  EventInv'
BY DEF EventInv, Pending, Nothing

LEMMA HandledOnly ==
    ASSUME TypeOK, NEW f \in Fd, Handled(f)
    PROVE  events'[f] = Closed /\ \A j \in Fd : j # f => events'[j] = events[j]
BY DEF TypeOK, Handled

LEMMA FetchEvents ==
    ASSUME IInv, NEW R \in SUBSET Clients, Fetch(R)
    PROVE  EventInv'
<1>1. /\ state = "loop" /\ state' = state /\ fds' = fds /\ restarts' = restarts /\ wfds' = wfds
      /\ fds \in [Fd -> File] /\ conns \in Conns
  BY DEF Fetch, workerVars, IInv, TypeOK, Conns
<1>2. ASSUME NEW f \in Fd, events'[f] # Closed
      PROVE  \/ \E w \in Worker : events'[f] = <<"client", w>>
             \/ \E w \in Worker : /\ events'[f] = <<"sendq0", w, restarts[w]>>
                                  /\ fds[f] = <<"sendq0", w, restarts[w]>>
                                  /\ restarts[w] \in Gen
                                  /\ NoWriter("sendq1", w, restarts[w])
  <2>1. events'[f] = fds[f] /\ (f \in R \/ (conns[f][1] = "pipe" /\ HungUp(fds[f])))
    BY <1>2 DEF Fetch
  <2>2. PICK k \in {"pipe", "listen", "client"}, w \in Worker : conns[f] = <<k, w>>
    <3>1. conns[f][1] \in {"client", "pipe"} /\ Unused[1] = "unused"
      BY <2>1 DEF Clients, Unused
    <3> QED BY <1>1, <3>1 DEF Conns
  <2>3. CASE f \in R
    <3>1. conns[f] = <<"client", w>>
      BY <2>2, <2>3 DEF Clients
    <3>2. fds[f] = <<"client", w>>
      BY <1>1, <3>1 DEF IInv, TableInv
    <3> QED BY <2>1, <3>2
  <2>4. CASE conns[f][1] = "pipe" /\ HungUp(fds[f])
    <3>1. conns[f] = <<"pipe", w>>
      BY <2>2, <2>4
    <3>2. fds[f] = <<"sendq0", w, restarts[w]>> /\ restarts[w] \in Gen
      BY <1>1, <3>1, Registration
    <3>3. fds[f][1] = "sendq0" /\ fds[f][2] = w /\ fds[f][3] = restarts[w]
      BY <3>2
    <3>4. NoWriter("sendq1", w, restarts[w])
      BY <2>4, <3>3 DEF HungUp
    <3> QED BY <2>1, <3>2, <3>4
  <2> QED BY <2>1, <2>3, <2>4
<1>3. \A w \in Worker : NoWriter("sendq1", w, restarts[w]) => NoWriter("sendq1", w, restarts[w])'
  BY <1>1 DEF NoWriter
<1> QED BY <1>1, <1>2, <1>3 DEF EventInv, Pending

LEMMA ClientEvents ==
    ASSUME IInv, EventInv, NEW l \in Fd, state = "loop",
           UNCHANGED <<restarts, state, workerVars>>,
           \A f \in Fd : events'[f] \in {Closed, events[f]},
           \A f \in Fd : f # l => fds'[f] = fds[f],
           \A e \in End : \A w, g : fds[l] # <<e, w, g>> /\ fds'[l] # <<e, w, g>>
    PROVE  EventInv'
<1>1. "sendq0" \in End /\ "sendq1" \in End
  BY DEF End
<1> QED BY <1>1, EventsStay DEF workerVars

\* Handling the death of w leaves the events of the other workers' pipes.
LEMMA HupEvents ==
    ASSUME IInv, EventInv, NEW f \in Fd, NEW w \in Worker, PipeHup(f, w), Handled(f),
           state' = "loop", restarts'[w] # restarts[w],
           \A v \in Worker : v # w => restarts'[v] = restarts[v],
           \A j \in Fd, e \in End, v \in Worker, i \in Gen :
               v # w => (fds'[j] = <<e, v, i>> <=> fds[j] = <<e, v, i>>),
           \A p \in Process, j \in Fd, v \in Worker, i \in Gen :
               v # w /\ wfds'[p][j] = <<"sendq1", v, i>> =>
                   fds[j] = wfds'[p][j] \/ wfds[p][j] = wfds'[p][j]
    PROVE  EventInv'
<1>1. /\ state = "loop" /\ state # "dead" /\ conns[f] = <<"pipe", w>>
      /\ events'[f] = Closed /\ \A j \in Fd : j # f => events'[j] = events[j]
  BY HandledOnly, Typed DEF PipeHup
<1>2. "sendq0" \in End /\ "sendq1" \in End
  BY DEF End
<1>3. ASSUME NEW j \in Fd, NEW v \in Worker, Pending(j)', restarts[v] \in Gen,
             fds[j] = <<"sendq0", v, restarts[v]>>
      PROVE  restarts'[v] = restarts[v] /\ fds'[j] = fds[j]
  <2>1. j # f
    BY <1>1, <1>3 DEF Pending
  <2>2. v # w
    <3>1. ASSUME v = w PROVE FALSE
      <4>1. handles[w]["sendq0"] = j
        BY <1>2, <1>3, <3>1 DEF IInv, TableInv, LastPipes
      <4>2. handles[w]["sendq0"] = f
        BY <1>1, Registration
      <4> QED BY <2>1, <4>1, <4>2
    <3> QED BY <3>1
  <2>3. fds'[j] = <<"sendq0", v, restarts[v]>>
    BY <1>2, <1>3, <2>2
  <2> QED BY <1>3, <2>2, <2>3
<1>4. ASSUME NEW j \in Fd, NEW v \in Worker, restarts[v] \in Gen, restarts'[v] = restarts[v],
             fds'[j] = <<"sendq1", v, restarts[v]>>
      PROVE  fds[j] = fds'[j]
  <2>1. v # w
    BY <1>4
  <2>2. fds[j] = <<"sendq1", v, restarts[v]>>
    BY <1>2, <1>4, <2>1
  <2> QED BY <1>4, <2>2
<1>5. ASSUME NEW p \in Process, NEW j \in Fd, NEW v \in Worker, restarts[v] \in Gen,
             restarts'[v] = restarts[v], wfds'[p][j] = <<"sendq1", v, restarts[v]>>
      PROVE  fds[j] = wfds'[p][j] \/ wfds[p][j] = wfds'[p][j]
  <2>1. v # w
    BY <1>5
  <2> QED BY <1>5, <2>1
<1>6. \A j \in Fd : events'[j] \in {Closed, events[j]}
  BY <1>1
<1> QED BY <1>1, <1>3, <1>4, <1>5, <1>6, EventsStay

LEMMA RestartEvents ==
    ASSUME IInv, EventInv, NEW f \in Fd, NEW w \in Worker, Restart(f, w)
    PROVE  EventInv'
<1> DEFINE g == restarts[w] + 1
           b == BeforeRestart(w)
           c == WithoutWorker(w)
<1>1. PICK h \in NewHandles(b), res \in Result : ForkStep(b, c, w, g, h, NumWorkers, res)
  BY RestartMakes
<1>2. PipeHup(f, w) /\ Handled(f) /\ state' = "loop"
  BY DEF Restart, PipeHup
<1>3. restarts[w] \in Nat
  BY PipesAssumption DEF IInv, TypeOK
<1>4. g # restarts[w] /\ g \in Gen
  BY <1>1, <1>3 DEF ForkStep
<1> HIDE DEF g, b, c
<1>5. restarts'[w] = g /\ \A v \in Worker : v # w => restarts'[v] = restarts[v]
  BY <1>1, NewTables
<1>6. \A j \in Fd, e \in End, v \in Worker, i \in Gen :
          v # w => (fds'[j] = <<e, v, i>> <=> fds[j] = <<e, v, i>>)
  BY <1>1 DEF ForkStep, Made
<1>7. ASSUME NEW p \in Process, NEW j \in Fd, NEW v \in Worker, NEW i \in Gen,
             v # w, wfds'[p][j] = <<"sendq1", v, i>>
      PROVE  fds[j] = wfds'[p][j] \/ wfds[p][j] = wfds'[p][j]
  <2>1. CASE p # <<w, g>>
    BY <1>1, <2>1, OthersStay
  <2>2. CASE p = <<w, g>> /\ res = "started"
    <3>1. wfds'[p] = WithPipes(b, h, w, g)
      BY <1>1, <2>2, NewOne
    <3>2. Fresh(b, c, w)
      BY <1>1 DEF ForkStep
    <3>3. Made(WithPipes(b, h, w, g), c, w, g, h, "failed")
      BY <1>1, <1>4, <3>2, PipesOpened
    <3>4. "sendq1" \in End
      BY DEF End
    <3>5. WithPipes(b, h, w, g)[j] = <<"sendq1", v, i>>
      BY <1>7, <3>1
    <3>6. fds[j] = <<"sendq1", v, i>>
      BY <1>7, <3>3, <3>4, <3>5 DEF Made
    <3> QED BY <1>7, <3>6
  <2>3. CASE res = "failed"
    BY <1>1, <2>3 DEF ForkStep, workerVars
  <2> QED BY <2>1, <2>2, <2>3 DEF Result
<1> QED BY <1>2, <1>4, <1>5, <1>6, <1>7, HupEvents

LEMMA GiveUpEvents ==
    ASSUME IInv, EventInv, NEW f \in Fd, NEW w \in Worker, GiveUp(f, w)
    PROVE  EventInv'
<1> DEFINE b == Without(fds, OfWorker(w))
<1>1. /\ PipeHup(f, w) /\ Handled(f) /\ state' = "loop" /\ fds' = b
      /\ restarts' = [restarts EXCEPT ![w] = @ + 1] /\ UNCHANGED workerVars
  BY DEF GiveUp, PipeHup
<1>2. restarts'[w] # restarts[w] /\ \A v \in Worker : v # w => restarts'[v] = restarts[v]
  BY <1>1, PipesAssumption DEF IInv, TypeOK
<1>3. \A j \in Fd, e \in End, v \in Worker, i \in Gen :
          v # w => (b[j] = <<e, v, i>> <=> fds[j] = <<e, v, i>>)
  BY <1>1, AfterHup
<1> HIDE DEF b
<1>4. \A j \in Fd, e \in End, v \in Worker, i \in Gen :
          v # w => (fds'[j] = <<e, v, i>> <=> fds[j] = <<e, v, i>>)
  BY <1>1, <1>3
<1> QED BY <1>1, <1>2, <1>4, HupEvents DEF workerVars

\* A process that only closes.
LEMMA WorkerEvents ==
    ASSUME IInv, EventInv, UNCHANGED parentVars,
           \A p \in Process, f \in Fd : wfds'[p][f] \in {Closed, wfds[p][f]}
    PROVE  EventInv'
<1>1. UNCHANGED <<fds, events, restarts, state>>
  BY DEF parentVars
<1>2. CASE state # "loop"
  BY <1>1, <1>2, NoEvents DEF EventInv
<1>3. CASE state = "loop"
  <2>1. \A w, g : <<"sendq1", w, g>> # Closed
    BY Files DEF End
  <2> QED BY <1>1, <1>3, <2>1, EventsStay
<1> QED BY <1>2, <1>3

LEMMA EventsNext == IInv /\ EventInv /\ [Next]_vars => EventInv'
<1> SUFFICES ASSUME IInv, EventInv, [Next]_vars PROVE EventInv'
  OBVIOUS
<1>0. TypeOK /\ fds \in [Fd -> File] /\ wfds \in [Process -> [Fd -> File]]
  BY Typed DEF TypeOK
<1>1. ASSUME NEW w \in Worker, Spawn(w) PROVE EventInv'
  BY <1>1, NoEvents DEF Spawn, EventInv
<1>2. ASSUME NEW w \in Worker, Accept(w) PROVE EventInv'
  <2>1. PICK l \in Lowest(fds, 1) : fds' = [fds EXCEPT ![l] = <<"client", w>>]
    BY <1>2 DEF Accept
  <2>2. l \in Fd /\ fds[l] = Closed /\ fds'[l] = <<"client", w>>
    BY <1>0, <2>1, FreeNumber
  <2>3. \A e \in End : \A v, g : fds[l] # <<e, v, g>> /\ fds'[l] # <<e, v, g>>
    BY <2>2, Files
  <2> QED BY <1>0, <1>2, <2>1, <2>2, <2>3, ClientEvents DEF Accept
<1>3. ASSUME NEW f \in Fd, CloseClient(f) \/ ClientHup(f) PROVE EventInv'
  <2>1. DelClient(f) /\ \A j \in Fd : events'[j] \in {Closed, events[j]}
    BY <1>0, <1>3, HandledOnly DEF CloseClient, ClientHup
  <2>2. PICK w \in Worker : conns[f] = <<"client", w>>
    <3>1. conns[f] \in {Unused} \cup ({"pipe", "listen", "client"} \X Worker)
      BY DEF IInv, TypeOK
    <3>2. conns[f][1] = "client" /\ Unused[1] = "unused"
      BY <2>1 DEF DelClient, Clients, Unused
    <3> QED BY <3>1, <3>2
  <2>3. state = "loop" /\ fds[f] = <<"client", w>>
    BY <2>1, <2>2 DEF DelClient, IInv, TableInv
  <2>4. fds'[f] = Closed /\ \A j \in Fd : j # f => fds'[j] = fds[j]
    BY <1>0, <2>1, Shut DEF DelClient
  <2>5. \A e \in End : \A v, g : fds[f] # <<e, v, g>> /\ fds'[f] # <<e, v, g>>
    BY <2>3, <2>4, Files
  <2> QED BY <2>1, <2>3, <2>4, <2>5, ClientEvents DEF DelClient
<1>4. ASSUME NEW f \in Fd, SkipEvent(f) PROVE EventInv'
  <2>1. \A j \in Fd : events'[j] \in {Closed, events[j]}
    BY <1>0, <1>4, HandledOnly DEF SkipEvent
  <2> QED BY <1>4, <2>1, EventsStay DEF SkipEvent, workerVars
<1>5. ASSUME NEW R \in SUBSET Clients, Fetch(R) PROVE EventInv'
  BY <1>5, FetchEvents
<1>6. ASSUME NEW f \in Fd, NEW w \in Worker, Restart(f, w) \/ GiveUp(f, w) PROVE EventInv'
  BY <1>6, RestartEvents, GiveUpEvents
<1>7. CASE ParentDies
  BY <1>7, NoEvents DEF ParentDies
<1>8. ASSUME NEW p \in Process, Initialise(p) PROVE EventInv'
  <2>1. UNCHANGED parentVars /\ wfds' = [wfds EXCEPT ![p] = Without(@, todo[p])]
    BY <1>8 DEF Initialise
  <2>2. \A j \in Fd : Without(wfds[p], todo[p])[j] \in {Closed, wfds[p][j]}
    BY <1>0, Shut
  <2>3. wfds'[p] = Without(wfds[p], todo[p]) /\ \A q \in Process : q # p => wfds'[q] = wfds[q]
    BY <1>0, <2>1
  <2>4. \A q \in Process, j \in Fd : wfds'[q][j] \in {Closed, wfds[q][j]}
    BY <2>2, <2>3
  <2> QED BY <2>1, <2>4, WorkerEvents
<1>9. ASSUME NEW p \in Process, Gone(p) PROVE EventInv'
  <2>1. UNCHANGED parentVars /\ wfds' = [wfds EXCEPT ![p] = Nothing]
    BY <1>9 DEF Gone
  <2>2. wfds'[p] = Nothing /\ \A q \in Process : q # p => wfds'[q] = wfds[q]
    BY <1>0, <2>1
  <2>3. \A q \in Process, j \in Fd : wfds'[q][j] \in {Closed, wfds[q][j]}
    BY <2>2 DEF Nothing
  <2> QED BY <2>1, <2>3, WorkerEvents
<1>10. CASE UNCHANGED vars
  <2>1. UNCHANGED parentVars /\ wfds' = wfds
    BY <1>10 DEF vars, workerVars
  <2> QED BY <2>1, WorkerEvents
<1> QED
  BY <1>1, <1>2, <1>3, <1>4, <1>5, <1>6, <1>7, <1>8, <1>9, <1>10
     DEF Next, ParentNext, WorkerNext, Crash, ParentGone

\* A batch of events goes stale only by a client's number, for any number of
\* workers, restarts and clients.
THEOREM EventsAreTrue == Spec => [](IInv /\ EventInv)
<1>1. Init => EventInv
  <2>1. Init => events = Nothing /\ \A f \in Fd : events[f] = Closed
    BY DEF Init, Nothing
  <2> QED BY <2>1 DEF EventInv, Pending
<1>2. IInv /\ EventInv /\ [Next]_vars => EventInv'
  BY EventsNext
<1> QED BY <1>1, <1>2, PipesInvariant, PTL DEF Spec

------------------------------------------------------------------------------
(* What is taken for a death *)

\* The parent acts on an event of a worker's pipe that is no client's: the
\* process had still the only write end.
LEMMA HangupTrue == IInv /\ EventInv => HangupIsTrue
<1> SUFFICES ASSUME IInv, EventInv, NEW f \in Fd, NEW w \in Worker, PipeHup(f, w),
                    \A v \in Worker : ~PastLimit(v), events[f][1] # "client"
             PROVE  wstate[<<w, restarts[w]>>] = "dead"
  BY DEF HangupIsTrue
<1> DEFINE p == <<w, restarts[w]>>
<1>1. fds[f] = <<"sendq0", w, restarts[w]>> /\ wstate[p] # "none" /\ p \in Process
  BY Registration DEF PipeHup, Process
<1>2. PICK v \in Worker : fds[f] = <<"sendq0", v, restarts[v]>> /\ NoWriter("sendq1", v, restarts[v])
  <2>1. \A v \in Worker : <<"client", v>>[1] = "client"
    OBVIOUS
  <2> QED BY <2>1 DEF EventInv, PipeHup
<1>3. v = w
  BY <1>1, <1>2, SameEnd
<1>4. ASSUME Alive(p) PROVE FALSE
  <2>1. own[p]["sendq1"] \in Fd /\ wfds[p][own[p]["sendq1"]] = <<"sendq1", p[1], p[2]>>
    BY <1>1, <1>4 DEF IInv, WorkerInv
  <2> QED BY <1>1, <1>2, <1>3, <2>1 DEF NoWriter
<1>5. wstate[p] \in {"none", "forked", "running", "dead"}
  BY <1>1 DEF IInv, TypeOK
<1> QED BY <1>1, <1>4, <1>5 DEF Alive

\* A worker's pipe hangs up: the parent closed its end, to replace the worker
\* or because it died.
LEMMA ParentHangupTrue == IInv => ParentHangupIsTrue
<1> SUFFICES ASSUME IInv, NEW w \in Worker, NEW g \in Gen, SeesHup(<<w, g>>), state # "dead"
             PROVE  g < restarts[w]
  BY DEF ParentHangupIsTrue
<1> DEFINE p == <<w, g>>
           file == wfds[p][own[p]["recvq0"]]
<1>1. p \in Process /\ Alive(p) /\ HungUp(file) /\ wstate[p] # "none"
  BY DEF Process, SeesHup, Alive
<1>2. file \in {Closed, <<"recvq0", w, g>>}
  BY <1>1 DEF IInv, WorkerInv
<1>3. NoWriter("recvq1", w, g)
  <2>1. Closed[1] = "closed"
    BY DEF Closed
  <2>2. file[1] # "sendq0"
    BY <1>2, <2>1
  <2>3. file[1] = "recvq0" => file = <<"recvq0", w, g>>
    BY <1>2, <2>1
  <2> HIDE DEF file
  <2> QED BY <1>1, <2>2, <2>3 DEF HungUp
<1>4. Started(w) /\ g <= restarts[w]
  BY <1>1 DEF IInv, SpawnInv
<1>5. g # Latest(w)
  BY <1>3, <1>4 DEF IInv, HandlesInv, NoWriter
<1>6. restarts[w] \in Nat /\ g \in 0..RestartLimit
  BY PipesAssumption DEF IInv, TypeOK, Gen
<1> QED BY <1>4, <1>5, <1>6, PipesAssumption DEF Latest, PastLimit

\* Once every process has closed what it inherited, nobody else has a copy of
\* the end by which a process that is dead would seem alive.
LEMMA NoCopy ==
    ASSUME IInv, AllInitialised, NEW e \in End, NEW w \in Worker, NEW g \in Gen,
           wstate[<<w, g>>] # "none",
           wstate[<<w, g>>] = "dead" \/ e \notin {"recvq0", "sendq1"}
    PROVE  \A q \in Process, f \in Fd : wfds[q][f] # <<e, w, g>>
<1> SUFFICES ASSUME NEW q \in Process, NEW f \in Fd, wfds[q][f] = <<e, w, g>>
             PROVE  FALSE
  OBVIOUS
<1>1. wstate[q] = "running"
  <2>1. wfds[q] # Nothing
    BY Files DEF Nothing
  <2>2. Alive(q)
    BY <2>1 DEF IInv, WorkerInv
  <2> QED BY <2>2 DEF Alive, AllInitialised
<1>2. Kept(q, <<e, w, g>>)
  BY <1>1 DEF IInv, WorkerInv
<1>3. CASE <<e, w, g>> \in {Closed} \cup ({"recvq0", "sendq1"} \X {q[1]} \X {q[2]})
  <2>1. <<e, w, g>> # Closed
    BY Files
  <2>2. e \in {"recvq0", "sendq1"} /\ w = q[1] /\ g = q[2]
    BY <1>3, <2>1
  <2>3. q = <<w, g>>
    BY <2>2 DEF Process
  <2> QED BY <1>1, <2>2, <2>3
<1>4. ASSUME NEW d \in End, NEW r \in Process, <<e, w, g>> = <<d, r[1], r[2]>>, wstate[r] = "none"
      PROVE  FALSE
  <2>1. w = r[1] /\ g = r[2]
    BY <1>4
  <2>2. r = <<w, g>>
    BY <2>1 DEF Process
  <2> QED BY <1>4, <2>2
<1> QED BY <1>2, <1>3, <1>4 DEF Kept

LEMMA DeathSeen == IInv => DeathIsSeen
<1> SUFFICES ASSUME IInv, state # "dead", AllInitialised, NEW f \in Fd, NEW w \in Worker,
                    conns[f] = <<"pipe", w>>, wstate[<<w, restarts[w]>>] = "dead"
             PROVE  HungUp(fds[f])
  BY DEF DeathIsSeen
<1>1. fds[f] = <<"sendq0", w, restarts[w]>> /\ restarts[w] \in Gen
  BY Registration
<1>2. "sendq1" \in End
  BY DEF End
<1>3. \A q \in Process, j \in Fd : wfds[q][j] # <<"sendq1", w, restarts[w]>>
  BY <1>1, <1>2, NoCopy
<1>4. \A j \in Fd : fds[j] # <<"sendq1", w, restarts[w]>>
  BY <1>1 DEF IInv, TableInv
<1>5. NoWriter("sendq1", w, restarts[w])
  BY <1>3, <1>4 DEF NoWriter
<1>6. fds[f][1] = "sendq0" /\ fds[f][2] = w /\ fds[f][3] = restarts[w]
  BY <1>1
<1> QED BY <1>5, <1>6 DEF HungUp

LEMMA ParentDeathSeen == IInv => ParentDeathIsSeen
<1> SUFFICES ASSUME IInv, state = "dead", AllInitialised, NEW p \in Process,
                    wstate[p] = "running", wfds[p][own[p]["recvq0"]] # Closed
             PROVE  SeesHup(p)
  BY DEF ParentDeathIsSeen
<1>1. PICK w \in Worker, g \in Gen : p = <<w, g>>
  BY DEF Process
<1> DEFINE file == wfds[p][own[p]["recvq0"]]
<1>2. own[p]["recvq0"] \in Fd /\ file = <<"recvq0", w, g>>
  BY <1>1 DEF IInv, WorkerInv, Alive
<1>3. "recvq1" \in End
  BY DEF End
<1>4. \A q \in Process, j \in Fd : wfds[q][j] # <<"recvq1", w, g>>
  BY <1>1, <1>3, NoCopy
<1>5. \A j \in Fd : fds[j] # <<"recvq1", w, g>>
  BY <1>3, Files DEF IInv, TableInv, Nothing
<1>6. NoWriter("recvq1", w, g)
  BY <1>4, <1>5 DEF NoWriter
<1>7. file[1] = "recvq0" /\ file[2] = w /\ file[3] = g
  BY <1>2
<1>8. HungUp(file)
  BY <1>6, <1>7 DEF HungUp
<1> QED BY <1>2, <1>8 DEF SeesHup

\* A death is seen, in both directions; and what a worker takes for the parent's
\* death is that or its own replacement, what the parent takes for a worker's is
\* that as long as no worker has used up its restarts, but where the event was
\* of a client that had the pipe's number before.
THEOREM HangupIsDeath == Spec => []HangupMeansDeath
<1>1. IInv /\ EventInv => HangupMeansDeath
  BY HangupTrue, ParentHangupTrue, DeathSeen, ParentDeathSeen DEF HangupMeansDeath
<1> QED BY <1>1, EventsAreTrue, PTL
================================================================================
