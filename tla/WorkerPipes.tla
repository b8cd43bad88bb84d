------------------------------ MODULE WorkerPipes ------------------------------
(***************************************************************************)
(* Who holds which descriptor.  The parent and the workers of AsyncServ    *)
(* learn of each other's death from the pipes beside the two queues: a     *)
(* pipe hangs up when the last copy of its write end is closed.  fork      *)
(* copies every descriptor, so each process has to close what it does not  *)
(* need (close_shmq_pipe, net_exit), and it does so by number.             *)
(*                                                                         *)
(* Numbers are given out lowest first and again after a close.  The parent *)
(* keeps the numbers of a worker's pipes in pipe_handles, also when it has *)
(* closed them.                                                            *)
(***************************************************************************)
EXTENDS Naturals, FiniteSets

CONSTANTS NumWorkers,   \* bindconf.bind_num
          RestartLimit, \* g_child_restart_cnt_limit
          MaxFd,        \* descriptor numbers the model has: nothing opens past them
          MaxClient,    \* clients connected at a time
          MaxForkFail   \* failures of fork before the model stops failing it

ASSUME PipesAssumption ==
    /\ NumWorkers \in Nat \ {0} /\ RestartLimit \in 0..254
    /\ MaxFd \in Nat /\ MaxClient \in Nat /\ MaxForkFail \in Nat

Worker == 1..NumWorkers
Fd == 1..MaxFd          \* above those the program has open before it forks
Gen == 0..RestartLimit
Process == Worker \X Gen    \* the g-th process started for worker w

\* The four entries of pipe_handles: read and write end of each queue's pipe.
End == {"sendq0", "sendq1", "recvq0", "recvq1"}
PipeEnd == End \X Worker \X Gen
Closed == <<"closed", 0>>    \* nothing is open under the number

VARIABLES fds,          \* the parent's descriptors
          conns,        \* its connection table epi.fds: what a number is for
          events,       \* hang-ups epoll_wait has returned, not yet handled
          handles,      \* pipe_handles of both queues of every worker
          restarts,     \* restart_cnt
          state,        \* "forking" while the main loop starts workers
          forkFails,    \* bound: failures of fork so far
          wfds,         \* the descriptors of every worker process
          own,          \* its copy of its own pipe_handles
          todo,         \* numbers it still has to close after the fork
          wstate        \* its state

parentVars == <<fds, conns, events, handles, restarts, state, forkFails>>
workerVars == <<wfds, own, todo, wstate>>
vars == <<parentVars, workerVars>>

NoHandles == [e \in End |-> 0]
Unused == <<"unused", 0>>
Nothing == [f \in Fd |-> Closed]

Init ==
    /\ fds = Nothing /\ conns = [f \in Fd |-> Unused] /\ events = Nothing
    /\ handles = [w \in Worker |-> NoHandles]
    /\ restarts = [w \in Worker |-> 0]
    /\ state = "forking" /\ forkFails = 0
    /\ wfds = [p \in Process |-> Nothing]
    /\ own = [p \in Process |-> NoHandles]
    /\ todo = [p \in Process |-> {}]
    /\ wstate = [p \in Process |-> "none"]

------------------------------------------------------------------------------
(* Descriptor tables *)

Without(t, S) == [f \in Fd |-> IF f \in S THEN Closed ELSE t[f]]

\* The k-th lowest number that is free: none if the model's numbers run out.
Lowest(t, k) ==
    LET free == {f \in Fd : t[f] = Closed}
    IN  {f \in free : Cardinality({g \in free : g < f}) = k - 1}

\* shmq_create: the pipe of sendq and then the pipe of recvq.
NewHandles(t) ==
    {[sendq0 |-> s0, sendq1 |-> s1, recvq0 |-> r0, recvq1 |-> r1] :
        s0 \in Lowest(t, 1), s1 \in Lowest(t, 2), r0 \in Lowest(t, 3), r1 \in Lowest(t, 4)}

WithPipes(t, h, w, g) ==
    [f \in Fd |-> IF \E e \in End : h[e] = f
                  THEN <<CHOOSE e \in End : h[e] = f, w, g>>
                  ELSE t[f]]

Registered(c) == {f \in Fd : c[f] # Unused}

\* Mutated forms of the next definition: the bound one too low, so that a
\* worker leaves its own two ends of the parent open; net_exit left out; both
\* ends of every pipe closed.
ClosedBelow(hs, c, n) ==
    {hs[v][e] : v \in 1..n-1, e \in {"recvq1", "sendq0"}} \cup Registered(c)
ClosedNoExit(hs, c, n) == {hs[v][e] : v \in 1..n, e \in {"recvq1", "sendq0"}}
ClosedBothEnds(hs, c, n) == {hs[v][e] : v \in 1..n, e \in End} \cup Registered(c)

\* What a worker closes: the parent's ends of the pipes of the first n
\* workers, by the numbers in pipe_handles, and the parent's connections.
ClosedByWorker(hs, c, n) ==
    {hs[v][e] : v \in 1..n, e \in {"recvq1", "sendq0"}} \cup Registered(c)

\* fork: process p begins with the parent's descriptors t; the first n
\* workers have been initialised.
Fork(p, t, h, hs, c, n) ==
    /\ wfds' = [wfds EXCEPT ![p] = t]
    /\ own' = [own EXCEPT ![p] = h]
    /\ todo' = [todo EXCEPT ![p] = ClosedByWorker(hs, c, n)]
    /\ wstate' = [wstate EXCEPT ![p] = "forked"]

\* Mutated forms: the parent keeps both ends of the new pipes; it closes its
\* own ends in place of the worker's.
AllKept(h) == {}
ClosedOwn(h) == {h["recvq1"], h["sendq0"]}

\* close_shmq_pipe in the parent.
ClosedByParent(h) == {h["recvq0"], h["sendq1"]}

\* The parent registers its end of sendq's pipe.
WithPipe(c, h, w) == [c EXCEPT ![h["sendq0"]] = <<"pipe", w>>]

------------------------------------------------------------------------------
(* The parent *)

\* One round of the loop in main that starts the workers, in their order.
Spawn(w) ==
    /\ state = "forking"
    /\ wstate[<<w, 0>>] = "none" /\ \A v \in 1..w-1 : wstate[<<v, 0>>] # "none"
    /\ \E h \in NewHandles(fds) :
           LET t  == WithPipes(fds, h, w, 0)
               hs == [handles EXCEPT ![w] = h]
               tp == Without(t, ClosedByParent(h))
           IN  /\ handles' = hs
               /\ Fork(<<w, 0>>, t, h, hs, conns, w)
               /\ \E l \in Lowest(tp, 1) :
                      /\ fds' = [tp EXCEPT ![l] = <<"listen", w>>]
                      /\ conns' = [WithPipe(conns, h, w) EXCEPT ![l] = <<"listen", w>>]
    /\ state' = IF w = NumWorkers THEN "loop" ELSE state
    /\ UNCHANGED <<events, restarts, forkFails>>

Clients == {f \in Fd : conns[f][1] = "client"}

Accept(w) ==
    /\ state = "loop"
    /\ Cardinality(Clients) < MaxClient
    /\ \E f \in Lowest(fds, 1) :
           /\ fds' = [fds EXCEPT ![f] = <<"client", w>>]
           /\ conns' = [conns EXCEPT ![f] = <<"client", w>>]
    /\ UNCHANGED <<events, handles, restarts, state, forkFails, workerVars>>

\* do_del_conn for a client.
DelClient(f) ==
    /\ state = "loop"
    /\ f \in Clients
    /\ fds' = Without(fds, {f})
    /\ conns' = [conns EXCEPT ![f] = Unused]
    /\ UNCHANGED <<handles, restarts, state, forkFails, workerVars>>

\* A reply cannot be written, the client ends, a time limit ...
CloseClient(f) == DelClient(f) /\ UNCHANGED events

\* No process holds this write end any more.
NoWriter(e, w, g) ==
    /\ \A f \in Fd : fds[f] # <<e, w, g>>
    /\ \A p \in Process, f \in Fd : wfds[p][f] # <<e, w, g>>

\* The kernel reports a hang-up on a read end.
HungUp(file) ==
    \/ file[1] = "sendq0" /\ NoWriter("sendq1", file[2], file[3])
    \/ file[1] = "recvq0" /\ NoWriter("recvq1", file[2], file[3])

\* epoll_wait returns the hang-ups of this moment, those of the clients R that
\* are reset among them.  net_loop handles one after the other and has only the
\* number of each; what the number then stood for is history.
Fetch(R) ==
    LET hung == R \cup {f \in Fd : conns[f][1] = "pipe" /\ HungUp(fds[f])}
    IN  /\ state = "loop" /\ events = Nothing
        /\ hung # {}
        /\ events' = [f \in Fd |-> IF f \in hung THEN fds[f] ELSE Closed]
        /\ UNCHANGED <<fds, conns, handles, restarts, state, forkFails, workerVars>>

Pending(f) == events[f] # Closed
Handled(f) == events' = [events EXCEPT ![f] = Closed]

\* "delayed epoll events": the number stands for nothing now.
SkipEvent(f) ==
    /\ state = "loop" /\ Pending(f)
    /\ conns[f] = Unused
    /\ Handled(f)
    /\ UNCHANGED <<fds, conns, handles, restarts, state, forkFails, workerVars>>

\* It stands for a client, be it the one that hung up or not.
ClientHup(f) == Pending(f) /\ DelClient(f) /\ Handled(f)

\* It stands for a pipe, whose worker is taken for dead.
PipeHup(f, w) == state = "loop" /\ Pending(f) /\ conns[f] = <<"pipe", w>>

\* handle_pipe_event closes all that belongs to the worker but its listening
\* socket, the pipe among it ...
OfWorker(w) == {f \in Fd : conns[f] \in {<<"client", w>>, <<"pipe", w>>}}
WithoutWorker(w) == [f \in Fd |-> IF f \in OfWorker(w) THEN Unused ELSE conns[f]]

\* Mutated form: restart_child_process keeps the old recvq1.
KeepRecvq(w) == Without(fds, OfWorker(w))

\* ... and restart_child_process closes the other end it has.
BeforeRestart(w) == Without(fds, OfWorker(w) \cup {handles[w]["recvq1"]})

\* Mutated form: one restart too many.
WithinLimitPlus(w) == restarts[w] <= RestartLimit

WithinLimit(w) == restarts[w] < RestartLimit

Restart(f, w) ==
    /\ PipeHup(f, w)
    /\ WithinLimit(w)
    /\ \E h \in NewHandles(BeforeRestart(w)) :
           LET g  == restarts[w] + 1
               t  == WithPipes(BeforeRestart(w), h, w, g)
               hs == [handles EXCEPT ![w] = h]
           IN  /\ handles' = hs
               /\ restarts' = [restarts EXCEPT ![w] = g]
               /\ \/ /\ Fork(<<w, g>>, t, h, hs, WithoutWorker(w), NumWorkers)
                     /\ fds' = Without(t, ClosedByParent(h))
                     /\ conns' = WithPipe(WithoutWorker(w), h, w)
                     /\ UNCHANGED forkFails
                  \/ /\ forkFails < MaxForkFail     \* fork failed: never tried again
                     /\ forkFails' = forkFails + 1
                     /\ fds' = t
                     /\ conns' = WithoutWorker(w)
                     /\ UNCHANGED workerVars
    /\ Handled(f)
    /\ UNCHANGED state

\* Past the limit nothing is started, and recvq's pipe stays open.
GiveUp(f, w) ==
    /\ PipeHup(f, w)
    /\ ~WithinLimit(w)
    /\ restarts' = [restarts EXCEPT ![w] = @ + 1]
    /\ fds' = Without(fds, OfWorker(w))
    /\ conns' = WithoutWorker(w)
    /\ Handled(f)
    /\ UNCHANGED <<handles, state, forkFails, workerVars>>

\* At any time; in main also because fork failed.
ParentDies ==
    /\ state # "dead"
    /\ state' = "dead"
    /\ fds' = Nothing /\ events' = Nothing
    /\ UNCHANGED <<conns, handles, restarts, forkFails, workerVars>>

------------------------------------------------------------------------------
(* A worker process *)

\* The beginning of run_worker_process.
Initialise(p) ==
    /\ wstate[p] = "forked"
    /\ wfds' = [wfds EXCEPT ![p] = Without(@, todo[p])]
    /\ todo' = [todo EXCEPT ![p] = {}]
    /\ wstate' = [wstate EXCEPT ![p] = "running"]
    /\ UNCHANGED <<parentVars, own>>

Gone(p) ==
    /\ wfds' = [wfds EXCEPT ![p] = Nothing]
    /\ todo' = [todo EXCEPT ![p] = {}]
    /\ wstate' = [wstate EXCEPT ![p] = "dead"]
    /\ UNCHANGED <<parentVars, own>>

\* It dies of itself at any time ...
Crash(p) ==
    /\ wstate[p] \in {"forked", "running"}
    /\ Gone(p)

\* ... or stops because its parent's end of recvq's pipe hangs up.
SeesHup(p) ==
    wstate[p] = "running" /\ own[p]["recvq0"] \in Fd
        /\ HungUp(wfds[p][own[p]["recvq0"]])

ParentGone(p) == SeesHup(p) /\ Gone(p)

------------------------------------------------------------------------------
ParentNext ==
    \/ \E w \in Worker : Spawn(w) \/ Accept(w)
    \/ \E R \in SUBSET Clients : Fetch(R)
    \/ \E f \in Fd : CloseClient(f) \/ SkipEvent(f) \/ ClientHup(f)
    \/ \E f \in Fd, w \in Worker : Restart(f, w) \/ GiveUp(f, w)
    \/ ParentDies

WorkerNext == \E p \in Process : Initialise(p) \/ Crash(p) \/ ParentGone(p)

Next == ParentNext \/ WorkerNext

Spec == Init /\ [][Next]_vars

------------------------------------------------------------------------------
(* Properties *)

File == {Closed} \cup PipeEnd \cup ({"client", "listen"} \X Worker)

TypeOK ==
    /\ fds \in [Fd -> File]
    /\ conns \in [Fd -> {Unused} \cup ({"pipe", "listen", "client"} \X Worker)]
    /\ events \in [Fd -> File]
    /\ handles \in [Worker -> [End -> Fd \cup {0}]]
    /\ restarts \in [Worker -> 0..RestartLimit+1]
    /\ state \in {"forking", "loop", "dead"}
    /\ forkFails \in 0..MaxForkFail
    /\ wfds \in [Process -> [Fd -> File]]
    /\ own \in [Process -> [End -> Fd \cup {0}]]
    /\ todo \in [Process -> SUBSET (Fd \cup {0})]
    /\ wstate \in [Process -> {"none", "forked", "running", "dead"}]

\* A worker that has closed what it inherited holds its own two pipe ends and
\* nothing else: no client's socket (which the parent could then not close),
\* no end by which another process would seem alive.  (The pipes of a fork
\* that failed stay in the parent and are inherited; they belong to nobody.)
Kept(p, file) ==
    \/ file \in {Closed} \cup ({"recvq0", "sendq1"} \X {p[1]} \X {p[2]})
    \/ \E e \in End, q \in Process : file = <<e, q[1], q[2]>> /\ wstate[q] = "none"

HoldsOnlyOwn ==
    \A p \in Process : wstate[p] = "running" =>
        \A f \in Fd : Kept(p, wfds[p][f])

\* ... and does hold both (shmq.c:211, "close needless pipe fd").
HoldsOwnEnds ==
    \A w \in Worker, g \in Gen :
        wstate[<<w, g>>] = "running" =>
            \A e \in {"recvq0", "sendq1"} :
                wfds[<<w, g>>][own[<<w, g>>][e]] = <<e, w, g>>

PastLimit(w) == restarts[w] > RestartLimit
Latest(w) == IF PastLimit(w) THEN RestartLimit ELSE restarts[w]

\* It does as long as no worker has used up its restarts.
HoldsOwnEndsAtFirst == (\A w \in Worker : ~PastLimit(w)) => HoldsOwnEnds

\* The parent takes a worker for dead only if it is, as long as no worker has
\* used up its restarts: but for the event of a client that was closed, and
\* whose number the pipe was given, after epoll_wait had returned it.
HangupIsTrue ==
    \A f \in Fd, w \in Worker :
        PipeHup(f, w) /\ (\A v \in Worker : ~PastLimit(v)) =>
            wstate[<<w, restarts[w]>>] = "dead" \/ events[f][1] = "client"

\* A worker takes the parent for dead only if it is, or has replaced it.
ParentHangupIsTrue ==
    \A w \in Worker, g \in Gen :
        SeesHup(<<w, g>>) => state = "dead" \/ g < restarts[w]

\* Nobody else's copy hides a death, once every process has closed what it
\* inherited: the parent sees that of a worker, and a worker that of the parent.
AllInitialised == \A p \in Process : wstate[p] # "forked"

DeathIsSeen ==
    state # "dead" /\ AllInitialised =>
        \A f \in Fd, w \in Worker :
            conns[f] = <<"pipe", w>> /\ wstate[<<w, restarts[w]>>] = "dead"
                => HungUp(fds[f])

ParentDeathIsSeen ==
    state = "dead" /\ AllInitialised =>
        \A p \in Process :
            wstate[p] = "running" /\ wfds[p][own[p]["recvq0"]] # Closed => SeesHup(p)

\* The parent keeps no pipe end but those of the last pipes it made for each
\* worker, however often it restarts one.
NoLeak ==
    \A f \in Fd : fds[f] \in PipeEnd =>
        handles[fds[f][2]][fds[f][1]] = f /\ fds[f][3] = Latest(fds[f][2])

\* The descriptor tables: a worker keeps its own ends only, the parent those of
\* the last pipes only (shmq.c:217-230, service.c:236-262).
EndsKept == TypeOK /\ HoldsOnlyOwn /\ NoLeak

\* A death is seen, in both directions, and what is taken for one is one, with
\* the exceptions named above (net.c:524-539, 685-714).
HangupMeansDeath == HangupIsTrue /\ ParentHangupIsTrue /\ DeathIsSeen /\ ParentDeathIsSeen
================================================================================
