------------------------------ MODULE Supervisor ------------------------------
(***************************************************************************)
(* The parent of AsyncServ as the supervisor of its workers: it starts     *)
(* one worker per bind entry, starts another when a worker's pipe hangs    *)
(* up, and on SIGTERM or SIGHUP stops them all and itself, or executes     *)
(* itself anew.  What makes it hard is that the three signal handlers run  *)
(* between any two of its steps: SIGCHLD finds a dead worker by child_pids, *)
(* which the parent writes some time after fork, and `stop' is tested some *)
(* time before epoll_wait.  And a hang-up is not always a death: the       *)
(* descriptor numbers, which WorkerPipes keeps, can make a worker close    *)
(* its own end, or an old event seem one of a new pipe.  Here both are a   *)
(* choice, where the numbers allow it at all.                              *)
(***************************************************************************)
EXTENDS Integers, FiniteSets

CONSTANTS NumWorkers,   \* bindconf.bind_num
          RestartLimit, \* g_child_restart_cnt_limit
          FiniAnswers,  \* what fini_service(1) may return; {} if there is none
          CntMod,       \* restart_cnt is a uint8_t: 2^8
          MaxPid,       \* processes the kernel has for us: fork fails after
          LosesTo,      \* <<w, v>>: w's new ends may be given the number v left
          StaleFor      \* workers whose new pipe may be given that of a client

ASSUME SupervisorAssumption ==
    /\ NumWorkers \in Nat \ {0}
    /\ RestartLimit \in Nat
    /\ FiniAnswers \subseteq {0, -1}
    /\ CntMod \in Nat \ {0}
    /\ MaxPid \in Nat /\ MaxPid >= NumWorkers
    /\ LosesTo \subseteq (1..NumWorkers) \X (1..NumWorkers)
    /\ StaleFor \subseteq 1..NumWorkers

Worker == 1..NumWorkers
Pid == 1..MaxPid        \* 0 in child_pids: no process

VARIABLES
    pc,         \* where the parent is
    idx,        \* the worker its loop is at
    evs,        \* workers for whose pipe the batch of events has a hang-up
    pid,        \* what fork returned
    pipe,       \* per worker, the process at the other end of sendq's pipe
    moved,      \* workers whose pipe was closed, so that its number came free
    stale,      \* those given up: the parent remembers that number
    child_pids, restart_cnt, stop, restart,
    pstate,     \* a process: "none", "running", "zombie" (dead), "gone" (reaped)
    of,         \* the worker a process was started for
    lost,       \* the ends of its own pipes it closes when it begins
    told,       \* processes whose own `stop' is set
    replaced,   \* history: those alive when another was started in their place
    asked,      \* history: the last request of the administrator
    groupKilled \* history: the parent has signalled its process group

pipeVars == <<pipe, moved, stale>>
procVars == <<pstate, of, lost, told, replaced>>
vars == <<pc, idx, evs, pid, pipeVars, child_pids, restart_cnt, stop, restart,
          procVars, asked, groupKilled>>

OwnEnd == {"sendq1", "recvq0"}

Init ==
    /\ pc = "spawn" /\ idx = 1 /\ evs = {} /\ pid = 0
    /\ pipe = [w \in Worker |-> 0] /\ moved = {} /\ stale = {}
    /\ child_pids = [w \in Worker |-> 0]
    /\ restart_cnt = [w \in Worker |-> 0]
    /\ stop = FALSE /\ restart = FALSE
    /\ pstate = [p \in Pid |-> "none"]
    /\ of = [p \in Pid |-> 0]
    /\ lost = [p \in Pid |-> {}]
    /\ told = {} /\ replaced = {}
    /\ asked = "nothing" /\ groupKilled = FALSE

Running == {p \in Pid : pstate[p] = "running"}
Zombie == {p \in Pid : pstate[p] = "zombie"}

------------------------------------------------------------------------------
(* The parent: starting workers *)

\* What the child closes for the workers given up are numbers that may be those
\* of its own ends, at most one for each.
MayLose(w) == {v \in stale \ {w} : <<w, v>> \in LosesTo}

\* fork for worker w, of whose processes those of T are told to stop.  The child
\* inherits `stop' as it is.
Fork(w, T) ==
    \E p \in Pid, ends \in SUBSET OwnEnd :
        /\ \A q \in Pid : q < p <=> pstate[q] # "none"
        /\ pid' = p
        /\ pstate' = [pstate EXCEPT ![p] = "running"]
        /\ of' = [of EXCEPT ![p] = w]
        /\ Cardinality(ends) <= Cardinality(MayLose(w))
        /\ lost' = [lost EXCEPT ![p] = ends]
        /\ told' = told \cup T \cup (IF stop THEN {p} ELSE {})

Spawn ==
    /\ pc = "spawn"
    /\ Fork(idx, {})
    /\ pc' = "store"
    /\ UNCHANGED <<idx, evs, pipeVars, child_pids, restart_cnt, stop, restart,
                   replaced, asked, groupKilled>>

\* Mutated form: a place for the process is kept, but not its pid.
RegisterOnly(w) == pipe' = [pipe EXCEPT ![w] = pid] /\ UNCHANGED child_pids

\* What the parent does after fork: the pipe into epoll, the pid into the table.
Register(w) ==
    /\ pipe' = [pipe EXCEPT ![w] = pid]
    /\ child_pids' = [child_pids EXCEPT ![w] = pid]

Store ==
    /\ pc = "store"
    /\ Register(idx)
    /\ IF idx = NumWorkers THEN pc' = "test" /\ idx' = 1
                           ELSE pc' = "spawn" /\ idx' = idx + 1
    /\ UNCHANGED <<evs, pid, moved, stale, restart_cnt, stop, restart, procVars, asked, groupKilled>>

------------------------------------------------------------------------------
(* The parent: its loop *)

Goto(place) ==
    /\ pc' = place
    /\ UNCHANGED <<pid, pipeVars, child_pids, restart_cnt, stop, restart, procVars, asked, groupKilled>>

\* fini_service(1) has returned 0.
LeaveLoop ==
    /\ pc = "test" /\ stop /\ 0 \in FiniAnswers
    /\ Goto("kill") /\ idx' = 1 /\ UNCHANGED evs

StayInLoop ==
    /\ pc = "test" /\ (~stop \/ FiniAnswers \ {0} # {} \/ FiniAnswers = {})
    /\ Goto("enter") /\ UNCHANGED <<idx, evs>>

\* From here a signal interrupts epoll_wait.
Sleep == pc = "enter" /\ Goto("poll") /\ UNCHANGED <<idx, evs>>

\* Mutated form: every event of a pipe taken for a hang-up.
AnyPipe == {w \in Worker : pipe[w] # 0}

HungUp == {w \in Worker : pipe[w] # 0 /\ pipe[w] \notin Running}

\* So does the pipe of a process that lives and has closed its own end, some
\* time after its fork.
SeemsDead == {w \in Worker : pipe[w] \in Running /\ "sendq1" \in lost[pipe[w]]}

Wake ==
    /\ pc = "poll"
    /\ \E mistaken \in SUBSET SeemsDead : evs' = HungUp \cup mistaken
    /\ Goto("events") /\ UNCHANGED idx

WakeHup == HungUp # {} /\ Wake

\* Any event of a client, a worker's reply, a datagram.
Traffic == Wake

\* Mutated form: one restart too many.
WithinLimitPlus(w) == restart_cnt[w] <= RestartLimit

WithinLimit(w) == restart_cnt[w] < RestartLimit

\* The process of w if it is alive after all ...
AliveStill(w) == Running \cap {pipe[w]}

\* ... and sees its parent's end of recvq's pipe closed.
Hears(w) == {p \in AliveStill(w) : "recvq0" \notin lost[p]}

\* handle_pipe_event: past the limit nothing is started any more ...
GiveUp(w) ==
    /\ ~WithinLimit(w)
    /\ stale' = stale \cup {w}
    /\ UNCHANGED <<pc, idx, pid, procVars>>

\* ... otherwise restart_child_process closes the other pipe, and forks ...
Replace(w) ==
    /\ WithinLimit(w)
    /\ Fork(w, Hears(w))
    /\ replaced' = replaced \cup AliveStill(w)
    /\ pc' = "restore" /\ idx' = w
    /\ UNCHANGED stale

\* ... or fails to.
ForkFails(w) ==
    /\ WithinLimit(w)
    /\ told' = told \cup Hears(w)
    /\ UNCHANGED <<pc, idx, pid, stale, pstate, of, lost, replaced>>

Hup(w) ==
    /\ pc = "events" /\ w \in evs
    /\ evs' = evs \ {w}
    /\ pipe' = [pipe EXCEPT ![w] = 0] /\ moved' = moved \cup {w}
    /\ restart_cnt' = [restart_cnt EXCEPT ![w] = (@ + 1) % CntMod]
    /\ GiveUp(w) \/ Replace(w) \/ ForkFails(w)
    /\ UNCHANGED <<child_pids, stop, restart, asked, groupKilled>>

\* The pipe of w is given the number of a client that was closed in this batch,
\* after epoll_wait had returned its hang-up.  There is a lower number free only
\* if another worker's pipe was closed before.
EventForOld(w) == w \in StaleFor /\ \E v \in moved : v # w

Restore ==
    /\ pc = "restore"
    /\ Register(idx)
    /\ pc' = "events"
    /\ \/ UNCHANGED evs
       \/ EventForOld(idx) /\ evs' = evs \cup {idx}
    /\ UNCHANGED <<idx, pid, moved, stale, restart_cnt, stop, restart, procVars, asked, groupKilled>>

EventsDone == pc = "events" /\ evs = {} /\ Goto("test") /\ UNCHANGED <<idx, evs>>

------------------------------------------------------------------------------
(* The parent: killall_children *)

NextChild == IF idx = NumWorkers THEN pc' = "wait" /\ UNCHANGED idx
                                 ELSE pc' = "kill" /\ idx' = idx + 1

\* The first read of child_pids[i] ...
KillTest ==
    /\ pc = "kill"
    /\ IF child_pids[idx] # 0 THEN pc' = "send" /\ UNCHANGED idx ELSE NextChild
    /\ UNCHANGED <<evs, pid, pipeVars, child_pids, restart_cnt, stop, restart,
                   procVars, asked, groupKilled>>

\* ... and the second: kill(0, SIGTERM) signals the whole group, the parent too.
KillSend ==
    /\ pc = "send"
    /\ NextChild
    /\ IF child_pids[idx] # 0
       THEN /\ told' = told \cup (Running \cap {child_pids[idx]})
            /\ UNCHANGED <<stop, restart, groupKilled>>
       ELSE /\ told' = told \cup Running
            /\ stop' = TRUE /\ restart' = FALSE /\ groupKilled' = TRUE
    /\ UNCHANGED <<evs, pid, pipeVars, child_pids, restart_cnt, pstate, of, lost, replaced, asked>>

\* The pids are looked at one after the other; none is written any more, so
\* that all are 0 when the last one is seen to be.  Then exit or execv.
AllExited ==
    /\ pc = "wait" /\ \A w \in Worker : child_pids[w] = 0
    /\ Goto("done") /\ UNCHANGED <<idx, evs>>

------------------------------------------------------------------------------
(* Signals *)

\* A handler runs between two steps; epoll_wait returns with EINTR.
Interrupt ==
    IF pc = "poll" THEN pc' = "test" /\ UNCHANGED <<idx, evs, pid, pipeVars, restart_cnt>>
                   ELSE UNCHANGED <<pc, idx, evs, pid, pipeVars, restart_cnt>>

\* Mutated form: an earlier SIGHUP still counts.
SigTermKeeps ==
    /\ pc # "done"
    /\ stop' = TRUE /\ asked' = "stop"
    /\ Interrupt
    /\ UNCHANGED <<restart, child_pids, procVars, groupKilled>>

SigTerm ==
    /\ pc # "done"
    /\ stop' = TRUE /\ restart' = FALSE /\ asked' = "stop"
    /\ Interrupt
    /\ UNCHANGED <<child_pids, procVars, groupKilled>>

\* Mutated form: only one of the two flags.
SigHupNoStop ==
    /\ pc # "done"
    /\ restart' = TRUE /\ asked' = "restart"
    /\ Interrupt
    /\ UNCHANGED <<stop, child_pids, procVars, groupKilled>>

SigHup ==
    /\ pc # "done"
    /\ stop' = TRUE /\ restart' = TRUE /\ asked' = "restart"
    /\ Interrupt
    /\ UNCHANGED <<child_pids, procVars, groupKilled>>

\* Mutated form: one process is reaped for each signal, and signals merge.
ClearedFirst(Z) ==
    [w \in Worker |-> IF child_pids[w] \in Z /\ \A z \in Z : child_pids[w] <= z
                      THEN 0 ELSE child_pids[w]]

\* The entries of the processes Z that waitpid returned.
Cleared(Z) == [w \in Worker |-> IF child_pids[w] \in Z THEN 0 ELSE child_pids[w]]

SigChld ==
    /\ pc # "done" /\ Zombie # {}
    /\ pstate' = [p \in Pid |-> IF p \in Zombie THEN "gone" ELSE pstate[p]]
    /\ child_pids' = Cleared(Zombie)
    /\ Interrupt
    /\ UNCHANGED <<stop, restart, of, lost, told, replaced, asked, groupKilled>>

------------------------------------------------------------------------------
(* Workers *)

Exit(p) ==
    /\ p \in Running
    /\ pstate' = [pstate EXCEPT ![p] = "zombie"]
    /\ UNCHANGED <<pc, idx, evs, pid, pipeVars, child_pids, restart_cnt, stop, restart,
                   of, lost, told, replaced, asked, groupKilled>>

\* A worker may die at any time, and one that is told ends its loop.
Finish(p) == p \in told /\ Exit(p)

------------------------------------------------------------------------------
Parent ==
    \/ Spawn \/ Store
    \/ LeaveLoop \/ StayInLoop \/ Sleep \/ WakeHup
    \/ \E w \in Worker : Hup(w)
    \/ Restore \/ EventsDone
    \/ KillTest \/ KillSend \/ AllExited

Administrator == SigTerm \/ SigHup

Next == Parent \/ Traffic \/ Administrator \/ SigChld \/ \E p \in Pid : Exit(p)

\* The parent runs when it can, the kernel delivers SIGCHLD, a plugin asked
\* to finish does so in the end, in the parent and in the workers.
Fairness ==
    /\ WF_vars(Parent) /\ SF_vars(LeaveLoop) /\ WF_vars(SigChld)
    /\ \A p \in Pid : WF_vars(Finish(p))

Spec == Init /\ [][Next]_vars
FairSpec == Spec /\ Fairness

------------------------------------------------------------------------------
(* Properties *)

Place == {"spawn", "store", "test", "enter", "poll", "events", "restore",
          "kill", "send", "wait", "done"}

\* What each variable may hold.
TypeOK ==
    /\ pc \in Place /\ idx \in Worker /\ evs \subseteq Worker
    /\ pid \in Pid \cup {0}
    /\ pipe \in [Worker -> Pid \cup {0}] /\ moved \subseteq Worker /\ stale \subseteq moved
    /\ child_pids \in [Worker -> Pid \cup {0}]
    /\ restart_cnt \in [Worker -> 0..CntMod-1]
    /\ stop \in BOOLEAN /\ restart \in BOOLEAN
    /\ pstate \in [Pid -> {"none", "running", "zombie", "gone"}]
    /\ of \in [Pid -> Worker \cup {0}]
    /\ lost \in [Pid -> SUBSET OwnEnd]
    /\ told \subseteq Pid /\ replaced \subseteq Pid
    /\ asked \in {"nothing", "stop", "restart"} /\ groupKilled \in BOOLEAN

\* A worker that lives is in child_pids under its number, but for the time
\* between fork and the store, and unless another was started in its place.
\* That, a hang-up without a death, takes a second worker whose pipe was closed
\* before (service.c:257; shmq.c:223; net.c:527).
InHand(p) == pc \in {"store", "restore"} /\ pid = p
MovedBefore(w) == \E v \in moved : v # w

KnownUntilDead ==
    /\ \A p \in Running : of[p] \in Worker
                          /\ (child_pids[of[p]] = p \/ InHand(p) \/ p \in replaced)
    /\ \A p \in replaced : MovedBefore(of[p])

\* The inductive invariant of the proofs adds where the parent's other tables
\* stand.  Its loop over the workers starts each for the first time ...
SpawnInv ==
    /\ pc = "spawn" => \A p \in Pid : of[p] < idx
    /\ pc = "store" => \A p \in Pid : of[p] <= idx

\* ... only a process that was forked is a worker's, and the one just forked is the
\* only one of its worker, but for those it replaces ...
ForkInv ==
    /\ \A p \in Pid : pstate[p] = "none" => of[p] = 0
    /\ pc \in {"store", "restore"} =>
          /\ pid # 0 /\ of[pid] = idx /\ pid \notin replaced
          /\ \A p \in Running : of[p] = idx => p = pid \/ p \in replaced

\* ... another that lives has its pipe in epoll, if any is there for its worker,
\* and no event says it is dead unless another worker's pipe was closed before ...
PipeInv ==
    /\ \A p \in Running : p \in replaced \/ InHand(p) \/ pipe[of[p]] \in {p, 0}
    /\ \A w \in Worker : pipe[w] # 0 => of[pipe[w]] = w
EvsInv ==
    /\ pc \notin {"events", "restore"} => evs = {}
    /\ pc = "restore" => idx \notin evs
    /\ \A w \in evs : AliveStill(w) # {} => MovedBefore(w)

\* ... one that closes its own ends has numbers of another to do it by ...
LostInv == \A p \in Pid : lost[p] # {} => of[p] \in Worker /\ MovedBefore(of[p])

\* ... and killall_children has told the workers it has passed, or they heard of
\* their replacement by the pipe, if they have it still.
Deaf(p) == p \in replaced /\ "recvq0" \in lost[p]
ToldInv ==
    /\ \A p \in replaced : of[p] \in Worker /\ (p \in told \/ Deaf(p))
    /\ pc \in {"kill", "send"} =>
          \A p \in Running : p \in told \/ Deaf(p) \/ of[p] >= idx
    /\ pc = "wait" => \A p \in Running : p \in told \/ Deaf(p)
    /\ pc = "done" => Running \subseteq replaced

\* ... it leaves its loop only to end, and the flags say what was asked ...
AskInv ==
    /\ pc \in {"kill", "send", "wait", "done"} => stop
    /\ stop /\ ~groupKilled => (restart <=> asked = "restart")

\* ... and a worker that can still be restarted, because its pipe is in epoll or
\* is about to be, was not started more often than its counter says: the counter
\* wraps only after the last restart.
Started(w) == {p \in Pid : of[p] = w}
MayRestart(w) == pipe[w] # 0 \/ (pc \in {"store", "restore"} /\ idx = w)
CountInv ==
    /\ pc \in {"spawn", "store"} => \A w \in Worker : restart_cnt[w] = 0
    /\ \A w \in evs : pipe[w] # 0
    /\ RestartLimit < CntMod => \A w \in Worker :
           /\ Cardinality(Started(w)) <= RestartLimit + 1
           /\ MayRestart(w) => /\ restart_cnt[w] <= RestartLimit
                               /\ Cardinality(Started(w)) <= restart_cnt[w] + 1

IInv == /\ TypeOK /\ KnownUntilDead /\ SpawnInv /\ ForkInv /\ PipeInv /\ EvsInv /\ LostInv
        /\ ToldInv
        /\ AskInv /\ CountInv

\* When killall_children waits, every worker alive has been told to stop, but
\* for one that was replaced and had closed its end of recvq's pipe.
AllTold == pc = "wait" => \A p \in Running : p \in told \/ Deaf(p)

\* When the parent ends or executes itself anew, no worker is left but such as
\* were replaced while they lived.
NoneLeft == pc = "done" => Running \subseteq replaced

\* No worker at all is left (daemon.c:281, "wait for all child exit").
AllChildrenExited == pc = "done" => Running = {}

\* A worker is restarted child_restart_limit times at most (net.c:703), if the
\* counter can hold the limit.
RestartsCapped ==
    RestartLimit < CntMod => \A w \in Worker : Cardinality(Started(w)) <= RestartLimit + 1

\* The server does what it was asked last, stop or restart, unless
\* killall_children has sent itself a SIGTERM.
RestartAsAsked ==
    pc = "done" /\ ~groupKilled => (restart <=> asked = "restart")

\* Both: no worker is started too often, and the server as a whole is started
\* again exactly when that was asked (net.c:703; daemon.c:58-76, 211-227).
RestartsKept == RestartsCapped /\ RestartAsAsked

\* A pid in the table of a process that is dead and reaped: nothing removes it.
Ghost == \E w \in Worker : child_pids[w] # 0 /\ pstate[child_pids[w]] = "gone"

\* Without such a pid killall_children comes to its end.
StopEnds == pc = "wait" /\ ~Ghost ~> pc = "done"

\* It always does (daemon.c:281).
WaitEnds == pc = "wait" ~> pc = "done"

\* A request to stop or restart is acted on if the parent's loop goes on turning:
\* a signal that came just before epoll_wait waits for the next event (main.c:306).
HeardWithTraffic ==
    []<><<Traffic>>_vars => (asked # "nothing" ~> pc = "kill")

================================================================================
