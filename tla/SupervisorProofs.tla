--------------------------- MODULE SupervisorProofs ---------------------------
(***************************************************************************)
(* What the parent knows of the workers that live, for any number of       *)
(* workers, any restart limit, and wherever the signal handlers run: each  *)
(* is in child_pids until it is dead, unless it was replaced alive, which  *)
(* takes another worker whose pipe was closed before.  KnownUntilDead is   *)
(* not inductive: a store into child_pids overwrites the old pid, so the   *)
(* invariant says that every other process of that worker that lives is    *)
(* one so replaced (ForkInv); that comes from the event the restart        *)
(* answers (EvsInv), which comes from the pipe (PipeInv) and from the ends *)
(* a process has closed itself (LostInv).                                  *)
(***************************************************************************)
EXTENDS Supervisor, FiniteSetTheorems, TLAPS

LEMMA InitIInv == Init => IInv
<1> SUFFICES ASSUME Init PROVE IInv
  OBVIOUS
<1>1. TypeOK
  <2>1. 1 \in Worker /\ 0 \in 0..CntMod-1
    BY SupervisorAssumption DEF Worker
  <2> QED BY <2>1 DEF Init, TypeOK, Place
<1>2. Running = {}
  BY DEF Init, Running
<1>3. SpawnInv
  BY DEF Init, SpawnInv, Pid
<1>4. AskInv
  BY DEF Init, AskInv
<1>5. CountInv
  <2>1. \A w \in Worker : Started(w) = {} /\ Cardinality({}) = 0
    BY FS_EmptySet DEF Init, Started, Worker
  <2>2. evs = {} /\ \A w \in Worker : restart_cnt[w] = 0
    BY DEF Init
  <2> QED BY <2>1, <2>2, SupervisorAssumption DEF CountInv
<1> QED
  BY <1>1, <1>2, <1>3, <1>4, <1>5
     DEF Init, IInv, KnownUntilDead, ForkInv, PipeInv, EvsInv, LostInv, ToldInv

------------------------------------------------------------------------------
(* Type correctness *)

LEMMA ForkType ==
    ASSUME TypeOK, NEW w \in Worker, NEW T \in SUBSET Pid, Fork(w, T)
    PROVE  /\ pid' \in Pid
           /\ pstate' \in [Pid -> {"none", "running", "zombie", "gone"}]
           /\ of' \in [Pid -> Worker \cup {0}]
           /\ lost' \in [Pid -> SUBSET OwnEnd]
           /\ told' \subseteq Pid
BY DEF TypeOK, Fork

LEMMA CntType == ASSUME NEW n \in 0..CntMod-1 PROVE (n + 1) % CntMod \in 0..CntMod-1
BY SupervisorAssumption

LEMMA TypeNext == TypeOK /\ [Next]_vars => TypeOK'
<1> SUFFICES ASSUME TypeOK, [Next]_vars PROVE TypeOK'
  OBVIOUS
<1>1. CASE Spawn
  <2>1. idx \in Worker /\ {} \in SUBSET Pid /\ Fork(idx, {})
    BY <1>1 DEF Spawn, TypeOK
  <2> QED BY <1>1, <2>1, ForkType DEF Spawn, TypeOK, Place, pipeVars
<1>2. CASE Store
  BY <1>2, SupervisorAssumption DEF Store, Register, TypeOK, Place, Worker, procVars
<1>3. CASE LeaveLoop \/ StayInLoop \/ Sleep \/ EventsDone \/ AllExited
  <2>1. \E place \in Place : Goto(place)
    BY <1>3 DEF LeaveLoop, StayInLoop, Sleep, EventsDone, AllExited, Place
  <2>2. idx' \in Worker /\ UNCHANGED evs
    BY <1>3, SupervisorAssumption
       DEF LeaveLoop, StayInLoop, Sleep, EventsDone, AllExited, TypeOK, Worker
  <2> QED BY <2>1, <2>2 DEF Goto, TypeOK, procVars, pipeVars
<1>4. CASE WakeHup \/ Traffic
  BY <1>4 DEF WakeHup, Traffic, Wake, HungUp, SeemsDead, Goto, TypeOK, Place, procVars,
              pipeVars
<1>5. ASSUME NEW w \in Worker, Hup(w) PROVE TypeOK'
  <2>1. restart_cnt' \in [Worker -> 0..CntMod-1]
    BY <1>5, CntType DEF Hup, TypeOK
  <2>2. /\ evs' \subseteq Worker /\ pipe' \in [Worker -> Pid \cup {0}]
        /\ moved' \subseteq Worker /\ moved \cup {w} = moved'
        /\ child_pids' \in [Worker -> Pid \cup {0}] /\ UNCHANGED <<stop, restart, asked, groupKilled>>
    BY <1>5 DEF Hup, TypeOK
  <2>3. Hears(w) \in SUBSET Pid /\ AliveStill(w) \subseteq Pid
    BY DEF Hears, AliveStill, Running
  <2>4. CASE GiveUp(w)
    BY <2>1, <2>2, <2>4 DEF GiveUp, TypeOK, procVars
  <2>5. CASE Replace(w)
    BY <2>1, <2>2, <2>3, <2>5, ForkType DEF Replace, TypeOK, Place
  <2>6. CASE ForkFails(w)
    BY <2>1, <2>2, <2>3, <2>6 DEF ForkFails, TypeOK
  <2> QED BY <1>5, <2>4, <2>5, <2>6 DEF Hup
<1>6. CASE Restore
  BY <1>6 DEF Restore, Register, TypeOK, Place, procVars
<1>7. CASE KillTest
  BY <1>7, SupervisorAssumption
     DEF KillTest, NextChild, TypeOK, Place, Worker, procVars, pipeVars
<1>8. CASE KillSend
  <2>1. pc' \in Place /\ idx' \in Worker
    BY <1>8, SupervisorAssumption DEF KillSend, NextChild, TypeOK, Place, Worker
  <2>2. told' \subseteq Pid
    BY <1>8 DEF KillSend, TypeOK, Running
  <2>3. stop' \in BOOLEAN /\ restart' \in BOOLEAN /\ groupKilled' \in BOOLEAN
    BY <1>8 DEF KillSend, TypeOK
  <2> QED BY <1>8, <2>1, <2>2, <2>3 DEF KillSend, TypeOK, pipeVars
<1>9. CASE SigTerm \/ SigHup
  BY <1>9 DEF SigTerm, SigHup, Interrupt, TypeOK, Place, procVars, pipeVars
<1>10. CASE SigChld
  BY <1>10 DEF SigChld, Cleared, Zombie, Interrupt, TypeOK, Place, pipeVars
<1>11. ASSUME NEW p \in Pid, Exit(p) PROVE TypeOK'
  BY <1>11 DEF Exit, TypeOK, pipeVars
<1>12. CASE UNCHANGED vars
  BY <1>12 DEF vars, procVars, pipeVars, TypeOK
<1> QED
  BY <1>1, <1>2, <1>3, <1>4, <1>5, <1>6, <1>7, <1>8, <1>9, <1>10, <1>11, <1>12
     DEF Next, Parent, Administrator

------------------------------------------------------------------------------
(* The invariant *)

Rest == KnownUntilDead /\ SpawnInv /\ ForkInv /\ PipeInv /\ EvsInv /\ LostInv /\ ToldInv

\* A fork adds one running process, of the worker it is for; it closes ends of its
\* own only if another worker has been given up.
LEMMA ForkRunning ==
    ASSUME IInv, NEW w \in Worker, NEW T \in SUBSET Pid, Fork(w, T)
    PROVE  /\ pid' \in Pid /\ pid' \notin Running /\ pid' \notin replaced
           /\ Running' = Running \cup {pid'}
           /\ of'[pid'] = w
           /\ \A p \in Pid : p # pid' => of'[p] = of[p] /\ lost'[p] = lost[p]
           /\ \A v \in Worker : pipe[v] # pid'
           /\ \A p \in Pid : pstate'[p] = "none" => of'[p] = 0
           /\ lost'[pid'] # {} => MovedBefore(w)
           /\ told \cup T \subseteq told'
<1> USE DEF IInv
<1>1. PICK q \in Pid, ends \in SUBSET OwnEnd :
          /\ \A r \in Pid : r < q <=> pstate[r] # "none"
          /\ pid' = q
          /\ pstate' = [pstate EXCEPT ![q] = "running"]
          /\ of' = [of EXCEPT ![q] = w]
          /\ Cardinality(ends) <= Cardinality(MayLose(w))
          /\ lost' = [lost EXCEPT ![q] = ends]
          /\ told' = told \cup T \cup (IF stop THEN {q} ELSE {})
  BY DEF Fork
<1>2. pstate[q] = "none"
  BY <1>1 DEF Pid
<1>3. of[q] = 0 /\ q # 0
  BY <1>2 DEF ForkInv, Pid
<1>4. q \notin replaced
  BY <1>3 DEF ToldInv, Worker
<1>5. \A v \in Worker : pipe[v] # q
  BY <1>3 DEF PipeInv, Worker
<1>6. \A p \in Pid : pstate'[p] = "none" => of'[p] = 0
  BY <1>1 DEF ForkInv, TypeOK
<1>7. lost'[q] # {} => MovedBefore(w)
  <2> SUFFICES ASSUME ends # {} PROVE MovedBefore(w)
    BY <1>1 DEF TypeOK
  <2>1. IsFiniteSet(ends)
    <3>1. IsFiniteSet({}) /\ OwnEnd = ({} \cup {"sendq1"}) \cup {"recvq0"}
      BY FS_EmptySet DEF OwnEnd
    <3>2. IsFiniteSet({} \cup {"sendq1"})
      BY <3>1, FS_AddElement
    <3>3. IsFiniteSet(OwnEnd)
      BY <3>1, <3>2, FS_AddElement
    <3> QED BY <3>3, FS_Subset
  <2>2. Cardinality(ends) \in Nat /\ Cardinality(ends) # 0
    BY <2>1, FS_EmptySet, FS_CardinalityType
  <2>3. MayLose(w) # {}
    <3>1. Cardinality({}) = 0
      BY FS_EmptySet
    <3>2. Cardinality(ends) <= Cardinality(MayLose(w))
      BY <1>1
    <3> QED BY <2>2, <3>1, <3>2
  <2> QED BY <2>3 DEF MayLose, MovedBefore, TypeOK
<1>8. Running' = Running \cup {q} /\ q \notin Running
  BY <1>1, <1>2 DEF TypeOK, Running
<1>9. of'[q] = w /\ \A p \in Pid : p # q => of'[p] = of[p] /\ lost'[p] = lost[p]
  BY <1>1 DEF TypeOK
<1> QED BY <1>1, <1>4, <1>5, <1>6, <1>7, <1>8, <1>9

\* Reading child_pids tells whether a worker has a process alive that was not
\* replaced.
LEMMA NoPidNoWorker ==
    ASSUME TypeOK, KnownUntilDead, pc \notin {"store", "restore"},
           NEW p \in Running, p \notin replaced
    PROVE  of[p] \in Worker /\ child_pids[of[p]] = p /\ p # 0
BY DEF KnownUntilDead, InHand, Running, Pid

LEMMA SpawnRest == IInv /\ Spawn => Rest'
<1> SUFFICES ASSUME IInv, Spawn PROVE Rest'
  OBVIOUS
<1> USE DEF IInv, Rest
<1>1. idx \in Worker /\ Fork(idx, {}) /\ {} \in SUBSET Pid /\ pc = "spawn" /\ pc' = "store"
      /\ UNCHANGED <<idx, evs, pipe, moved, child_pids, replaced>>
  BY DEF Spawn, TypeOK, pipeVars
<1>2. /\ pid' \in Pid /\ pid' \notin Running /\ pid' \notin replaced
      /\ Running' = Running \cup {pid'} /\ of'[pid'] = idx
      /\ \A p \in Pid : p # pid' => of'[p] = of[p] /\ lost'[p] = lost[p]
      /\ \A v \in Worker : pipe[v] # pid'
      /\ \A p \in Pid : pstate'[p] = "none" => of'[p] = 0
      /\ lost'[pid'] # {} => MovedBefore(idx)
      /\ told \subseteq told'
  BY <1>1, ForkRunning
<1>3. \A p \in Pid : of[p] < idx /\ of[p] \in Worker \cup {0}
  BY <1>1 DEF SpawnInv, TypeOK
<1>4. /\ \A p \in Running : p \in Pid
      /\ \A p \in replaced : p \in Pid
      /\ \A v \in Worker : pipe[v] # 0 => pipe[v] \in Pid
  BY DEF Running, TypeOK
<1>5. KnownUntilDead'
  BY <1>1, <1>2, <1>4 DEF KnownUntilDead, InHand, MovedBefore
<1>6. SpawnInv'
  BY <1>1, <1>2, <1>3 DEF SpawnInv, Worker
<1>7. ForkInv'
  BY <1>1, <1>2, <1>3, <1>4 DEF ForkInv, Pid, Worker
<1>8. PipeInv'
  BY <1>1, <1>2, <1>4 DEF PipeInv, InHand
<1>9. EvsInv'
  BY <1>1 DEF EvsInv
<1>10. LostInv'
  BY <1>1, <1>2 DEF LostInv, MovedBefore
<1>11. ToldInv'
  BY <1>1, <1>2, <1>4 DEF ToldInv, Deaf
<1> QED BY <1>5, <1>6, <1>7, <1>8, <1>9, <1>10, <1>11

\* The store overwrites the pid of no living worker but one that was replaced.
LEMMA RegisterRest ==
    ASSUME IInv, Register(idx), pc \in {"store", "restore"}, pid' = pid,
           UNCHANGED <<moved, procVars>>,
           evs' = evs \/ (evs' = evs \cup {idx} /\ MovedBefore(idx)),
           pc = "store" => evs' = evs,
           pc' \in {"spawn", "test", "events"},
           pc' = "spawn" => pc = "store" /\ idx' = idx + 1,
           pc = "store" <=> pc' # "events"
    PROVE  Rest'
<1> USE DEF IInv, Rest
<1>0. UNCHANGED <<pstate, of, lost, told, replaced>>
  BY DEF procVars
<1>1. /\ idx \in Worker /\ pid # 0 /\ of[pid] = idx
      /\ \A p \in Running : of[p] = idx => p = pid \/ p \in replaced
  BY DEF ForkInv, TypeOK
<1>2. /\ child_pids'[idx] = pid /\ pipe'[idx] = pid
      /\ \A w \in Worker : w # idx => child_pids'[w] = child_pids[w] /\ pipe'[w] = pipe[w]
  BY <1>1 DEF Register, TypeOK
<1>3. Running' = Running /\ \A p \in Running : p \in Pid /\ of[p] \in Worker
  BY <1>0 DEF Running, KnownUntilDead
<1>4. \A p \in Running : \/ p \in replaced
                         \/ child_pids'[of[p]] = p /\ pipe'[of[p]] \in {p, 0}
  BY <1>1, <1>2, <1>3 DEF KnownUntilDead, PipeInv, InHand
<1>5. KnownUntilDead'
  BY <1>0, <1>3, <1>4 DEF KnownUntilDead, MovedBefore
<1>6. PipeInv'
  BY <1>0, <1>1, <1>2, <1>3, <1>4 DEF PipeInv
<1>7. SpawnInv'
  <2> SUFFICES ASSUME pc' = "spawn", NEW p \in Pid PROVE of[p] < idx + 1
    BY <1>0 DEF SpawnInv
  <2>1. of[p] <= idx
    BY DEF SpawnInv
  <2> QED BY <2>1, <1>1 DEF TypeOK, Worker
<1>8. ForkInv' /\ ToldInv' /\ LostInv'
  BY <1>0 DEF ForkInv, ToldInv, LostInv, Deaf, MovedBefore
<1>9. EvsInv'
  <2>1. idx \notin evs
    BY DEF EvsInv
  <2>2. \A w \in evs : AliveStill(w)' = AliveStill(w) /\ (AliveStill(w) # {} => MovedBefore(w))
    BY <1>2, <1>3, <2>1 DEF AliveStill, EvsInv, TypeOK
  <2>3. pc' # "events" => evs' = {}
    BY DEF EvsInv
  <2> QED BY <1>0, <2>2, <2>3 DEF EvsInv, MovedBefore
<1> QED BY <1>5, <1>6, <1>7, <1>8, <1>9

LEMMA StoreRest == IInv /\ (Store \/ Restore) => Rest'
<1> SUFFICES ASSUME IInv, Store \/ Restore PROVE Rest'
  OBVIOUS
<1>1. CASE Store
  BY <1>1, RegisterRest DEF Store
<1>2. CASE Restore
  BY <1>2, RegisterRest DEF Restore, EventForOld, MovedBefore
<1> QED BY <1>1, <1>2

\* The loop: nothing is forked and no table written.
LEMMA LoopRest == IInv /\ (LeaveLoop \/ StayInLoop \/ Sleep \/ EventsDone) => Rest'
<1> SUFFICES ASSUME IInv, LeaveLoop \/ StayInLoop \/ Sleep \/ EventsDone PROVE Rest'
  OBVIOUS
<1> USE DEF IInv, Rest
<1>1. UNCHANGED <<evs, pid, pipe, moved, child_pids, pstate, of, lost, told, replaced>>
  BY DEF LeaveLoop, StayInLoop, Sleep, EventsDone, Goto, procVars, pipeVars
<1>2. pc' \in {"kill", "enter", "poll", "test"} /\ (pc' = "kill" => idx' = 1)
      /\ pc \in {"test", "enter", "events"} /\ evs = {}
  BY DEF LeaveLoop, StayInLoop, Sleep, EventsDone, Goto, EvsInv
<1>3. Running' = Running /\ \A p \in Running : of[p] \in Worker
  BY <1>1 DEF Running, KnownUntilDead
<1>4. KnownUntilDead' /\ PipeInv' /\ SpawnInv' /\ ForkInv' /\ EvsInv' /\ LostInv'
  BY <1>1, <1>2, <1>3
     DEF KnownUntilDead, PipeInv, SpawnInv, ForkInv, EvsInv, LostInv, InHand, MovedBefore
<1>5. ToldInv'
  BY <1>1, <1>2, <1>3 DEF ToldInv, Deaf, Worker
<1> QED BY <1>4, <1>5

\* A pipe hangs up when the worker is dead, or has closed its own end, which
\* takes a number of another worker.
LEMMA WakeRest == IInv /\ Wake => Rest'
<1> SUFFICES ASSUME IInv, Wake PROVE Rest'
  OBVIOUS
<1> USE DEF IInv, Rest
<1>1. /\ pc = "poll" /\ pc' = "events"
      /\ UNCHANGED <<idx, pid, pipe, moved, child_pids, pstate, of, lost, told, replaced>>
  BY DEF Wake, Goto, procVars, pipeVars
<1>2. \A w \in evs' : /\ w \in Worker
                      /\ \/ AliveStill(w) = {}
                         \/ pipe[w] \in Running /\ "sendq1" \in lost[pipe[w]]
  BY DEF Wake, HungUp, SeemsDead, AliveStill
<1>3. \A w \in evs' : AliveStill(w) # {} => MovedBefore(w)
  <2> SUFFICES ASSUME NEW w \in evs', AliveStill(w) # {} PROVE MovedBefore(w)
    OBVIOUS
  <2>1. w \in Worker /\ pipe[w] \in Pid /\ lost[pipe[w]] # {}
    BY <1>2 DEF Running
  <2>2. of[pipe[w]] = w
    BY <2>1 DEF PipeInv, Pid
  <2> QED BY <2>1, <2>2 DEF LostInv
<1>4. Running' = Running /\ \A w : AliveStill(w)' = AliveStill(w)
  BY <1>1 DEF Running, AliveStill
<1>5. EvsInv'
  BY <1>1, <1>3, <1>4 DEF EvsInv, MovedBefore
<1>6. KnownUntilDead' /\ PipeInv' /\ SpawnInv' /\ ForkInv' /\ LostInv' /\ ToldInv'
  BY <1>1, <1>4
     DEF KnownUntilDead, PipeInv, SpawnInv, ForkInv, LostInv, ToldInv, InHand, Deaf, MovedBefore
<1> QED BY <1>5, <1>6

\* The hang-up of worker w.  Its process, if it is alive after all, is replaced:
\* it hears of that by the pipe, or has closed its end of it.
LEMMA HupRest == ASSUME IInv, NEW w \in Worker, Hup(w) PROVE Rest'
<1> USE DEF IInv, Rest
<1>1. /\ pc = "events" /\ w \in evs /\ evs' = evs \ {w}
      /\ pipe' = [pipe EXCEPT ![w] = 0] /\ moved' = moved \cup {w} /\ UNCHANGED child_pids
      /\ pipe[w] # 0
  BY DEF Hup, CountInv
<1>2. \A p \in Running : /\ p \in Pid /\ of[p] \in Worker
                         /\ p \in replaced \/ child_pids[of[p]] = p
                         /\ p \in replaced \/ pipe'[of[p]] \in {p, 0}
                         /\ of[p] = w => p \in replaced \/ p \in AliveStill(w)
  BY <1>1 DEF KnownUntilDead, PipeInv, InHand, Running, TypeOK, AliveStill
<1>3. /\ \A p \in AliveStill(w) : p \in Running /\ of[p] = w
      /\ AliveStill(w) # {} => MovedBefore(w)
      /\ Hears(w) \in SUBSET Pid
      /\ \A p \in AliveStill(w) : p \in Hears(w) \/ "recvq0" \in lost[p]
  BY <1>1 DEF AliveStill, Hears, Running, PipeInv, EvsInv
<1>4. \A v : MovedBefore(v) => MovedBefore(v)'
  BY <1>1 DEF MovedBefore
<1>5. /\ \A v \in Worker : pipe'[v] # 0 => pipe'[v] = pipe[v] /\ pipe[v] \in Pid /\ of[pipe[v]] = v
      /\ \A v \in evs' : v \in Worker /\ pipe'[v] = pipe[v]
      /\ \A v \in evs' : AliveStill(v) # {} => MovedBefore(v)
  BY <1>1 DEF PipeInv, EvsInv, TypeOK
<1>6. \A p \in replaced : /\ p \in Pid /\ of[p] \in Worker /\ MovedBefore(of[p])
                          /\ p \in told \/ Deaf(p)
  BY DEF KnownUntilDead, ToldInv, TypeOK
<1>7. CASE Replace(w)
  <2>0. /\ Fork(w, Hears(w)) /\ replaced' = replaced \cup AliveStill(w)
        /\ pc' = "restore" /\ idx' = w
    BY <1>7 DEF Replace
  <2>1. /\ pid' \in Pid /\ pid' \notin Running /\ pid' \notin replaced
        /\ Running' = Running \cup {pid'} /\ of'[pid'] = w
        /\ \A p \in Pid : p # pid' => of'[p] = of[p] /\ lost'[p] = lost[p]
        /\ \A v \in Worker : pipe[v] # pid'
        /\ \A p \in Pid : pstate'[p] = "none" => of'[p] = 0
        /\ lost'[pid'] # {} => MovedBefore(w)
        /\ told \cup Hears(w) \subseteq told'
    BY <1>3, <2>0, ForkRunning
  <2>2. /\ \A p \in Running : p # pid' /\ of'[p] = of[p]
        /\ \A p \in replaced' : p \in Pid /\ p # pid' /\ of'[p] = of[p] /\ lost'[p] = lost[p]
    BY <1>2, <1>3, <1>6, <2>0, <2>1
  <2>3. KnownUntilDead'
    <3>1. \A p \in Running' : of'[p] \in Worker
                              /\ (child_pids'[of'[p]] = p \/ InHand(p)' \/ p \in replaced')
      BY <1>1, <1>2, <2>0, <2>1, <2>2 DEF InHand
    <3>2. \A p \in replaced' : MovedBefore(of[p]) /\ of'[p] = of[p]
      BY <1>3, <1>6, <2>0, <2>2
    <3>3. (\A p \in replaced : MovedBefore(of[p]))'
      BY <1>1, <3>2 DEF MovedBefore
    <3> QED BY <3>1, <3>3 DEF KnownUntilDead
  <2>4. PipeInv'
    <3>1. \A p \in Running' : p \in replaced' \/ InHand(p)' \/ pipe'[of'[p]] \in {p, 0}
      BY <1>2, <2>0, <2>1, <2>2 DEF InHand
    <3>2. \A v \in Worker : pipe'[v] # 0 => of'[pipe'[v]] = v
      BY <1>5, <2>1
    <3> QED BY <3>1, <3>2 DEF PipeInv
  <2>5. ForkInv'
    <3>1. pid' # 0 /\ of'[pid'] = idx' /\ pid' \notin replaced'
      BY <1>3, <2>0, <2>1 DEF Pid
    <3>2. \A p \in Running' : of'[p] = idx' => p = pid' \/ p \in replaced'
      BY <1>2, <2>0, <2>1, <2>2
    <3> QED BY <2>1, <3>1, <3>2 DEF ForkInv
  <2>6. EvsInv'
    <3>1. \A v \in evs' : AliveStill(v)' = AliveStill(v)
      BY <1>5, <2>1 DEF AliveStill
    <3> QED BY <1>1, <1>4, <1>5, <2>0, <3>1 DEF EvsInv
  <2>7. LostInv'
    BY <1>4, <2>1 DEF LostInv
  <2>8. SpawnInv'
    BY <2>0 DEF SpawnInv
  <2>9. ToldInv'
    <3>1. \A p \in replaced' : of'[p] \in Worker /\ (p \in told' \/ Deaf(p)')
      BY <1>2, <1>3, <1>6, <2>0, <2>1, <2>2 DEF Deaf
    <3> QED BY <2>0, <3>1 DEF ToldInv
  <2> QED BY <2>3, <2>4, <2>5, <2>6, <2>7, <2>8, <2>9
<1>8. CASE GiveUp(w) \/ ForkFails(w)
  <2>1. UNCHANGED <<pc, idx, pid, pstate, of, lost, replaced>> /\ told \subseteq told'
    BY <1>8 DEF GiveUp, ForkFails, procVars
  <2>2. Running' = Running
    BY <2>1 DEF Running
  <2>3. \A v \in evs' : AliveStill(v)' = AliveStill(v)
    BY <1>5, <2>2 DEF AliveStill
  <2>4. KnownUntilDead' /\ PipeInv'
    BY <1>1, <1>2, <1>4, <1>5, <1>6, <2>1, <2>2 DEF KnownUntilDead, PipeInv
  <2>5. EvsInv'
    BY <1>1, <1>4, <1>5, <2>1, <2>3 DEF EvsInv
  <2>6. SpawnInv' /\ ForkInv' /\ LostInv'
    BY <1>1, <1>4, <2>1 DEF SpawnInv, ForkInv, LostInv
  <2>7. ToldInv'
    BY <1>1, <1>6, <2>1 DEF ToldInv, Deaf
  <2> QED BY <2>4, <2>5, <2>6, <2>7
<1> QED BY <1>7, <1>8 DEF Hup

\* A worker whose entry is 0 has no process alive but such as were replaced, one
\* whose entry is not is told.
LEMMA KillRest == IInv /\ (KillTest \/ KillSend) => Rest'
<1> SUFFICES ASSUME IInv, KillTest \/ KillSend PROVE Rest'
  OBVIOUS
<1> USE DEF IInv, Rest
<1>1. /\ pc \in {"kill", "send"} /\ pc' \in {"kill", "send", "wait"} /\ evs = {}
      /\ UNCHANGED <<evs, pid, pipe, moved, child_pids, pstate, of, lost, replaced>>
  BY DEF KillTest, KillSend, NextChild, EvsInv, procVars, pipeVars
<1>2. Running' = Running
      /\ \A p \in Running : /\ of[p] \in Worker
                            /\ p \in replaced \/ (child_pids[of[p]] = p /\ p # 0)
  BY <1>1, NoPidNoWorker DEF Running, KnownUntilDead
<1>3. KnownUntilDead' /\ PipeInv' /\ SpawnInv' /\ ForkInv' /\ EvsInv' /\ LostInv'
  BY <1>1, <1>2
     DEF KnownUntilDead, PipeInv, SpawnInv, ForkInv, EvsInv, LostInv, InHand, MovedBefore
<1>4. told \subseteq told' /\ \A p : Deaf(p)' = Deaf(p)
  BY <1>1 DEF KillTest, KillSend, procVars, Deaf
<1>5. /\ \A p \in Running : p \in told \/ Deaf(p) \/ of[p] >= idx
      /\ \A p \in replaced : of[p] \in Worker /\ (p \in told \/ Deaf(p))
  BY <1>1 DEF ToldInv
<1>6. \A p \in replaced' : of'[p] \in Worker /\ (p \in told' \/ Deaf(p)')
  BY <1>1, <1>4, <1>5
<1>7. CASE pc' = "send"
  <2>1. idx' = idx
    BY <1>7 DEF KillTest, KillSend, NextChild
  <2>2. \A p \in Running' : p \in told' \/ Deaf(p)' \/ of'[p] >= idx'
    BY <2>1, <1>1, <1>2, <1>4, <1>5
  <2> QED BY <1>3, <1>6, <1>7, <2>2 DEF ToldInv
<1>8. CASE NextChild
  <2>1. \A p \in Running : of[p] = idx => p \in told' \/ Deaf(p)
    <3> SUFFICES ASSUME NEW p \in Running, of[p] = idx, p \notin replaced PROVE p \in told'
      BY <1>4, <1>5
    <3>1. child_pids[idx] = p /\ p # 0
      BY <1>2
    <3>2. ~KillTest
      BY <1>8, <3>1 DEF KillTest, NextChild
    <3> QED BY <3>1, <3>2 DEF KillSend
  <2>2. \A p \in Running : p \in told' \/ Deaf(p) \/ (of[p] > idx /\ of[p] \in Worker)
    BY <1>2, <1>4, <1>5, <2>1 DEF TypeOK, Worker
  <2>3. CASE idx = NumWorkers
    <3>1. pc' = "wait"
      BY <1>8, <2>3 DEF NextChild
    <3>2. \A p \in Running : p \in told' \/ Deaf(p)
      BY <2>2, <2>3, SupervisorAssumption DEF Worker
    <3> QED BY <1>3, <1>6, <3>1, <3>2, <1>2, <1>4 DEF ToldInv
  <2>4. CASE idx # NumWorkers
    <3>1. pc' = "kill" /\ idx' = idx + 1
      BY <1>8, <2>4 DEF NextChild
    <3>2. \A p \in Running : p \in told' \/ Deaf(p) \/ of[p] >= idx + 1
      BY <2>2 DEF Worker, TypeOK
    <3>3. \A p \in Running' : p \in told' \/ Deaf(p)' \/ of'[p] >= idx'
      BY <3>1, <3>2, <1>1, <1>2, <1>4
    <3> QED BY <1>3, <1>6, <3>1, <3>3 DEF ToldInv
  <2> QED BY <2>3, <2>4
<1> QED BY <1>7, <1>8 DEF KillTest, KillSend

LEMMA ExitedRest == IInv /\ AllExited => Rest'
<1> SUFFICES ASSUME IInv, AllExited PROVE Rest'
  OBVIOUS
<1> USE DEF IInv, Rest
<1>1. /\ pc = "wait" /\ pc' = "done" /\ \A w \in Worker : child_pids[w] = 0
      /\ UNCHANGED <<idx, evs, pid, pipe, moved, child_pids, pstate, of, lost, told, replaced>>
  BY DEF AllExited, Goto, procVars, pipeVars
<1>2. Running \subseteq replaced
  BY <1>1, NoPidNoWorker
<1>3. Running' = Running
  BY <1>1 DEF Running
<1>4. KnownUntilDead' /\ PipeInv' /\ LostInv' /\ ToldInv'
  BY <1>1, <1>2, <1>3 DEF KnownUntilDead, PipeInv, LostInv, ToldInv, Deaf, InHand, MovedBefore
<1>5. SpawnInv' /\ ForkInv' /\ EvsInv'
  BY <1>1 DEF SpawnInv, ForkInv, EvsInv
<1> QED BY <1>4, <1>5

\* A handler moves the parent only from epoll_wait, and then to the test of stop.
LEMMA InterruptRest ==
    ASSUME IInv, Interrupt, pc # "done", UNCHANGED <<of, lost, told, replaced>>,
           Running' = Running,
           \A p \in Pid : pstate'[p] = "none" => pstate[p] = "none",
           \A p \in Running : child_pids[of[p]] = p => child_pids'[of[p]] = p
    PROVE  Rest'
<1> USE DEF IInv, Rest
<1>1. UNCHANGED <<idx, evs, pid, pipe, moved>> /\ pc' = IF pc = "poll" THEN "test" ELSE pc
  BY DEF Interrupt, pipeVars
<1>2. KnownUntilDead' /\ PipeInv' /\ LostInv'
  BY <1>1 DEF KnownUntilDead, PipeInv, LostInv, InHand, MovedBefore
<1>3. SpawnInv' /\ ForkInv' /\ ToldInv'
  BY <1>1 DEF SpawnInv, ForkInv, ToldInv, Deaf
<1>4. EvsInv'
  BY <1>1 DEF EvsInv, AliveStill, MovedBefore
<1> QED BY <1>2, <1>3, <1>4

LEMMA SignalRest == IInv /\ (SigTerm \/ SigHup \/ SigChld) => Rest'
<1> SUFFICES ASSUME IInv, SigTerm \/ SigHup \/ SigChld PROVE Rest'
  OBVIOUS
<1>1. CASE SigTerm \/ SigHup
  BY <1>1, InterruptRest DEF SigTerm, SigHup, procVars, Running
<1>2. CASE SigChld
  <2>1. Running' = Running /\ Running \cap Zombie = {}
        /\ \A p \in Pid : pstate'[p] = "none" => pstate[p] = "none"
    BY <1>2 DEF SigChld, Running, Zombie
  <2>2. \A p \in Running : of[p] \in Worker
    BY DEF IInv, KnownUntilDead
  <2>3. \A p \in Running : child_pids[of[p]] = p => child_pids'[of[p]] = p
    BY <1>2, <2>1, <2>2 DEF SigChld, Cleared
  <2> QED BY <1>2, <2>1, <2>3, InterruptRest DEF SigChld
<1> QED BY <1>1, <1>2

LEMMA ExitRest == ASSUME IInv, NEW p \in Pid, Exit(p) PROVE Rest'
<1> USE DEF IInv, Rest
<1>1. Running' \subseteq Running /\ \A q \in Pid : pstate'[q] = "none" => pstate[q] = "none"
  BY DEF TypeOK, Exit, Running
<1>2. UNCHANGED <<pc, idx, evs, pid, pipe, moved, child_pids, of, lost, told, replaced>>
  BY DEF Exit, pipeVars
<1>3. EvsInv'
  BY <1>1, <1>2 DEF EvsInv, AliveStill, MovedBefore
<1>4. KnownUntilDead' /\ PipeInv' /\ LostInv'
  BY <1>1, <1>2 DEF KnownUntilDead, PipeInv, LostInv, InHand, MovedBefore
<1>5. SpawnInv' /\ ForkInv' /\ ToldInv'
  BY <1>1, <1>2 DEF SpawnInv, ForkInv, ToldInv, Deaf
<1> QED BY <1>3, <1>4, <1>5

------------------------------------------------------------------------------
(* What was asked, and how often a worker is started *)

\* The flags say what was asked last, until the parent signals itself.
LEMMA AskNext == IInv /\ [Next]_vars => AskInv'
<1> SUFFICES ASSUME IInv, [Next]_vars PROVE AskInv'
  OBVIOUS
<1> USE DEF IInv, AskInv
<1>1. CASE Spawn \/ Store \/ Restore \/ EventsDone \/ StayInLoop \/ Sleep \/ Wake
  BY <1>1 DEF Spawn, Store, Restore, EventsDone, StayInLoop, Sleep, Wake, Goto
<1>2. CASE LeaveLoop \/ AllExited \/ KillTest \/ KillSend
  BY <1>2 DEF LeaveLoop, AllExited, KillTest, KillSend, NextChild, Goto
<1>3. ASSUME NEW w \in Worker, Hup(w) PROVE AskInv'
  BY <1>3 DEF Hup, GiveUp, Replace, ForkFails
<1>4. CASE SigTerm \/ SigHup \/ SigChld
  BY <1>4 DEF SigTerm, SigHup, SigChld, Interrupt
<1>5. ASSUME NEW p \in Pid, Exit(p) PROVE AskInv'
  BY <1>5 DEF Exit
<1>6. CASE UNCHANGED vars
  BY <1>6 DEF vars
<1> QED
  BY <1>1, <1>2, <1>3, <1>4, <1>5, <1>6 DEF Next, Parent, Administrator, WakeHup, Traffic

\* A worker's processes are finitely many.
LEMMA PidsFinite ==
    ASSUME NEW S \in SUBSET Pid
    PROVE  IsFiniteSet(S) /\ Cardinality(S) \in Nat
<1>1. IsFiniteSet(Pid)
  BY FS_Interval, SupervisorAssumption DEF Pid
<1> QED BY <1>1, FS_Subset, FS_CardinalityType

\* A fork adds one process to one worker.
LEMMA ForkCount ==
    ASSUME TypeOK, NEW w \in Worker, NEW T, Fork(w, T), NEW v \in Worker
    PROVE  /\ Cardinality(Started(v)) \in Nat /\ Cardinality(Started(v))' \in Nat
           /\ Cardinality(Started(v))' <= Cardinality(Started(v)) + 1
           /\ v # w => Cardinality(Started(v))' <= Cardinality(Started(v))
<1>1. PICK q \in Pid : of' = [of EXCEPT ![q] = w]
  BY DEF Fork
<1>2. Started(v)' \subseteq Started(v) \cup {q} /\ (v # w => Started(v)' \subseteq Started(v))
  BY <1>1 DEF TypeOK, Started
<1>3. /\ Started(v) \in SUBSET Pid /\ Started(v)' \in SUBSET Pid
      /\ IsFiniteSet(Started(v)) /\ Cardinality(Started(v)) \in Nat
      /\ Cardinality(Started(v)') \in Nat
  BY PidsFinite DEF Started
<1>4. /\ IsFiniteSet(Started(v) \cup {q})
      /\ Cardinality(Started(v) \cup {q}) \in Nat
      /\ \/ Cardinality(Started(v) \cup {q}) = Cardinality(Started(v))
         \/ Cardinality(Started(v) \cup {q}) = Cardinality(Started(v)) + 1
  BY <1>3, FS_AddElement, FS_CardinalityType
<1>5. Cardinality(Started(v)') <= Cardinality(Started(v) \cup {q})
  BY <1>2, <1>4, FS_Subset
<1>6. v # w => Cardinality(Started(v)') <= Cardinality(Started(v))
  BY <1>2, <1>3, FS_Subset
<1> QED BY <1>3, <1>4, <1>5, <1>6

\* Nothing is started and no counter moves in the steps that neither fork nor
\* restart.
LEMMA CountSame ==
    ASSUME IInv, UNCHANGED <<of, restart_cnt, pipe>>,
           evs' \subseteq {w \in Worker : pipe[w] # 0},
           pc' \in {"spawn", "store"} => pc \in {"spawn", "store"},
           \A w \in Worker : MayRestart(w)' => MayRestart(w)
    PROVE  CountInv'
<1>1. \A w : Started(w)' = Started(w)
  BY DEF Started
<1> QED BY <1>1 DEF IInv, CountInv

LEMMA SpawnCount == IInv /\ Spawn => CountInv'
<1> SUFFICES ASSUME IInv, Spawn PROVE CountInv'
  OBVIOUS
<1> USE DEF IInv
<1>1. /\ idx \in Worker /\ Fork(idx, {}) /\ pc = "spawn" /\ pc' = "store"
      /\ UNCHANGED <<idx, evs, pipe, restart_cnt>>
  BY DEF Spawn, TypeOK, pipeVars
<1>2. \A w \in Worker : restart_cnt[w] = 0
  BY <1>1 DEF CountInv
<1>3. Started(idx) = {}
  BY <1>1 DEF SpawnInv, Started, TypeOK, Worker
<1>4. Cardinality(Started(idx)) = 0
  BY <1>3, FS_EmptySet
<1>5. ASSUME RestartLimit < CntMod, NEW w \in Worker
      PROVE  /\ Cardinality(Started(w))' <= RestartLimit + 1
             /\ MayRestart(w)' => Cardinality(Started(w))' <= 1
  <2>1. /\ Cardinality(Started(w)) \in Nat /\ Cardinality(Started(w))' \in Nat
        /\ Cardinality(Started(w))' <= Cardinality(Started(w)) + 1
        /\ w # idx => Cardinality(Started(w))' <= Cardinality(Started(w))
    BY <1>1, ForkCount
  <2>2. CASE w = idx
    BY <1>4, <2>1, <2>2, SupervisorAssumption
  <2>3. CASE w # idx
    <3>1. MayRestart(w)' => MayRestart(w)
      BY <1>1, <2>3 DEF MayRestart
    <3>2. /\ Cardinality(Started(w)) <= RestartLimit + 1
          /\ MayRestart(w) => Cardinality(Started(w)) <= 0 + 1
      BY <1>2, <1>5 DEF CountInv
    <3> QED BY <2>1, <2>3, <3>1, <3>2, SupervisorAssumption
  <2> QED BY <2>2, <2>3
<1> QED BY <1>1, <1>2, <1>5, SupervisorAssumption DEF CountInv

\* A pipe comes into epoll for the worker that was just forked.
LEMMA RegisterCount ==
    ASSUME IInv, Register(idx), pc \in {"store", "restore"},
           UNCHANGED <<of, restart_cnt>>, evs' \subseteq evs \cup {idx},
           pc' \notin {"store", "restore"},
           pc' = "spawn" => pc = "store"
    PROVE  CountInv'
<1> USE DEF IInv
<1>1. \A w : Started(w)' = Started(w)
  BY DEF Started
<1>2. \A w \in Worker : MayRestart(w)' => MayRestart(w)
  BY DEF Register, MayRestart, TypeOK
<1>3. \A w \in evs' : pipe'[w] # 0
  BY DEF Register, CountInv, ForkInv, TypeOK
<1> QED BY <1>1, <1>2, <1>3 DEF CountInv

\* A hang-up takes one restart of the worker's; past the limit the pipe is gone
\* from epoll and never comes back, so the counter may wrap.
LEMMA HupCount == ASSUME IInv, NEW w \in Worker, Hup(w) PROVE CountInv'
<1> USE DEF IInv
<1>1. /\ pc = "events" /\ w \in evs /\ evs' = evs \ {w} /\ pc' \in {"events", "restore"}
      /\ pipe' = [pipe EXCEPT ![w] = 0]
      /\ restart_cnt' = [restart_cnt EXCEPT ![w] = (@ + 1) % CntMod]
  BY DEF Hup, GiveUp, Replace, ForkFails
<1>2. \A v \in evs' : pipe'[v] # 0
  BY <1>1 DEF CountInv, TypeOK
<1>3. ASSUME RestartLimit < CntMod, NEW v \in Worker, v # w
      PROVE  /\ Cardinality(Started(v))' <= RestartLimit + 1
             /\ MayRestart(v)' => /\ restart_cnt'[v] <= RestartLimit
                                  /\ Cardinality(Started(v))' <= restart_cnt'[v] + 1
  <2>1. /\ Cardinality(Started(v)) \in Nat /\ Cardinality(Started(v))' \in Nat
        /\ Cardinality(Started(v))' <= Cardinality(Started(v))
    <3>1. CASE Replace(w)
      BY <1>3, <3>1, ForkCount DEF Replace
    <3>2. CASE UNCHANGED of
      <4>1. Started(v)' = Started(v) /\ Started(v) \in SUBSET Pid
        BY <3>2 DEF Started
      <4>2. Cardinality(Started(v)) \in Nat
        BY <4>1, PidsFinite
      <4> QED BY <4>1, <4>2
    <3> QED BY <3>1, <3>2 DEF Hup, GiveUp, ForkFails, procVars
  <2>2. restart_cnt'[v] = restart_cnt[v] /\ restart_cnt[v] \in Int
    BY <1>1, <1>3 DEF TypeOK
  <2>3. MayRestart(v)' => MayRestart(v)
    BY <1>1, <1>3 DEF Hup, GiveUp, Replace, ForkFails, MayRestart, TypeOK
  <2> QED BY <1>3, <2>1, <2>2, <2>3, SupervisorAssumption DEF CountInv
<1>4. ASSUME RestartLimit < CntMod
      PROVE  /\ Cardinality(Started(w))' <= RestartLimit + 1
             /\ MayRestart(w)' => /\ restart_cnt'[w] <= RestartLimit
                                  /\ Cardinality(Started(w))' <= restart_cnt'[w] + 1
  <2>1. /\ restart_cnt[w] \in 0..CntMod-1 /\ restart_cnt[w] <= RestartLimit
        /\ Cardinality(Started(w)) <= restart_cnt[w] + 1
    <3>1. MayRestart(w)
      BY <1>1 DEF CountInv, MayRestart
    <3> QED BY <1>4, <3>1 DEF CountInv, TypeOK
  <2>2. CASE Replace(w)
    <3>1. /\ Cardinality(Started(w)) \in Nat /\ Cardinality(Started(w))' \in Nat
          /\ Cardinality(Started(w))' <= Cardinality(Started(w)) + 1
      BY <2>2, ForkCount DEF Replace
    <3>2. restart_cnt[w] < RestartLimit
      BY <2>2 DEF Replace, WithinLimit
    <3>3. restart_cnt'[w] = (restart_cnt[w] + 1) % CntMod
      BY <1>1 DEF TypeOK
    <3>4. restart_cnt'[w] = restart_cnt[w] + 1
      BY <1>4, <2>1, <3>2, <3>3, SupervisorAssumption
    <3> QED BY <2>1, <3>1, <3>2, <3>4, SupervisorAssumption
  <2>3. CASE GiveUp(w) \/ ForkFails(w)
    <3>0. UNCHANGED <<pc, of>>
      BY <2>3 DEF GiveUp, ForkFails, procVars
    <3>1. Started(w)' = Started(w)
      BY <3>0 DEF Started
    <3>2. Cardinality(Started(w)) \in Nat
      BY PidsFinite DEF Started
    <3>3. ~MayRestart(w)'
      BY <1>1, <3>0 DEF MayRestart, TypeOK
    <3> QED BY <2>1, <3>1, <3>2, <3>3, SupervisorAssumption
  <2> QED BY <2>2, <2>3 DEF Hup
<1> QED BY <1>1, <1>2, <1>3, <1>4 DEF CountInv

LEMMA CountNext == IInv /\ [Next]_vars => CountInv'
<1> SUFFICES ASSUME IInv, [Next]_vars PROVE CountInv'
  OBVIOUS
<1>1. CASE Spawn
  BY <1>1, SpawnCount
<1>2. CASE Store \/ Restore
  BY <1>2, RegisterCount DEF Store, Restore, procVars
<1>3. ASSUME NEW w \in Worker, Hup(w) PROVE CountInv'
  BY <1>3, HupCount
<1>4. CASE Wake
  <2>1. evs' \subseteq {w \in Worker : pipe[w] # 0}
    BY <1>4 DEF Wake, HungUp, SeemsDead, Running, Pid
  <2> QED BY <1>4, <2>1, CountSame DEF Wake, Goto, procVars, pipeVars, MayRestart
<1>5. CASE LeaveLoop \/ StayInLoop \/ Sleep \/ EventsDone \/ AllExited
           \/ KillTest \/ KillSend \/ SigTerm \/ SigHup \/ SigChld
           \/ (\E p \in Pid : Exit(p)) \/ UNCHANGED vars
  <2>1. UNCHANGED <<of, restart_cnt, pipe, evs>>
    BY <1>5 DEF LeaveLoop, StayInLoop, Sleep, EventsDone, AllExited, KillTest, KillSend,
                Goto, SigTerm, SigHup, SigChld, Interrupt, Exit, procVars, pipeVars, vars
  <2>2. pc' \in {"spawn", "store", "restore"} => pc' = pc /\ idx' = idx
    BY <1>5 DEF LeaveLoop, StayInLoop, Sleep, EventsDone, AllExited, KillTest, KillSend,
                NextChild, Goto, SigTerm, SigHup, SigChld, Interrupt, Exit, vars
  <2>3. evs' \subseteq {w \in Worker : pipe[w] # 0}
    BY <2>1 DEF IInv, CountInv, TypeOK
  <2>4. \A w \in Worker : MayRestart(w)' => MayRestart(w)
    BY <2>1, <2>2 DEF MayRestart
  <2> QED BY <2>1, <2>2, <2>3, <2>4, CountSame
<1> QED
  BY <1>1, <1>2, <1>3, <1>4, <1>5 DEF Next, Parent, Administrator, WakeHup, Traffic

LEMMA IInvNext == IInv /\ [Next]_vars => IInv'
<1> SUFFICES ASSUME IInv, [Next]_vars PROVE IInv'
  OBVIOUS
<1>1. TypeOK'
  BY TypeNext DEF IInv
<1>3. AskInv' /\ CountInv'
  BY AskNext, CountNext
<1>2. Rest'
  <2>1. CASE Parent
    BY <2>1, SpawnRest, StoreRest, LoopRest, WakeRest, HupRest, KillRest, ExitedRest
       DEF Parent, WakeHup
  <2>2. CASE Traffic
    BY <2>2, WakeRest DEF Traffic
  <2>3. CASE Administrator \/ SigChld
    BY <2>3, SignalRest DEF Administrator
  <2>4. CASE \E p \in Pid : Exit(p)
    BY <2>4, ExitRest
  <2>5. CASE UNCHANGED vars
    BY <2>5 DEF vars, procVars, pipeVars, IInv, Rest, KnownUntilDead, SpawnInv, ForkInv,
                PipeInv, EvsInv, LostInv, ToldInv, InHand, Running, AliveStill, Deaf, MovedBefore
  <2> QED BY <2>1, <2>2, <2>3, <2>4, <2>5 DEF Next
<1> QED BY <1>1, <1>2, <1>3 DEF IInv, Rest

------------------------------------------------------------------------------
(* Theorems *)

\* The invariant holds in every reachable state, those included where a living
\* worker's pipe has hung up or an old event seems one of its pipe: main,
\* restart_child_process, killall_children and the handlers of daemon.c keep it.
THEOREM SupervisorInvariance == Spec => []IInv
BY InitIInv, IInvNext, PTL DEF Spec

\* Every table keeps its type.
THEOREM SupervisorTypeCorrect == Spec => []TypeOK
<1>1. IInv => TypeOK
  BY DEF IInv
<1> QED BY <1>1, SupervisorInvariance, PTL

\* A living worker leaves child_pids only when another is started in its place,
\* and that only if the pipe of a different worker was closed before: not by
\* SIGCHLD, wherever it comes, nor by the store of another worker's pid
\* (service.c:257; daemon.c:78-98).
THEOREM WorkerNeverForgotten == Spec => []KnownUntilDead
<1>1. IInv => KnownUntilDead
  BY DEF IInv
<1> QED BY <1>1, SupervisorInvariance, PTL

\* killall_children has told every worker that lives when it begins to wait, the
\* replaced ones by the pipe their restart closed, but for those that had closed
\* their own end of it.
THEOREM EveryWorkerTold == Spec => []AllTold
<1>1. IInv => AllTold
  BY DEF IInv, ToldInv, AllTold
<1> QED BY <1>1, SupervisorInvariance, PTL

\* The parent ends before none of its workers but those replaced alive
\* (daemon.c:281).
THEOREM NoWorkerLeft == Spec => []NoneLeft
<1>1. IInv => NoneLeft
  BY DEF IInv, ToldInv, NoneLeft
<1> QED BY <1>1, SupervisorInvariance, PTL

\* With one worker, a server of one bind entry, none is replaced alive, whatever
\* the constants say of the numbers, so that none at all is left at the end.
THEOREM SingleWorkerExits == NumWorkers = 1 => (Spec => []AllChildrenExited)
<1> SUFFICES ASSUME NumWorkers = 1 PROVE Spec => []AllChildrenExited
  OBVIOUS
<1>1. IInv => AllChildrenExited
  <2> SUFFICES ASSUME IInv, pc = "done", NEW p \in Running PROVE FALSE
    BY DEF AllChildrenExited
  <2>1. p \in replaced
    BY DEF IInv, ToldInv
  <2>2. of[p] \in Worker /\ MovedBefore(of[p])
    BY <2>1 DEF IInv, KnownUntilDead
  <2> QED BY <2>2 DEF IInv, TypeOK, MovedBefore, Worker
<1> QED BY <1>1, SupervisorInvariance, PTL

\* No worker is started more often than once and child_restart_limit times again,
\* as long as the counter's type can hold the limit, and the parent ends or
\* executes itself anew exactly as it was asked last (net.c:703; daemon.c:58-76).
THEOREM RestartsBounded == Spec => []RestartsKept
<1>1. IInv => RestartsCapped
  BY DEF IInv, CountInv, RestartsCapped
<1>2. IInv => RestartAsAsked
  BY DEF IInv, AskInv, RestartAsAsked
<1>3. IInv => RestartsKept
  BY <1>1, <1>2 DEF RestartsKept
<1> QED BY <1>3, SupervisorInvariance, PTL
===============================================================================
