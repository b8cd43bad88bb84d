------------------------------ MODULE PartsProofs ------------------------------
(***************************************************************************)
(* Proofs about the modules of the run parts that have no process in       *)
(* common: plugins, the end of a worker, descriptors, directories, a       *)
(* stream's bytes, the log, the configuration files and the process title, *)
(* one after another.                                                      *)
(***************************************************************************)
EXTENDS PluginReload, WorkerEnd, TcpOpen, MakeDirs, TcpStream, LogFiles, ConfigFiles,
        ProcTitle, SequenceTheorems, FiniteSetTheorems, WellFoundedInduction, TLAPS

------------------------------------------------------------------------------
(* Numbers.                                                                 *)

\* A set of natural numbers that is not empty has a least element.
LEMMA LeastThere ==
    ASSUME NEW S, S \subseteq Nat, S # {}
    PROVE  \E x \in S : \A y \in S : x <= y
<1> DEFINE R == OpToRel(<, Nat)
<1>1. \E x \in S : \A y \in S : ~ (<<y, x>> \in R)
  BY WFMin, NatLessThanWellFounded, Zenon
<1>2. \A x, y \in Nat : x < y => <<x, y>> \in R
  BY DEF OpToRel
<1> HIDE DEF R
<1>3. PICK x \in S : \A y \in S : ~ (<<y, x>> \in R)
  BY <1>1
<1>4. \A y \in S : ~(y < x)
  BY <1>2, <1>3
<1>5. \A y \in S : x <= y
  BY <1>4
<1> QED BY <1>5

\* ... and, if it is bounded, a greatest.
LEMMA GreatestThere ==
    ASSUME NEW S, NEW n \in Nat, S \subseteq 0..n, S # {}
    PROVE  \E x \in S : \A y \in S : y <= x
<1> DEFINE T == {n - x : x \in S}
<1>1. T \subseteq Nat /\ T # {}
  <2>1. \A x \in 0..n : n - x \in Nat
    OBVIOUS
  <2>2. PICK x \in S : TRUE
    OBVIOUS
  <2>3. n - x \in T
    OBVIOUS
  <2> QED BY <2>1, <2>3
<1>2. PICK z \in T : \A y \in T : z <= y
  <2> HIDE DEF T
  <2> QED BY <1>1, LeastThere
<1>3. PICK x \in S : z = n - x
  OBVIOUS
<1>4. \A y \in S : n - x <= n - y
  BY <1>2, <1>3
<1>5. \A y \in S : y <= x
  <2> SUFFICES ASSUME NEW y \in S PROVE y <= x
    OBVIOUS
  <2>1. x \in 0..n /\ y \in 0..n
    OBVIOUS
  <2>2. n - x <= n - y
    BY <1>4
  <2> QED BY ONLY <2>1, <2>2, n \in Nat
<1> QED BY <1>5

-----------------------------------------------------------------------------
(* PluginReload.                                                           *)

PlugInv == PlugTypeOK /\ NeverWithoutPlugin

LEMMA PlugFacts ==
    /\ Parent \in Procs /\ BindEntries \subseteq Procs /\ BootSo \in Sos \ Incomplete
    /\ MaxRequests \in Nat /\ MaxForks \in Nat /\ "none" \in Sos \cup {"none"}
BY PluginAssumption DEF Procs

\* The datagram a process comes to, and those behind it.
LEMMA MailFacts ==
    ASSUME PlugTypeOK, NEW p \in Procs, Next1(p)
    PROVE  Head(mail[p]) \in Requests /\ Tail(mail[p]) \in Seq(Requests)
BY HeadTailProperties DEF PlugTypeOK, Next1

LEMMA PlugInitHolds == PlugInit => PlugInv
<1> SUFFICES ASSUME PlugInit PROVE PlugInv
  OBVIOUS
<1>1. PlugTypeOK
  BY PlugFacts, EmptySeq DEF PlugInit, PlugTypeOK
<1>2. NeverWithoutPlugin
  BY PlugFacts DEF PlugInit, NeverWithoutPlugin
<1> QED
  BY <1>1, <1>2 DEF PlugInv

\* A process that ends, whatever made it.
LEMMA ExitKeeps ==
    ASSUME PlugInv, NEW p \in Procs, Exited(p), UNCHANGED <<requests, forks, latest, apart>>
    PROVE  PlugInv'
<1>1. /\ state' = [state EXCEPT ![p] = "down"] /\ handle' = [handle EXCEPT ![p] = "none"]
      /\ mail' = [mail EXCEPT ![p] = <<>>] /\ UNCHANGED <<requests, forks, latest, apart>>
  BY DEF Exited
<1>2. state' \in [Procs -> {"down", "forked", "joined"}] /\ handle' \in [Procs -> Sos \cup {"none"}]
  BY <1>1 DEF PlugInv, PlugTypeOK
<1>3. /\ mail' \in [Procs -> Seq(Requests)]
      /\ \A k \in Procs : mail'[k] # <<>> => state'[k] = "joined"
  BY <1>1, EmptySeq DEF PlugInv, PlugTypeOK
<1>4. NeverWithoutPlugin'
  BY <1>1 DEF PlugInv, PlugTypeOK, NeverWithoutPlugin
<1> QED
  BY <1>1, <1>2, <1>3, <1>4 DEF PlugInv, PlugTypeOK

LEMMA PlugStep ==
    ASSUME PlugInv, [PlugNext]_plugvars
    PROVE  PlugInv'
<1>0. PlugTypeOK /\ NeverWithoutPlugin
  BY DEF PlugInv
<1>1. ASSUME NEW p \in Procs, Join(p) PROVE PlugInv'
  BY <1>0, <1>1 DEF Join, PlugInv, PlugTypeOK, NeverWithoutPlugin
<1>2. ASSUME NEW p \in Procs, NotMine(p) PROVE PlugInv'
  <2>1. Tail(mail[p]) \in Seq(Requests) /\ state[p] = "joined"
    BY <1>0, <1>2, MailFacts DEF NotMine, Next1
  <2>2. /\ mail' \in [Procs -> Seq(Requests)]
        /\ \A k \in Procs : mail'[k] # <<>> => state[k] = "joined"
    BY <1>0, <1>2, <2>1 DEF NotMine, Handled, PlugTypeOK
  <2> QED
    BY <1>0, <1>2, <2>2 DEF NotMine, PlugInv, PlugTypeOK, NeverWithoutPlugin
<1>3. ASSUME NEW p \in Procs, PluginRefuses(p) PROVE PlugInv'
  BY <1>3, ExitKeeps DEF PluginRefuses
<1>4. ASSUME NEW p \in Procs, Reload(p) PROVE PlugInv'
  <2> DEFINE so == Head(mail[p]).new_so_name
  <2>1. Tail(mail[p]) \in Seq(Requests) /\ so \in Sos /\ state[p] = "joined"
    BY <1>0, <1>4, MailFacts DEF Reload, Next1, Requests
  <2>2. CASE so \in Incomplete
    BY <1>4, <2>2, ExitKeeps DEF Reload, RegisterFailed
  <2>3. CASE so \notin Incomplete
    <3>1. /\ handle' = [handle EXCEPT ![p] = so] /\ mail' = [mail EXCEPT ![p] = Tail(@)]
          /\ UNCHANGED <<state, requests, forks, latest, apart>>
      BY <1>4, <2>3 DEF Reload, Handled
    <3> HIDE DEF so
    <3>2. /\ mail' \in [Procs -> Seq(Requests)]
          /\ \A k \in Procs : mail'[k] # <<>> => state[k] = "joined"
      BY <1>0, <2>1, <3>1 DEF PlugTypeOK
    <3>3. handle' \in [Procs -> Sos \cup {"none"}]
      BY <1>0, <2>1, <3>1 DEF PlugTypeOK
    <3>4. NeverWithoutPlugin'
      BY <1>0, <2>1, <2>3, <3>1 DEF PlugTypeOK, NeverWithoutPlugin
    <3> QED
      BY <1>0, <3>1, <3>2, <3>3, <3>4 DEF PlugInv, PlugTypeOK
  <2> QED
    BY <2>2, <2>3
<1>5. ASSUME NEW m \in Requests, NEW receivers \in SUBSET InState("joined"), Notify(m, receivers)
      PROVE  PlugInv'
  <2>1. /\ mail' \in [Procs -> Seq(Requests)]
        /\ \A k \in Procs : mail'[k] # <<>> => state[k] = "joined"
    <3>1. mail' = [p \in Procs |-> IF p \in receivers THEN Append(mail[p], m) ELSE mail[p]]
      BY <1>5 DEF Notify
    <3>2. \A p \in Procs : Append(mail[p], m) \in Seq(Requests)
      BY <1>0, AppendProperties DEF PlugTypeOK
    <3>3. \A p \in receivers : state[p] = "joined"
      BY DEF InState
    <3> QED
      BY <1>0, <3>1, <3>2, <3>3 DEF PlugTypeOK
  <2>2. latest' \in Sos /\ apart' \subseteq Procs
    <3>1. m.new_so_name \in Sos
      BY DEF Requests
    <3>2. {w \in BindEntries : OnlineId[w] = m.svr_id} \subseteq Procs
      BY PlugFacts
    <3> QED
      BY <1>0, <1>5, <3>1, <3>2 DEF Notify, PlugTypeOK
  <2>3. requests' \in 0..MaxRequests
    BY <1>0, <1>5, PlugFacts DEF Notify, PlugTypeOK
  <2> QED
    BY <1>0, <1>5, <2>1, <2>2, <2>3 DEF Notify, PlugInv, PlugTypeOK, NeverWithoutPlugin
<1>6. ASSUME NEW w \in BindEntries, Crash(w) \/ Orphaned(w) PROVE PlugInv'
  BY <1>6, PlugFacts, ExitKeeps DEF Crash, Orphaned
<1>7. ASSUME NEW w \in BindEntries, ForkAgain(w) PROVE PlugInv'
  <2>0. w \in Procs /\ Parent \in Procs /\ w # Parent
    BY PluginAssumption, PlugFacts
  <2>1. /\ state' = [state EXCEPT ![w] = "forked"] /\ handle' = [handle EXCEPT ![w] = handle[Parent]]
        /\ mail' = [mail EXCEPT ![w] = <<>>] /\ state[Parent] = "joined"
        /\ UNCHANGED <<requests, latest>>
    BY <1>7 DEF ForkAgain, MailOfChild
  <2>2. state' \in [Procs -> {"down", "forked", "joined"}] /\ handle' \in [Procs -> Sos \cup {"none"}]
    BY <1>0, <2>0, <2>1 DEF PlugTypeOK
  <2>3. /\ mail' \in [Procs -> Seq(Requests)]
        /\ \A k \in Procs : mail'[k] # <<>> => state'[k] = "joined"
    BY <1>0, <2>0, <2>1, EmptySeq DEF PlugTypeOK
  <2>4. forks' \in 0..MaxForks /\ apart' \subseteq Procs
    BY <1>0, <1>7, <2>0, PlugFacts DEF ForkAgain, PlugTypeOK
  <2>5. NeverWithoutPlugin'
    BY <1>0, <2>0, <2>1 DEF PlugTypeOK, NeverWithoutPlugin
  <2> QED
    BY <1>0, <2>1, <2>2, <2>3, <2>4, <2>5 DEF PlugInv, PlugTypeOK
<1>8. CASE UNCHANGED plugvars
  BY <1>0, <1>8 DEF plugvars, PlugInv, PlugTypeOK, NeverWithoutPlugin
<1> QED
  BY <1>1, <1>2, <1>3, <1>4, <1>5, <1>6, <1>7, <1>8 DEF PlugNext

------------------------------------------------------------------------------
\* Sockets hold datagrams only while they are open, and every plugin is a file
\* that was asked for (dll.c:42-78).
THEOREM PluginTypeCorrect == PlugSpec => []PlugTypeOK
<1>1. PlugInit => PlugInv
  BY PlugInitHolds
<1>2. PlugInv /\ [PlugNext]_plugvars => PlugInv'
  BY PlugStep
<1>3. PlugInv => PlugTypeOK
  BY DEF PlugInv
<1> QED
  BY <1>1, <1>2, <1>3, PTL DEF PlugSpec

\* No process that runs is without a complete plugin, for any number of workers,
\* reloads, failures and restarts (dll.c:42-78, mcast.c:284-295).
THEOREM PluginAlwaysThere == PlugSpec => []NeverWithoutPlugin
<1>1. PlugInit => PlugInv
  BY PlugInitHolds
<1>2. PlugInv /\ [PlugNext]_plugvars => PlugInv'
  BY PlugStep
<1>3. PlugInv => NeverWithoutPlugin
  BY DEF PlugInv
<1> QED
  BY <1>1, <1>2, <1>3, PTL DEF PlugSpec

------------------------------------------------------------------------------
(* What a process comes to.                                                *)

\* What makes it inductive: of the datagrams q a process with plugin h has yet to
\* come to, the last that is for it asks for the plugin so; or it has that.
ComesTo(p, q, h, so) ==
    /\ \A i \in DOMAIN q :
          Mine(p, q[i]) /\ (\A j \in DOMAIN q : j > i => ~Mine(p, q[j])) => q[i].new_so_name = so
    /\ (\A i \in DOMAIN q : ~Mine(p, q[i])) => h = so

LatestInv ==
    \A p \in Named :
        state[p] # "down" /\ p \notin apart => ComesTo(p, mail[p], handle[p], latest)

\* A datagram that is taken: of the rest the same one is last; if it was the last
\* one for the process, it has what that one asked for.
LEMMA ComesToTail ==
    ASSUME NEW p, NEW q \in Seq(Requests), q # <<>>, NEW h, NEW so, ComesTo(p, q, h, so)
    PROVE  /\ ~Mine(p, Head(q)) => ComesTo(p, Tail(q), h, so)
           /\ Mine(p, Head(q)) => ComesTo(p, Tail(q), Head(q).new_so_name, so)
<1>1. PICK n \in Nat : n + 1 = Len(q) /\ Len(Tail(q)) = n
  BY HeadTailProperties, LenProperties, EmptySeq
<1>2. /\ DOMAIN q = 1..n+1 /\ DOMAIN Tail(q) = 1..n /\ Head(q) = q[1]
      /\ \A i \in 1..n : Tail(q)[i] = q[i + 1]
  BY <1>1, HeadTailProperties, LenProperties
<1> DEFINE r == Tail(q)
<1>3. /\ DOMAIN r = 1..n /\ \A i \in 1..n : r[i] = q[i + 1]
  BY <1>2
<1> HIDE DEF r
<1>4. ASSUME NEW i \in 1..n, Mine(p, r[i]), \A j \in 1..n : j > i => ~Mine(p, r[j])
      PROVE  r[i].new_so_name = so
  <2>1. i + 1 \in 1..n+1 /\ Mine(p, q[i + 1]) /\ r[i] = q[i + 1]
    BY <1>3, <1>4
  <2>2. \A j \in 1..n+1 : j > i + 1 => ~Mine(p, q[j])
    <3> SUFFICES ASSUME NEW j \in 1..n+1, j > i + 1 PROVE ~Mine(p, q[j])
      OBVIOUS
    <3>1. j - 1 \in 1..n /\ j - 1 > i /\ (j - 1) + 1 = j
      OBVIOUS
    <3> QED BY <3>1, <1>3, <1>4
  <2> QED BY <2>1, <2>2, <1>2 DEF ComesTo
<1>5. ASSUME \A i \in 1..n : ~Mine(p, r[i])
      PROVE  \A j \in 1..n+1 : j > 1 => ~Mine(p, q[j])
  <2> SUFFICES ASSUME NEW j \in 1..n+1, j > 1 PROVE ~Mine(p, q[j])
    OBVIOUS
  <2>1. j - 1 \in 1..n /\ (j - 1) + 1 = j
    OBVIOUS
  <2> QED BY <2>1, <1>3, <1>5
<1>6. 1 \in 1..n+1
  BY <1>1
<1>7. CASE Mine(p, Head(q))
  <2>1. (\A i \in 1..n : ~Mine(p, r[i])) => Head(q).new_so_name = so
    BY <1>2, <1>5, <1>6, <1>7 DEF ComesTo
  <2> QED BY <1>3, <1>4, <1>7, <2>1 DEF ComesTo, r
<1>8. CASE ~Mine(p, Head(q))
  <2>1. ASSUME \A i \in 1..n : ~Mine(p, r[i]) PROVE h = so
    <3>1. \A j \in 1..n+1 : ~Mine(p, q[j])
      <4> SUFFICES ASSUME NEW j \in 1..n+1 PROVE ~Mine(p, q[j])
        OBVIOUS
      <4>1. j = 1 \/ j > 1
        OBVIOUS
      <4> QED BY <4>1, <1>2, <1>5, <1>8, <2>1
    <3> QED BY <3>1, <1>2 DEF ComesTo
  <2> QED BY <1>3, <1>4, <1>8, <2>1 DEF ComesTo, r
<1> QED BY <1>7, <1>8

\* A datagram that comes: for the process, it is the last one; else nothing changes.
LEMMA ComesToAppend ==
    ASSUME NEW p, NEW q \in Seq(Requests), NEW m \in Requests, NEW h, NEW so
    PROVE  /\ Mine(p, m) => ComesTo(p, Append(q, m), h, m.new_so_name)
           /\ ~Mine(p, m) /\ ComesTo(p, q, h, so) => ComesTo(p, Append(q, m), h, so)
<1> DEFINE r == Append(q, m)
<1>1. PICK n \in Nat : Len(q) = n
  BY LenProperties
<1>2. /\ DOMAIN q = 1..n /\ DOMAIN r = 1..n+1 /\ r[n + 1] = m
      /\ \A i \in 1..n : r[i] = q[i]
  BY <1>1, AppendProperties, LenProperties
<1> HIDE DEF r
<1>3. n + 1 \in 1..n+1 /\ \A i \in 1..n : i \in 1..n+1 /\ n + 1 > i
  BY <1>1
<1>4. \A i \in 1..n+1 : i = n + 1 \/ i \in 1..n
  BY <1>1
<1>5. CASE Mine(p, m)
  BY <1>2, <1>3, <1>4, <1>5 DEF ComesTo, r
<1>6. CASE ~Mine(p, m) /\ ComesTo(p, q, h, so)
  <2>1. ASSUME NEW i \in 1..n+1, Mine(p, r[i]), \A j \in 1..n+1 : j > i => ~Mine(p, r[j])
        PROVE  r[i].new_so_name = so
    <3>1. i \in 1..n /\ r[i] = q[i]
      BY <1>2, <1>4, <1>6, <2>1
    <3>2. \A j \in 1..n : j > i => ~Mine(p, q[j])
      BY <1>2, <1>3, <2>1
    <3> QED BY <1>2, <1>6, <2>1, <3>1, <3>2 DEF ComesTo
  <2>2. (\A i \in 1..n+1 : ~Mine(p, r[i])) => h = so
    BY <1>2, <1>3, <1>6 DEF ComesTo
  <2> QED BY <1>2, <1>6, <2>1, <2>2 DEF ComesTo, r
<1> QED BY <1>5, <1>6

------------------------------------------------------------------------------
(* The plugin asked for last.                                              *)

LEMMA NamedFacts == Parent \in Named /\ Named \subseteq Procs
BY PlugFacts DEF Named

\* The request all the workers of the first name were sent is for each of them.
LEMMA ForAllIsMine ==
    ASSUME NEW p \in Named, NEW m \in Requests
    PROVE  /\ ForFirst(m) /\ ForAll(m) => Mine(p, m)
           /\ ~ForFirst(m) => ~Mine(p, m)
           /\ ~ForAll(m) /\ Mine(p, m) => p \in {w \in BindEntries : OnlineId[w] = m.svr_id}
BY PluginAssumption DEF Named, Mine, ForFirst, ForAll

LEMMA LatestNotify ==
    ASSUME PlugTypeOK, LatestInv,
           NEW m \in Requests, NEW receivers \in SUBSET InState("joined"), Notify(m, receivers)
    PROVE  LatestInv'
<1> SUFFICES ASSUME NEW p \in Named, state'[p] # "down", p \notin apart'
             PROVE  ComesTo(p, mail'[p], handle'[p], latest')
  BY DEF LatestInv
<1>1. /\ state' = state /\ handle' = handle
      /\ p \in receivers => mail'[p] = Append(mail[p], m)
      /\ p \notin receivers => mail'[p] = mail[p]
  BY NamedFacts DEF Notify
<1>2. mail[p] \in Seq(Requests) /\ p \in Procs
  BY NamedFacts DEF PlugTypeOK
<1>3. CASE ForFirst(m) /\ ForAll(m)
  <2>1. latest' = m.new_so_name /\ p \in receivers
    BY <1>2, <1>3 DEF Notify
  <2>2. Mine(p, m)
    BY <1>3, ForAllIsMine
  <2> QED BY <1>1, <1>2, <2>1, <2>2, ComesToAppend
<1>4. CASE ~(ForFirst(m) /\ ForAll(m))
  <2>1. latest' = latest /\ p \notin apart /\ ~Mine(p, m)
    BY <1>4, ForAllIsMine DEF Notify
  <2>2. ComesTo(p, mail[p], handle[p], latest)
    BY <1>1, <2>1 DEF LatestInv
  <2> QED BY <1>1, <1>2, <2>1, <2>2, ComesToAppend
<1> QED BY <1>3, <1>4

\* A process that ends, or changes nothing of what it comes to.
LEMMA LatestExit ==
    ASSUME PlugTypeOK, LatestInv, NEW p \in Procs, Exited(p), UNCHANGED <<latest, apart>>
    PROVE  LatestInv'
<1>1. \A k \in Named : k # p => state'[k] = state[k] /\ mail'[k] = mail[k] /\ handle'[k] = handle[k]
  BY NamedFacts DEF Exited, PlugTypeOK
<1>2. state'[p] = "down"
  BY DEF Exited, PlugTypeOK
<1> QED BY <1>1, <1>2 DEF LatestInv

LEMMA LatestTaken ==
    ASSUME PlugTypeOK, LatestInv, NEW p \in Procs, Next1(p), UNCHANGED <<state, latest, apart>>,
           mail' = Handled(p),
           IF Mine(p, Head(mail[p]))
           THEN handle' = [handle EXCEPT ![p] = Head(mail[p]).new_so_name] ELSE UNCHANGED handle
    PROVE  LatestInv'
<1> SUFFICES ASSUME NEW k \in Named, state[k] # "down", k \notin apart
             PROVE  ComesTo(k, mail'[k], handle'[k], latest)
  BY DEF LatestInv
<1>1. ComesTo(k, mail[k], handle[k], latest) /\ k \in Procs
  BY NamedFacts DEF LatestInv
<1>2. CASE k = p
  <2>1. mail'[p] = Tail(mail[p]) /\ mail[p] \in Seq(Requests) /\ mail[p] # <<>>
    BY DEF Handled, PlugTypeOK, Next1
  <2>2. handle'[p] = IF Mine(p, Head(mail[p])) THEN Head(mail[p]).new_so_name ELSE handle[p]
    BY DEF PlugTypeOK
  <2> QED BY <1>1, <1>2, <2>1, <2>2, ComesToTail
<1>3. CASE k # p
  <2>1. mail'[k] = mail[k] /\ handle'[k] = handle[k]
    BY <1>1, <1>3 DEF Handled, PlugTypeOK
  <2> QED BY <1>1, <2>1
<1> QED BY <1>2, <1>3

\* The child has its parent's plugin: the latest, if the parent is not behind.
LEMMA LatestFork ==
    ASSUME PlugTypeOK, LatestInv, NEW w \in BindEntries, ForkAgain(w)
    PROVE  LatestInv'
<1>1. /\ state[Parent] = "joined" /\ latest' = latest
      /\ apart' = IF Behind THEN apart \cup {w} ELSE apart \ {w}
      /\ w \in Procs /\ mail'[w] = <<>> /\ handle'[w] = handle[Parent]
  BY PlugFacts DEF ForkAgain, MailOfChild, PlugTypeOK
<1>2. \A k \in Named : k # w => state'[k] = state[k] /\ mail'[k] = mail[k] /\ handle'[k] = handle[k]
  BY NamedFacts DEF ForkAgain, MailOfChild, PlugTypeOK
<1>3. ASSUME w \notin apart' PROVE handle[Parent] = latest
  <2>1. ~Behind
    BY <1>1, <1>3
  <2>2. ComesTo(Parent, mail[Parent], handle[Parent], latest)
    BY <1>1, <2>1, NamedFacts DEF Behind, LatestInv
  <2> QED BY <2>1, <2>2 DEF Behind, Awaits, ComesTo
<1>4. w \notin apart' => ComesTo(w, mail'[w], handle'[w], latest')
  BY <1>1, <1>3 DEF ComesTo
<1>5. \A k \in Named : k # w /\ k \notin apart' => k \notin apart
  BY <1>1
<1> QED BY <1>1, <1>2, <1>4, <1>5 DEF LatestInv

LEMMA LatestStep ==
    ASSUME PlugTypeOK, LatestInv, [PlugNext]_plugvars
    PROVE  LatestInv'
<1>1. ASSUME NEW p \in Procs, Join(p) PROVE LatestInv'
  <2>1. \A k \in Named : state'[k] # "down" => state[k] # "down"
    BY <1>1, NamedFacts DEF Join, PlugTypeOK
  <2> QED BY <1>1, <2>1 DEF Join, LatestInv
<1>2. ASSUME NEW p \in Procs, NotMine(p) PROVE LatestInv'
  BY <1>2, LatestTaken DEF NotMine
<1>3. ASSUME NEW p \in Procs, PluginRefuses(p) PROVE LatestInv'
  BY <1>3, LatestExit DEF PluginRefuses
<1>4. ASSUME NEW p \in Procs, Reload(p) PROVE LatestInv'
  <2>1. CASE Head(mail[p]).new_so_name \in Incomplete
    BY <1>4, <2>1, LatestExit DEF Reload, RegisterFailed
  <2>2. CASE Head(mail[p]).new_so_name \notin Incomplete
    BY <1>4, <2>2, LatestTaken DEF Reload
  <2> QED BY <2>1, <2>2
<1>5. ASSUME NEW m \in Requests, NEW receivers \in SUBSET InState("joined"), Notify(m, receivers)
      PROVE  LatestInv'
  BY <1>5, LatestNotify
<1>6. ASSUME NEW w \in BindEntries, Crash(w) \/ Orphaned(w) PROVE LatestInv'
  BY <1>6, PlugFacts, LatestExit DEF Crash, Orphaned
<1>7. ASSUME NEW w \in BindEntries, ForkAgain(w) PROVE LatestInv'
  BY <1>7, LatestFork
<1>8. CASE UNCHANGED plugvars
  BY <1>8 DEF plugvars, LatestInv
<1> QED
  BY <1>1, <1>2, <1>3, <1>4, <1>5, <1>6, <1>7, <1>8 DEF PlugNext

\* Whoever has emptied its socket, and neither missed the last reload for all nor
\* was forked before the parent came to it, runs the plugin asked for last: for
\* any number of workers, names, requests and restarts (changelog.txt:90-91,
\* mcast.c:255-300).
THEOREM PluginIsLatest == PlugSpec => []NoOldPlugin
<1>1. PlugInit => LatestInv
  BY NamedFacts DEF PlugInit, LatestInv, ComesTo
<1>2. PlugTypeOK /\ LatestInv /\ [PlugNext]_plugvars => LatestInv'
  BY LatestStep
<1>3. LatestInv => NoOldPlugin
  BY DEF LatestInv, NoOldPlugin, ComesTo, Awaits
<1> QED
  BY <1>1, <1>2, <1>3, PluginTypeCorrect, PTL DEF PlugSpec

-----------------------------------------------------------------------------
(* WorkerEnd.                                                              *)

\* Output waits on connections only, and no place in use is above maxfd, so that the
\* walk of handle_fini comes to every one.
EndInv ==
    /\ kind \in [EndFds -> {"unused", "pipe", "remote"}] /\ maxfd \in EndFds \cup {0}
    /\ unsent \subseteq {f \in EndFds : kind[f] = "remote"}
    /\ \A f \in InUse(kind) : f <= maxfd
    /\ phase = "init" => InUse(kind) = {}
    /\ NothingUnsent

\* The search from maxfd downwards finds the highest place in use, if there is one.
LEMMA HighestIs ==
    ASSUME EndAssumption, NEW S, S \subseteq EndFds, NEW n \in Nat, \A f \in S : f <= n
    PROVE  /\ Highest(S) \in EndFds \cup {0}
           /\ \A f \in S : f <= Highest(S)
<1>1. CASE S = {}
  BY <1>1 DEF Highest
<1>2. CASE S # {}
  <2>1. S \subseteq 0..n
    BY DEF EndAssumption
  <2>2. \E f \in S : \A g \in S : g <= f
    BY <1>2, <2>1, GreatestThere
  <2> QED
    BY <1>2, <2>2 DEF Highest
<1> QED BY <1>1, <1>2

LEMMA EndStep ==
    ASSUME EndAssumption, EndInv, [EndNext]_endvars
    PROVE  EndInv'
<1>0. EndFds \subseteq Nat /\ 0 \notin EndFds /\ maxfd \in Nat
  BY DEF EndAssumption, EndInv
<1>1. ASSUME NEW f \in EndFds, HandleInit(f) PROVE EndInv'
  <2>1. kind' = [kind EXCEPT ![f] = "pipe"] /\ maxfd' = f /\ unsent' = unsent /\ phase = "init"
    BY <1>1 DEF HandleInit
  <2>2. \A g \in EndFds : kind[g] = "unused"
    BY <2>1 DEF EndInv, InUse
  <2>3. unsent' = {}
    BY <2>1, <2>2 DEF EndInv
  <2>4. \A g \in InUse(kind') : g <= maxfd'
    BY <1>0, <2>1, <2>2 DEF EndInv, InUse
  <2> QED
    BY <1>1, <2>1, <2>3, <2>4 DEF EndInv, HandleInit, NothingUnsent
<1>2. ASSUME NEW f \in EndFds, AddConn(f) PROVE EndInv'
  <2>1. \A g \in InUse(kind') : g <= maxfd'
    BY <1>0, <1>2 DEF EndInv, InUse, AddConn
  <2> QED
    BY <1>0, <1>2, <2>1 DEF EndInv, AddConn, NothingUnsent
<1>3. ASSUME NEW f \in EndFds, DelConn(f) PROVE EndInv'
  <2>1. /\ kind' = [kind EXCEPT ![f] = "unused"] /\ maxfd' = MaxAfter(f, kind')
        /\ unsent' = unsent \ {f} /\ phase = "loop" /\ phase' = "loop"
    BY <1>3 DEF DelConn
  <2>2. InUse(kind') \subseteq InUse(kind) \ {f} /\ InUse(kind') \subseteq EndFds
    BY <2>1 DEF InUse, EndInv
  <2>3. \A g \in InUse(kind') : g <= maxfd
    BY <2>2 DEF EndInv
  <2>4. Highest(InUse(kind')) \in EndFds \cup {0} /\ \A g \in InUse(kind') : g <= Highest(InUse(kind'))
    BY <1>0, <2>2, <2>3, HighestIs
  <2>5. maxfd' \in EndFds \cup {0} /\ \A g \in InUse(kind') : g <= maxfd'
    BY <2>1, <2>3, <2>4 DEF MaxAfter, EndInv
  <2> QED
    BY <2>1, <2>5 DEF EndInv, NothingUnsent
<1>4. ASSUME NEW f \in EndFds, NetSend(f) \/ Written(f) PROVE EndInv'
  BY <1>4 DEF NetSend, SendRest, Written, EndInv, NothingUnsent
<1>5. CASE FiniAgain
  BY <1>5 DEF FiniAgain, SendRest, EndInv, NothingUnsent
<1>6. CASE FiniDone
  <2>1. unsent = {}
    <3>1. \A f \in unsent : f \in Seen
      BY <1>0 DEF EndInv, InUse, Seen
    <3> QED
      BY <1>6, <3>1 DEF FiniDone, Waits
  <2> QED
    BY <1>6, <2>1 DEF FiniDone, EndInv, NothingUnsent
<1>7. CASE Sigterm
  BY <1>7 DEF Sigterm, EndInv, NothingUnsent
<1>8. CASE UNCHANGED endvars
  BY <1>8 DEF endvars, EndInv, NothingUnsent, InUse
<1> QED
  BY <1>1, <1>2, <1>3, <1>4, <1>5, <1>6, <1>7, <1>8 DEF EndNext

\* A worker that ends has sent what its plugin gave net_send on connections that are
\* still open, whatever was opened and closed before (service.c:72-88).
THEOREM WorkerEndsSent == EndSpec => []NothingUnsent
<1>1. EndInit => EndInv
  BY DEF EndInit, EndInv, InUse, NothingUnsent
<1>2. EndInv /\ [EndNext]_endvars => EndInv'
  BY EndStep, EndAssumption
<1>3. EndInv => NothingUnsent
  BY DEF EndInv
<1> QED BY <1>1, <1>2, <1>3, PTL DEF EndSpec

-----------------------------------------------------------------------------
(* TcpOpen.                                                                 *)

Systems == {"getaddrinfo", "socket", "accept", "inet_pton", "connect", "fcntl", "reuse",
            "rcvbuf", "sndbuf", "bind", "listen"}

\* A row of calls of which none makes a descriptor, or just the one at c.
MakesNone(s) == s \in Seq(Systems) /\ \A i \in 1..Len(s) : ~Creates(s[i])
MakesAt(s, c) ==
    s \in Seq(Systems) /\ c \in 1..Len(s) /\ \A i \in 1..Len(s) : Creates(s[i]) <=> i = c

LEMMA NoneNone ==
    ASSUME NEW s, NEW t, MakesNone(s), MakesNone(t) PROVE MakesNone(s \o t)
BY DEF MakesNone

LEMMA AtNone ==
    ASSUME NEW s, NEW t, NEW c, MakesAt(s, c), MakesNone(t) PROVE MakesAt(s \o t, c)
BY DEF MakesNone, MakesAt

LEMMA Pieces ==
    ASSUME NEW type
    PROVE  /\ MakesNone(Options) /\ MakesNone(Reuse(type)) /\ MakesNone(Backlog(type))
           /\ MakesNone(<<>>) /\ MakesNone(<<"fcntl">>)
           /\ MakesAt(<<"socket">>, 1) /\ MakesAt(<<"accept">>, 1)
           /\ MakesAt(<<"getaddrinfo", "socket">>, 2)
           /\ MakesAt(<<"inet_pton", "socket", "connect", "fcntl">>, 2)
<1>1. MakesNone(<<>>) /\ MakesNone(<<"fcntl">>) /\ MakesNone(<<"reuse">>) /\ MakesNone(<<"listen">>)
  BY DEF MakesNone, Creates, Systems
<1>2. MakesNone(Options)
  <2> DEFINE s == <<"rcvbuf", "sndbuf", "bind">>
  <2>1. s \in Seq(Systems) /\ Len(s) = 3 /\ s[1] = "rcvbuf" /\ s[2] = "sndbuf" /\ s[3] = "bind"
    BY DEF Systems
  <2> HIDE DEF s
  <2>2. \A i \in 1..3 : ~Creates(s[i])
    BY <2>1 DEF Creates
  <2> QED BY <2>1, <2>2 DEF MakesNone, Options, s
<1>3. MakesAt(<<"socket">>, 1) /\ MakesAt(<<"accept">>, 1) /\ MakesAt(<<"getaddrinfo", "socket">>, 2)
  BY DEF MakesAt, Creates, Systems
<1>4. MakesAt(<<"inet_pton", "socket", "connect", "fcntl">>, 2)
  <2> DEFINE s == <<"inet_pton", "socket", "connect", "fcntl">>
  <2>1. /\ s \in Seq(Systems) /\ Len(s) = 4 /\ s[1] = "inet_pton" /\ s[2] = "socket"
        /\ s[3] = "connect" /\ s[4] = "fcntl"
    BY DEF Systems
  <2> HIDE DEF s
  <2>2. \A i \in 1..4 : Creates(s[i]) <=> i = 2
    BY <2>1 DEF Creates
  <2> QED BY <2>1, <2>2 DEF MakesAt, s
<1> QED BY <1>1, <1>2, <1>3, <1>4 DEF Reuse, Backlog

\* Each row has one system call that makes a descriptor.
LEMMA RowMakesOne ==
    ASSUME NEW fn \in OpenFns, NEW type, NEW nonblock
    PROVE  \E c : MakesAt(Row(fn, type, nonblock), c)
<1> DEFINE tail == (Reuse(type) \o Options) \o Backlog(type)
<1>0. MakesNone(tail)
  BY Pieces, NoneNone
<1>1. CASE fn = "safe_tcp_connect"
  BY <1>1, Pieces DEF Row
<1>2. CASE fn = "safe_tcp_accept"
  BY <1>2, Pieces, AtNone DEF Row
<1>3. CASE fn = "safe_socket_listen"
  BY <1>3, Pieces, AtNone DEF Row
<1>4. CASE fn = "create_passive_endpoint"
  BY <1>4, Pieces, AtNone DEF Row
<1> QED
  BY <1>1, <1>2, <1>3, <1>4 DEF OpenFns

\* A call in progress: it has a descriptor of its own once it is past the system
\* call that makes one.
InProgress ==
    /\ doing \in [fn : OpenFns, type : {"stream", "dgram"}, nonblock : BOOLEAN, at : Nat,
                  fd : Fds \cup {NoFd}]
    /\ doing.at \in 1..Len(ThisRow) /\ doing.fd \notin held
    /\ \E c : MakesAt(ThisRow, c) /\ (doing.fd # NoFd <=> doing.at > c)

OpenInv == held \subseteq Fds /\ (doing = Nobody \/ InProgress) /\ NoFdLeft /\ ErrnoKept

\* A call is no empty tuple.
LEMMA CallIsCall ==
    ASSUME NEW d, d \in [fn : OpenFns, type : {"stream", "dgram"}, nonblock : BOOLEAN, at : Nat,
                         fd : Fds \cup {NoFd}]
    PROVE  d # Nobody
<1>1. DOMAIN d = {"fn", "type", "nonblock", "at", "fd"}
  OBVIOUS
<1>2. DOMAIN Nobody = {}
  BY DEF Nobody
<1> QED BY <1>1, <1>2

\* On to the next system call with the descriptor fd, which is in use.
LEMMA OnwardsKeeps ==
    ASSUME OpenAssumption, OpenInv, InProgress, NEW fd, Onwards(fd), doing # Nobody,
           fd \in Fds \cup {NoFd}, fd \notin held,
           DOMAIN fds' = held \cup (IF fd # NoFd THEN {fd} ELSE {}),
           \A c : MakesAt(ThisRow, c) => (fd # NoFd <=> doing.at >= c)
    PROVE  OpenInv'
<1>1. PICK c : MakesAt(ThisRow, c)
  BY DEF InProgress
<1>2. c \in 1..Len(ThisRow) /\ Len(ThisRow) \in Nat /\ (fd # NoFd <=> doing.at >= c)
  BY <1>1 DEF MakesAt
<1>3. CASE doing.at = Len(ThisRow)
  <2>1. doing' = Nobody /\ last'.ok = TRUE /\ held' = held \cup {fd}
    BY <1>3 DEF Onwards, Finish
  <2>2. fd # NoFd /\ fd \in Fds
    BY <1>2, <1>3
  <2> QED
    BY <2>1, <2>2 DEF OpenInv, NoFdLeft, ErrnoKept
<1>4. CASE doing.at # Len(ThisRow)
  <2>1. doing' = [doing EXCEPT !.at = @ + 1, !.fd = fd] /\ last' = last /\ held' = held
    BY <1>4 DEF Onwards
  <2>2. /\ doing'.fn = doing.fn /\ doing'.type = doing.type /\ doing'.nonblock = doing.nonblock
        /\ doing'.at = doing.at + 1 /\ doing'.fd = fd
        /\ doing' \in [fn : OpenFns, type : {"stream", "dgram"}, nonblock : BOOLEAN, at : Nat,
                       fd : Fds \cup {NoFd}]
    <3> DEFINE D == [fn : OpenFns, type : {"stream", "dgram"}, nonblock : BOOLEAN, at : Nat,
                     fd : Fds \cup {NoFd}]
    <3>1. doing \in D
      BY DEF InProgress
    <3>2. /\ doing'.fn = doing.fn /\ doing'.type = doing.type /\ doing'.nonblock = doing.nonblock
          /\ doing'.at = doing.at + 1 /\ doing'.fd = fd
      BY ONLY <2>1, <3>1
    <3>3. doing.at + 1 \in Nat /\ DOMAIN doing' = DOMAIN doing
      BY ONLY <2>1, <3>1
    <3>4. [doing EXCEPT !.at = doing.at + 1] \in D
      BY ONLY <3>1, <3>3
    <3>5. doing' = [[doing EXCEPT !.at = doing.at + 1] EXCEPT !.fd = fd]
      BY ONLY <2>1, <3>1
    <3>6. doing' \in D
      BY ONLY <3>4, <3>5, fd \in Fds \cup {NoFd}
    <3> QED BY <3>2, <3>6
  <2>3. ThisRow' = ThisRow
    BY <2>2 DEF ThisRow
  <2>4. doing' # Nobody
    BY <2>2, CallIsCall
  <2>5. InProgress'
    <3>1. doing'.at \in 1..Len(ThisRow)
      BY <1>4, <2>2 DEF InProgress
    <3>2. fd # NoFd <=> doing.at + 1 > c
      BY <1>2 DEF InProgress
    <3> QED
      BY <1>1, <2>1, <2>2, <2>3, <3>1, <3>2 DEF InProgress
  <2> QED
    BY <2>1, <2>2, <2>4, <2>5 DEF OpenInv, NoFdLeft, ErrnoKept
<1> QED BY <1>3, <1>4

LEMMA OpenStep ==
    ASSUME OpenAssumption, OpenInv, [OpenNext]_openvars
    PROVE  OpenInv'
<1>0. doing # Nobody => InProgress
  BY DEF OpenInv
<1>1. ASSUME NEW fn \in OpenFns, NEW type \in {"stream", "dgram"}, NEW nonblock \in BOOLEAN,
             Begin(fn, type, nonblock)
      PROVE  OpenInv'
  <2>1. /\ doing' = [fn |-> fn, type |-> type, nonblock |-> nonblock, at |-> 1, fd |-> NoFd]
        /\ UNCHANGED <<errno, last, fds, held>> /\ doing = Nobody
    BY <1>1 DEF Begin
  <2>2. doing' \in [fn : OpenFns, type : {"stream", "dgram"}, nonblock : BOOLEAN, at : Nat,
                    fd : Fds \cup {NoFd}]
    BY <2>1
  <2>3. ThisRow' = Row(fn, type, nonblock)
    BY <2>1 DEF ThisRow
  <2>4. PICK c : MakesAt(ThisRow', c)
    BY <2>3, RowMakesOne
  <2>5. InProgress'
    <3>1. c \in 1..Len(ThisRow') /\ Len(ThisRow') \in Nat
      BY <2>4 DEF MakesAt
    <3>2. NoFd \notin held
      BY DEF OpenInv, NoFd, OpenAssumption
    <3> QED
      BY <2>1, <2>2, <2>4, <3>1, <3>2 DEF InProgress
  <2>6. doing' # Nobody
    BY <2>2, CallIsCall
  <2> QED
    BY <2>1, <2>5, <2>6 DEF OpenInv, NoFdLeft, ErrnoKept
<1>2. CASE Succeed
  <2>0. InProgress /\ doing # Nobody
    BY <1>0, <1>2 DEF Succeed
  <2>1. CASE Creates(System)
    <3>1. PICK fd \in Fds \ DOMAIN fds :
             /\ fds' = [f \in DOMAIN fds \cup {fd} |-> IF f = fd THEN "blocking" ELSE fds[f]]
             /\ Onwards(fd)
      BY <1>2, <2>1 DEF Succeed
    <3>2. ASSUME NEW c, MakesAt(ThisRow, c) PROVE doing.at = c
      BY <2>0, <2>1, <3>2 DEF MakesAt, System, InProgress
    <3>3. doing.fd = NoFd
      BY <2>0, <3>2 DEF InProgress
    <3>4. DOMAIN fds = held
      BY <3>3 DEF OpenInv, NoFdLeft
    <3>5. fd # NoFd /\ fd \notin held
      BY <3>1, <3>4 DEF OpenAssumption, NoFd
    <3>6. DOMAIN fds' = held \cup {fd}
      BY <3>1, <3>4
    <3>7. \A c : MakesAt(ThisRow, c) => (fd # NoFd <=> doing.at >= c)
      <4>1. \A c : MakesAt(ThisRow, c) => doing.at = c
        BY <3>2
      <4>2. doing.at \in Nat
        BY <2>0 DEF InProgress
      <4> QED BY <3>5, <4>1, <4>2
    <3> QED
      BY <2>0, <3>1, <3>5, <3>6, <3>7, OnwardsKeeps
  <2>2. CASE ~Creates(System)
    <3>1. fds' = Blockability(doing.fd) /\ Onwards(doing.fd)
      BY <1>2, <2>2 DEF Succeed
    <3>2. DOMAIN fds' = DOMAIN fds
      BY <3>1 DEF Blockability
    <3>3. \A c : MakesAt(ThisRow, c) => (doing.fd # NoFd <=> doing.at >= c)
      <4>1. PICK c : MakesAt(ThisRow, c) /\ (doing.fd # NoFd <=> doing.at > c)
        BY <2>0 DEF InProgress
      <4>2. \A d : MakesAt(ThisRow, d) => d = c
        BY <4>1 DEF MakesAt
      <4>3. doing.at # c /\ doing.at \in Nat /\ c \in Nat
        BY <2>0, <2>2, <4>1 DEF MakesAt, System, InProgress
      <4> QED BY <4>1, <4>2, <4>3
    <3> QED
      BY <2>0, <3>1, <3>2, <3>3, OnwardsKeeps DEF OpenInv, NoFdLeft, InProgress
  <2> QED BY <2>1, <2>2
<1>3. CASE FailIgnored
  <2>0. InProgress /\ doing # Nobody /\ System = "fcntl"
    BY <1>0, <1>3 DEF FailIgnored, Ignored
  <2>1. \A c : MakesAt(ThisRow, c) => (doing.fd # NoFd <=> doing.at >= c)
    <3>1. PICK c : MakesAt(ThisRow, c) /\ (doing.fd # NoFd <=> doing.at > c)
      BY <2>0 DEF InProgress
    <3>2. \A d : MakesAt(ThisRow, d) => d = c
      BY <3>1 DEF MakesAt
    <3>3. doing.at # c /\ doing.at \in Nat /\ c \in Nat
      BY <2>0, <3>1 DEF MakesAt, System, InProgress, Creates
    <3> QED BY <3>1, <3>2, <3>3
  <2> QED
    BY <1>3, <2>0, <2>1, OnwardsKeeps DEF FailIgnored, OpenInv, NoFdLeft, InProgress
<1>4. ASSUME NEW closes \in BOOLEAN, Fail(closes) PROVE OpenInv'
  <2>1. /\ InProgress /\ doing' = Nobody /\ held' = held /\ fds' = Released(doing.fd)
        /\ errno' = ErrnoOf(System, IF closes THEN System ELSE "close")
        /\ last' = [fn |-> doing.fn, ok |-> FALSE, failed |-> System] /\ doing # Nobody
    BY <1>0, <1>4 DEF Fail, Finish, Closed
  <2>2. DOMAIN fds' = held
    BY <2>1 DEF OpenInv, NoFdLeft, Released, InProgress, NoFd, OpenAssumption
  <2>3. ErrnoKept'
    BY <2>1 DEF ErrnoKept, ErrnoOf
  <2> QED
    BY <2>1, <2>2, <2>3 DEF OpenInv, NoFdLeft
<1>5. ASSUME NEW fd \in held, CloseFd(fd) PROVE OpenInv'
  BY <1>5 DEF CloseFd, Released, OpenInv, NoFdLeft, ErrnoKept
<1>6. CASE UNCHANGED openvars
  BY <1>6 DEF openvars, OpenInv, InProgress, NoFdLeft, ErrnoKept, ThisRow
<1> QED
  BY <1>1, <1>2, <1>3, <1>4, <1>5, <1>6 DEF OpenNext

\* Whichever system call of a new socket fails, its descriptor is closed and the
\* caller is told why, with any number of calls and descriptors (tcp.c:110-286).
THEOREM FailuresClean == OpenSpec => []CallsClean
<1>1. OpenInit => OpenInv
  BY DEF OpenInit, OpenInv, NoFdLeft, ErrnoKept
<1>2. OpenInv /\ [OpenNext]_openvars => OpenInv'
  BY OpenStep, OpenAssumption
<1>3. OpenInv => CallsClean
  BY DEF OpenInv, CallsClean
<1> QED BY <1>1, <1>2, <1>3, PTL DEF OpenSpec

-----------------------------------------------------------------------------
(* MakeDirs.                                                                *)

Calls == [path : Seq(STRING), absolute : BOOLEAN, at : Nat,
          step : {"none", "look", "make", "ok", "failed", "denied"}, before : SUBSET files]

\* A call c has made all parts before the one it is at, or found a file in their
\* place, and what it is about to make was not there when it began.
CallFine(c) ==
    /\ c.step # "none" => c.at \in 1..Len(c.path)
    /\ c.at > 1 /\ c.step # "none" => Prefix(c.path, c.at - 1) \in dirs \cup files
    /\ c.at > 1 \/ c.step \in {"make", "ok"} => ~c.absolute
    /\ c.step = "make" => Prefix(c.path, c.at) \notin c.before
    /\ c.step = "ok" => c.path \in dirs \/ c.path \in files \ c.before
    /\ c.step = "failed" =>
          c.absolute \/ \E n \in 1..Len(c.path) : Prefix(c.path, n) \in files

MakeInv == call \in [Makers -> Calls] /\ \A p \in Makers : CallFine(call[p])

\* Nothing is ever taken away, so what others do leaves a call as it was.
LEMMA OthersKeep ==
    ASSUME NEW c, c \in Calls, CallFine(c), dirs \subseteq dirs', files \subseteq files'
    PROVE  c \in Calls' /\ CallFine(c)'
<1>1. c \in Calls'
  BY DEF Calls
<1>2. c.before \subseteq files
  BY DEF Calls
<1> QED BY <1>1, <1>2 DEF CallFine

\* A step of p alone.
LEMMA StepOf ==
    ASSUME MakeInv, NEW p \in Makers, NEW c, call' = [call EXCEPT ![p] = c],
           c \in Calls', CallFine(c)', dirs \subseteq dirs', files \subseteq files'
    PROVE  MakeInv'
<1>1. ASSUME NEW q \in Makers PROVE call'[q] \in Calls' /\ CallFine(call[q])'
  <2>1. PICK d : d = call[q]
    OBVIOUS
  <2>2. d \in Calls' /\ CallFine(d)'
    BY <2>1, OthersKeep DEF MakeInv
  <2>3. call'[q] = IF q = p THEN c ELSE d
    BY <2>1 DEF MakeInv
  <2>4. CASE q = p
    BY <2>3, <2>4 DEF CallFine
  <2>5. CASE q # p
    BY <2>2, <2>3, <2>5 DEF CallFine
  <2> QED BY <2>4, <2>5
<1>2. DOMAIN call' = Makers /\ call' = [q \in Makers |-> call'[q]]
  BY DEF MakeInv
<1>3. call' \in [Makers -> Calls']
  BY <1>1, <1>2
<1> QED BY <1>1, <1>3 DEF MakeInv

\* The path up to a part, and up to the part before it.
LEMMA PrefixIs ==
    ASSUME NEW path \in Seq(STRING), NEW n \in 1..Len(path)
    PROVE  /\ Prefix(path, n) \in Seq(STRING) /\ Len(Prefix(path, n)) = n
           /\ n > 1 => Prefix(Prefix(path, n), n - 1) = Prefix(path, n - 1)
           /\ n = Len(path) => Prefix(path, n) = path
<1>1. Prefix(path, n) \in Seq(STRING) /\ Len(Prefix(path, n)) = n
  BY DEF Prefix
<1>2. ASSUME n > 1 PROVE Prefix(Prefix(path, n), n - 1) = Prefix(path, n - 1)
  <2>1. Prefix(path, n) = [i \in 1..n |-> path[i]]
    BY DEF Prefix
  <2>2. Prefix(path, n - 1) = [i \in 1..n-1 |-> path[i]]
    BY <1>2 DEF Prefix
  <2>3. Prefix(Prefix(path, n), n - 1) = [i \in 1..n-1 |-> Prefix(path, n)[i]]
    BY <1>1, <1>2 DEF Prefix
  <2>4. \A i \in 1..n-1 : Prefix(path, n)[i] = path[i]
    BY <2>1
  <2> QED BY <2>2, <2>3, <2>4
<1>3. n = Len(path) => Prefix(path, n) = path
  BY DEF Prefix
<1> QED BY <1>1, <1>2, <1>3

\* A step of p that keeps all but the place it is at.
LEMMA StepTo ==
    ASSUME MakeInv, NEW p \in Makers, NEW c, call' = [call EXCEPT ![p] = c],
           dirs \subseteq dirs', files' = files,
           c.path = call[p].path, c.absolute = call[p].absolute, c.before = call[p].before,
           c \in Calls, CallFine(c)'
    PROVE  MakeInv'
<1>1. c \in Calls'
  BY DEF Calls
<1> QED BY <1>1, StepOf

LEMMA ToIs ==
    ASSUME MakeInv, NEW p \in Makers, NEW step \in {"make", "failed", "denied"}, To(p, step)
    PROVE  \E c \in Calls : /\ call' = [call EXCEPT ![p] = c]
                            /\ c.path = call[p].path /\ c.absolute = call[p].absolute
                            /\ c.before = call[p].before /\ c.at = call[p].at /\ c.step = step
<1> DEFINE c == [call[p] EXCEPT !.step = step]
<1>1. call[p] \in Calls
  BY DEF MakeInv
<1>2. /\ c \in Calls /\ c.path = call[p].path /\ c.absolute = call[p].absolute
      /\ c.before = call[p].before /\ c.at = call[p].at /\ c.step = step
  BY <1>1 DEF Calls
<1>3. call' = [call EXCEPT ![p] = c]
  BY DEF To
<1> QED BY <1>2, <1>3

\* The part p is at is there: on to the next, or done.
LEMMA OnwardKeeps ==
    ASSUME MakeInv, NEW p \in Makers, InCall(p), Onward(p), ~call[p].absolute,
           dirs \subseteq dirs', files' = files,
           Part(p) \in dirs' \/ Part(p) \in files \ call[p].before
    PROVE  MakeInv'
<1> DEFINE c == IF call[p].at = Len(call[p].path) THEN [call[p] EXCEPT !.step = "ok"]
                ELSE [call[p] EXCEPT !.at = call[p].at + 1, !.step = "look"]
<1>1. call[p] \in Calls /\ CallFine(call[p])
  BY DEF MakeInv
<1>2. /\ call[p].path \in Seq(STRING) /\ call[p].at \in 1..Len(call[p].path)
      /\ Len(call[p].path) \in Nat
  BY <1>1 DEF InCall, Calls, CallFine
<1>3. call' = [call EXCEPT ![p] = c]
  BY DEF Onward
<1>4. CASE call[p].at = Len(call[p].path)
  <2>1. PICK d : d = [call[p] EXCEPT !.step = "ok"]
    OBVIOUS
  <2>2. /\ d \in Calls /\ d.path = call[p].path /\ d.absolute = call[p].absolute
        /\ d.before = call[p].before /\ d.at = call[p].at /\ d.step = "ok"
    BY <1>1, <2>1 DEF Calls
  <2>3. Part(p) = d.path
    BY <1>2, <1>4, <2>2, PrefixIs DEF Part
  <2>4. CallFine(d)'
    BY <1>1, <1>2, <2>2, <2>3 DEF CallFine, InCall
  <2> QED
    BY <1>3, <1>4, <2>1, <2>2, <2>4, StepTo
<1>5. CASE call[p].at # Len(call[p].path)
  <2>1. PICK d : d = [call[p] EXCEPT !.at = call[p].at + 1, !.step = "look"]
    OBVIOUS
  <2>2. /\ d \in Calls /\ d.path = call[p].path /\ d.absolute = call[p].absolute
        /\ d.before = call[p].before /\ d.at = call[p].at + 1 /\ d.step = "look"
    <3>1. PICK e : e = [call[p] EXCEPT !.at = call[p].at + 1]
      OBVIOUS
    <3>2. /\ e \in Calls /\ e.path = call[p].path /\ e.absolute = call[p].absolute
          /\ e.before = call[p].before /\ e.at = call[p].at + 1
      BY <1>1, <3>1 DEF Calls
    <3>3. d = [e EXCEPT !.step = "look"]
      BY <1>1, <2>1, <3>1 DEF Calls
    <3> QED BY <3>2, <3>3 DEF Calls
  <2>3. Prefix(d.path, d.at - 1) = Part(p)
    BY <1>2, <2>2 DEF Part
  <2>4. CallFine(d)'
    BY <1>1, <1>2, <1>5, <2>2, <2>3 DEF CallFine
  <2> QED
    BY <1>3, <1>5, <2>1, <2>2, <2>4, StepTo
<1> QED BY <1>4, <1>5

\* It stops, for a file in the way.
LEMMA FailedKeeps ==
    ASSUME MakeInv, NEW p \in Makers, InCall(p), To(p, "failed"), UNCHANGED <<dirs, files>>,
           call[p].absolute \/ \E n \in 1..Len(call[p].path) : Prefix(call[p].path, n) \in files
    PROVE  MakeInv'
<1>1. PICK c \in Calls : /\ call' = [call EXCEPT ![p] = c]
                         /\ c.path = call[p].path /\ c.absolute = call[p].absolute
                         /\ c.before = call[p].before /\ c.at = call[p].at /\ c.step = "failed"
  BY ToIs
<1>2. CallFine(call[p])
  BY DEF MakeInv
<1>3. CallFine(c)'
  BY <1>1, <1>2 DEF CallFine, InCall
<1> QED BY <1>1, <1>3, StepTo

LEMMA MakeStep ==
    ASSUME MakeAssumption, MakeInv, [MakeNext]_makevars
    PROVE  MakeInv'
<1>1. ASSUME NEW p \in Makers, NEW a \in Asked, Mkdir(p, a) PROVE MakeInv'
  <2>1. PICK c : c = [path |-> a.path, absolute |-> a.absolute, at |-> 1, step |-> "look",
                      before |-> files]
    OBVIOUS
  <2>2. c \in Calls /\ Len(c.path) > 0 /\ Len(c.path) \in Nat
    BY <2>1 DEF MakeAssumption, Calls
  <2>3. CallFine(c)'
    BY <1>1, <2>1, <2>2 DEF CallFine
  <2>4. c \in Calls'
    BY <1>1, <2>2 DEF Mkdir, Calls
  <2> QED
    BY <1>1, <2>1, <2>3, <2>4, StepOf DEF Mkdir
<1>2. ASSUME NEW p \in Makers, Look(p) PROVE MakeInv'
  <2>0. /\ InCall(p) /\ call[p] \in Calls /\ CallFine(call[p]) /\ call[p].step = "look"
        /\ UNCHANGED <<dirs, files>>
    BY <1>2 DEF Look, InCall, MakeInv
  <2>1. CASE FromRoot(p) /\ To(p, "failed")
    BY <2>0, <2>1, FailedKeeps DEF FromRoot
  <2>2. CASE ~FromRoot(p) /\ ~Exists(Part(p)) /\ To(p, "make")
    <3>1. PICK c \in Calls : /\ call' = [call EXCEPT ![p] = c]
                             /\ c.path = call[p].path /\ c.absolute = call[p].absolute
                             /\ c.before = call[p].before /\ c.at = call[p].at /\ c.step = "make"
      BY <2>2, ToIs
    <3>2. Prefix(c.path, c.at) \notin c.before
      BY <2>0, <2>2, <3>1 DEF Exists, Part, Calls
    <3>3. CallFine(c)'
      BY <2>0, <2>2, <3>1, <3>2 DEF CallFine, FromRoot
    <3> QED BY <2>0, <3>1, <3>3, StepTo
  <2>3. CASE ~FromRoot(p) /\ Exists(Part(p)) /\ NoDirectory(Part(p)) /\ To(p, "failed")
    <3>1. Prefix(call[p].path, call[p].at) \in files /\ call[p].at \in 1..Len(call[p].path)
      BY <2>0, <2>3 DEF Exists, NoDirectory, Part, CallFine
    <3> QED
      BY <2>0, <2>3, <3>1, FailedKeeps
  <2>4. CASE ~FromRoot(p) /\ Exists(Part(p)) /\ ~NoDirectory(Part(p)) /\ Onward(p)
    BY <2>0, <2>4, OnwardKeeps DEF NoDirectory, FromRoot
  <2> QED
    BY <1>2, <2>1, <2>2, <2>3, <2>4 DEF Look
<1>3. ASSUME NEW p \in Makers, Make(p) PROVE MakeInv'
  <2>0. /\ InCall(p) /\ call[p] \in Calls /\ CallFine(call[p]) /\ call[p].step = "make"
        /\ files' = files
    BY <1>3 DEF Make, InCall, MakeInv
  <2>1. CASE Refused(Part(p)) /\ To(p, "failed") /\ UNCHANGED dirs
    <3>1. call[p].path \in Seq(STRING) /\ call[p].at \in 1..Len(call[p].path)
      BY <2>0 DEF Calls, CallFine
    <3>2. Len(Part(p)) = call[p].at
      BY <3>1, PrefixIs DEF Part
    <3>3. call[p].at > 1 /\ Prefix(call[p].path, call[p].at - 1) \notin dirs
      BY <2>1, <3>1, <3>2, PrefixIs DEF Refused, Reachable, Part
    <3>4. Prefix(call[p].path, call[p].at - 1) \in files
      BY <2>0, <3>3 DEF CallFine
    <3>5. call[p].at - 1 \in 1..Len(call[p].path)
      BY <3>1, <3>3
    <3> QED
      BY <2>0, <2>1, <3>4, <3>5, FailedKeeps
  <2>2. CASE Onward(p) /\ dirs' = dirs \cup ({Part(p)} \ files)
    <3>1. Part(p) \in dirs' \/ Part(p) \in files \ call[p].before
      BY <2>0, <2>2 DEF Part, CallFine
    <3> QED
      BY <2>0, <2>2, <3>1, OnwardKeeps DEF CallFine
  <2> QED
    BY <1>3, <2>0, <2>1, <2>2 DEF Make
<1>4. ASSUME NEW p \in Makers, Denied(p) PROVE MakeInv'
  <2>1. /\ call[p] \in Calls /\ CallFine(call[p]) /\ call[p].step = "make"
        /\ UNCHANGED <<dirs, files>>
    BY <1>4 DEF Denied, MakeInv
  <2>2. PICK c \in Calls : /\ call' = [call EXCEPT ![p] = c]
                           /\ c.path = call[p].path /\ c.absolute = call[p].absolute
                           /\ c.before = call[p].before /\ c.at = call[p].at /\ c.step = "denied"
    BY <1>4, ToIs DEF Denied
  <2>3. CallFine(c)'
    BY <2>1, <2>2 DEF CallFine
  <2> QED BY <2>1, <2>2, <2>3, StepTo
<1>5. ASSUME NEW path, PutFile(path) PROVE MakeInv'
  <2>1. dirs' = dirs /\ files \subseteq files' /\ call' = call
    BY <1>5 DEF PutFile
  <2>2. ASSUME NEW q \in Makers PROVE call'[q] \in Calls' /\ CallFine(call[q])'
    <3>1. PICK d : d = call[q]
      OBVIOUS
    <3>2. d \in Calls' /\ CallFine(d)'
      BY <2>1, <3>1, OthersKeep DEF MakeInv
    <3> QED
      BY <2>1, <3>1, <3>2 DEF CallFine
  <2> QED
    BY <2>1, <2>2 DEF MakeInv
<1>6. CASE UNCHANGED makevars
  BY <1>6 DEF makevars, MakeInv, Calls, CallFine
<1> QED
  BY <1>1, <1>2, <1>3, <1>4, <1>5, <1>6 DEF MakeNext

\* What a process is told of the directory of the day is so, whatever others make in
\* between, for any number of processes and any paths (fileutils.c:77-125).
THEOREM DirectoriesMade == MakeSpec => []DirsMade
<1>1. MakeInit => MakeInv
  BY EmptySeq DEF MakeInit, MakeInv, NoCall, Calls, CallFine
<1>2. MakeInv /\ [MakeNext]_makevars => MakeInv'
  BY MakeStep, MakeAssumption
<1>3. MakeInv => DirsMade
  BY DEF MakeInv, CallFine, DirsMade, MadeWhenTold, FailsForAFile
<1> QED BY <1>1, <1>2, <1>3, PTL DEF MakeSpec

-----------------------------------------------------------------------------
(* TcpStream.                                                               *)

\* The first n bytes, in their order.
First(n) == [i \in 1..n |-> i]

Sends == [total : Nat \ {0}, done : Nat]
Receives == [call : {"recv", "recv_n"}, total : Nat \ {0}, buf : Seq(Nat)]

\* A receiver that knows the end asks for nothing; one end closes between two calls;
\* a connection that is reset has lost what was on its way.
StreamInv ==
    /\ ready \in [Ends -> BOOLEAN] /\ out \in Nat /\ wire \in Seq(Nat) /\ got \in Seq(Nat)
    /\ peer \in {"open", "closed", "reset"} /\ saw \in {"open", "closed", "failed"}
    /\ sending # None => sending \in Sends /\ sending.done < sending.total
    /\ reading # None =>
          /\ reading \in Receives /\ Len(reading.buf) < reading.total /\ saw = "open"
          /\ reading.call = "recv" => reading.buf = <<>>
    /\ peer = "closed" => sending = None
    /\ peer = "reset" => wire = <<>>
    /\ Intact

LEMMA CallsAreCalls ==
    /\ \A s \in Sends : s # None
    /\ \A r \in Receives : r # None
<1>1. DOMAIN None = {}
  BY DEF None
<1>2. \A s \in Sends : DOMAIN s = {"total", "done"}
  BY DEF Sends
<1>3. \A r \in Receives : DOMAIN r = {"call", "total", "buf"}
  BY DEF Receives
<1> QED BY <1>1, <1>2, <1>3

LEMMA FirstIs ==
    ASSUME NEW n \in Nat
    PROVE  First(n) \in Seq(Nat) /\ Len(First(n)) = n /\ \A i \in 1..n : First(n)[i] = i
<1>1. First(n) \in [1..n -> Nat]
  BY DEF First
<1>2. First(n) \in Seq(Nat)
  BY <1>1
<1>3. Len(First(n)) = n
  BY <1>2, LenProperties DEF First
<1> QED BY <1>2, <1>3 DEF First

\* The beginning of the first bytes is bytes in order too.
LEMMA BeginningIs ==
    ASSUME NEW s \in Seq(Nat), NEW t \in Seq(Nat), NEW n \in Nat, s \o t = First(n)
    PROVE  s = [i \in DOMAIN s |-> i] /\ Len(s) + Len(t) = n
<1>1. Len(s) + Len(t) = n /\ \A i \in 1..n : (s \o t)[i] = i
  <2>1. Len(s \o t) = Len(s) + Len(t)
    BY ConcatProperties
  <2> QED BY <2>1, FirstIs
<1>2. \A i \in 1..Len(s) : s[i] = i
  <2> SUFFICES ASSUME NEW i \in 1..Len(s) PROVE s[i] = i
    OBVIOUS
  <2>1. Len(s) \in Nat /\ Len(t) \in Nat
    BY LenProperties
  <2>2. (s \o t)[i] = s[i]
    BY <2>1, ConcatProperties
  <2> QED BY <1>1, <2>1, <2>2
<1>3. DOMAIN s = 1..Len(s) /\ s = [i \in DOMAIN s |-> s[i]]
  BY LenProperties
<1> QED BY <1>1, <1>2, <1>3

\* The next k bytes behind the first n are the first n + k.
LEMMA NextBehind ==
    ASSUME NEW n \in Nat, NEW k \in Nat, NEW s, s = [i \in 1..k |-> n + i]
    PROVE  s \in Seq(Nat) /\ First(n) \o s = First(n + k)
<1>1. s \in [1..k -> Nat]
  OBVIOUS
<1>2. s \in Seq(Nat)
  BY <1>1
<1>3. Len(s) = k
  BY <1>1, <1>2, LenProperties
<1>4. First(n) \in Seq(Nat) /\ Len(First(n)) = n /\ \A i \in 1..n : First(n)[i] = i
  BY FirstIs
<1>5. First(n + k) \in Seq(Nat) /\ Len(First(n + k)) = n + k
      /\ \A i \in 1..(n + k) : First(n + k)[i] = i
  BY FirstIs
<1>6. PICK a : a = First(n)
  OBVIOUS
<1>7. PICK c : c = a \o s
  OBVIOUS
<1>8. /\ a \o s \in Seq(Nat)
      /\ Len(a \o s) = Len(a) + Len(s)
      /\ \A i \in 1..Len(a) + Len(s) : (a \o s)[i] = IF i <= Len(a) THEN a[i] ELSE s[i - Len(a)]
  BY <1>2, <1>4, <1>6, ConcatProperties
<1>9. /\ c \in Seq(Nat) /\ Len(c) = n + k
      /\ \A i \in 1..n + k : c[i] = IF i <= n THEN a[i] ELSE s[i - n]
  BY ONLY <1>3, <1>4, <1>6, <1>7, <1>8
<1>10. \A i \in 1..n + k : c[i] = i
  <2> SUFFICES ASSUME NEW i \in 1..n + k PROVE c[i] = i
    OBVIOUS
  <2>1. CASE i <= n
    BY <2>1, <1>4, <1>6, <1>9
  <2>2. CASE ~(i <= n)
    <3>1. i - n \in 1..k
      BY <2>2
    <3>2. s[i - n] = i
      BY <3>1
    <3> QED BY <2>2, <3>2, <1>9
  <2> QED BY <2>1, <2>2
<1>11. c = First(n + k)
  BY <1>5, <1>9, <1>10, SeqEqual
<1> QED BY <1>2, <1>6, <1>7, <1>11

\* What is taken off the front, and what is left.
LEMMA CutIs ==
    ASSUME NEW s \in Seq(Nat), NEW k \in 0..Len(s)
    PROVE  /\ SubSeq(s, 1, k) \in Seq(Nat) /\ Len(SubSeq(s, 1, k)) = k
           /\ SubSeq(s, k + 1, Len(s)) \in Seq(Nat)
           /\ SubSeq(s, 1, k) \o SubSeq(s, k + 1, Len(s)) = s
<1>1. Len(s) \in Nat /\ \A i \in 1..Len(s) : s[i] \in Nat
  BY LenProperties, ElementOfSeq
<1>2. SubSeq(s, 1, k) \in Seq(Nat) /\ Len(SubSeq(s, 1, k)) = k
  <2>1. \A i \in 1..k : s[i] \in Nat
    BY <1>1
  <2> QED BY <1>1, <2>1, SubSeqProperties
<1>3. SubSeq(s, k + 1, Len(s)) \in Seq(Nat)
  <2>1. \A i \in (k + 1)..Len(s) : s[i] \in Nat
    BY <1>1
  <2> QED BY <1>1, <2>1, SubSeqProperties
<1>4. SubSeq(s, 1, k) \o SubSeq(s, k + 1, Len(s)) = SubSeq(s, 1, Len(s))
  <2>1. 1 \in 1..Len(s) + 1 /\ k \in 1 - 1..Len(s) /\ Len(s) \in k..Len(s)
    BY <1>1
  <2> QED BY <2>1, ConcatAdjacentSubSeq
<1> QED BY <1>2, <1>3, <1>4, SubSeqFull

LEMMA AddedBehind ==
    ASSUME NEW s \in Seq(Nat), NEW t \in Seq(Nat), NEW u \in Seq(Nat)
    PROVE  (s \o t) \o u = s \o (t \o u)
BY ONLY s \in Seq(Nat), t \in Seq(Nat), u \in Seq(Nat), ConcatAssociative, SMTT(40)

LEMMA CallTypes ==
    ASSUME StreamInv
    PROVE  /\ Taken \in Nat /\ InHand \in Seq(Nat)
           /\ sending = None => Taken = out
           /\ sending # None => Taken = out + sending.done
           /\ got \o InHand \in Seq(Nat) /\ got \o InHand \o wire \in Seq(Nat)
<1>1. Taken \in Nat
  BY DEF StreamInv, Taken, Sends
<1>2. InHand \in Seq(Nat)
  BY EmptySeq DEF StreamInv, InHand, Receives
<1>3. got \o InHand \in Seq(Nat)
  BY <1>2, ConcatProperties DEF StreamInv
<1>4. got \o InHand \o wire \in Seq(Nat)
  BY <1>3, ConcatProperties DEF StreamInv
<1>5. (sending = None => Taken = out) /\ (sending # None => Taken = out + sending.done)
  BY DEF StreamInv, Taken
<1> QED BY <1>1, <1>2, <1>3, <1>4, <1>5

\* While the connection stands, the bytes as lengths.
LEMMA Lengths ==
    ASSUME StreamInv, peer # "reset", saw = "open"
    PROVE  Len(got) + Len(InHand) + Len(wire) = Taken
<1>1. got \o InHand \o wire = First(Taken)
  BY DEF StreamInv, Intact, First
<1>2. Len(got \o InHand) + Len(wire) = Taken
  <2>1. got \o InHand \in Seq(Nat) /\ wire \in Seq(Nat) /\ Taken \in Nat
    BY CallTypes DEF StreamInv
  <2> QED BY ONLY <1>1, <2>1, BeginningIs
<1>3. Len(got \o InHand) = Len(got) + Len(InHand)
  BY CallTypes, ConcatProperties DEF StreamInv
<1> QED BY <1>2, <1>3

\* A step that leaves the bytes where they are.
LEMMA BytesStay ==
    ASSUME StreamInv, UNCHANGED <<got, InHand, wire, Taken>>,
           peer' # "reset" => peer # "reset", saw' = saw
    PROVE  Intact'
BY DEF StreamInv, Intact

\* A step that gives the caller what is in hand.
LEMMA BytesGiven ==
    ASSUME StreamInv, NEW s \in Seq(Nat), NEW w \in Seq(Nat),
           peer # "reset", saw = "open", s \o w = InHand \o wire,
           got' = got \o s, reading' = None, wire' = w, UNCHANGED <<out, sending>>
    PROVE  got' \in Seq(Nat) /\ Intact'
<1>1. got \in Seq(Nat) /\ wire \in Seq(Nat) /\ got \o InHand \o wire = First(Taken)
  BY DEF StreamInv, Intact, First
<1>2. got \o s \in Seq(Nat)
  BY <1>1, ConcatProperties
<1>3. (got \o s) \o w = First(Taken)
  <2>1. (got \o s) \o w = got \o (s \o w)
    BY <1>1, AddedBehind
  <2>2. got \o (InHand \o wire) = (got \o InHand) \o wire
    <3>1. InHand \in Seq(Nat)
      BY CallTypes
    <3>2. PICK g, h, v : g = got /\ h = InHand /\ v = wire
      OBVIOUS
    <3>3. g \in Seq(Nat) /\ h \in Seq(Nat) /\ v \in Seq(Nat)
      BY <1>1, <3>1, <3>2
    <3>4. (g \o h) \o v = g \o (h \o v)
      BY ONLY <3>3, AddedBehind, ZenonT(60)
    <3> QED BY <3>2, <3>4
  <2> QED BY <1>1, <2>1, <2>2
<1>4. got' = [i \in DOMAIN got' |-> i]
  <2>1. Taken \in Nat
    BY CallTypes
  <2>2. got \o s = [i \in DOMAIN (got \o s) |-> i]
    BY ONLY <1>2, <1>3, <2>1, BeginningIs, w \in Seq(Nat)
  <2> QED BY <2>2
<1>5. InHand' = <<>> /\ Taken' = Taken
  BY DEF InHand, Taken
<1>6. got' \o InHand' \o wire' = First(Taken')
  BY <1>2, <1>3, <1>5, ConcatEmptySeq
<1> QED BY <1>2, <1>4, <1>6 DEF Intact, First

StreamStep == StreamInv' /\ EndIsTold

LEMMA SettingSocket ==
    ASSUME StreamInv, NEW e \in Ends, NEW again \in BOOLEAN, SetSocket(e, again)
    PROVE  StreamStep
<1>1. Intact'
  BY BytesStay DEF SetSocket, InHand, Taken
<1> QED BY <1>1 DEF SetSocket, StreamInv, StreamStep, EndIsTold

LEMMA CallingSend ==
    ASSUME StreamInv, NEW total \in Totals, CallSend(total)
    PROVE  StreamStep
<1>1. sending' \in Sends /\ sending'.done = 0 /\ sending'.done < sending'.total
  BY StreamAssumption DEF CallSend, Sends
<1>2. Taken' = Taken
  <2>1. sending' # None
    BY <1>1, CallsAreCalls
  <2> QED BY <1>1, <2>1 DEF CallSend, Taken, StreamInv
<1>3. Intact'
  BY <1>2, BytesStay DEF CallSend, InHand
<1> QED BY <1>1, <1>3 DEF CallSend, StreamInv, StreamStep, EndIsTold

LEMMA InterruptingSend ==
    ASSUME StreamInv, SendInterrupted
    PROVE  StreamStep
<1>1. sending \in Sends
  BY DEF StreamInv, SendInterrupted
<1>2. sending' = sending
  BY <1>1 DEF SendInterrupted, Interrupted, Sends
<1>3. Intact'
  BY <1>2, BytesStay DEF SendInterrupted, InHand, Taken
<1> QED BY <1>2, <1>3 DEF SendInterrupted, StreamInv, StreamStep, EndIsTold

LEMMA SendingSome ==
    ASSUME StreamInv, NEW k \in 1..Capacity, SendSome(k)
    PROVE  StreamStep
<1>1. sending \in Sends /\ sending.done < sending.total /\ sending # None /\ peer = "open"
  BY DEF StreamInv, SendSome
<1>2. Taken \in Nat /\ Taken = out + sending.done /\ out \in Nat /\ k \in Nat
  BY <1>1, CallTypes, StreamAssumption DEF StreamInv
<1>3. NextBytes(k) = [i \in 1..k |-> Taken + i]
  BY <1>2 DEF NextBytes
<1>4. NextBytes(k) \in Seq(Nat) /\ First(Taken) \o NextBytes(k) = First(Taken + k)
  BY <1>2, <1>3, NextBehind
<1>5. /\ Taken' = Taken + k /\ out' \in Nat
      /\ sending' # None => sending' \in Sends /\ sending'.done < sending'.total
  <2>1. CASE sending.done + k = sending.total
    BY <1>1, <1>2, <2>1 DEF SendSome, Taken, Sends
  <2>2. CASE sending.done + k # sending.total
    <3>1. sending' = [sending EXCEPT !.done = sending.done + k] /\ out' = out
      BY <2>2 DEF SendSome
    <3>2. k \in 1..sending.total - sending.done
      BY DEF SendSome
    <3>3. sending' \in Sends /\ sending'.done = sending.done + k /\ sending'.done < sending'.total
      BY <1>1, <1>2, <2>2, <3>1, <3>2 DEF Sends
    <3>4. sending' # None
      BY <3>3, CallsAreCalls
    <3> QED BY <1>1, <1>2, <3>1, <3>3, <3>4 DEF Taken, Sends
  <2> QED BY <2>1, <2>2
<1>6. wire' = wire \o NextBytes(k) /\ wire \in Seq(Nat) /\ wire' \in Seq(Nat)
  <2>1. wire' = wire \o NextBytes(k) /\ wire \in Seq(Nat)
    BY DEF SendSome, StreamInv
  <2> QED BY <1>4, <2>1, ConcatProperties
<1>7. Intact'
  <2>1. UNCHANGED <<got, InHand, saw, peer>>
    BY DEF SendSome, InHand
  <2>2. ASSUME saw = "open" PROVE got \o InHand \o wire' = First(Taken + k)
    <3>1. got \o InHand \o wire = First(Taken)
      BY <1>1, <2>2 DEF StreamInv, Intact, First
    <3>2. (got \o InHand) \o (wire \o NextBytes(k)) = (got \o InHand \o wire) \o NextBytes(k)
      <4>1. got \o InHand \in Seq(Nat)
        BY CallTypes
      <4> QED BY <1>4, <1>6, <4>1, AddedBehind
    <3> QED BY <1>4, <1>6, <3>1, <3>2
  <2> QED BY <1>5, <2>1, <2>2 DEF StreamInv, Intact, First
<1> QED BY <1>1, <1>5, <1>6, <1>7 DEF SendSome, StreamInv, StreamStep, EndIsTold

\* A call that ends without more, told of or not.
LEMMA EndingSend ==
    ASSUME StreamInv, SendAgain \/ SendFails
    PROVE  StreamStep
<1>1. sending \in Sends /\ sending # None /\ sending' = None
  BY DEF StreamInv, SendAgain, SendFails
<1>2. ASSUME SendAgain PROVE Intact'
  <2>1. Taken' = Taken /\ UNCHANGED <<got, InHand, wire, peer, saw>>
    BY <1>1, <1>2 DEF SendAgain, Taken, InHand, StreamInv, Sends
  <2> QED BY <2>1, BytesStay
<1>3. ASSUME SendFails PROVE Intact'
  BY <1>3 DEF SendFails, StreamInv, Intact
<1>5. Intact'
  BY <1>2, <1>3
<1>4. out' \in Nat
  BY <1>1 DEF SendAgain, SendFails, StreamInv, Sends
<1> QED BY <1>1, <1>4, <1>5 DEF SendAgain, SendFails, StreamInv, StreamStep, EndIsTold

LEMMA ClosingStream ==
    ASSUME StreamInv, Close
    PROVE  StreamStep
<1>1. Intact'
  BY BytesStay DEF Close, InHand, Taken
<1> QED BY <1>1 DEF Close, StreamInv, StreamStep, EndIsTold

LEMMA ResettingStream ==
    ASSUME StreamInv, Reset
    PROVE  StreamStep
<1>1. Intact'
  BY DEF Reset, StreamInv, Intact
<1> QED BY <1>1, EmptySeq DEF Reset, StreamInv, StreamStep, EndIsTold

LEMMA CallingReceive ==
    ASSUME StreamInv, NEW total \in Totals, NEW how \in {"recv", "recv_n"}, Call(how, total)
    PROVE  StreamStep
<1>1. /\ reading' \in Receives /\ reading'.buf = <<>> /\ Len(reading'.buf) < reading'.total
      /\ saw' = "open" /\ saw = "open"
  BY StreamAssumption, EmptySeq DEF Call, Receives
<1>2. InHand' = InHand
  BY <1>1 DEF Call, InHand
<1>3. Intact'
  BY <1>2, BytesStay DEF Call, Taken
<1> QED BY <1>1, <1>3 DEF Call, StreamInv, StreamStep, EndIsTold

LEMMA ReceivingSome ==
    ASSUME StreamInv, NEW k \in 1..Capacity, ReceiveSome(k)
    PROVE  StreamStep
<1> DEFINE taken == SubSeq(wire, 1, k)
           left == SubSeq(wire, k + 1, Len(wire))
           buf == reading.buf \o taken
<1>1. /\ reading \in Receives /\ reading # None /\ saw = "open"
      /\ k \in 1..(reading.total - Len(reading.buf)) /\ k <= Len(wire)
      /\ wire \in Seq(Nat) /\ got \in Seq(Nat) /\ reading.buf \in Seq(Nat) /\ reading.total \in Nat
  BY DEF StreamInv, ReceiveSome, Receives
<1>2. Len(wire) \in Nat /\ Len(reading.buf) \in Nat /\ k \in 0..Len(wire)
  BY <1>1, LenProperties
<1>3. peer # "reset"
  <2>1. wire # <<>>
    BY <1>1, <1>2, EmptySeq
  <2> QED BY <2>1 DEF StreamInv
<1>4. taken \in Seq(Nat) /\ Len(taken) = k /\ left \in Seq(Nat) /\ taken \o left = wire
  BY <1>1, <1>2, CutIs
<1>5. wire' = left /\ UNCHANGED <<ready, out, sending, peer>>
  BY DEF ReceiveSome
<1>6. InHand = reading.buf
  BY <1>1 DEF InHand
<1>7. buf \in Seq(Nat) /\ Len(buf) = Len(reading.buf) + k /\ buf \o left = reading.buf \o wire
  <2> HIDE DEF taken, left
  <2>1. buf \in Seq(Nat) /\ Len(buf) = Len(reading.buf) + k
    <3>1. PICK h : h = reading.buf
      OBVIOUS
    <3>2. h \in Seq(Nat)
      BY <1>1, <3>1
    <3>3. h \o taken \in Seq(Nat) /\ Len(h \o taken) = Len(h) + Len(taken)
      BY ONLY <1>4, <3>2, ConcatProperties
    <3> QED BY <1>4, <3>1, <3>3
  <2>2. (reading.buf \o taken) \o left = reading.buf \o (taken \o left)
    <3>1. PICK h : h = reading.buf
      OBVIOUS
    <3>2. h \in Seq(Nat)
      BY <1>1, <3>1
    <3>3. (h \o taken) \o left = h \o (taken \o left)
      BY ONLY <1>4, <3>2, AddedBehind
    <3> QED BY <3>1, <3>3
  <2> QED BY <1>4, <2>1, <2>2
<1>8. CASE Complete(reading, Len(buf))
  <2>1. reading' = None /\ got' = got \o buf /\ saw' = "open"
    BY <1>8 DEF ReceiveSome, Returns
  <2>2. got' \in Seq(Nat) /\ Intact'
    <3> HIDE DEF buf, left, taken
    <3> QED BY <1>1, <1>3, <1>4, <1>5, <1>6, <1>7, <2>1, BytesGiven
  <2> HIDE DEF buf, left, taken
  <2> QED BY <1>4, <1>5, <2>1, <2>2 DEF StreamInv, StreamStep, EndIsTold
<1>9. CASE ~Complete(reading, Len(buf))
  <2>1. reading' = [reading EXCEPT !.buf = buf] /\ UNCHANGED <<got, saw>>
    BY <1>9 DEF ReceiveSome
  <2> HIDE DEF buf, left, taken
  <2>2. reading.call = "recv_n" /\ Len(buf) # reading.total
    BY <1>1, <1>9 DEF Complete, Receives
  <2>3. /\ reading' \in Receives /\ reading'.buf = buf /\ Len(buf) < reading.total
        /\ reading'.total = reading.total /\ reading'.call = "recv_n"
    <3>1. Len(buf) < reading.total
      <4>1. Len(buf) = Len(reading.buf) + k
        BY <1>7
      <4>2. /\ k \in 1..(reading.total - Len(reading.buf)) /\ reading.total \in Nat
            /\ Len(reading.buf) \in Nat
        BY <1>1, <1>2
      <4>3. Len(reading.buf) + k <= reading.total
        BY ONLY <4>2
      <4> QED BY ONLY <2>2, <4>1, <4>2, <4>3
    <3>2. PICK b : b = buf
      OBVIOUS
    <3>3. b \in Seq(Nat) /\ reading' = [reading EXCEPT !.buf = b]
      BY <1>7, <2>1, <3>2
    <3>4. reading' \in Receives /\ reading'.buf = b /\ reading'.total = reading.total
          /\ reading'.call = reading.call
      BY <1>1, <3>3 DEF Receives
    <3> QED BY <2>2, <3>1, <3>2, <3>4
  <2>4. InHand' = buf /\ Taken' = Taken
    BY <1>5, <2>3, CallsAreCalls DEF InHand, Taken
  <2>5. got \o buf \o left = First(Taken)
    <3>1. got \o reading.buf \o wire = First(Taken)
      BY <1>1, <1>3, <1>6 DEF StreamInv, Intact, First
    <3>2. PICK h, g : h = reading.buf /\ g = buf
      OBVIOUS
    <3>3. PICK s, v, w : s = got /\ v = wire /\ w = left
      OBVIOUS
    <3>4. /\ h \in Seq(Nat) /\ g \in Seq(Nat) /\ g \o w = h \o v
          /\ s \in Seq(Nat) /\ v \in Seq(Nat) /\ w \in Seq(Nat)
      BY <1>1, <1>4, <1>7, <3>2, <3>3
    <3>5. (s \o h) \o v = s \o (h \o v)
      BY ONLY <3>4, AddedBehind, ZenonT(60)
    <3>6. (s \o g) \o w = s \o (g \o w)
      BY ONLY <3>4, AddedBehind, ZenonT(60)
    <3>7. (s \o h) \o v = First(Taken)
      BY <3>1, <3>2, <3>3
    <3>8. (s \o g) \o w = First(Taken)
      BY ONLY <3>4, <3>5, <3>6, <3>7
    <3> QED BY <3>2, <3>3, <3>8
  <2>6. Intact'
    BY <1>5, <2>1, <2>4, <2>5 DEF StreamInv, Intact, First
  <2> QED BY <1>1, <1>3, <1>4, <1>5, <2>1, <2>3, <2>6 DEF StreamInv, StreamStep, EndIsTold
<1> QED BY <1>8, <1>9

\* The connection is at its end: what was taken and not given is in the call's hand.
LEMMA ReceivingEnd ==
    ASSUME StreamInv, ReceiveEnd
    PROVE  StreamStep
<1>1. /\ reading \in Receives /\ reading # None /\ saw = "open" /\ wire = <<>> /\ peer = "closed"
      /\ sending = None /\ reading' = None /\ got' = got \o <<>> /\ saw' = "closed"
      /\ UNCHANGED <<ready, out, sending, wire, peer>> /\ got \in Seq(Nat)
  BY DEF StreamInv, ReceiveEnd, Returns
<1>2. got' = got
  BY <1>1, ConcatEmptySeq
<1>3. Len(got) + Len(reading.buf) = out
  <2>1. Len(got) + Len(InHand) + Len(wire) = out
    BY <1>1, Lengths, CallTypes
  <2>2. Len(wire) = 0 /\ InHand = reading.buf
    BY <1>1, EmptySeq DEF InHand
  <2>3. Len(got) \in Nat /\ Len(InHand) \in Nat
    BY <1>1, CallTypes, LenProperties
  <2> QED BY <2>1, <2>2, <2>3
<1>4. EndIsTold
  <2>1. Len(got) \in Nat /\ Len(reading.buf) \in Nat /\ Len(reading.buf) < reading.total
        /\ (reading.call = "recv" => Len(reading.buf) = 0)
    BY <1>1, LenProperties, EmptySeq DEF StreamInv, Receives
  <2>2. reading.total \in Nat /\ out \in Nat
    BY <1>1 DEF Receives, StreamInv
  <2> QED BY <1>1, <1>2, <1>3, <2>1, <2>2 DEF EndIsTold
<1>5. Intact'
  BY <1>1, <1>2 DEF StreamInv, Intact
<1> QED BY <1>1, <1>2, <1>4, <1>5 DEF StreamInv, StreamStep

LEMMA ReceivingAgain ==
    ASSUME StreamInv, ReceiveAgain
    PROVE  StreamStep
<1>1. /\ reading \in Receives /\ reading # None /\ saw = "open" /\ wire = <<>> /\ peer = "open"
      /\ ready["receiver"] /\ reading' = None /\ UNCHANGED <<ready, out, sending, wire, peer>>
      /\ got \in Seq(Nat) /\ reading.buf \in Seq(Nat) /\ reading.call \in {"recv", "recv_n"}
      /\ reading.call = "recv" => reading.buf = <<>>
  BY DEF StreamInv, ReceiveAgain, Returns, Receives
<1>2. got' = got \o reading.buf
  BY <1>1 DEF ReceiveAgain, Returns, Partial
<1>3. InHand = reading.buf /\ reading.buf \o wire = InHand \o wire
  BY <1>1 DEF InHand
<1>4. got' \in Seq(Nat) /\ Intact'
  BY <1>1, <1>2, <1>3, BytesGiven, EmptySeq
<1>5. /\ saw' \in {"open", "closed"}
      /\ saw' = "closed" => reading.call = "recv_n" /\ reading.buf = <<>>
  BY <1>1 DEF ReceiveAgain, Returns
<1> QED BY <1>1, <1>4, <1>5 DEF StreamInv, StreamStep, EndIsTold

LEMMA ReceivingFails ==
    ASSUME StreamInv, ReceiveFails
    PROVE  StreamStep
<1>1. /\ peer = "reset" /\ reading' = None /\ got' = got \o <<>> /\ saw' = "failed"
      /\ UNCHANGED <<ready, out, sending, wire, peer>> /\ got \in Seq(Nat)
  BY DEF StreamInv, ReceiveFails, Returns
<1>2. got' = got
  BY <1>1, ConcatEmptySeq
<1>3. Intact'
  BY <1>1, <1>2 DEF StreamInv, Intact
<1> QED BY <1>1, <1>2, <1>3 DEF StreamInv, StreamStep, EndIsTold

LEMMA StreamSteps ==
    StreamInv /\ [StreamNext]_streamvars => StreamInv' /\ [Intact' /\ EndIsTold]_streamvars
<1> SUFFICES ASSUME StreamInv, [StreamNext]_streamvars
             PROVE  StreamInv' /\ [Intact' /\ EndIsTold]_streamvars
  OBVIOUS
<1>1. CASE UNCHANGED streamvars
  BY <1>1 DEF streamvars, StreamInv, Intact, InHand, Taken
<1>2. CASE StreamNext
  <2>1. StreamStep
    BY <1>2, SettingSocket, CallingSend, InterruptingSend, SendingSome, EndingSend, ClosingStream,
       ResettingStream, CallingReceive, ReceivingSome, ReceivingEnd, ReceivingAgain,
       ReceivingFails DEF StreamNext
  <2> QED BY <2>1 DEF StreamStep, StreamInv
<1> QED BY <1>1, <1>2

LEMMA StreamBegins == StreamInit => StreamInv
<1> SUFFICES ASSUME StreamInit PROVE StreamInv
  OBVIOUS
<1>1. Taken = 0 /\ InHand = <<>>
  BY DEF StreamInit, Taken, InHand
<1>2. got \o InHand \o wire = <<>> /\ <<>> = [i \in 1..0 |-> i] /\ DOMAIN got = 1..0
  BY <1>1, EmptySeq, ConcatEmptySeq DEF StreamInit
<1> QED BY <1>1, <1>2, EmptySeq DEF StreamInit, StreamInv, Intact

\* Whatever the system calls do, the bytes are whole and in order, and the end is
\* told only when it is one, but for the exceptions named (tcp.c:63-108).
THEOREM BytesWhole == StreamSpec => StreamKept
<1>1. StreamInit => StreamInv
  BY StreamBegins
<1>2. StreamInv /\ [StreamNext]_streamvars => StreamInv' /\ [Intact' /\ EndIsTold]_streamvars
  BY StreamSteps
<1> QED BY <1>1, <1>2, PTL DEF StreamSpec, StreamKept

-----------------------------------------------------------------------------
(* LogFiles.                                                               *)

Files == Nat \X Nat \X (0..MAX_SLICE_NO)

LogStates ==
    [status : {"notinit", "writing", "stop"}, last_check : Nat, fd : Files \cup {NoFile},
     file_len : Nat, daily_seq : Nat, time_slice_seq : Nat, tm_yday : Nat]

LogTypes ==
    /\ ctrl_cfg \in AskedConfigs /\ Accepted(ctrl_cfg) /\ now \in Start..End /\ full \in BOOLEAN
    /\ logfile \in [Writers -> LogStates] /\ lives \in Nat
    /\ size \in [DOMAIN size -> Nat] /\ DOMAIN size \subseteq Files
    /\ opened \in [Writers -> Nat] /\ failed \in [Writers -> Nat \X Nat]

\* What a process has open is there, and is the file of the day and the slice it
\* counts for; and it counts at least the files it opened this day.
FileInv(p) ==
    /\ logfile[p].fd # NoFile =>
          /\ logfile[p].fd \in DOMAIN size /\ logfile[p].status # "notinit"
          /\ logfile[p].fd[1] = logfile[p].tm_yday
          /\ Slices => logfile[p].fd[2] =
                (logfile[p].time_slice_seq * ctrl_cfg.time_slice_secs) % Day
    /\ opened[p] # 0 => logfile[p].tm_yday = DayOf(now) /\ opened[p] <= logfile[p].daily_seq
    /\ NoLimit \/ opened[p] <= ctrl_cfg.daily_max_files
    /\ Limited(logfile[p]) => logfile[p].fd # NoFile

\* The times of the last two writes to a full disk, and when the disk was looked at
\* after the one or the other.
SpacedInv(p) ==
    /\ logfile[p].last_check <= now /\ failed[p][2] <= now
    /\ failed[p][2] # 0 /\ logfile[p].status = "writing" => failed[p][2] <= logfile[p].last_check
    /\ failed[p][1] # 0 =>
          /\ logfile[p].status = "stop" => failed[p][1] <= logfile[p].last_check
          /\ logfile[p].status = "writing" =>
                failed[p][1] + CHECK_DISKFULL_DUR <= logfile[p].last_check

Alive == {p \in Writers : logfile[p].status # "notinit"}

\* The lines the processes may still write to a file they have open.
Left(f) ==
    {r \in Alive \X (1..ctrl_cfg.max_one_size) :
        logfile[r[1]].fd = f /\ logfile[r[1]].file_len < r[2]}

Room == ctrl_cfg.max_one_size - 1 + lives * (HeadLen + ctrl_cfg.max_one_size)

SizesInv ==
    Slices /\ NoLimit =>
        \A f \in DOMAIN size :
            f[3] < MAX_SLICE_NO => size[f] + Cardinality(Left(f)) <= Room

LogInv ==
    /\ LogTypes
    /\ \A p \in Writers : FileInv(p) /\ SpacedInv(p)
    /\ IsFiniteSet(Alive) /\ Cardinality(Alive) <= lives
    /\ SizesInv

LogStep == LogInv' /\ RightFile /\ AttemptsSpaced

LEMMA FilesAreFiles == \A f \in Files : f # NoFile
<1>1. DOMAIN NoFile = {}
  BY DEF NoFile
<1>2. \A f \in Files : DOMAIN f = {1, 2, 3}
  BY DEF Files
<1> QED BY <1>1, <1>2

LEMMA ConfigIs ==
    ASSUME LogTypes
    PROVE  /\ ctrl_cfg.daily_max_files \in Nat /\ ctrl_cfg.max_one_size \in Nat
           /\ ctrl_cfg.time_slice_secs \in Nat /\ ctrl_cfg.stop_if_diskfull \in BOOLEAN
           /\ now \in Nat
BY LogAssumption DEF LogTypes, Accepted

LEMMA TimesAreNat ==
    ASSUME LogTypes
    PROVE  /\ DayOf(now) \in Nat /\ SecondOf(now) \in Nat /\ SliceSeq \in Nat
           /\ Slices => SecondOf(now) = (SliceSeq * ctrl_cfg.time_slice_secs) % Day
<1>1. /\ now \in Nat /\ Day \in Nat \ {0} /\ ctrl_cfg.time_slice_secs \in Nat
  BY ConfigIs, LogAssumption
<1>2. \A m \in Nat, n \in Nat \ {0} : m \div n \in Nat /\ m % n \in Nat
  OBVIOUS
<1>3. \A m, n \in Nat : m * n \in Nat
  OBVIOUS
<1>4. SliceSeq \in Nat /\ DayOf(now) \in Nat
  BY <1>1, <1>2 DEF SliceSeq, DayOf
<1>5. SecondOf(now) \in Nat
  <2>1. (IF ctrl_cfg.time_slice_secs > 0
         THEN (now \div ctrl_cfg.time_slice_secs) * ctrl_cfg.time_slice_secs ELSE now) \in Nat
    BY <1>1, <1>2, <1>3
  <2> QED BY <1>1, <1>2, <2>1 DEF SecondOf
<1>6. Slices => SecondOf(now) = (SliceSeq * ctrl_cfg.time_slice_secs) % Day
  BY DEF Slices, SecondOf, SliceSeq
<1> QED BY <1>4, <1>5, <1>6

\* The number chosen is one of a file that has room, when any has.
LEMMA SliceNoIs ==
    ASSUME LogTypes, NEW day, NEW second
    PROVE  /\ SliceNo(day, second) \in 0..MAX_SLICE_NO
           /\ Slices /\ SliceNo(day, second) < MAX_SLICE_NO =>
                 Sized(<<day, second, SliceNo(day, second)>>) < ctrl_cfg.max_one_size
<1> DEFINE room == {no \in 0..MAX_SLICE_NO - 1 :
                       Sized(<<day, second, no>>) < ctrl_cfg.max_one_size}
<1>1. MAX_SLICE_NO \in Nat /\ ctrl_cfg.time_slice_secs \in Nat
  BY ConfigIs, LogAssumption
<1>2. CASE ctrl_cfg.time_slice_secs = 0
  BY <1>1, <1>2 DEF SliceNo, Slices
<1>3. CASE ctrl_cfg.time_slice_secs # 0
  <2>1. SliceNo(day, second) =
            IF room = {} THEN MAX_SLICE_NO ELSE CHOOSE no \in room : \A m \in room : no <= m
    BY <1>3 DEF SliceNo
  <2>2. CASE room = {}
    BY <1>1, <2>1, <2>2
  <2>3. CASE room # {}
    <3>1. room \subseteq Nat
      BY <1>1
    <3>2. \E no \in room : \A m \in room : no <= m
      <4> HIDE DEF room
      <4> QED BY <2>3, <3>1, LeastThere
    <3>3. SliceNo(day, second) \in room
      <4> HIDE DEF room
      <4> QED BY <2>1, <2>3, <3>2
    <3> QED BY <1>1, <3>3
  <2> QED BY <2>2, <2>3
<1> QED BY <1>2, <1>3

LEMMA FileNameIs ==
    ASSUME LogTypes
    PROVE  /\ FileName \in Files
           /\ FileName[1] = DayOf(now) /\ FileName[2] = SecondOf(now)
           /\ Slices /\ FileName[3] < MAX_SLICE_NO => Sized(FileName) < ctrl_cfg.max_one_size
<1>1. DayOf(now) \in Nat /\ SecondOf(now) \in Nat
  BY TimesAreNat
<1>2. PICK no : no = SliceNo(DayOf(now), SecondOf(now))
  OBVIOUS
<1>3. no \in 0..MAX_SLICE_NO
  BY <1>2, SliceNoIs
<1>4. FileName = <<DayOf(now), SecondOf(now), no>>
  BY <1>2 DEF FileName
<1>5. Slices /\ no < MAX_SLICE_NO => Sized(FileName) < ctrl_cfg.max_one_size
  BY <1>2, <1>4, SliceNoIs
<1> QED BY <1>1, <1>3, <1>4, <1>5 DEF Files

LEMMA ClearedIs ==
    ASSUME LogTypes, NEW lf \in LogStates
    PROVE  /\ Cleared(lf) \in LogStates /\ Cleared(lf).status = lf.status
           /\ Cleared(lf).last_check = lf.last_check /\ Cleared(lf).fd = NoFile
           /\ Cleared(lf).file_len = 0 /\ Cleared(lf).tm_yday = DayOf(now)
           /\ Cleared(lf).daily_seq = IF lf.tm_yday # DayOf(now) THEN 0 ELSE lf.daily_seq
           /\ Slices => Cleared(lf).time_slice_seq = SliceSeq
<1>1. PICK seq : seq = IF ctrl_cfg.time_slice_secs > 0 THEN SliceSeq ELSE lf.time_slice_seq
  OBVIOUS
<1>2. PICK n : n = IF lf.tm_yday # DayOf(now) THEN 0 ELSE lf.daily_seq
  OBVIOUS
<1>3. PICK day : day = DayOf(now)
  OBVIOUS
<1>4. seq \in Nat /\ n \in Nat /\ day \in Nat
  BY <1>1, <1>2, <1>3, TimesAreNat DEF LogStates
<1>5. Cleared(lf) = [lf EXCEPT !.time_slice_seq = seq, !.daily_seq = n, !.tm_yday = day,
                               !.file_len = 0, !.fd = NoFile]
  BY <1>1, <1>2, <1>3 DEF Cleared
<1>6. PICK a : a = [lf EXCEPT !.time_slice_seq = seq]
  OBVIOUS
<1>7. a \in LogStates
  BY <1>4, <1>6 DEF LogStates
<1>8. PICK b : b = [a EXCEPT !.daily_seq = n]
  OBVIOUS
<1>9. b \in LogStates
  BY <1>4, <1>7, <1>8 DEF LogStates
<1>10. PICK c : c = [b EXCEPT !.tm_yday = day]
  OBVIOUS
<1>11. c \in LogStates
  BY <1>4, <1>9, <1>10 DEF LogStates
<1>12. PICK d : d = [c EXCEPT !.file_len = 0]
  OBVIOUS
<1>13. d \in LogStates
  BY <1>11, <1>12 DEF LogStates
<1>14. PICK e : e = [d EXCEPT !.fd = NoFile]
  OBVIOUS
<1>15. e \in LogStates
  BY <1>13, <1>14 DEF LogStates
<1>16. Cleared(lf) = e
  BY <1>5, <1>6, <1>8, <1>10, <1>12, <1>14 DEF LogStates
<1>17. /\ e.status = lf.status /\ e.last_check = lf.last_check /\ e.fd = NoFile /\ e.file_len = 0
       /\ e.tm_yday = day /\ e.daily_seq = n /\ e.time_slice_seq = seq
  BY <1>6, <1>8, <1>10, <1>12, <1>14 DEF LogStates
<1> QED BY <1>1, <1>2, <1>3, <1>15, <1>16, <1>17 DEF Slices

LEMMA OpenedIs ==
    ASSUME LogTypes, NEW lf \in LogStates
    PROVE  /\ Opened(lf) \in LogStates /\ Opened(lf).status = lf.status
           /\ Opened(lf).last_check = lf.last_check /\ Opened(lf).fd = FileName
           /\ Opened(lf).file_len = 0 /\ Opened(lf).tm_yday = DayOf(now)
           /\ Opened(lf).daily_seq = 1 + (IF lf.tm_yday # DayOf(now) THEN 0 ELSE lf.daily_seq)
           /\ Slices => Opened(lf).time_slice_seq = SliceSeq
<1>1. PICK c : c = Cleared(lf)
  OBVIOUS
<1>2. PICK f : f = FileName
  OBVIOUS
<1>3. PICK a : a = [c EXCEPT !.fd = f]
  OBVIOUS
<1>4. PICK b : b = [a EXCEPT !.daily_seq = c.daily_seq + 1]
  OBVIOUS
<1>5. c \in LogStates /\ f \in Files
  BY <1>1, <1>2, ClearedIs, FileNameIs
<1>6. a \in LogStates
  BY <1>3, <1>5 DEF LogStates
<1>7. c.daily_seq + 1 \in Nat
  BY <1>5 DEF LogStates
<1>8. b \in LogStates
  BY <1>4, <1>6, <1>7 DEF LogStates
<1>9. Opened(lf) = b
  BY <1>1, <1>2, <1>3, <1>4, <1>5 DEF Opened, LogStates
<1>10. /\ b.status = c.status /\ b.last_check = c.last_check /\ b.fd = f /\ b.file_len = c.file_len
       /\ b.tm_yday = c.tm_yday /\ b.daily_seq = c.daily_seq + 1
       /\ b.time_slice_seq = c.time_slice_seq
  BY <1>3, <1>4, <1>5 DEF LogStates
<1>11. /\ c.status = lf.status /\ c.last_check = lf.last_check /\ c.file_len = 0
       /\ c.tm_yday = DayOf(now)
       /\ c.daily_seq = IF lf.tm_yday # DayOf(now) THEN 0 ELSE lf.daily_seq
       /\ c.daily_seq \in Nat
       /\ Slices => c.time_slice_seq = SliceSeq
  BY <1>1, <1>5, ClearedIs DEF LogStates
<1> QED BY <1>2, <1>8, <1>9, <1>10, <1>11

\* A step of one process leaves the others as they are.
LEMMA OneSteps ==
    ASSUME LogInv, NEW p \in Writers, NEW e \in LogStates,
           logfile' = [logfile EXCEPT ![p] = e], UNCHANGED <<ctrl_cfg, now, full>>,
           e.status # "notinit", DOMAIN size \subseteq DOMAIN size',
           opened' = [opened EXCEPT ![p] = opened'[p]], opened'[p] \in Nat,
           failed' = [failed EXCEPT ![p] = failed'[p]], failed'[p] \in Nat \X Nat
    PROVE  /\ logfile'[p] = e /\ \A q \in Writers \ {p} : logfile'[q] = logfile[q]
           /\ logfile' \in [Writers -> LogStates] /\ opened' \in [Writers -> Nat]
           /\ failed' \in [Writers -> Nat \X Nat]
           /\ \A q \in Writers \ {p} : FileInv(q)' /\ SpacedInv(q)'
           /\ Alive' = Alive \cup {p} /\ IsFiniteSet(Alive')
<1>1. /\ logfile'[p] = e /\ \A q \in Writers \ {p} : logfile'[q] = logfile[q]
      /\ logfile' \in [Writers -> LogStates]
  BY DEF LogInv, LogTypes
<1>2. opened' \in [Writers -> Nat] /\ \A q \in Writers \ {p} : opened'[q] = opened[q]
  BY DEF LogInv, LogTypes
<1>3. /\ failed' \in [Writers -> Nat \X Nat]
      /\ \A q \in Writers \ {p} : failed'[q] = failed[q]
  BY DEF LogInv, LogTypes
<1>4. ASSUME NEW q \in Writers \ {p} PROVE FileInv(q)' /\ SpacedInv(q)'
  <2>1. logfile'[q] = logfile[q] /\ opened'[q] = opened[q] /\ failed'[q] = failed[q]
    BY <1>1, <1>2, <1>3
  <2>2. FileInv(q) /\ SpacedInv(q)
    BY DEF LogInv
  <2>3. FileInv(q)'
    BY <2>1, <2>2 DEF FileInv, Slices, NoLimit, Limited, DayOf
  <2>4. SpacedInv(q)'
    BY <2>1, <2>2 DEF SpacedInv
  <2> QED BY <2>3, <2>4
<1>5. Alive' = Alive \cup {p}
  BY <1>1 DEF Alive
<1>6. IsFiniteSet(Alive')
  BY <1>5, FS_AddElement DEF LogInv
<1> QED BY <1>1, <1>2, <1>3, <1>4, <1>5, <1>6

LEMMA LeftIsFinite ==
    ASSUME LogInv, NEW f
    PROVE  IsFiniteSet(Left(f)) /\ Cardinality(Left(f)) \in Nat
<1>1. ctrl_cfg.max_one_size \in Int /\ IsFiniteSet(Alive)
  BY ConfigIs DEF LogInv
<1>2. IsFiniteSet(1..ctrl_cfg.max_one_size)
  BY <1>1, FS_Interval
<1>3. IsFiniteSet(Alive \X (1..ctrl_cfg.max_one_size))
  BY <1>1, <1>2, FS_Product
<1>4. Left(f) \in SUBSET (Alive \X (1..ctrl_cfg.max_one_size))
  BY DEF Left
<1>5. IsFiniteSet(Left(f))
  BY <1>3, <1>4, FS_Subset
<1> QED BY <1>5, FS_CardinalityType

\* When no file grows, and no process has more left to write.
LEMMA NoneGrows ==
    ASSUME LogInv, UNCHANGED <<ctrl_cfg, size>>, lives' \in {lives, lives + 1},
           \A f \in DOMAIN size : Left(f)' \subseteq Left(f)
    PROVE  SizesInv'
<1> SUFFICES ASSUME Slices', NoLimit', NEW f \in DOMAIN size', f[3] < MAX_SLICE_NO
             PROVE  size'[f] + Cardinality(Left(f)') <= Room'
  BY DEF SizesInv
<1>1. size[f] + Cardinality(Left(f)) <= Room
  BY DEF LogInv, SizesInv, Slices, NoLimit
<1>2. Cardinality(Left(f)') <= Cardinality(Left(f)) /\ Cardinality(Left(f)') \in Nat
  <2>1. IsFiniteSet(Left(f)) /\ Left(f)' \in SUBSET Left(f)
    BY LeftIsFinite
  <2> QED BY <2>1, FS_Subset, FS_CardinalityType
<1>3. Room <= Room' /\ Room \in Int /\ Room' \in Int
  <2>1. HeadLen + ctrl_cfg.max_one_size \in Nat /\ lives \in Nat /\ ctrl_cfg.max_one_size \in Nat
    BY ConfigIs, LogAssumption DEF LogInv, LogTypes
  <2>2. \A n, l \in Nat : (l + 1) * n = l * n + n /\ l * n \in Nat /\ (l + 1) * n \in Nat
    OBVIOUS
  <2> QED BY <2>1, <2>2 DEF Room
<1>4. size[f] \in Nat /\ size'[f] = size[f] /\ Cardinality(Left(f)) \in Nat
  BY LeftIsFinite DEF LogInv, LogTypes
<1> QED BY <1>1, <1>2, <1>3, <1>4

LEMMA Initing ==
    ASSUME LogInv, NEW p \in Writers, InitLogger(p)
    PROVE  LogStep
<1> DEFINE e == [NotInit EXCEPT !.status = "writing"]
<1>1. /\ e \in LogStates /\ e.status = "writing" /\ e.last_check = 0 /\ e.fd = NoFile
      /\ e.file_len = 0 /\ e.daily_seq = 0
  BY DEF NotInit, LogStates
<1>2. /\ logfile' = [logfile EXCEPT ![p] = e] /\ lives' = lives + 1
      /\ UNCHANGED <<ctrl_cfg, now, full, size>>
      /\ opened' = [opened EXCEPT ![p] = 0] /\ failed' = [failed EXCEPT ![p] = <<0, 0>>]
  BY DEF InitLogger
<1> HIDE DEF e
<1>3. /\ opened'[p] = 0 /\ failed'[p] = <<0, 0>>
      /\ opened' = [opened EXCEPT ![p] = opened'[p]] /\ opened'[p] \in Nat
      /\ failed' = [failed EXCEPT ![p] = failed'[p]] /\ failed'[p] \in Nat \X Nat
  BY <1>2 DEF LogInv, LogTypes
<1>4. /\ logfile'[p] = e /\ \A q \in Writers \ {p} : logfile'[q] = logfile[q]
      /\ logfile' \in [Writers -> LogStates] /\ opened' \in [Writers -> Nat]
      /\ failed' \in [Writers -> Nat \X Nat]
      /\ \A q \in Writers \ {p} : FileInv(q)' /\ SpacedInv(q)'
      /\ Alive' = Alive \cup {p} /\ IsFiniteSet(Alive')
  BY <1>1, <1>2, <1>3, OneSteps
<1>5. LogTypes'
  BY <1>2, <1>4 DEF LogInv, LogTypes, Accepted
<1>6. FileInv(p)'
  BY <1>1, <1>2, <1>3, <1>4, ConfigIs DEF FileInv, Limited, NoLimit, LogInv
<1>7. SpacedInv(p)'
  BY <1>1, <1>2, <1>3, <1>4, ConfigIs DEF SpacedInv, LogInv
<1>8. Cardinality(Alive') <= lives'
  <2>1. IsFiniteSet(Alive) /\ Cardinality(Alive) <= lives /\ lives \in Nat
    BY DEF LogInv, LogTypes
  <2>2. Cardinality(Alive) \in Nat
    BY <2>1, FS_CardinalityType
  <2>3. Cardinality(Alive \cup {p}) =
            IF p \in Alive THEN Cardinality(Alive) ELSE Cardinality(Alive) + 1
    BY <2>1, FS_AddElement
  <2> QED BY <1>2, <1>4, <2>1, <2>2, <2>3
<1>9. SizesInv'
  <2>1. ASSUME NEW f \in DOMAIN size PROVE Left(f)' \subseteq Left(f)
    <3> SUFFICES ASSUME NEW r \in Left(f)' PROVE r \in Left(f)
      OBVIOUS
    <3>1. /\ r \in Alive' \X (1..ctrl_cfg.max_one_size)
          /\ logfile'[r[1]].fd = f /\ logfile'[r[1]].file_len < r[2]
      BY <1>2 DEF Left
    <3>2. f # NoFile
      BY FilesAreFiles DEF LogInv, LogTypes
    <3>3. r[1] # p /\ r[1] \in Alive
      BY <1>1, <1>4, <3>1, <3>2
    <3>4. r[1] \in Writers
      BY <3>3 DEF Alive
    <3>5. r \in Alive \X (1..ctrl_cfg.max_one_size) /\ logfile[r[1]] = logfile'[r[1]]
      BY <1>4, <3>1, <3>3, <3>4
    <3> QED BY <3>1, <3>5 DEF Left
  <2> QED BY <1>2, <2>1, NoneGrows
<1>10. RightFile /\ AttemptsSpaced
  BY <1>2 DEF RightFile, AttemptsSpaced, Sized, LogInv, LogTypes
<1> QED BY <1>4, <1>5, <1>6, <1>7, <1>8, <1>9, <1>10 DEF LogStep, LogInv

\* A process whose file is the one it had, or none, and of which nothing else is new
\* but its status and the time of its last look.
LEMMA OneStays ==
    ASSUME LogInv, NEW p \in Writers, NEW e \in LogStates, Alive' = Alive, p \in Alive,
           \A q \in Writers \ {p} : logfile'[q] = logfile[q], logfile'[p] = e,
           e.fd \in {logfile[p].fd, NoFile}, e.file_len = logfile[p].file_len \/ e.fd = NoFile,
           UNCHANGED <<ctrl_cfg, size, lives>>
    PROVE  SizesInv'
<1>1. ASSUME NEW f \in DOMAIN size PROVE Left(f)' \subseteq Left(f)
  <2> SUFFICES ASSUME NEW r \in Left(f)' PROVE r \in Left(f)
    OBVIOUS
  <2>1. /\ r \in Alive \X (1..ctrl_cfg.max_one_size)
        /\ logfile'[r[1]].fd = f /\ logfile'[r[1]].file_len < r[2]
    BY DEF Left
  <2>2. f # NoFile /\ r[1] \in Writers
    BY <2>1, FilesAreFiles DEF LogInv, LogTypes, Alive
  <2>3. logfile[r[1]].fd = f /\ logfile[r[1]].file_len < r[2]
    BY <2>1, <2>2
  <2> QED BY <2>1, <2>3 DEF Left
<1> QED BY <1>1, NoneGrows

LEMMA Suppressing ==
    ASSUME LogInv, NEW p \in Writers, Suppress(p)
    PROVE  LogStep
<1> DEFINE lf == logfile[p]
           e == IF now - lf.last_check >= CHECK_DISKFULL_DUR THEN Resumed(lf) ELSE lf
<1>1. /\ lf \in LogStates /\ lf.status = "stop" /\ logfile' = [logfile EXCEPT ![p] = e]
      /\ UNCHANGED <<ctrl_cfg, now, full, size, lives, opened, failed>>
      /\ FileInv(p) /\ SpacedInv(p)
  BY DEF Suppress, LogInv, LogTypes
<1>2. now \in Nat
  BY ConfigIs DEF LogInv
<1>3. /\ e \in LogStates /\ e.fd = lf.fd /\ e.file_len = lf.file_len
      /\ e.daily_seq = lf.daily_seq /\ e.time_slice_seq = lf.time_slice_seq
      /\ e.tm_yday = lf.tm_yday /\ e.status \in {"stop", "writing"}
  <2>1. Resumed(lf) \in LogStates
    <3>1. PICK a : a = [lf EXCEPT !.status = "writing"]
      OBVIOUS
    <3>2. a \in LogStates
      BY <1>1, <3>1 DEF LogStates
    <3>3. [a EXCEPT !.last_check = now] \in LogStates
      BY <1>2, <3>2 DEF LogStates
    <3>4. Resumed(lf) = [a EXCEPT !.last_check = now]
      BY <1>1, <3>1 DEF Resumed, LogStates
    <3> QED BY <3>3, <3>4
  <2>2. /\ Resumed(lf).fd = lf.fd /\ Resumed(lf).file_len = lf.file_len
        /\ Resumed(lf).daily_seq = lf.daily_seq /\ Resumed(lf).time_slice_seq = lf.time_slice_seq
        /\ Resumed(lf).tm_yday = lf.tm_yday /\ Resumed(lf).status = "writing"
    BY <1>1 DEF Resumed, LogStates
  <2> HIDE DEF lf
  <2> QED BY <1>1, <2>1, <2>2
<1>4. \/ e.status = "writing" /\ e.last_check = now /\ now - lf.last_check >= CHECK_DISKFULL_DUR
      \/ e.status = "stop" /\ e.last_check = lf.last_check
  BY <1>1 DEF Resumed, LogStates
<1>5. opened' = [opened EXCEPT ![p] = opened'[p]] /\ opened'[p] \in Nat
      /\ failed' = [failed EXCEPT ![p] = failed'[p]] /\ failed'[p] \in Nat \X Nat
  BY <1>1 DEF LogInv, LogTypes
<1> HIDE DEF e
<1>6. /\ logfile'[p] = e /\ \A q \in Writers \ {p} : logfile'[q] = logfile[q]
      /\ logfile' \in [Writers -> LogStates]
      /\ \A q \in Writers \ {p} : FileInv(q)' /\ SpacedInv(q)'
      /\ Alive' = Alive \cup {p} /\ IsFiniteSet(Alive')
  BY <1>1, <1>3, <1>5, OneSteps
<1>7. p \in Alive /\ Alive' = Alive
  BY <1>1, <1>6 DEF Alive
<1>8. LogTypes'
  BY <1>1, <1>6 DEF LogInv, LogTypes, Accepted
<1>9. FileInv(p)'
  BY <1>1, <1>3, <1>6 DEF FileInv, Limited, NoLimit, Slices, DayOf
<1>10. SpacedInv(p)'
  <2>1. failed[p] \in Nat \X Nat /\ lf.last_check \in Nat /\ CHECK_DISKFULL_DUR \in Nat
    BY <1>1, LogAssumption DEF LogInv, LogTypes, LogStates
  <2>2. failed'[p] = failed[p] /\ now' = now /\ now \in Start..End /\ Start \in Nat /\ End \in Nat
    BY <1>1, LogAssumption DEF LogInv, LogTypes
  <2>3. CASE e.status = "stop" /\ e.last_check = lf.last_check
    BY <1>1, <1>6, <2>2, <2>3 DEF SpacedInv
  <2>4. CASE /\ e.status = "writing" /\ e.last_check = now
             /\ now - lf.last_check >= CHECK_DISKFULL_DUR
    <3>1. failed[p][2] <= now
      BY <1>1 DEF SpacedInv
    <3> QED BY <1>1, <1>2, <1>6, <2>1, <2>2, <2>4, <3>1 DEF SpacedInv
  <2> QED BY <1>4, <2>3, <2>4
<1>11. SizesInv'
  BY <1>1, <1>3, <1>6, <1>7, OneStays
<1>12. RightFile /\ AttemptsSpaced
  BY <1>1 DEF RightFile, AttemptsSpaced, Sized, LogInv, LogTypes
<1> QED BY <1>1, <1>6, <1>7, <1>8, <1>9, <1>10, <1>11, <1>12 DEF LogStep, LogInv

LEMMA FailingToOpen ==
    ASSUME LogInv, NEW p \in Writers, OpenFails(p)
    PROVE  LogStep
<1>1. PICK e : e = Cleared(logfile[p])
  OBVIOUS
<1>2. /\ logfile[p] \in LogStates /\ logfile[p].status = "writing" /\ ~Limited(logfile[p])
      /\ logfile' = [logfile EXCEPT ![p] = e]
      /\ UNCHANGED <<ctrl_cfg, now, full, size, lives, opened, failed>>
      /\ FileInv(p) /\ SpacedInv(p)
  BY <1>1 DEF OpenFails, NotOpened, NeedShift, LogInv, LogTypes
<1>3. /\ e \in LogStates /\ e.status = "writing" /\ e.last_check = logfile[p].last_check
      /\ e.fd = NoFile /\ e.tm_yday = DayOf(now)
      /\ e.daily_seq = IF logfile[p].tm_yday # DayOf(now) THEN 0 ELSE logfile[p].daily_seq
  BY <1>1, <1>2, ClearedIs DEF LogInv
<1>4. opened' = [opened EXCEPT ![p] = opened'[p]] /\ opened'[p] \in Nat
      /\ failed' = [failed EXCEPT ![p] = failed'[p]] /\ failed'[p] \in Nat \X Nat
  BY <1>2 DEF LogInv, LogTypes
<1>5. /\ logfile'[p] = e /\ \A q \in Writers \ {p} : logfile'[q] = logfile[q]
      /\ logfile' \in [Writers -> LogStates]
      /\ \A q \in Writers \ {p} : FileInv(q)' /\ SpacedInv(q)'
      /\ Alive' = Alive \cup {p} /\ IsFiniteSet(Alive')
  BY <1>2, <1>3, <1>4, OneSteps
<1>6. p \in Alive /\ Alive' = Alive
  BY <1>2, <1>5 DEF Alive
<1>7. LogTypes'
  BY <1>2, <1>5 DEF LogInv, LogTypes, Accepted
<1>8. FileInv(p)'
  <2>1. ~(ctrl_cfg.daily_max_files > 0 /\ e.daily_seq >= ctrl_cfg.daily_max_files)
    BY <1>2, <1>3, ConfigIs DEF Limited, LogInv
  <2> QED BY <1>2, <1>3, <1>5, <2>1 DEF FileInv, Limited, NoLimit, Slices, DayOf
<1>9. SpacedInv(p)'
  BY <1>2, <1>3, <1>5 DEF SpacedInv
<1>10. SizesInv'
  BY <1>2, <1>3, <1>5, <1>6, OneStays
<1>11. RightFile /\ AttemptsSpaced
  BY <1>2 DEF RightFile, AttemptsSpaced, Sized, LogInv, LogTypes
<1> QED BY <1>2, <1>5, <1>6, <1>7, <1>8, <1>9, <1>10, <1>11 DEF LogStep, LogInv

LEMMA Passing ==
    ASSUME LogInv, Pass
    PROVE  LogStep
<1>1. /\ now' = now + 1 /\ now < End /\ UNCHANGED <<ctrl_cfg, full, logfile, size, lives, failed>>
      /\ opened' = [p \in Writers |-> IF DayOf(now') # DayOf(now) THEN 0 ELSE opened[p]]
      /\ now \in Nat /\ Start \in Nat /\ End \in Nat
  BY ConfigIs, LogAssumption DEF Pass, LogInv
<1>2. LogTypes'
  BY <1>1 DEF LogInv, LogTypes, Accepted
<1>3. ASSUME NEW p \in Writers PROVE FileInv(p)' /\ SpacedInv(p)'
  <2>1. FileInv(p) /\ SpacedInv(p) /\ opened[p] \in Nat
    BY DEF LogInv, LogTypes
  <2>2. FileInv(p)'
    <3>1. PICK d : d = DayOf(now)
      OBVIOUS
    <3>2. PICK e : e = DayOf(now')
      OBVIOUS
    <3>3. DayOf(now)' = e
      BY <3>2 DEF DayOf
    <3>4. opened'[p] = IF e # d THEN 0 ELSE opened[p]
      BY <1>1, <3>1, <3>2
    <3>5. NoLimit' = NoLimit /\ Slices' = Slices /\ Limited(logfile[p])' = Limited(logfile[p])
      BY <1>1 DEF NoLimit, Slices, Limited
    <3>6. NoLimit \/ opened'[p] <= ctrl_cfg.daily_max_files
      BY <2>1, <3>4, ConfigIs DEF FileInv, LogInv
    <3> QED BY <1>1, <2>1, <3>1, <3>3, <3>4, <3>5, <3>6 DEF FileInv
  <2>3. SpacedInv(p)'
    <3>1. failed[p] \in Nat \X Nat /\ logfile[p] \in LogStates
      BY DEF LogInv, LogTypes
    <3> QED BY <1>1, <2>1, <3>1 DEF SpacedInv, LogStates
  <2> QED BY <2>2, <2>3
<1>4. Alive' = Alive /\ \A f \in DOMAIN size : Left(f)' = Left(f)
  BY <1>1 DEF Alive, Left
<1>5. SizesInv'
  BY <1>1, <1>4, NoneGrows
<1>6. RightFile /\ AttemptsSpaced
  BY <1>1 DEF RightFile, AttemptsSpaced, Sized, LogInv, LogTypes
<1> QED BY <1>1, <1>2, <1>3, <1>4, <1>5, <1>6 DEF LogStep, LogInv

LEMMA Filling ==
    ASSUME LogInv, UNCHANGED <<ctrl_cfg, now, logfile, size, lives, opened, failed>>,
           full' \in BOOLEAN
    PROVE  LogStep
<1>1. LogTypes'
  BY DEF LogInv, LogTypes, Accepted
<1>2. ASSUME NEW p \in Writers PROVE FileInv(p)' /\ SpacedInv(p)'
  BY DEF LogInv, FileInv, SpacedInv, NoLimit, Slices, Limited, DayOf
<1>3. Alive' = Alive /\ \A f \in DOMAIN size : Left(f)' = Left(f)
  BY DEF Alive, Left
<1>4. SizesInv'
  BY <1>3, NoneGrows
<1>5. RightFile /\ AttemptsSpaced
  BY DEF RightFile, AttemptsSpaced, Sized, LogInv, LogTypes
<1> QED BY <1>1, <1>2, <1>3, <1>4, <1>5 DEF LogStep, LogInv

\* What a process goes on with for its line, and what comes of it.
FileFor(lf) == IF NeedShift(lf) THEN Opened(lf) ELSE lf

LEMMA FileForIs ==
    ASSUME LogInv, NEW p \in Writers, logfile[p].status = "writing", NEW new, new = FileFor(logfile[p])
    PROVE  /\ new \in LogStates /\ new.fd \in Files /\ new.status = "writing"
           /\ new.last_check = logfile[p].last_check /\ new.fd[1] = new.tm_yday
           /\ Slices => new.fd[2] = (new.time_slice_seq * ctrl_cfg.time_slice_secs) % Day
           /\ \/ new.fd[1] = DayOf(now) /\ (Slices => new.fd[2] = SecondOf(now))
              \/ Limited(logfile[p])
<1>1. logfile[p] \in LogStates /\ FileInv(p)
  BY DEF LogInv, LogTypes
<1>2. CASE NeedShift(logfile[p])
  <2>1. new = Opened(logfile[p])
    BY <1>2 DEF FileFor
  <2>2. PICK f : f = FileName
    OBVIOUS
  <2>3. /\ new \in LogStates /\ new.fd = f /\ new.status = "writing"
        /\ new.last_check = logfile[p].last_check /\ new.tm_yday = DayOf(now)
        /\ Slices => new.time_slice_seq = SliceSeq
    BY <1>1, <2>1, <2>2, OpenedIs DEF LogInv
  <2>4. f \in Files /\ f[1] = DayOf(now) /\ f[2] = SecondOf(now)
    BY <2>2, FileNameIs DEF LogInv
  <2>5. Slices => f[2] = (SliceSeq * ctrl_cfg.time_slice_secs) % Day
    BY <2>4, TimesAreNat DEF LogInv
  <2> QED BY <2>3, <2>4, <2>5
<1>3. CASE ~NeedShift(logfile[p])
  <2>1. new = logfile[p]
    BY <1>3 DEF FileFor
  <2>2. logfile[p].fd # NoFile
    BY <1>1, <1>3 DEF NeedShift, FileInv
  <2>3. logfile[p].fd \in Files
    BY <1>1, <2>2 DEF LogStates
  <2>4. /\ logfile[p].fd[1] = logfile[p].tm_yday
        /\ Slices => logfile[p].fd[2] =
              (logfile[p].time_slice_seq * ctrl_cfg.time_slice_secs) % Day
    BY <1>1, <2>2 DEF FileInv
  <2>5. ~Limited(logfile[p]) => /\ logfile[p].tm_yday = DayOf(now)
                                /\ Slices => logfile[p].time_slice_seq = SliceSeq
    BY <1>3 DEF NeedShift, Slices
  <2>6. Slices => SecondOf(now) = (SliceSeq * ctrl_cfg.time_slice_secs) % Day
    BY TimesAreNat DEF LogInv
  <2> QED BY <1>1, <2>1, <2>3, <2>4, <2>5, <2>6
<1> QED BY <1>2, <1>3

\* A line that is counted, or one that stops the logger.
Counted(new, e) == e = [new EXCEPT !.file_len = new.file_len + 1]
Stopped(new, e) == e = [new EXCEPT !.status = "stop"]

LEMMA WriteIs ==
    ASSUME LogInv, NEW p \in Writers, NEW fails \in BOOLEAN, Write(p, fails), NEW new,
           new = FileFor(logfile[p])
    PROVE  \E e, k :
              /\ logfile' = [logfile EXCEPT ![p] = e] /\ size' = Grown(new.fd, k)
              /\ k \in Nat /\ k <= HeadLen + 1 /\ (~NeedShift(logfile[p]) => k <= 1)
              /\ \/ Counted(new, e) /\ failed' = failed
                 \/ /\ Stopped(new, e) /\ k = 0
                    /\ failed' = [failed EXCEPT ![p] = <<failed[p][2], now>>]
<1> DEFINE head == IF new.fd # NoFile /\ NeedShift(logfile[p]) THEN HeadLen ELSE 0
           counted == [new EXCEPT !.file_len = new.file_len + 1]
           stopped == [new EXCEPT !.status = "stop"]
<1>1. \/ /\ size' = Grown(new.fd, head + 1)
         /\ logfile' = [logfile EXCEPT ![p] = counted] /\ UNCHANGED failed
      \/ /\ size' = Grown(new.fd, head)
         /\ logfile' = [logfile EXCEPT ![p] = counted] /\ UNCHANGED failed
      \/ /\ size' = Grown(new.fd, 0)
         /\ logfile' = [logfile EXCEPT ![p] = counted] /\ UNCHANGED failed
      \/ /\ size' = Grown(new.fd, 0)
         /\ logfile' = [logfile EXCEPT ![p] = stopped]
         /\ failed' = [failed EXCEPT ![p] = <<failed[p][2], now>>]
  BY DEF Write, FileFor
<1>2. head \in Nat /\ head <= HeadLen /\ (~NeedShift(logfile[p]) => head = 0) /\ HeadLen \in Nat
  BY LogAssumption
<1>3. Counted(new, counted) /\ Stopped(new, stopped)
  BY DEF Counted, Stopped
<1> HIDE DEF head, counted, stopped
<1>4. CASE /\ size' = Grown(new.fd, head + 1)
           /\ logfile' = [logfile EXCEPT ![p] = counted] /\ UNCHANGED failed
  <2>1. head + 1 \in Nat /\ head + 1 <= HeadLen + 1 /\ (~NeedShift(logfile[p]) => head + 1 <= 1)
    BY <1>2
  <2> QED BY <1>3, <1>4, <2>1
<1>5. CASE /\ size' = Grown(new.fd, head)
           /\ logfile' = [logfile EXCEPT ![p] = counted] /\ UNCHANGED failed
  <2>1. head \in Nat /\ head <= HeadLen + 1 /\ (~NeedShift(logfile[p]) => head <= 1)
    BY <1>2
  <2> QED BY <1>3, <1>5, <2>1
<1>6. 0 \in Nat /\ 0 <= HeadLen + 1 /\ 0 <= 1
  BY <1>2
<1>7. CASE /\ size' = Grown(new.fd, 0)
           /\ logfile' = [logfile EXCEPT ![p] = counted] /\ UNCHANGED failed
  BY <1>3, <1>6, <1>7
<1>8. CASE /\ size' = Grown(new.fd, 0)
           /\ logfile' = [logfile EXCEPT ![p] = stopped]
           /\ failed' = [failed EXCEPT ![p] = <<failed[p][2], now>>]
  BY <1>3, <1>6, <1>8
<1> QED BY <1>1, <1>4, <1>5, <1>7, <1>8

LEMMA WrittenIs ==
    ASSUME NEW new \in LogStates, NEW e, new.status = "writing", Counted(new, e) \/ Stopped(new, e)
    PROVE  /\ e \in LogStates /\ e.fd = new.fd /\ e.daily_seq = new.daily_seq
           /\ e.tm_yday = new.tm_yday /\ e.time_slice_seq = new.time_slice_seq
           /\ e.last_check = new.last_check /\ e.status \in {"writing", "stop"}
           /\ Counted(new, e) => e.status = "writing" /\ e.file_len = new.file_len + 1
           /\ Stopped(new, e) => e.status = "stop" /\ e.file_len = new.file_len
<1>1. CASE Counted(new, e)
  <2>1. new.file_len + 1 \in Nat
    BY DEF LogStates
  <2> QED BY <1>1, <2>1 DEF Counted, Stopped, LogStates
<1>2. CASE Stopped(new, e)
  BY <1>2 DEF Counted, Stopped, LogStates
<1> QED BY <1>1, <1>2

LEMMA GrownIs ==
    ASSUME LogTypes, NEW g \in Files, NEW k \in Nat, size' = Grown(g, k)
    PROVE  /\ DOMAIN size' = DOMAIN size \cup {g} /\ DOMAIN size' \subseteq Files
           /\ size' \in [DOMAIN size' -> Nat] /\ Sized(g) \in Nat
           /\ size'[g] = Sized(g) + k
           /\ \A f \in DOMAIN size \ {g} : size'[f] = size[f]
<1>1. size \in [DOMAIN size -> Nat] /\ DOMAIN size \subseteq Files
  BY DEF LogTypes
<1>2. \A f : Sized(f) \in Nat
  BY <1>1 DEF Sized
<1>3. size' = [f \in DOMAIN size \cup {g} |-> Sized(f) + (IF f = g THEN k ELSE 0)]
  BY DEF Grown
<1>4. DOMAIN size' = DOMAIN size \cup {g}
  BY <1>3
<1>5. size'[g] = Sized(g) + k
  BY <1>3
<1>6. \A f \in DOMAIN size \ {g} : size'[f] = size[f]
  <2> SUFFICES ASSUME NEW f \in DOMAIN size \ {g} PROVE size'[f] = size[f]
    OBVIOUS
  <2>1. size'[f] = Sized(f) + 0 /\ Sized(f) = size[f]
    BY <1>3 DEF Sized
  <2> QED BY <1>2, <2>1
<1>7. size' \in [DOMAIN size' -> Nat]
  <2>1. \A f : Sized(f) + (IF f = g THEN k ELSE 0) \in Nat
    BY <1>2
  <2> QED BY <1>3, <1>4, <2>1
<1> QED BY <1>1, <1>2, <1>4, <1>5, <1>6, <1>7

\* The size of a file a process begins with: it had room, and no process that has it
\* open writes more than a file's lines.
LEMMA BegunSize ==
    ASSUME NEW m \in Nat \ {0}, NEW h \in Nat, NEW l \in Nat \ {0}, NEW n \in Nat, NEW z \in Nat,
           NEW k \in Nat, NEW c \in Nat, n <= l, z <= m - 1,
           \/ k <= h + 1 /\ c <= n * m - 1
           \/ k = 0 /\ c <= n * m
    PROVE  z + k + c <= m - 1 + l * (h + m)
<1>1. l * (h + m) = l * h + l * m /\ l * h \in Nat /\ l * m \in Nat /\ n * m \in Nat
  OBVIOUS
<1>2. n * m <= l * m
  <2>1. PICK d \in Nat : l = n + d
    <3>1. l - n \in Nat /\ l = n + (l - n)
      OBVIOUS
    <3> QED BY <3>1
  <2>2. l * m = n * m + d * m /\ d * m \in Nat
    BY <2>1
  <2> QED BY <1>1, <2>2
<1>3. h <= l * h
  <2>1. PICK d \in Nat : l = d + 1
    <3>1. l - 1 \in Nat /\ l = (l - 1) + 1
      OBVIOUS
    <3> QED BY <3>1
  <2>2. l * h = d * h + h /\ d * h \in Nat
    BY <2>1
  <2> QED BY <2>2
<1> QED BY <1>1, <1>2, <1>3

LEMMA WriteSizes ==
    ASSUME LogInv, NEW p \in Writers, logfile[p].status = "writing", NEW new \in LogStates,
           new = FileFor(logfile[p]), new.fd \in Files, new.status = "writing",
           NEW e \in LogStates, NEW k \in Nat, k <= HeadLen + 1, ~NeedShift(logfile[p]) => k <= 1,
           logfile'[p] = e, \A q \in Writers \ {p} : logfile'[q] = logfile[q],
           e.fd = new.fd, \/ e.file_len = new.file_len + 1
                          \/ e.file_len = new.file_len /\ k = 0,
           size' = Grown(new.fd, k), Alive' = Alive, UNCHANGED <<ctrl_cfg, lives>>
    PROVE  SizesInv'
<1> DEFINE max == ctrl_cfg.max_one_size
           g == new.fd
<1> SUFFICES ASSUME Slices', NoLimit', NEW f \in DOMAIN size', f[3] < MAX_SLICE_NO
             PROVE  size'[f] + Cardinality(Left(f)') <= Room'
  BY DEF SizesInv
<1>1. Slices /\ NoLimit /\ Room' = Room
  BY DEF Slices, NoLimit, Room
<1>2. /\ DOMAIN size' = DOMAIN size \cup {g} /\ size'[g] = Sized(g) + k /\ Sized(g) \in Nat
      /\ \A x \in DOMAIN size \ {g} : size'[x] = size[x]
  BY GrownIs DEF LogInv
<1>3. max \in Nat /\ lives \in Nat /\ HeadLen \in Nat
  BY ConfigIs, LogAssumption DEF LogInv, LogTypes
<1>4. p \in Alive /\ Alive \subseteq Writers
  BY DEF Alive
<1>5. /\ \A r \in Left(f)' : /\ r \in Alive \X (1..max) /\ logfile'[r[1]].fd = f
                             /\ logfile'[r[1]].file_len < r[2]
      /\ \A r \in Alive \X (1..max) :
            logfile[r[1]].fd = f /\ logfile[r[1]].file_len < r[2] => r \in Left(f)
  BY DEF Left
<1>6. Room \in Int
  <2>1. \A x, y \in Nat : x * y \in Nat
    OBVIOUS
  <2>2. HeadLen + max \in Nat
    BY <1>3
  <2> HIDE DEF max
  <2> QED BY <1>3, <2>1, <2>2 DEF Room, max
<1>7. CASE f # g
  <2>1. f \in DOMAIN size /\ size'[f] = size[f] /\ size[f] \in Nat
    BY <1>2, <1>7 DEF LogInv, LogTypes
  <2>2. Left(f)' \subseteq Left(f)
    <3> SUFFICES ASSUME NEW r \in Left(f)' PROVE r \in Left(f)
      OBVIOUS
    <3>1. r \in Alive \X (1..max) /\ logfile'[r[1]].fd = f /\ logfile'[r[1]].file_len < r[2]
      BY <1>5
    <3>2. r[1] # p /\ r[1] \in Writers
      BY <1>4, <1>7, <3>1
    <3>3. logfile'[r[1]] = logfile[r[1]]
      BY <3>2
    <3> QED BY <1>5, <3>1, <3>3
  <2>3. IsFiniteSet(Left(f)) /\ Cardinality(Left(f)) \in Nat
    BY LeftIsFinite
  <2>4. Cardinality(Left(f)') <= Cardinality(Left(f)) /\ Cardinality(Left(f)') \in Nat
    BY <2>2, <2>3, FS_Subset, FS_CardinalityType
  <2>5. size[f] + Cardinality(Left(f)) <= Room
    BY <1>1, <2>1 DEF LogInv, SizesInv
  <2> QED BY <1>1, <1>6, <2>1, <2>3, <2>4, <2>5
<1>8. CASE f = g /\ ~NeedShift(logfile[p])
  <2>1. new = logfile[p] /\ k <= 1
    BY <1>8 DEF FileFor
  <2>2. g \in DOMAIN size /\ logfile[p].file_len < max /\ logfile[p].file_len \in Nat
    <3>1. FileInv(p) /\ g # NoFile
      BY FilesAreFiles DEF LogInv
    <3>2. ~Limited(logfile[p])
      BY <1>1, <1>3 DEF NoLimit, Limited
    <3>3. ~(logfile[p].file_len >= max) /\ logfile[p].file_len \in Nat
      BY <1>8, <3>2 DEF NeedShift, LogInv, LogTypes, LogStates
    <3> QED BY <1>3, <2>1, <3>1, <3>3 DEF FileInv
  <2>3. size[f] \in Nat /\ size'[f] = size[f] + k
    BY <1>2, <1>8, <2>2 DEF Sized, LogInv, LogTypes
  <2>4. Left(f)' \subseteq Left(f)
    <3> SUFFICES ASSUME NEW r \in Left(f)' PROVE r \in Left(f)
      OBVIOUS
    <3>1. r \in Alive \X (1..max) /\ logfile'[r[1]].fd = f /\ logfile'[r[1]].file_len < r[2]
      BY <1>5
    <3>2. CASE r[1] # p
      <4>1. logfile'[r[1]] = logfile[r[1]]
        BY <1>4, <3>1, <3>2
      <4> QED BY <1>5, <3>1, <4>1
    <3>3. CASE r[1] = p
      <4>1. logfile[p].fd = f /\ logfile[p].file_len < r[2]
        <5>1. e.file_len < r[2] /\ r[2] \in Int
          BY <3>1, <3>3
        <5> QED BY <1>8, <2>1, <2>2, <5>1
      <4> QED BY <1>5, <3>1, <3>3, <4>1
    <3> QED BY <3>2, <3>3
  <2>5. IsFiniteSet(Left(f)) /\ Cardinality(Left(f)) \in Nat
    BY LeftIsFinite
  <2>6. size[f] + Cardinality(Left(f)) <= Room
    BY <1>1, <1>8, <2>2 DEF LogInv, SizesInv
  <2>7. CASE k = 0
    <3>1. Cardinality(Left(f)') <= Cardinality(Left(f)) /\ Cardinality(Left(f)') \in Nat
      BY <2>4, <2>5, FS_Subset, FS_CardinalityType
    <3> QED BY <1>1, <1>6, <2>3, <2>5, <2>6, <2>7, <3>1
  <2>8. CASE k = 1
    <3> DEFINE x == <<p, logfile[p].file_len + 1>>
    <3>1. x \in Left(f) /\ x \notin Left(f)'
      <4>1. x \in Alive \X (1..max) /\ x[1] = p /\ x[2] = logfile[p].file_len + 1
        BY <1>3, <1>4, <2>2
      <4>2. x \in Left(f)
        BY <1>5, <1>8, <2>1, <2>2, <4>1
      <4>3. ~(logfile'[x[1]].file_len < x[2])
        BY <2>1, <2>2, <2>8, <4>1
      <4> HIDE DEF x
      <4> QED BY <1>5, <4>2, <4>3
    <3> HIDE DEF x
    <3>2. IsFiniteSet(Left(f) \ {x}) /\ Cardinality(Left(f) \ {x}) = Cardinality(Left(f)) - 1
      BY <2>5, <3>1, FS_RemoveElement
    <3>3. Left(f)' \in SUBSET (Left(f) \ {x})
      BY <2>4, <3>1
    <3>4. Cardinality(Left(f)') <= Cardinality(Left(f)) - 1 /\ Cardinality(Left(f)') \in Nat
      BY <3>2, <3>3, FS_Subset, FS_CardinalityType
    <3> QED BY <1>1, <1>6, <2>3, <2>5, <2>6, <2>8, <3>4
  <2> QED BY <2>1, <2>7, <2>8
<1>9. CASE f = g /\ NeedShift(logfile[p])
  <2>1. new = Opened(logfile[p]) /\ logfile[p] \in LogStates
    BY <1>9 DEF FileFor, LogInv, LogTypes
  <2>2. g = FileName /\ new.file_len = 0
    BY <2>1, OpenedIs DEF LogInv
  <2>3. Sized(g) < max
    BY <1>1, <1>9, <2>2, FileNameIs DEF LogInv
  <2>4. IsFiniteSet(Alive) /\ Cardinality(Alive) <= lives /\ Cardinality(Alive) \in Nat
    BY FS_CardinalityType DEF LogInv
  <2>5. lives # 0
    <3>1. Cardinality(Alive) # 0
      BY <1>4, <2>4, FS_EmptySet
    <3> QED BY <1>3, <2>4, <3>1
  <2> DEFINE all == Alive \X (1..max)
  <2>6. IsFiniteSet(all) /\ Cardinality(all) = Cardinality(Alive) * max
    <3>1. IsFiniteSet(1..max) /\ Cardinality(1..max) = max
      <4>1. max \in Int /\ 1 \in Int /\ ~(1 > max)
        BY <1>2, <1>3, <2>3
      <4> HIDE DEF max
      <4> QED BY <4>1, FS_Interval
    <3>2. PICK ones, twos : ones = Alive /\ twos = 1..max
      OBVIOUS
    <3>3. /\ IsFiniteSet(ones) /\ IsFiniteSet(twos)
          /\ Cardinality(ones) = Cardinality(Alive) /\ Cardinality(twos) = max
      BY ONLY <2>4, <3>1, <3>2
    <3>4. IsFiniteSet(ones \X twos) /\ Cardinality(ones \X twos) = Cardinality(ones) * Cardinality(twos)
      BY ONLY <3>3, FS_Product
    <3>5. all = ones \X twos
      BY <3>2
    <3> HIDE DEF all
    <3> QED BY ONLY <3>3, <3>4, <3>5
  <2>7. Left(f)' \subseteq all
    BY <1>5
  <2>8. IsFiniteSet(Left(f)') /\ Cardinality(Left(f)') \in Nat
        /\ Cardinality(Left(f)') <= Cardinality(Alive) * max
    BY <2>6, <2>7, FS_Subset, FS_CardinalityType
  <2>9. k = 0 \/ Cardinality(Left(f)') <= Cardinality(Alive) * max - 1
    <3> SUFFICES ASSUME k # 0 PROVE Cardinality(Left(f)') <= Cardinality(Alive) * max - 1
      OBVIOUS
    <3> DEFINE x == <<p, 1>>
    <3>1. e.file_len = 1
      <4>1. e.file_len = new.file_len + 1
        OBVIOUS
      <4> QED BY <2>2, <4>1
    <3>2. x \in all /\ x[1] = p /\ x[2] = 1
      BY <1>2, <1>3, <1>4, <2>3
    <3>3. x \notin Left(f)'
      BY <1>5, <3>1, <3>2
    <3> HIDE DEF x
    <3>4. IsFiniteSet(all \ {x}) /\ Cardinality(all \ {x}) = Cardinality(Alive) * max - 1
      <4>1. PICK pairs2 : pairs2 = all
        OBVIOUS
      <4>2. IsFiniteSet(pairs2) /\ x \in pairs2 /\ Cardinality(pairs2) = Cardinality(Alive) * max
        BY <2>6, <3>2, <4>1
      <4>3. IsFiniteSet(pairs2 \ {x}) /\ Cardinality(pairs2 \ {x}) = Cardinality(pairs2) - 1
        BY ONLY <4>2, FS_RemoveElement
      <4> QED BY ONLY <4>1, <4>2, <4>3
    <3>5. Left(f)' \in SUBSET (all \ {x})
      BY <2>7, <3>3
    <3> QED BY <3>4, <3>5, FS_Subset
  <2>10. Sized(g) + k + Cardinality(Left(f)') <= max - 1 + lives * (HeadLen + max)
    <3>1. max \in Nat \ {0} /\ lives \in Nat \ {0} /\ Sized(g) <= max - 1
      BY <1>2, <1>3, <2>3, <2>5
    <3> QED BY <1>2, <1>3, <2>4, <2>8, <2>9, <3>1, BegunSize
  <2> QED BY <1>1, <1>2, <1>9, <2>10 DEF Room
<1> QED BY <1>7, <1>8, <1>9

LEMMA Writing ==
    ASSUME LogInv, NEW p \in Writers, NEW fails \in BOOLEAN, Write(p, fails)
    PROVE  LogStep
<1>1. PICK new : new = FileFor(logfile[p])
  OBVIOUS
<1>2. PICK e, k :
        /\ logfile' = [logfile EXCEPT ![p] = e] /\ size' = Grown(new.fd, k)
        /\ k \in Nat /\ k <= HeadLen + 1 /\ (~NeedShift(logfile[p]) => k <= 1)
        /\ \/ Counted(new, e) /\ failed' = failed
           \/ /\ Stopped(new, e) /\ k = 0
              /\ failed' = [failed EXCEPT ![p] = <<failed[p][2], now>>]
  BY <1>1, WriteIs
<1>3. /\ logfile[p].status = "writing" /\ UNCHANGED <<ctrl_cfg, now, full, lives>>
      /\ opened' = [opened EXCEPT ![p] = IF NeedShift(logfile[p]) THEN opened[p] + 1 ELSE opened[p]]
      /\ logfile[p] \in LogStates /\ opened[p] \in Nat /\ failed[p] \in Nat \X Nat /\ now \in Nat
      /\ FileInv(p) /\ SpacedInv(p)
  BY ConfigIs DEF Write, LogInv, LogTypes
<1>4. /\ new \in LogStates /\ new.fd \in Files /\ new.status = "writing"
      /\ new.last_check = logfile[p].last_check /\ new.fd[1] = new.tm_yday
      /\ Slices => new.fd[2] = (new.time_slice_seq * ctrl_cfg.time_slice_secs) % Day
      /\ \/ new.fd[1] = DayOf(now) /\ (Slices => new.fd[2] = SecondOf(now))
         \/ Limited(logfile[p])
  BY <1>1, <1>3, FileForIs
<1>5. /\ e \in LogStates /\ e.fd = new.fd /\ e.daily_seq = new.daily_seq
      /\ e.tm_yday = new.tm_yday /\ e.time_slice_seq = new.time_slice_seq
      /\ e.last_check = new.last_check /\ e.status \in {"writing", "stop"}
      /\ Counted(new, e) => e.status = "writing" /\ e.file_len = new.file_len + 1
      /\ Stopped(new, e) => e.status = "stop" /\ e.file_len = new.file_len
  BY <1>2, <1>4, WrittenIs
<1>6. /\ DOMAIN size' = DOMAIN size \cup {new.fd} /\ DOMAIN size' \subseteq Files
      /\ size' \in [DOMAIN size' -> Nat]
      /\ \A f \in DOMAIN size \ {new.fd} : size'[f] = size[f]
  BY <1>2, <1>4, GrownIs DEF LogInv
<1>7. /\ opened'[p] = IF NeedShift(logfile[p]) THEN opened[p] + 1 ELSE opened[p]
      /\ opened' = [opened EXCEPT ![p] = opened'[p]] /\ opened'[p] \in Nat
  BY <1>3 DEF LogInv, LogTypes
<1>8. /\ failed' = [failed EXCEPT ![p] = failed'[p]] /\ failed'[p] \in Nat \X Nat
      /\ \/ e.status = "writing" /\ failed'[p] = failed[p]
         \/ e.status = "stop" /\ failed'[p] = <<failed[p][2], now>>
      /\ \A q \in Writers \ {p} : failed'[q] = failed[q]
  <2>1. CASE Counted(new, e) /\ failed' = failed
    BY <1>3, <1>5, <2>1 DEF LogInv, LogTypes
  <2>2. CASE Stopped(new, e) /\ failed' = [failed EXCEPT ![p] = <<failed[p][2], now>>]
    <3>1. <<failed[p][2], now>> \in Nat \X Nat
      BY <1>3
    <3> QED BY <1>5, <2>2, <3>1 DEF LogInv, LogTypes
  <2> QED BY <1>2, <2>1, <2>2
<1>9. /\ logfile'[p] = e /\ \A q \in Writers \ {p} : logfile'[q] = logfile[q]
      /\ logfile' \in [Writers -> LogStates] /\ opened' \in [Writers -> Nat]
      /\ failed' \in [Writers -> Nat \X Nat]
      /\ \A q \in Writers \ {p} : FileInv(q)' /\ SpacedInv(q)'
      /\ Alive' = Alive \cup {p} /\ IsFiniteSet(Alive')
  BY <1>2, <1>3, <1>5, <1>6, <1>7, <1>8, OneSteps
<1>10. p \in Alive /\ Alive' = Alive
  BY <1>3, <1>9 DEF Alive
<1>11. LogTypes'
  BY <1>3, <1>6, <1>9 DEF LogInv, LogTypes, Accepted
<1>12. FileInv(p)'
  <2>1. NoLimit' = NoLimit /\ Slices' = Slices /\ DayOf(now)' = DayOf(now)
        /\ ctrl_cfg' = ctrl_cfg
    BY <1>3 DEF NoLimit, Slices, DayOf
  <2>2. e.fd \in DOMAIN size' /\ e.fd # NoFile
    BY <1>4, <1>5, <1>6, FilesAreFiles
  <2>3. /\ opened'[p] # 0 => e.tm_yday = DayOf(now) /\ opened'[p] <= e.daily_seq
        /\ NoLimit \/ opened'[p] <= ctrl_cfg.daily_max_files
    <3>1. CASE NeedShift(logfile[p])
      <4>1. PICK n : n = IF logfile[p].tm_yday # DayOf(now) THEN 0 ELSE logfile[p].daily_seq
        OBVIOUS
      <4>2. new.tm_yday = DayOf(now) /\ new.daily_seq = 1 + n /\ n \in Nat
        BY <1>1, <1>3, <3>1, <4>1, OpenedIs DEF FileFor, LogInv, LogStates
      <4>3. opened[p] <= n
        BY <1>3, <4>1 DEF FileInv, LogStates
      <4>4. NoLimit \/ opened[p] < ctrl_cfg.daily_max_files
        <5>1. ctrl_cfg.daily_max_files \in Nat /\ logfile[p].daily_seq \in Nat
          BY <1>3, ConfigIs DEF LogInv, LogStates
        <5>2. NoLimit \/ logfile[p].daily_seq < ctrl_cfg.daily_max_files
          BY <3>1, <5>1 DEF NeedShift, Limited, NoLimit
        <5> QED BY <1>3, <4>1, <4>3, <5>1, <5>2 DEF NoLimit
      <4> QED BY <1>3, <1>5, <1>7, <3>1, <4>2, <4>3, <4>4, ConfigIs DEF LogInv
    <3>2. CASE ~NeedShift(logfile[p])
      BY <1>1, <1>3, <1>5, <1>7, <3>2 DEF FileFor, FileInv
    <3> QED BY <3>1, <3>2
  <2>4. e.status # "notinit" /\ e.fd[1] = e.tm_yday
        /\ (Slices => e.fd[2] = (e.time_slice_seq * ctrl_cfg.time_slice_secs) % Day)
    BY <1>4, <1>5
  <2> QED BY <1>9, <2>1, <2>2, <2>3, <2>4 DEF FileInv
<1>13. e.last_check = logfile[p].last_check /\ logfile[p].last_check \in Nat
       /\ CHECK_DISKFULL_DUR \in Nat
  BY <1>3, <1>4, <1>5, LogAssumption DEF LogStates
<1>14. SpacedInv(p)'
  <2>1. CASE e.status = "writing" /\ failed'[p] = failed[p]
    BY <1>3, <1>9, <1>13, <2>1 DEF SpacedInv
  <2>2. CASE e.status = "stop" /\ failed'[p] = <<failed[p][2], now>>
    <3>1. failed'[p][1] = failed[p][2] /\ failed'[p][2] = now
      BY <2>2
    <3> QED BY <1>3, <1>9, <1>13, <2>2, <3>1 DEF SpacedInv
  <2> QED BY <1>8, <2>1, <2>2
<1>15. SizesInv'
  <2>1. e.file_len = new.file_len + 1 \/ (e.file_len = new.file_len /\ k = 0)
    <3>1. CASE Counted(new, e) /\ failed' = failed
      BY <1>4, <3>1 DEF Counted, LogStates
    <3>2. CASE /\ Stopped(new, e) /\ k = 0
               /\ failed' = [failed EXCEPT ![p] = <<failed[p][2], now>>]
      BY <1>4, <3>2 DEF Stopped, LogStates
    <3> QED BY <1>2, <3>1, <3>2
  <2> QED BY <1>1, <1>2, <1>3, <1>4, <1>5, <1>9, <1>10, <2>1, WriteSizes
<1>16. RightFile
  <2> SUFFICES ASSUME NEW f \in DOMAIN size', f \notin DOMAIN size \/ size'[f] # Sized(f)
               PROVE  f = new.fd
    BY <1>4, <1>5, <1>9 DEF RightFile
  <2> QED BY <1>6 DEF Sized
<1>17. AttemptsSpaced
  <2> SUFFICES ASSUME NEW q \in Writers, failed'[q] # failed[q], failed[q][1] # 0
               PROVE  failed'[q][2] - failed[q][1] >= CHECK_DISKFULL_DUR
    BY DEF AttemptsSpaced
  <2>1. q = p /\ failed'[p][2] = now
    BY <1>8
  <2> QED BY <1>3, <1>13, <2>1 DEF SpacedInv
<1> QED BY <1>3, <1>9, <1>10, <1>11, <1>12, <1>14, <1>15, <1>16, <1>17 DEF LogStep, LogInv

LEMMA LogSteps ==
    LogInv /\ [LogNext]_logvars => LogInv' /\ [RightFile /\ AttemptsSpaced]_logvars
<1> SUFFICES ASSUME LogInv, [LogNext]_logvars
             PROVE  LogInv' /\ [RightFile /\ AttemptsSpaced]_logvars
  OBVIOUS
<1>1. LogStep
  <2>1. CASE UNCHANGED logvars
    BY <2>1, Filling DEF logvars, LogInv, LogTypes
  <2>2. ASSUME NEW p \in Writers,
               InitLogger(p) \/ Suppress(p) \/ MkdirFails(p) \/ OpenFails(p)
                  \/ \E fails \in BOOLEAN : Write(p, fails)
        PROVE  LogStep
    <3>1. CASE MkdirFails(p)
      BY <3>1, Filling DEF MkdirFails, LogInv, LogTypes
    <3> QED BY <2>2, <3>1, Initing, Suppressing, FailingToOpen, Writing
  <2>3. CASE Pass
    BY <2>3, Passing
  <2>4. CASE DiskFills
    BY <2>4, Filling DEF DiskFills, LogInv, LogTypes
  <2> QED BY <2>1, <2>2, <2>3, <2>4 DEF LogNext
<1> QED BY <1>1 DEF LogStep

LEMMA LogBegins == LogInit => LogInv
<1> SUFFICES ASSUME LogInit PROVE LogInv
  OBVIOUS
<1>1. NotInit \in LogStates /\ NotInit.status = "notinit" /\ NotInit.fd = NoFile
      /\ NotInit.daily_seq = 0 /\ NotInit.last_check = 0
  BY DEF NotInit, LogStates
<1>2. logfile \in [Writers -> LogStates] /\ \A p \in Writers : logfile[p] = NotInit
  BY <1>1 DEF LogInit
<1>3. DOMAIN size = {} /\ size \in [DOMAIN size -> Nat]
  BY DEF LogInit
<1>4. LogTypes
  <2>1. opened \in [Writers -> Nat] /\ failed \in [Writers -> Nat \X Nat]
    <3>1. <<0, 0>> \in Nat \X Nat
      OBVIOUS
    <3> QED BY <3>1 DEF LogInit
  <2>2. ctrl_cfg \in AskedConfigs /\ Accepted(ctrl_cfg) /\ now \in Start..End /\ full \in BOOLEAN
        /\ lives = 0
    <3>1. ctrl_cfg \in AskedConfigs /\ Accepted(ctrl_cfg)
      BY DEF LogInit
    <3>2. now \in Start..End
      BY LogAssumption DEF LogInit
    <3> QED BY <3>1, <3>2 DEF LogInit
  <2> QED BY <1>2, <1>3, <2>1, <2>2 DEF LogTypes
<1>5. ASSUME NEW p \in Writers PROVE FileInv(p) /\ SpacedInv(p)
  <2>1. opened[p] = 0 /\ failed[p] = <<0, 0>> /\ logfile[p] = NotInit
    BY <1>2 DEF LogInit
  <2>2. failed[p][1] = 0 /\ failed[p][2] = 0
    BY <2>1
  <2>3. FileInv(p)
    BY <1>1, <1>4, <2>1, ConfigIs DEF FileInv, Limited, NoLimit
  <2>4. SpacedInv(p)
    BY <1>1, <1>4, <2>1, <2>2, ConfigIs DEF SpacedInv
  <2> QED BY <2>3, <2>4
<1>6. Alive = {} /\ IsFiniteSet(Alive) /\ Cardinality(Alive) = 0 /\ lives = 0
  BY <1>1, <1>2, FS_EmptySet DEF Alive, LogInit
<1> QED BY <1>3, <1>4, <1>5, <1>6 DEF LogInv, SizesInv

LEMMA LogIsKept == LogInv => LogKept
<1> SUFFICES ASSUME LogInv PROVE LogKept
  OBVIOUS
<1>1. LogTypeOK
  <2>1. ASSUME NEW p \in Writers
        PROVE  /\ logfile[p].status \in {"notinit", "writing", "stop"}
               /\ logfile[p].fd \in DOMAIN size \cup {NoFile}
               /\ logfile[p].last_check \in 0..now
               /\ logfile[p].file_len \in Nat /\ logfile[p].daily_seq \in Nat
    <3>1. logfile[p] \in LogStates /\ FileInv(p) /\ SpacedInv(p) /\ now \in Nat
      BY ConfigIs DEF LogInv, LogTypes
    <3> QED BY <3>1 DEF LogStates, FileInv, SpacedInv
  <2>2. \A f \in DOMAIN size : size[f] \in Nat /\ f[3] \in 0..MAX_SLICE_NO
    BY DEF LogInv, LogTypes, Files
  <2> QED BY <2>1, <2>2 DEF LogTypeOK, LogInv, LogTypes
<1>2. SizeBounded
  <2> DEFINE each == HeadLen + ctrl_cfg.max_one_size
  <2> SUFFICES ASSUME Slices, NoLimit, NEW f \in DOMAIN size, f[3] < MAX_SLICE_NO
               PROVE  size[f] <= ctrl_cfg.max_one_size - 1 + lives * each
    BY DEF SizeBounded
  <2>1. size[f] + Cardinality(Left(f)) <= Room
    BY DEF LogInv, SizesInv
  <2>2. Cardinality(Left(f)) \in Nat /\ size[f] \in Nat
    BY LeftIsFinite DEF LogInv, LogTypes
  <2>3. Room \in Int
    <3>1. each \in Nat /\ lives \in Nat /\ ctrl_cfg.max_one_size \in Nat
      BY ConfigIs, LogAssumption DEF LogInv, LogTypes
    <3>2. lives * each \in Nat
      <4> HIDE DEF each
      <4> QED BY <3>1
    <3> QED BY <3>1, <3>2 DEF Room
  <2> QED BY <2>1, <2>2, <2>3 DEF Room
<1>3. DailyCount /\ NeverDeadFd
  BY DEF LogInv, FileInv, DailyCount, NeverDeadFd
<1> QED BY <1>1, <1>2, <1>3 DEF LogKept

\* A file stays below the bound its limit sets, a process opens no more files a day
\* than it may and has counted on no descriptor that is not open (tlog.c:216-378).
THEOREM LogIsBounded == LogSpec => []LogKept
<1>1. LogInit => LogInv
  BY LogBegins
<1>2. LogInv /\ [LogNext]_logvars => LogInv'
  BY LogSteps
<1>3. LogInv => LogKept
  BY LogIsKept
<1> QED BY <1>1, <1>2, <1>3, PTL DEF LogSpec

\* A line goes to the file of its day and slice, and a full disk is left alone for a
\* while (tlog.c:332-378, 458-483).
THEOREM LinesGoRight == LogSpec => LinesKept
<1>1. LogInit => LogInv
  BY LogBegins
<1>2. LogInv /\ [LogNext]_logvars => LogInv' /\ [RightFile /\ AttemptsSpaced]_logvars
  BY LogSteps
<1> QED BY <1>1, <1>2, PTL DEF LogSpec, LinesKept

-----------------------------------------------------------------------------
(* ConfigFiles.                                                            *)

Conf == given.conf.lines
Key(i) == KeyOf(Conf[i])
Val(i) == ValueOf(Conf[i])

\* Of the lines before n, those that set a key.
Before(n) == {i \in Settings : i < n}

\* What the pairs hold when the lines before n are read.
PairsInv(n) ==
    /\ DOMAIN pairs = {Key(i) : i \in Before(n)}
    /\ \A i \in Before(n) :
          /\ Fits(Val(i))
          /\ (\E j \in Before(n) : Again(i, j)) \/ pairs[Key(i)] = Val(i)
    /\ \A i, j \in Before(n) : Again(i, j) => Val(i) # Val(j)

LEMMA NumbersOfLines ==
    ASSUME Conf \in Seq([indented : BOOLEAN, words : Seq(STRING)])
    PROVE  Settings \subseteq 1..Len(Conf) /\ Len(Conf) \in Nat
BY LenProperties DEF Settings, Conf

\* No line set the key after i: the next one to set it does so again.
LEMMA NoneAgain ==
    ASSUME Conf \in Seq([indented : BOOLEAN, words : Seq(STRING)]), NEW n \in Nat,
           NEW i \in Before(n), \A j \in Before(n) : ~Again(i, j)
    PROVE  /\ \A m \in Before(n) : i < m => Key(m) # Key(i)
           /\ n \in Settings /\ Key(n) = Key(i) => Again(i, n)
<1>1. Before(n) \subseteq Nat /\ Settings \subseteq Nat
  BY NumbersOfLines DEF Before
<1> DEFINE after == {m \in Before(n) : i < m /\ Key(m) = Key(i)}
<1>2. after = {}
  <2> SUFFICES ASSUME after # {} PROVE FALSE
    OBVIOUS
  <2>1. PICK j \in after : \A m \in after : j <= m
    <3>1. after \subseteq Nat
      BY <1>1
    <3> HIDE DEF after
    <3> QED BY <3>1, LeastThere
  <2>2. Again(i, j)
    <3>1. i < j /\ Key(j) = Key(i) /\ j \in Before(n)
      BY <2>1
    <3>2. ASSUME NEW k \in Settings, i < k, k < j, Key(k) = Key(i) PROVE FALSE
      <4>1. k \in Before(n)
        BY <1>1, <3>1, <3>2 DEF Before
      <4>2. k \in after
        BY <3>2, <4>1
      <4> QED BY <1>1, <2>1, <3>1, <3>2, <4>1, <4>2
    <3> QED BY <3>1, <3>2 DEF Again, Key, Conf
  <2> QED BY <2>1, <2>2
<1>3. \A m \in Before(n) : i < m => Key(m) # Key(i)
  BY <1>2
<1>4. ASSUME n \in Settings, Key(n) = Key(i) PROVE Again(i, n)
  <2>1. i < n
    BY DEF Before
  <2>2. \A k \in Settings : i < k /\ k < n => Key(k) # Key(i)
    BY <1>3 DEF Before
  <2> QED BY <1>4, <2>1, <2>2 DEF Again, Key, Conf
<1> QED BY <1>3, <1>4

\* The last line that set a key gave it its value.
LEMMA LastGave ==
    ASSUME Conf \in Seq([indented : BOOLEAN, words : Seq(STRING)]), NEW n \in Nat,
           PairsInv(n), NEW k \in DOMAIN pairs
    PROVE  \E i \in Before(n) :
              Key(i) = k /\ pairs[k] = Val(i) /\ \A j \in Before(n) : ~Again(i, j)
<1> DEFINE S == {i \in Before(n) : Key(i) = k}
<1>1. S \subseteq 0..n /\ S # {}
  BY NumbersOfLines DEF PairsInv, Before
<1>2. PICK i \in S : \A y \in S : y <= i
  <2> HIDE DEF S
  <2> QED BY <1>1, GreatestThere
<1>3. \A j \in Before(n) : ~Again(i, j)
  <2> SUFFICES ASSUME NEW j \in Before(n), Again(i, j) PROVE FALSE
    OBVIOUS
  <2>1. i < j /\ j \in S
    BY DEF Again, Key, Conf
  <2> QED BY <1>1, <1>2, <2>1
<1> QED BY <1>2, <1>3 DEF PairsInv

\* A line that sets nothing.
LEMMA NothingSet ==
    ASSUME Conf \in Seq([indented : BOOLEAN, words : Seq(STRING)]), NEW n \in Nat,
           n \notin Settings, PairsInv(n)
    PROVE  PairsInv(n + 1)
<1>1. Before(n + 1) = Before(n)
  BY NumbersOfLines DEF Before
<1> QED BY <1>1 DEF PairsInv

\* A line that is neither appended nor an update is one of a file to refuse.
LEMMA RefusedRightly ==
    ASSUME Conf \in Seq([indented : BOOLEAN, words : Seq(STRING)]), NEW n \in Settings, PairsInv(n),
           AppendFails(Key(n), Val(n)), UpdateFails(Key(n), Val(n))
    PROVE  Refusable
<1>1. CASE ~Fits(Val(n))
  BY <1>1 DEF Refusable, Val, Conf
<1>2. CASE Fits(Val(n))
  <2>1. Key(n) \in DOMAIN pairs /\ pairs[Key(n)] = Val(n)
    BY <1>2 DEF AppendFails, UpdateFails
  <2>2. n \in Nat
    BY NumbersOfLines
  <2>3. PICK i \in Before(n) : /\ Key(i) = Key(n) /\ pairs[Key(n)] = Val(i)
                               /\ \A j \in Before(n) : ~Again(i, j)
    BY <2>1, <2>2, LastGave
  <2>4. Again(i, n) /\ Val(i) = Val(n) /\ i \in Settings
    BY <2>1, <2>2, <2>3, NoneAgain DEF Before
  <2> QED BY <2>4 DEF Refusable, Val, Conf
<1> QED BY <1>1, <1>2

LEMMA PairSet ==
    ASSUME Conf \in Seq([indented : BOOLEAN, words : Seq(STRING)]), NEW n \in Settings, PairsInv(n),
           ~(AppendFails(Key(n), Val(n)) /\ UpdateFails(Key(n), Val(n))),
           pairs' = WithPair(Key(n), Val(n)), UNCHANGED given
    PROVE  PairsInv(n + 1)'
<1>1. Settings' = Settings /\ Before(n + 1)' = Before(n + 1)
      /\ \A i : Key(i)' = Key(i) /\ Val(i)' = Val(i)
  BY DEF Settings, Before, Key, Val, Conf
<1>2. n \in Nat
  BY NumbersOfLines
<1>3. Before(n + 1) = Before(n) \cup {n} /\ n \notin Before(n) /\ Before(n) \subseteq Nat
  <2>1. Settings \subseteq Nat
    BY NumbersOfLines
  <2>2. \A i \in Nat : i < n + 1 <=> (i < n \/ i = n)
    BY <1>2
  <2>3. ~(n < n)
    BY <1>2
  <2> QED BY <2>1, <2>2, <2>3 DEF Before
<1>4. \A i, j : Again(i, j)' <=> Again(i, j)
  BY <1>1 DEF Again
<1>5. DOMAIN pairs' = DOMAIN pairs \cup {Key(n)} /\ pairs'[Key(n)] = Val(n)
      /\ \A k \in DOMAIN pairs \ {Key(n)} : pairs'[k] = pairs[k]
  BY DEF WithPair
<1>6. Fits(Val(n)) /\ (Key(n) \in DOMAIN pairs => pairs[Key(n)] # Val(n))
  BY DEF AppendFails, UpdateFails
<1>7. DOMAIN pairs' = {Key(i) : i \in Before(n + 1)}
  BY <1>3, <1>5 DEF PairsInv
<1>8. ASSUME NEW i \in Before(n + 1)
      PROVE  /\ Fits(Val(i))
             /\ (\E j \in Before(n + 1) : Again(i, j)) \/ pairs'[Key(i)] = Val(i)
  <2>1. CASE i = n
    BY <1>5, <1>6, <2>1
  <2>2. CASE i \in Before(n)
    <3>1. Fits(Val(i)) /\ ((\E j \in Before(n) : Again(i, j)) \/ pairs[Key(i)] = Val(i))
          /\ Key(i) \in DOMAIN pairs
      BY <2>2 DEF PairsInv
    <3>2. CASE \E j \in Before(n) : Again(i, j)
      BY <1>3, <3>1, <3>2
    <3>3. CASE \A j \in Before(n) : ~Again(i, j)
      <4>1. CASE Key(i) = Key(n)
        <5>1. Again(i, n)
          BY <1>2, <2>2, <3>3, <4>1, NoneAgain
        <5> QED BY <1>3, <3>1, <5>1
      <4>2. CASE Key(i) # Key(n)
        BY <1>5, <3>1, <3>3, <4>2
      <4> QED BY <4>1, <4>2
    <3> QED BY <3>2, <3>3
  <2> QED BY <1>3, <2>1, <2>2
<1>9. ASSUME NEW i \in Before(n + 1), NEW j \in Before(n + 1), Again(i, j)
      PROVE  Val(i) # Val(j)
  <2>1. i < j /\ i \in Nat /\ j \in Nat
    BY <1>2, <1>3, <1>9 DEF Again
  <2>2. i \in Before(n)
    <3>1. i # n
      BY <1>2, <1>3, <2>1 DEF Before
    <3> QED BY <1>3, <3>1
  <2>3. CASE j \in Before(n)
    BY <1>9, <2>2, <2>3 DEF PairsInv
  <2>4. CASE j = n
    <3>1. Key(i) = Key(n) /\ Key(n) \in DOMAIN pairs
      BY <1>9, <2>2, <2>4 DEF Again, Key, Conf, PairsInv
    <3>2. \A m \in Before(n) : ~Again(i, m)
      <4> SUFFICES ASSUME NEW m \in Before(n), Again(i, m) PROVE FALSE
        OBVIOUS
      <4>1. i < m /\ m < n /\ m \in Settings /\ Key(m) = Key(i)
        BY DEF Again, Before, Key, Conf
      <4> QED BY <1>9, <2>4, <4>1 DEF Again, Key, Conf
    <3>3. pairs[Key(i)] = Val(i)
      BY <2>2, <3>2 DEF PairsInv
    <3> QED BY <1>6, <2>4, <3>1, <3>3
  <2> QED BY <1>3, <2>3, <2>4
<1> QED BY <1>1, <1>4, <1>7, <1>8, <1>9 DEF PairsInv

-----------------------------------------------------------------------------
(* The entries.                                                            *)

BindLines == given.binds.lines
SeenEntries(n) == {i \in EntryLines : i < n}

\* The entries of the lines before n are there, each at its place.
EntriesInv(n) ==
    /\ Len(configs) = Cardinality(SeenEntries(n))
    /\ \A i \in SeenEntries(n) : configs[UpToLine(i)] = EntryOf(BindLines[i].words)

\* Of the rows lua_next has come to each is there as often as in the table.
RowsInv(left) ==
    \A row : Cardinality({i \in DOMAIN configs : configs[i] = row})
               = Cardinality({i \in DOMAIN given.rows \ left : EntryOf(given.rows[i]) = row})

\* All the entries the files could give.
Given4 == {EntryOf(BindLines[i].words) : i \in DOMAIN BindLines}
             \cup {EntryOf(given.rows[i]) : i \in DOMAIN given.rows}

LEMMA LinesAreNumbers ==
    ASSUME BindLines \in Seq([indented : BOOLEAN, words : Seq(STRING)])
    PROVE  /\ EntryLines \subseteq 1..Len(BindLines) /\ Len(BindLines) \in Nat
           /\ EntryLines \subseteq Nat /\ IsFiniteSet(EntryLines)
<1>1. EntryLines \subseteq 1..Len(BindLines) /\ Len(BindLines) \in Nat
  BY LenProperties DEF EntryLines, BindLines
<1>2. PICK n \in Nat : n = Len(BindLines)
  BY <1>1
<1>3. EntryLines \in SUBSET (1..n) /\ IsFiniteSet(1..n)
  BY <1>1, <1>2, FS_Interval
<1>4. IsFiniteSet(EntryLines)
  BY <1>3, FS_Subset
<1>5. EntryLines \subseteq Nat
  BY <1>2, <1>3
<1> QED BY <1>1, <1>4, <1>5

LEMMA SeenIsFinite ==
    ASSUME BindLines \in Seq([indented : BOOLEAN, words : Seq(STRING)]), NEW n
    PROVE  IsFiniteSet(SeenEntries(n)) /\ Cardinality(SeenEntries(n)) \in Nat
<1>1. SeenEntries(n) \in SUBSET EntryLines
  BY DEF SeenEntries
<1>2. IsFiniteSet(SeenEntries(n))
  BY <1>1, LinesAreNumbers, FS_Subset
<1> QED BY <1>2, FS_CardinalityType

\* The place of an entry is one of the entries so far.
LEMMA PlaceIs ==
    ASSUME BindLines \in Seq([indented : BOOLEAN, words : Seq(STRING)]), NEW n \in Nat,
           NEW i \in SeenEntries(n)
    PROVE  UpToLine(i) \in 1..Cardinality(SeenEntries(n))
<1> DEFINE S == {j \in EntryLines : j <= i}
<1>1. EntryLines \subseteq Nat /\ i \in EntryLines /\ i < n
  BY LinesAreNumbers DEF SeenEntries
<1>2. S \in SUBSET SeenEntries(n) /\ i \in S
  <2>1. \A j \in Nat : j <= i => j < n
    BY <1>1
  <2>2. i <= i
    BY <1>1
  <2> QED BY <1>1, <2>1, <2>2 DEF SeenEntries
<1>3. IsFiniteSet(SeenEntries(n)) /\ Cardinality(SeenEntries(n)) \in Nat
  BY SeenIsFinite
<1> HIDE DEF S
<1>4. IsFiniteSet(S) /\ Cardinality(S) <= Cardinality(SeenEntries(n))
  BY <1>2, <1>3, FS_Subset
<1>5. Cardinality(S) \in Nat /\ Cardinality(S) # 0
  BY <1>2, <1>4, FS_CardinalityType, FS_EmptySet
<1>6. UpToLine(i) = Cardinality(S)
  BY DEF UpToLine, S
<1> QED BY <1>3, <1>4, <1>5, <1>6

LEMMA EntryAdded ==
    ASSUME BindLines \in Seq([indented : BOOLEAN, words : Seq(STRING)]), NEW n \in EntryLines,
           EntriesInv(n), configs \in Seq(Given4), UNCHANGED given,
           configs' = Append(configs, EntryOf(BindLines[n].words))
    PROVE  EntriesInv(n + 1)' /\ configs' \in Seq(Given4)
<1>1. n \in Nat /\ EntryLines \subseteq Nat
  BY LinesAreNumbers
<1>2. PICK e : e = EntryOf(BindLines[n].words)
  OBVIOUS
<1>3. e \in Given4
  BY <1>2 DEF Given4, EntryLines, BindLines
<1>4. /\ configs' \in Seq(Given4) /\ Len(configs') = Len(configs) + 1
      /\ \A i \in 1..Len(configs) : configs'[i] = configs[i]
      /\ configs'[Len(configs) + 1] = e
  BY <1>2, <1>3, AppendProperties
<1>5. /\ SeenEntries(n + 1) = SeenEntries(n) \cup {n} /\ n \notin SeenEntries(n)
      /\ SeenEntries(n + 1) = {j \in EntryLines : j <= n}
  <2>1. \A i \in Nat : /\ i < n + 1 <=> (i < n \/ i = n)
                       /\ i < n + 1 <=> i <= n
    BY <1>1
  <2>2. ~(n < n)
    BY <1>1
  <2> QED BY <1>1, <2>1, <2>2 DEF SeenEntries
<1>6. IsFiniteSet(SeenEntries(n)) /\ Cardinality(SeenEntries(n)) \in Nat
  BY SeenIsFinite
<1>7. Cardinality(SeenEntries(n + 1)) = Cardinality(SeenEntries(n)) + 1
  BY <1>5, <1>6, FS_AddElement
<1>8. UpToLine(n) = Cardinality(SeenEntries(n + 1))
  BY <1>5 DEF UpToLine
<1>9. ASSUME NEW i \in SeenEntries(n + 1)
      PROVE  configs'[UpToLine(i)] = EntryOf(BindLines[i].words)
  <2>1. CASE i = n
    BY <1>2, <1>4, <1>7, <1>8, <2>1 DEF EntriesInv
  <2>2. CASE i \in SeenEntries(n)
    <3>1. UpToLine(i) \in 1..Cardinality(SeenEntries(n))
      BY <1>1, <2>2, PlaceIs
    <3> QED BY <1>4, <2>2, <3>1 DEF EntriesInv
  <2> QED BY <1>5, <2>1, <2>2
<1>10. SeenEntries(n + 1)' = SeenEntries(n + 1) /\ BindLines' = BindLines /\ Given4' = Given4
       /\ \A i : UpToLine(i)' = UpToLine(i)
  BY DEF SeenEntries, EntryLines, BindLines, UpToLine, Given4
<1>11. Len(configs') = Cardinality(SeenEntries(n + 1))
  BY <1>4, <1>7 DEF EntriesInv
<1> QED BY <1>4, <1>9, <1>10, <1>11 DEF EntriesInv

LEMMA NoEntry ==
    ASSUME BindLines \in Seq([indented : BOOLEAN, words : Seq(STRING)]), NEW n \in Nat,
           n \notin EntryLines, EntriesInv(n), UNCHANGED <<given, configs>>
    PROVE  EntriesInv(n + 1)'
<1>1. SeenEntries(n + 1) = SeenEntries(n)
  <2>1. \A i \in Nat : i < n + 1 <=> (i < n \/ i = n)
    OBVIOUS
  <2> QED BY <2>1, LinesAreNumbers DEF SeenEntries
<1>2. SeenEntries(n + 1)' = SeenEntries(n + 1) /\ BindLines' = BindLines /\ \A i : UpToLine(i)' = UpToLine(i)
  BY DEF SeenEntries, EntryLines, BindLines, UpToLine
<1> QED BY <1>1, <1>2 DEF EntriesInv

LEMMA RowAdded ==
    ASSUME given.rows \in Seq(Seq(STRING)), rows \subseteq DOMAIN given.rows, NEW i \in rows,
           configs \in Seq(Given4), RowsInv(rows), UNCHANGED given, rows' = rows \ {i},
           configs' = Append(configs, EntryOf(given.rows[i]))
    PROVE  RowsInv(rows)' /\ configs' \in Seq(Given4)
<1>1. PICK e : e = EntryOf(given.rows[i])
  OBVIOUS
<1>2. e \in Given4
  BY <1>1 DEF Given4
<1>3. PICK n \in Nat : n = Len(configs) /\ DOMAIN configs = 1..n
  BY LenProperties
<1>4. /\ configs' \in Seq(Given4) /\ Len(configs') = n + 1
      /\ \A k \in 1..n : configs'[k] = configs[k]
      /\ configs'[n + 1] = e
  BY <1>1, <1>2, <1>3, AppendProperties
<1>5. DOMAIN configs' = 1..n + 1
  BY <1>4, LenProperties
<1>6. PICK m \in Nat : DOMAIN given.rows = 1..m
  BY LenProperties
<1>7. ASSUME NEW row
      PROVE  Cardinality({k \in DOMAIN configs' : configs'[k] = row})
               = Cardinality({k \in DOMAIN given.rows \ rows' : EntryOf(given.rows[k]) = row})
  <2> DEFINE A == {k \in DOMAIN configs : configs[k] = row}
             B == {k \in DOMAIN given.rows \ rows : EntryOf(given.rows[k]) = row}
             C == {k \in DOMAIN configs' : configs'[k] = row}
             D == {k \in DOMAIN given.rows \ rows' : EntryOf(given.rows[k]) = row}
  <2>1. Cardinality(A) = Cardinality(B)
    BY DEF RowsInv
  <2>2. IsFiniteSet(A) /\ IsFiniteSet(B)
    <3>1. IsFiniteSet(1..n) /\ IsFiniteSet(1..m)
      <4>1. 1 \in Int /\ n \in Int /\ m \in Int
        OBVIOUS
      <4> QED BY <4>1, FS_Interval
    <3>2. A \in SUBSET (1..n) /\ B \in SUBSET (1..m)
      BY <1>3, <1>6
    <3> HIDE DEF A, B
    <3> QED BY <3>1, <3>2, FS_Subset
  <2>3. n + 1 \notin A /\ i \notin B
    BY <1>3
  <2>4. CASE row = e
    <3>1. C = A \cup {n + 1}
      <4>1. \A k : k \in 1..n + 1 <=> k \in 1..n \/ k = n + 1
        OBVIOUS
      <4>2. n + 1 \notin 1..n
        OBVIOUS
      <4> QED BY <1>3, <1>4, <1>5, <2>4, <4>1, <4>2
    <3>2. D = B \cup {i}
      BY <1>1, <2>4
    <3> HIDE DEF A, B, C, D
    <3>3. Cardinality(C) = Cardinality(A) + 1
      BY <2>2, <2>3, <3>1, FS_AddElement
    <3>4. Cardinality(D) = Cardinality(B) + 1
      BY <2>2, <2>3, <3>2, FS_AddElement
    <3> QED BY <2>1, <3>3, <3>4 DEF C, D
  <2>5. CASE row # e
    <3>1. C = A
      <4>1. \A k : k \in 1..n + 1 <=> k \in 1..n \/ k = n + 1
        OBVIOUS
      <4> QED BY <1>3, <1>4, <1>5, <2>5, <4>1
    <3>2. D = B
      BY <1>1, <2>5
    <3> QED BY <2>1, <3>1, <3>2
  <2> QED BY <2>4, <2>5
<1>8. RowsInv(rows)'
  <2> SUFFICES ASSUME NEW row
               PROVE  Cardinality({k \in DOMAIN configs' : configs'[k] = row})
                        = Cardinality({k \in DOMAIN given'.rows \ rows' :
                                          EntryOf(given'.rows[k]) = row})
    BY DEF RowsInv
  <2>1. {k \in DOMAIN given'.rows \ rows' : EntryOf(given'.rows[k]) = row}
          = {k \in DOMAIN given.rows \ rows' : EntryOf(given.rows[k]) = row}
    OBVIOUS
  <2> QED BY <1>7, <2>1
<1> QED BY <1>4, <1>8

-----------------------------------------------------------------------------
(* The invariant.                                                          *)

AfterConfig == {"bind", "lua", "running", "crashed"}

ConfInv ==
    /\ stage \in {"idle", "config", "refused"} \cup AfterConfig
    /\ stage # "idle" => given \in Given
    /\ at \in Nat \ {0} /\ configs \in Seq(Given4)
    /\ stage = "idle" => at = 1 /\ DOMAIN pairs = {} /\ configs = <<>>
    /\ stage = "config" =>
          at <= Len(Conf) + 1 /\ PairsInv(at) /\ configs = <<>> /\ rows = DOMAIN given.rows
    /\ stage \in AfterConfig => PairsInv(Len(Conf) + 1)
    /\ stage \in {"bind", "lua", "running"} => Len(configs) <= max_listen_fds
    /\ stage = "bind" =>
          /\ "bind_conf" \in DOMAIN pairs /\ at <= Len(BindLines) + 1 /\ EntriesInv(at)
          /\ at > Len(BindLines) => BindLines = <<>> \/ given.binds.ended
    /\ stage = "lua" =>
          "bind_conf" \notin DOMAIN pairs /\ rows \subseteq DOMAIN given.rows /\ RowsInv(rows)
    /\ stage = "running" =>
          IF "bind_conf" \in DOMAIN pairs
          THEN EntriesInv(Len(BindLines) + 1) /\ (BindLines = <<>> \/ given.binds.ended)
          ELSE RowsInv({})
    /\ stage = "refused" /\ at <= Len(Conf) /\ configs = <<>> => Refusable

LEMMA GivenIs ==
    ASSUME given \in Given
    PROVE  /\ Conf \in Seq([indented : BOOLEAN, words : Seq(STRING)])
           /\ BindLines \in Seq([indented : BOOLEAN, words : Seq(STRING)])
           /\ given.rows \in Seq(Seq(STRING))
           /\ Len(Conf) \in Nat /\ Len(BindLines) \in Nat
<1>1. /\ Conf \in Seq([indented : BOOLEAN, words : Seq(STRING)])
      /\ BindLines \in Seq([indented : BOOLEAN, words : Seq(STRING)])
      /\ given.rows \in Seq(Seq(STRING))
  BY ConfigAssumption DEF Conf, BindLines
<1> QED BY <1>1, LenProperties

LEMMA AllSettings ==
    ASSUME given \in Given
    PROVE  Before(Len(Conf) + 1) = Settings /\ Before(1) = {}
<1>1. Settings \subseteq 1..Len(Conf) /\ Len(Conf) \in Nat
  BY GivenIs, NumbersOfLines
<1>2. \A i \in 1..Len(Conf) : i < Len(Conf) + 1 /\ ~(i < 1)
  BY <1>1
<1> QED BY <1>1, <1>2 DEF Before

LEMMA AllEntries ==
    ASSUME given \in Given
    PROVE  SeenEntries(Len(BindLines) + 1) = EntryLines /\ SeenEntries(1) = {}
<1>1. EntryLines \subseteq 1..Len(BindLines) /\ Len(BindLines) \in Nat
  BY GivenIs, LinesAreNumbers
<1>2. \A i \in 1..Len(BindLines) : i < Len(BindLines) + 1 /\ ~(i < 1)
  BY <1>1
<1> QED BY <1>1, <1>2 DEF SeenEntries

LEMMA FilesAreRead == ConfInv => FilesRead
<1> SUFFICES ASSUME ConfInv PROVE FilesRead
  OBVIOUS
<1>1. ConfigFaithful
  <2>1. ASSUME stage \in AfterConfig
        PROVE  /\ ~Refusable
               /\ DOMAIN pairs = {KeyOf(given.conf.lines[i]) : i \in Settings}
               /\ \A i \in Settings :
                     \/ \E j \in Settings : Again(i, j)
                     \/ pairs[KeyOf(given.conf.lines[i])] = ValueOf(given.conf.lines[i])
    <3>1. given \in Given /\ PairsInv(Len(Conf) + 1)
      BY <2>1 DEF ConfInv, AfterConfig
    <3>2. Before(Len(Conf) + 1) = Settings
      BY <3>1, AllSettings
    <3> QED BY <3>1, <3>2 DEF PairsInv, Refusable, Key, Val, Conf
  <2>2. stage = "refused" /\ at <= Len(given.conf.lines) /\ configs = <<>> => Refusable
    BY DEF ConfInv, Conf
  <2> QED BY <2>1, <2>2 DEF ConfigFaithful, AfterConfig
<1>2. EntriesComplete
  <2> SUFFICES ASSUME stage = "running" PROVE EntriesComplete
    BY DEF EntriesComplete
  <2>1. given \in Given /\ Len(configs) <= max_listen_fds
    BY DEF ConfInv
  <2>2. CASE "bind_conf" \in DOMAIN pairs
    <3>1. EntriesInv(Len(BindLines) + 1) /\ (BindLines = <<>> \/ given.binds.ended)
      BY <2>2 DEF ConfInv
    <3>2. SeenEntries(Len(BindLines) + 1) = EntryLines
      BY <2>1, AllEntries
    <3> QED BY <2>1, <2>2, <3>1, <3>2 DEF EntriesComplete, EntriesInv, BindLines
  <2>3. CASE "bind_conf" \notin DOMAIN pairs
    <3>1. RowsInv({})
      BY <2>3 DEF ConfInv
    <3>2. \A row : Cardinality({i \in DOMAIN configs : configs[i] = row})
                     = Cardinality({i \in DOMAIN given.rows : EntryOf(given.rows[i]) = row})
      <4>1. DOMAIN given.rows \ {} = DOMAIN given.rows
        OBVIOUS
      <4> QED BY <3>1, <4>1 DEF RowsInv
    <3> QED BY <2>1, <2>3, <3>2 DEF EntriesComplete
  <2> QED BY <2>2, <2>3
<1> QED BY <1>1, <1>2 DEF FilesRead

\* Steps that leave the files and what is read from them.
LEMMA SameFiles ==
    ASSUME UNCHANGED given
    PROVE  /\ Conf' = Conf /\ BindLines' = BindLines /\ Given4' = Given4 /\ Settings' = Settings
           /\ pairs' = pairs => \A n : PairsInv(n)' <=> PairsInv(n)
           /\ configs' = configs => \A n : EntriesInv(n)' <=> EntriesInv(n)
           /\ Refusable' <=> Refusable
<1>1. /\ Conf' = Conf /\ BindLines' = BindLines /\ Given4' = Given4 /\ Settings' = Settings
      /\ EntryLines' = EntryLines
  BY DEF Conf, BindLines, Given4, Settings, EntryLines
<1>2. pairs' = pairs => \A n : PairsInv(n)' <=> PairsInv(n)
  BY <1>1 DEF PairsInv, Before, Again, Key, Val
<1>3. configs' = configs => \A n : EntriesInv(n)' <=> EntriesInv(n)
  BY <1>1 DEF EntriesInv, SeenEntries, UpToLine
<1>4. Refusable' <=> Refusable
  BY <1>1 DEF Refusable, Again
<1> QED BY <1>1, <1>2, <1>3, <1>4

LEMMA ReadingConfig ==
    ASSUME ConfInv, ReadConfig
    PROVE  ConfInv'
<1>1. /\ stage' = "config" /\ given' \in Given /\ rows' = DOMAIN given'.rows
      /\ at' = 1 /\ DOMAIN pairs' = {} /\ configs' = <<>>
  BY DEF ConfInv, ReadConfig
<1>2. Len(Conf') \in Nat /\ Before(1)' = {}
  <2>1. Conf' \in Seq([indented : BOOLEAN, words : Seq(STRING)])
    BY <1>1, ConfigAssumption DEF Conf
  <2>2. PICK n \in Nat : n = Len(Conf') /\ DOMAIN Conf' = 1..n
    BY <2>1, LenProperties
  <2>3. \A i \in 1..n : ~(i < 1)
    OBVIOUS
  <2> QED BY <2>2, <2>3 DEF Before, Settings, Conf
<1>3. PairsInv(at)'
  BY <1>1, <1>2 DEF PairsInv
<1>4. configs' \in Seq(Given4')
  BY <1>1, EmptySeq
<1> QED BY <1>1, <1>2, <1>3, <1>4 DEF ConfInv, AfterConfig

LEMMA ReadingConfigLine ==
    ASSUME ConfInv, ConfigLine
    PROVE  ConfInv'
<1> DEFINE line == Conf[at]
           fails == Sets(line) /\ AppendFails(Key(at), Val(at)) /\ UpdateFails(Key(at), Val(at))
<1>1. /\ stage = "config" /\ at <= Len(Conf) /\ given \in Given /\ UNCHANGED <<given, configs, rows>>
      /\ at \in Nat \ {0} /\ PairsInv(at) /\ configs = <<>> /\ rows = DOMAIN given.rows
      /\ stage' = (IF fails THEN "refused" ELSE stage)
      /\ at' = (IF fails THEN at ELSE at + 1)
      /\ pairs' = (IF Sets(line) /\ ~fails THEN WithPair(Key(at), Val(at)) ELSE pairs)
  BY DEF ConfInv, ConfigLine, Key, Val, Conf
<1>2. Conf \in Seq([indented : BOOLEAN, words : Seq(STRING)]) /\ Len(Conf) \in Nat
  BY <1>1, GivenIs
<1>3. at \in Settings <=> Sets(line)
  BY <1>1, <1>2, LenProperties DEF Settings, Conf
<1>4. configs' \in Seq(Given4') /\ Len(Conf') = Len(Conf)
  BY <1>1, EmptySeq DEF Conf
<1> HIDE DEF line
<1>5. CASE fails
  <2>1. Refusable
    BY <1>1, <1>2, <1>3, <1>5, RefusedRightly
  <2>2. Refusable'
    BY <1>1, <2>1, SameFiles
  <2>3. stage' = "refused" /\ at' = at
    BY <1>1, <1>5
  <2> QED BY <1>1, <1>4, <2>2, <2>3 DEF ConfInv, AfterConfig
<1>6. CASE ~fails
  <2>1. PICK n \in Nat : n = at
    BY <1>1
  <2>2. stage' = "config" /\ at' = n + 1
    BY <1>1, <1>6, <2>1
  <2>3. PairsInv(n + 1)'
    <3>1. CASE Sets(line)
      <4>1. pairs' = WithPair(Key(n), Val(n)) /\ n \in Settings /\ PairsInv(n)
        BY <1>1, <1>3, <1>6, <2>1, <3>1
      <4>2. ~(AppendFails(Key(n), Val(n)) /\ UpdateFails(Key(n), Val(n)))
        BY <1>6, <2>1, <3>1
      <4> QED BY <1>1, <1>2, <4>1, <4>2, PairSet
    <3>2. CASE ~Sets(line)
      <4>1. PairsInv(n + 1) /\ pairs' = pairs
        BY <1>1, <1>2, <1>3, <2>1, <3>2, NothingSet
      <4> QED BY <1>1, <4>1, SameFiles
    <3> QED BY <3>1, <3>2
  <2>4. PairsInv(at)'
    BY <2>2, <2>3
  <2> QED BY <1>1, <1>2, <1>4, <2>1, <2>2, <2>4 DEF ConfInv, AfterConfig
<1> QED BY <1>5, <1>6

LEMMA EndingConfig ==
    ASSUME ConfInv, ConfigEnd
    PROVE  ConfInv'
<1>1. /\ stage = "config" /\ at > Len(Conf) /\ given \in Given /\ at \in Nat \ {0}
      /\ UNCHANGED <<given, pairs, configs, rows>>
      /\ at <= Len(Conf) + 1 /\ PairsInv(at) /\ configs = <<>> /\ rows = DOMAIN given.rows
      /\ stage' = (IF "bind_conf" \in DOMAIN pairs THEN "bind"
                   ELSE IF given.lua THEN "lua" ELSE "refused")
      /\ at' = (IF stage' = "refused" THEN at ELSE 1)
  BY DEF ConfInv, ConfigEnd, Conf
<1>2. Len(Conf) \in Nat /\ Len(BindLines) \in Nat
  BY <1>1, GivenIs
<1>3. PICK n \in Nat : n = Len(Conf) /\ at = n + 1
  BY <1>1, <1>2
<1>4. Conf' = Conf /\ BindLines' = BindLines /\ PairsInv(Len(Conf) + 1)'
  <2>1. PairsInv(n + 1)'
    BY <1>1, <1>3, SameFiles
  <2> QED BY <1>1, <1>3, <2>1, SameFiles
<1>5. configs' = <<>> /\ configs' \in Seq(Given4') /\ Len(configs') = 0 /\ DOMAIN configs' = {}
  BY <1>1, EmptySeq
<1>6. EntriesInv(1)'
  <2>1. SeenEntries(1)' = {}
    BY <1>1, AllEntries DEF SeenEntries, EntryLines
  <2> QED BY <1>5, <2>1, FS_EmptySet DEF EntriesInv
<1>7. RowsInv(rows)'
  <2> SUFFICES ASSUME NEW row
               PROVE  Cardinality({k \in DOMAIN configs' : configs'[k] = row})
                        = Cardinality({k \in DOMAIN given'.rows \ rows' :
                                          EntryOf(given'.rows[k]) = row})
    BY DEF RowsInv
  <2>1. {k \in DOMAIN given'.rows \ rows' : EntryOf(given'.rows[k]) = row} = {}
    BY <1>1
  <2>2. {k \in DOMAIN configs' : configs'[k] = row} = {}
    BY <1>5
  <2> QED BY <2>1, <2>2
<1>8. max_listen_fds \in Nat
  BY ConfigAssumption
<1>9. CASE stage' = "bind"
  <2>1. "bind_conf" \in DOMAIN pairs' /\ at' = 1
    BY <1>1, <1>9
  <2>2. 1 > Len(BindLines') => BindLines' = <<>>
    <3>1. BindLines \in Seq([indented : BOOLEAN, words : Seq(STRING)])
      BY <1>1, GivenIs
    <3> QED BY <1>2, <1>4, <3>1, EmptySeq
  <2>3. EntriesInv(at)'
    BY <1>6, <2>1
  <2> QED BY <1>1, <1>2, <1>4, <1>5, <1>8, <1>9, <2>1, <2>2, <2>3 DEF ConfInv, AfterConfig
<1>10. CASE stage' = "lua"
  <2>1. "bind_conf" \notin DOMAIN pairs' /\ at' = 1 /\ rows' \subseteq DOMAIN given'.rows
    BY <1>1, <1>10
  <2> QED BY <1>1, <1>4, <1>5, <1>7, <1>8, <1>10, <2>1 DEF ConfInv, AfterConfig
<1>11. CASE stage' = "refused"
  <2>1. at' = at /\ ~(at' <= Len(Conf'))
    BY <1>1, <1>2, <1>4, <1>11
  <2> QED BY <1>1, <1>4, <1>5, <1>11, <2>1 DEF ConfInv, AfterConfig
<1> QED BY <1>1, <1>9, <1>10, <1>11

LEMMA ReadingBindLine ==
    ASSUME ConfInv, BindLine
    PROVE  ConfInv'
<1> DEFINE line == BindLines[at]
<1>1. /\ stage = "bind" /\ at <= Len(BindLines) /\ given \in Given /\ at \in Nat \ {0}
      /\ UNCHANGED <<given, pairs, rows>> /\ configs \in Seq(Given4) /\ at' = at + 1
      /\ "bind_conf" \in DOMAIN pairs /\ EntriesInv(at) /\ PairsInv(Len(Conf) + 1)
      /\ configs' = (IF IsEntry(line) THEN Append(configs, EntryOf(line.words)) ELSE configs)
      /\ stage' = (IF TooMany(configs') THEN "refused" ELSE IF Unended THEN "crashed" ELSE "bind")
  BY DEF ConfInv, BindLine, BindLines, AfterConfig
<1>2. /\ BindLines \in Seq([indented : BOOLEAN, words : Seq(STRING)])
      /\ Len(Conf) \in Nat /\ Len(BindLines) \in Nat /\ max_listen_fds \in Nat
  BY <1>1, GivenIs, ConfigAssumption
<1>3. at \in EntryLines <=> IsEntry(line)
  BY <1>1, <1>2, LenProperties DEF EntryLines, BindLines
<1>4. PICK n \in Nat : n = at
  BY <1>1
<1>5. PICK m \in Nat : m = Len(Conf)
  BY <1>2
<1>6. Conf' = Conf /\ BindLines' = BindLines /\ Given4' = Given4 /\ PairsInv(m + 1)'
  BY <1>1, <1>5, SameFiles
<1>7. PairsInv(Len(Conf) + 1)'
  BY <1>5, <1>6
<1> HIDE DEF line
<1>8. EntriesInv(n + 1)' /\ configs' \in Seq(Given4)
  <2>1. CASE IsEntry(line)
    <3>1. n \in EntryLines /\ configs' = Append(configs, EntryOf(BindLines[n].words))
          /\ EntriesInv(n)
      BY <1>1, <1>3, <1>4, <2>1 DEF line
    <3> QED BY <1>1, <1>2, <3>1, EntryAdded
  <2>2. CASE ~IsEntry(line)
    <3>1. n \notin EntryLines /\ configs' = configs /\ EntriesInv(n)
      BY <1>1, <1>3, <1>4, <2>2
    <3> QED BY <1>1, <1>2, <3>1, NoEntry
  <2> QED BY <2>1, <2>2
<1>9. EntriesInv(at)' /\ configs' \in Seq(Given4') /\ at' \in Nat \ {0}
      /\ at' <= Len(BindLines') + 1
  BY <1>1, <1>2, <1>4, <1>6, <1>8
<1>10. Len(configs') \in Nat
  BY <1>8, LenProperties
<1>11. CASE stage' = "refused"
  <2>1. Len(configs') > max_listen_fds
    BY <1>1, <1>11 DEF TooMany
  <2>2. configs' # <<>>
    BY <1>2, <1>8, <1>10, <2>1, EmptySeq
  <2> QED BY <1>1, <1>7, <1>9, <1>11, <2>2 DEF ConfInv, AfterConfig
<1>12. CASE stage' = "crashed"
  BY <1>1, <1>7, <1>9, <1>12 DEF ConfInv, AfterConfig
<1>13. CASE stage' = "bind"
  <2>1. Len(configs') <= max_listen_fds /\ ~Unended
    BY <1>1, <1>2, <1>10, <1>13 DEF TooMany
  <2>2. at' > Len(BindLines') => given'.binds.ended
    BY <1>1, <1>2, <1>6, <2>1 DEF Unended, BindLines
  <2> QED BY <1>1, <1>7, <1>9, <1>13, <2>1, <2>2 DEF ConfInv, AfterConfig
<1> QED BY <1>1, <1>11, <1>12, <1>13

LEMMA EndingBind ==
    ASSUME ConfInv, BindEnd
    PROVE  ConfInv'
<1>1. /\ stage = "bind" /\ at > Len(BindLines) /\ given \in Given /\ at \in Nat \ {0}
      /\ UNCHANGED <<given, at, pairs, configs, rows>> /\ stage' = "running"
      /\ configs \in Seq(Given4) /\ "bind_conf" \in DOMAIN pairs /\ EntriesInv(at)
      /\ at <= Len(BindLines) + 1 /\ PairsInv(Len(Conf) + 1) /\ Len(configs) <= max_listen_fds
      /\ BindLines = <<>> \/ given.binds.ended
  BY DEF ConfInv, BindEnd, BindLines, AfterConfig
<1>2. Len(Conf) \in Nat /\ Len(BindLines) \in Nat
  BY <1>1, GivenIs
<1>3. PICK n \in Nat : n = Len(BindLines) + 1
  BY <1>2
<1>4. PICK m \in Nat : m = Len(Conf) + 1
  BY <1>2
<1>5. Conf' = Conf /\ BindLines' = BindLines /\ Given4' = Given4 /\ PairsInv(m)' /\ EntriesInv(n)'
  <2>1. n = at
    BY <1>1, <1>2, <1>3
  <2> QED BY <1>1, <1>4, <2>1, SameFiles
<1>6. PairsInv(Len(Conf) + 1)' /\ EntriesInv(Len(BindLines) + 1)'
  BY <1>3, <1>4, <1>5
<1> QED BY <1>1, <1>5, <1>6 DEF ConfInv, AfterConfig

LEMMA ReadingBindRow ==
    ASSUME ConfInv, NEW i \in rows, BindRow(i)
    PROVE  ConfInv'
<1> DEFINE row == given.rows[i]
           bad == Len(row) < 4 \/ Head(row) = "#"
<1>1. /\ stage = "lua" /\ given \in Given /\ at \in Nat \ {0}
      /\ UNCHANGED <<given, at, pairs>> /\ configs \in Seq(Given4) /\ rows' = rows \ {i}
      /\ "bind_conf" \notin DOMAIN pairs /\ RowsInv(rows) /\ PairsInv(Len(Conf) + 1)
      /\ rows \subseteq DOMAIN given.rows
      /\ configs' = (IF bad THEN configs ELSE Append(configs, EntryOf(row)))
      /\ stage' = (IF bad THEN "crashed" ELSE IF TooMany(configs') THEN "refused" ELSE "lua")
  BY DEF ConfInv, BindRow, AfterConfig
<1>2. given.rows \in Seq(Seq(STRING)) /\ Len(Conf) \in Nat /\ max_listen_fds \in Nat
  BY <1>1, GivenIs, ConfigAssumption
<1>3. PICK m \in Nat : m = Len(Conf) + 1
  BY <1>2
<1>4. Conf' = Conf /\ Given4' = Given4 /\ PairsInv(m)'
  BY <1>1, <1>3, SameFiles
<1>5. PairsInv(Len(Conf) + 1)'
  BY <1>3, <1>4
<1> HIDE DEF bad
<1>6. CASE bad
  BY <1>1, <1>4, <1>5, <1>6 DEF ConfInv, AfterConfig
<1>7. CASE ~bad
  <2>1. RowsInv(rows)' /\ configs' \in Seq(Given4)
    BY <1>1, <1>2, <1>7, RowAdded
  <2>2. Len(configs') \in Nat
    BY <2>1, LenProperties
  <2>3. CASE stage' = "refused"
    <3>1. configs' # <<>>
      <4>1. Len(configs') > max_listen_fds
        BY <1>1, <1>7, <2>3 DEF TooMany
      <4>2. Len(configs') # 0
        BY ONLY <1>2, <2>2, <4>1
      <4> QED BY <4>2, EmptySeq
    <3> QED BY <1>1, <1>4, <1>5, <2>1, <2>3, <3>1 DEF ConfInv, AfterConfig
  <2>4. CASE stage' = "lua"
    <3>1. Len(configs') <= max_listen_fds /\ rows' \subseteq DOMAIN given'.rows
      BY <1>1, <1>2, <1>7, <2>2, <2>4 DEF TooMany
    <3> QED BY <1>1, <1>4, <1>5, <2>1, <2>4, <3>1 DEF ConfInv, AfterConfig
  <2> QED BY <1>1, <1>7, <2>3, <2>4
<1> QED BY <1>6, <1>7

LEMMA EndingRows ==
    ASSUME ConfInv, RowsEnd
    PROVE  ConfInv'
<1>1. /\ stage = "lua" /\ rows = {} /\ given \in Given /\ at \in Nat \ {0}
      /\ UNCHANGED <<given, at, pairs, configs, rows>> /\ stage' = "running"
      /\ configs \in Seq(Given4) /\ "bind_conf" \notin DOMAIN pairs /\ RowsInv(rows)
      /\ PairsInv(Len(Conf) + 1) /\ Len(configs) <= max_listen_fds
  BY DEF ConfInv, RowsEnd, AfterConfig
<1>2. PICK m \in Nat : m = Len(Conf) + 1
  BY <1>1, GivenIs
<1>3. Conf' = Conf /\ Given4' = Given4 /\ PairsInv(m)'
  BY <1>1, <1>2, SameFiles
<1>4. PairsInv(Len(Conf) + 1)'
  BY <1>2, <1>3
<1>5. RowsInv({})'
  <2>1. RowsInv({})
    BY <1>1
  <2>2. RowsInv({})' <=> RowsInv({})
    BY <1>1 DEF RowsInv
  <2> QED BY <2>1, <2>2
<1> QED BY <1>1, <1>3, <1>4, <1>5 DEF ConfInv, AfterConfig

LEMMA ConfStays ==
    ASSUME ConfInv, UNCHANGED confvars
    PROVE  ConfInv'
<1>1. UNCHANGED <<given, stage, at, pairs, configs, rows>>
  BY DEF confvars
<1>2. Conf' = Conf /\ BindLines' = BindLines /\ Given4' = Given4 /\ (Refusable' <=> Refusable)
      /\ \A n : (PairsInv(n)' <=> PairsInv(n)) /\ (EntriesInv(n)' <=> EntriesInv(n))
  BY <1>1, SameFiles
<1>3. \A left : RowsInv(left)' <=> RowsInv(left)
  BY <1>1 DEF RowsInv
<1> QED BY <1>1, <1>2, <1>3 DEF ConfInv

\* The server starts from what its two files say, every key with its last value and
\* every entry in its place, or does not start (config.c:27-117; bindconf.c:26-129).
THEOREM FilesAreSaid == ConfSpec => []FilesRead
<1>1. ConfInit => ConfInv
  <2> SUFFICES ASSUME ConfInit PROVE ConfInv
    OBVIOUS
  <2>1. configs \in Seq(Given4) /\ stage = "idle" /\ at = 1 /\ DOMAIN pairs = {} /\ configs = <<>>
    BY EmptySeq DEF ConfInit
  <2> QED BY <2>1 DEF ConfInv, AfterConfig
<1>2. ConfInv /\ [ConfNext]_confvars => ConfInv'
  BY ReadingConfig, ReadingConfigLine, EndingConfig, ReadingBindLine, EndingBind,
     ReadingBindRow, EndingRows, ConfStays DEF ConfNext
<1>3. ConfInv => FilesRead
  BY FilesAreRead
<1> QED BY <1>1, <1>2, <1>3, PTL DEF ConfSpec
-----------------------------------------------------------------------------
(* ProcTitle.                                                              *)

Chars == {NUL} \cup (Words \X Nat)

\* The word lies in memory at a, up to its NUL.
StoredAt(m, a, word) ==
    /\ a \in 1..Len(m) /\ a + Len1[word] \in 1..Len(m)
    /\ \A k \in 1..Len1[word] : m[a + k - 1] = <<word, k>>
    /\ m[a + Len1[word]] = NUL

\* A string of the environment is a copy, or still lies where exec put it, at low or
\* behind; those that do are in their order, none over another.
StringInv(m, e, word, low) ==
    \/ e = OnHeap(Text(word))
    \/ e.at >= low /\ e.text = <<>> /\ StoredAt(m, e.at, word)

EnvironInv(m, es, words, low) ==
    /\ es \in Seq([at : Nat, text : Seq(Chars)]) /\ words \in Seq(Words) /\ Len(es) = Len(words)
    /\ \A i \in 1..Len(words) : StringInv(m, es[i], words[i], low)
    /\ \A i, j \in 1..Len(words) :
          i < j /\ es[i].at # 0 /\ es[j].at # 0 => es[i].at + Len1[words[i]] + 1 <= es[j].at

\* The title, cut to what there is before end, and NULs up to there.
ShownInv(m, text, end) ==
    \A x \in 1..(end - 1) : m[x] = IF x <= Len(text) /\ x < end - 1 THEN text[x] ELSE NUL

TitleInv ==
    /\ role \in {"none", "boot", "parent", "worker"} /\ mem \in Seq(Chars)
    /\ role = "none" => environ = <<>> /\ env = <<>>
    /\ role # "none" => args \in Seq(Words) \ {<<>>}
    /\ role = "boot" =>
          /\ \A i \in 1..Len(args) : StoredAt(mem, Address(args, i), args[i])
          /\ EnvironInv(mem, environ, env, Address(args, Len(args) + 1))
    /\ role \in {"parent", "worker"} =>
          /\ arg_end \in 2..(Len(mem) + 1) /\ EnvironInv(mem, environ, env, arg_end)
          /\ saved_argv = [i \in DOMAIN args |-> OnHeap(Text(args[i]))]
    /\ title # "" => role = "worker" /\ title \in Titles /\ ShownInv(mem, TitleText(title), arg_end)

\* The recursion of FlattenSeq, up to n.
Flattens(f, s, n) == f = [i \in 1..n |-> IF i = 1 THEN s[i] ELSE f[i - 1] \o s[i]]

LEMMA FlattenExists ==
    ASSUME NEW D, NEW n \in Nat \ {0}, NEW s, \A i \in 1..n : s[i] \in Seq(D)
    PROVE  \E f \in [1..n -> Seq(D)] : Flattens(f, s, n)
<1> DEFINE Bad == {m \in 1..n : ~ \E f \in [1..m -> Seq(D)] : Flattens(f, s, m)}
<1>1. SUFFICES ASSUME Bad # {} PROVE FALSE
  BY n \in 1..n
<1>2. PICK m \in Bad : \A k \in Bad : m <= k
  <2>1. Bad \subseteq Nat
    OBVIOUS
  <2> HIDE DEF Bad
  <2> QED BY <1>1, <2>1, LeastThere
<1>3. CASE m = 1
  <2> DEFINE f == [i \in 1..1 |-> s[i]]
  <2>1. f \in [1..1 -> Seq(D)]
    OBVIOUS
  <2>2. f = [i \in 1..1 |-> IF i = 1 THEN s[i] ELSE f[i - 1] \o s[i]]
    OBVIOUS
  <2>3. Flattens(f, s, 1)
    BY <2>2 DEF Flattens
  <2> QED BY <1>2, <1>3, <2>1, <2>3
<1>4. CASE m # 1
  <2>1. m \in 1..n /\ m - 1 \in 1..n /\ m - 1 \notin Bad
    BY <1>2, <1>4
  <2>2. PICK g \in [1..(m - 1) -> Seq(D)] : Flattens(g, s, m - 1)
    BY <2>1
  <2> DEFINE f == [i \in 1..m |-> IF i = m THEN g[m - 1] \o s[m] ELSE g[i]]
  <2>3. g[m - 1] \o s[m] \in Seq(D)
    BY <1>2, <2>1, ConcatProperties
  <2>4. f \in [1..m -> Seq(D)]
    BY <2>3
  <2>5. ASSUME NEW i \in 1..m PROVE f[i] = IF i = 1 THEN s[i] ELSE f[i - 1] \o s[i]
    <3>1. CASE i = m
      <4>1. i - 1 \in 1..m /\ i - 1 # m
        BY ONLY <1>4, <2>1, <3>1, n \in Nat \ {0}
      <4>2. f[i] = g[m - 1] \o s[m] /\ f[i - 1] = g[i - 1]
        BY <3>1, <4>1
      <4> QED BY <1>4, <3>1, <4>2
    <3>2. CASE i # m
      <4>1. i \in 1..(m - 1) /\ f[i] = g[i]
        BY <1>2, <3>2
      <4>2. g[i] = IF i = 1 THEN s[i] ELSE g[i - 1] \o s[i]
        BY <2>2, <4>1 DEF Flattens
      <4>3. i # 1 => i - 1 \in 1..m /\ i - 1 # m /\ f[i - 1] = g[i - 1]
        BY <1>2, <4>1
      <4> QED BY <4>1, <4>2, <4>3
    <3> QED BY <3>1, <3>2
  <2>6. Flattens(f, s, m)
    <3> HIDE DEF f
    <3>1. DOMAIN f = 1..m
      BY <2>4
    <3>2. f = [i \in 1..m |-> f[i]]
      BY <2>4
    <3> QED BY <2>5, <3>2 DEF Flattens
  <2> QED BY <1>2, <2>4, <2>6
<1> QED BY <1>3, <1>4

\* There is one for each length.
LEMMA FlattenAgrees ==
    ASSUME NEW n \in Nat, NEW k \in Nat, NEW f, NEW g, NEW s,
           Flattens(f, s, n), Flattens(g, s, k), n <= k
    PROVE  \A i \in 1..n : f[i] = g[i]
<1> DEFINE Bad == {i \in 1..n : f[i] # g[i]}
<1>1. SUFFICES ASSUME Bad # {} PROVE FALSE
  OBVIOUS
<1>2. PICK m \in Bad : \A i \in Bad : m <= i
  <2>1. Bad \subseteq Nat
    OBVIOUS
  <2> HIDE DEF Bad
  <2> QED BY <1>1, <2>1, LeastThere
<1>3. m \in 1..n /\ m \in 1..k /\ f[m] # g[m]
  BY <1>2
<1>4. /\ f[m] = IF m = 1 THEN s[m] ELSE f[m - 1] \o s[m]
      /\ g[m] = IF m = 1 THEN s[m] ELSE g[m - 1] \o s[m]
  BY <1>3 DEF Flattens
<1>5. m # 1 => f[m - 1] = g[m - 1]
  <2> SUFFICES ASSUME m # 1 PROVE f[m - 1] = g[m - 1]
    OBVIOUS
  <2>1. m - 1 \in 1..n /\ m - 1 \notin Bad
    BY <1>2, <1>3
  <2> QED BY <2>1
<1> QED BY <1>3, <1>4, <1>5

LEMMA FlattenIs ==
    ASSUME NEW D, NEW n \in Nat \ {0}, NEW s \in Seq(Seq(D)), Len(s) = n, NEW f, Flattens(f, s, n)
    PROVE  FlattenSeq(s) = f[n]
<1> DEFINE g == CHOOSE h : Flattens(h, s, n)
<1>1. Flattens(g, s, n)
  BY Zenon
<1>2. FlattenSeq(s) = g[n]
  BY DEF FlattenSeq, Flattens
<1> HIDE DEF g
<1>3. \A i \in 1..n : f[i] = g[i]
  <2>1. n \in Nat /\ n <= n
    OBVIOUS
  <2> QED BY ONLY <1>1, <2>1, Flattens(f, s, n), FlattenAgrees
<1> QED BY <1>2, <1>3
-----------------------------------------------------------------------------
(* The memory exec lays out.                                               *)

LEMMA WordIs ==
    ASSUME NEW word \in Words
    PROVE  /\ Len1[word] \in Nat
           /\ Text(word) \in Seq(Chars) /\ Len(Text(word)) = Len1[word]
           /\ Stored(word) \in Seq(Chars) /\ Len(Stored(word)) = Len1[word] + 1
           /\ \A k \in 1..Len1[word] : /\ Text(word)[k] = <<word, k>> /\ Stored(word)[k] = <<word, k>>
                                       /\ <<word, k>> # NUL
           /\ Stored(word)[Len1[word] + 1] = NUL
<1>1. Len1[word] \in Nat
  BY TitleAssumption
<1>2. Text(word) \in Seq(Chars) /\ Len(Text(word)) = Len1[word]
  BY <1>1 DEF Text, Chars
<1>3. NUL \in Chars
  BY DEF Chars
<1>4. /\ Stored(word) \in Seq(Chars) /\ Len(Stored(word)) = Len1[word] + 1
      /\ \A k \in 1..Len1[word] : Stored(word)[k] = Text(word)[k]
      /\ Stored(word)[Len1[word] + 1] = NUL
  <2> DEFINE t == Text(word)
  <2>1. t \in Seq(Chars) /\ Len(t) = Len1[word]
    BY <1>2
  <2>2. Stored(word) = Append(t, NUL)
    BY DEF Stored
  <2> HIDE DEF t
  <2>3. /\ Append(t, NUL) \in Seq(Chars) /\ Len(Append(t, NUL)) = Len(t) + 1
        /\ \A k \in 1..Len(t) : Append(t, NUL)[k] = t[k]
        /\ Append(t, NUL)[Len(t) + 1] = NUL
    BY <1>3, <2>1, AppendProperties
  <2> USE DEF t
  <2> QED BY <2>1, <2>2, <2>3
<1>5. ASSUME NEW k \in 1..Len1[word] PROVE Text(word)[k] = <<word, k>> /\ <<word, k>> # NUL
  <2>1. k # 0 /\ <<word, k>>[2] = k /\ NUL[2] = 0
    BY <1>1 DEF NUL
  <2>2. Text(word)[k] = <<word, k>>
    BY <1>1 DEF Text
  <2> QED BY <2>1, <2>2
<1> QED BY <1>1, <1>2, <1>4, <1>5

\* The first n words, one behind the other.
Rows(words, n) == [k \in 1..n |-> Stored(words[k])]
Laying(words, n) == FlattenSeq(Rows(words, n))

LEMMA LayingNext ==
    ASSUME NEW words \in Seq(Words), NEW n \in 0..Len(words)
    PROVE  /\ Laying(words, n) \in Seq(Chars)
           /\ n = 0 => Laying(words, n) = <<>>
           /\ n > 0 => Laying(words, n) = Laying(words, n - 1) \o Stored(words[n])
<1>1. ASSUME NEW m \in 0..n
      PROVE  /\ Rows(words, m) \in Seq(Seq(Chars)) /\ Len(Rows(words, m)) = m
             /\ \A k \in 1..m : /\ Rows(words, m)[k] = Stored(words[k])
                                /\ Rows(words, m)[k] \in Seq(Chars)
  <2>1. \A k \in 1..m : words[k] \in Words
    OBVIOUS
  <2>2. \A k \in 1..m : Stored(words[k]) \in Seq(Chars)
    BY <2>1, WordIs
  <2> QED BY <2>2 DEF Rows
<1>2. Laying(words, 0) = <<>>
  <2>1. Rows(words, 0) = <<>>
    BY <1>1, EmptySeq
  <2>2. FlattenSeq(<<>>) = <<>>
    BY DEF FlattenSeq
  <2> QED BY <2>1, <2>2 DEF Laying
<1>3. CASE n = 0
  <2>1. Laying(words, n) = <<>> /\ ~(n > 0)
    BY <1>2, <1>3
  <2> QED BY <2>1, EmptySeq
<1>4. CASE n > 0
  <2> DEFINE s == Rows(words, n)
             t == Rows(words, n - 1)
  <2>1. n \in Nat \ {0} /\ n \in 1..n /\ n \in 0..n /\ n - 1 \in 0..n /\ words[n] \in Words
    BY <1>4
  <2>2. /\ s \in Seq(Seq(Chars)) /\ Len(s) = n
        /\ \A k \in 1..n : s[k] = Stored(words[k]) /\ s[k] \in Seq(Chars)
    BY <1>1, <2>1
  <2>3. /\ t \in Seq(Seq(Chars)) /\ Len(t) = n - 1
        /\ \A k \in 1..(n - 1) : t[k] = Stored(words[k]) /\ t[k] \in Seq(Chars)
    BY <1>1, <2>1
  <2>4. Laying(words, n) = FlattenSeq(s) /\ Laying(words, n - 1) = FlattenSeq(t)
    BY DEF Laying
  <2> HIDE DEF s, t
  <2>5. PICK f \in [1..n -> Seq(Chars)] : Flattens(f, s, n)
    BY <2>1, <2>2, FlattenExists
  <2>6. FlattenSeq(s) = f[n] /\ f[n] \in Seq(Chars)
    BY <2>1, <2>2, <2>5, FlattenIs
  <2>7. f[n] = IF n = 1 THEN s[n] ELSE f[n - 1] \o s[n]
    <3>1. f = [i \in 1..n |-> IF i = 1 THEN s[i] ELSE f[i - 1] \o s[i]]
      BY <2>5 DEF Flattens
    <3> QED BY ONLY <2>1, <3>1
  <2>8. CASE n = 1
    <3>1. Laying(words, n - 1) = <<>>
      BY <1>2, <2>8
    <3>2. <<>> \o s[n] = s[n]
      BY <2>1, <2>2, ConcatEmptySeq
    <3> QED BY <2>1, <2>2, <2>4, <2>6, <2>7, <2>8, <3>1, <3>2
  <2>9. CASE n # 1
    <3>1. n - 1 \in Nat \ {0} /\ n - 1 \in Nat /\ n \in Nat /\ n - 1 <= n
      BY <2>1, <2>9
    <3>2. \A k \in 1..(n - 1) : t[k] = s[k]
      BY <2>2, <2>3, <3>1
    <3>3. PICK g \in [1..(n - 1) -> Seq(Chars)] : Flattens(g, t, n - 1)
      BY <2>3, <3>1, FlattenExists
    <3>4. FlattenSeq(t) = g[n - 1]
      BY <2>3, <3>1, <3>3, FlattenIs
    <3>5. \A k \in 1..(n - 1) : g[k] = f[k]
      <4>1. g = [i \in 1..(n - 1) |-> IF i = 1 THEN t[i] ELSE g[i - 1] \o t[i]]
        BY <3>3 DEF Flattens
      <4>2. [i \in 1..(n - 1) |-> IF i = 1 THEN t[i] ELSE g[i - 1] \o t[i]]
              = [i \in 1..(n - 1) |-> IF i = 1 THEN s[i] ELSE g[i - 1] \o s[i]]
        BY <3>2
      <4>3. Flattens(g, s, n - 1)
        BY <4>1, <4>2 DEF Flattens
      <4>4. PICK p \in Nat : p = n - 1
        BY <3>1
      <4>5. PICK r, d, e, m : r = s /\ d = f /\ e = g /\ m = n
        OBVIOUS
      <4>6. Flattens(e, r, p) /\ Flattens(d, r, m) /\ p <= m /\ m \in Nat
        BY <2>5, <3>1, <4>3, <4>4, <4>5
      <4>7. \A k \in 1..p : e[k] = d[k]
        BY ONLY <4>6, p \in Nat, FlattenAgrees
      <4> QED BY <4>4, <4>5, <4>7
    <3>6. g[n - 1] = f[n - 1]
      BY <3>1, <3>5
    <3> QED BY <2>1, <2>2, <2>4, <2>6, <2>7, <2>9, <3>4, <3>6
  <2> QED BY <2>8, <2>9
<1> QED BY <1>3, <1>4

\* Each word begins where the one before ends.
LEMMA AddressNext ==
    ASSUME NEW words \in Seq(Words), NEW n \in 1..Len(words)
    PROVE  /\ Address(words, 1) = 1
           /\ Address(words, n) = Len(Laying(words, n - 1)) + 1 /\ Address(words, n) \in Nat \ {0}
           /\ Address(words, n + 1) = Len(Laying(words, n)) + 1
           /\ Address(words, n + 1) = Address(words, n) + Len1[words[n]] + 1
<1>1. n \in Nat /\ n > 0 /\ n - 1 \in 0..Len(words) /\ n \in 0..Len(words) /\ (n + 1) - 1 = n /\ words[n] \in Words
  OBVIOUS
<1>2. /\ Address(words, n) = Len(Laying(words, n - 1)) + 1
      /\ Address(words, n + 1) = Len(Laying(words, n)) + 1
      /\ Address(words, 1) = Len(Laying(words, 0)) + 1
  BY <1>1 DEF Address, Laying, Rows
<1>3. Laying(words, n - 1) \in Seq(Chars) /\ Laying(words, 0) = <<>>
  BY <1>1, LayingNext
<1>4. Laying(words, n) = Laying(words, n - 1) \o Stored(words[n])
  BY <1>1, LayingNext
<1>5. Len(Laying(words, n)) = Len(Laying(words, n - 1)) + Len(Stored(words[n]))
  BY <1>1, <1>3, <1>4, WordIs, ConcatProperties
<1>6. Len(Laying(words, n - 1)) \in Nat /\ Len(Laying(words, 0)) = 0
  BY <1>3, LenProperties
<1>7. Len(Stored(words[n])) = Len1[words[n]] + 1 /\ Len1[words[n]] \in Nat
  BY <1>1, WordIs
<1>8. Len(Laying(words, n)) + 1 = (Len(Laying(words, n - 1)) + 1) + Len1[words[n]] + 1
  <2>1. PICK a, b, c : a = Len(Laying(words, n)) /\ b = Len(Laying(words, n - 1)) /\ c = Len1[words[n]]
    OBVIOUS
  <2>2. a = b + (c + 1) /\ b \in Nat /\ c \in Nat
    BY <1>5, <1>6, <1>7, <2>1
  <2>3. a + 1 = (b + 1) + c + 1
    BY ONLY <2>2
  <2> QED BY <2>1, <2>3
<1> QED BY <1>2, <1>6, <1>8

LEMMA AddressOrder ==
    ASSUME NEW words \in Seq(Words), NEW i \in 1..Len(words), NEW j \in 1..(Len(words) + 1), i < j
    PROVE  Address(words, i) + Len1[words[i]] + 1 <= Address(words, j)
<1> DEFINE Bad == {k \in 1..(Len(words) + 1) :
                      i < k /\ ~(Address(words, i) + Len1[words[i]] + 1 <= Address(words, k))}
<1>0. Len(words) \in Nat /\ words[i] \in Words /\ Len1[words[i]] \in Nat /\ Address(words, i) \in Nat
  <2>1. words[i] \in Words
    OBVIOUS
  <2>2. Address(words, i) \in Nat
    BY AddressNext
  <2> QED BY <2>1, <2>2, WordIs, LenProperties
<1>1. SUFFICES ASSUME Bad # {} PROVE FALSE
  OBVIOUS
<1>2. PICK k \in Bad : \A l \in Bad : k <= l
  <2>1. Bad \subseteq Nat
    OBVIOUS
  <2> HIDE DEF Bad
  <2> QED BY <1>1, <2>1, LeastThere
<1>3. /\ k \in 2..(Len(words) + 1) /\ i < k
      /\ ~(Address(words, i) + Len1[words[i]] + 1 <= Address(words, k))
  <2>1. k \in Bad
    BY <1>2
  <2> QED BY <1>0, <2>1
<1>4. PICK p \in 1..Len(words) : k = p + 1
  BY <1>0, <1>3
<1>5. /\ Address(words, k) = Address(words, p) + Len1[words[p]] + 1
      /\ Len1[words[p]] \in Nat /\ Address(words, p) \in Nat
  <2>1. words[p] \in Words
    OBVIOUS
  <2>2. Address(words, p) \in Nat /\ Address(words, p + 1) = Address(words, p) + Len1[words[p]] + 1
    BY AddressNext
  <2> QED BY <1>4, <2>1, <2>2, WordIs
<1>6. CASE p = i
  BY <1>0, <1>3, <1>5, <1>6
<1>7. CASE p # i
  <2>1. p \notin Bad
    BY <1>0, <1>2, <1>4
  <2>2. i < p /\ p \in 1..(Len(words) + 1)
    BY <1>0, <1>3, <1>4, <1>7
  <2>3. Address(words, i) + Len1[words[i]] + 1 <= Address(words, p)
    BY <2>1, <2>2
  <2>4. PICK a, b, c, d : a = Address(words, i) + Len1[words[i]] + 1 /\ b = Address(words, p)
                          /\ c = Address(words, k) /\ d = Len1[words[p]]
    OBVIOUS
  <2>5. a \in Nat /\ b \in Nat /\ d \in Nat /\ c = b + d + 1 /\ a <= b /\ ~(a <= c)
    BY ONLY <1>0, <1>3, <1>5, <2>3, <2>4, SMTT(40)
  <2> QED BY ONLY <2>5
<1> QED BY <1>6, <1>7

\* What lies in memory lies there still when something is put behind it ...
LEMMA StoredBefore ==
    ASSUME NEW m \in Seq(Chars), NEW t \in Seq(Chars), NEW a \in Nat, NEW word \in Words,
           StoredAt(m, a, word)
    PROVE  StoredAt(m \o t, a, word)
<1>1. /\ m \o t \in Seq(Chars) /\ Len(m \o t) = Len(m) + Len(t)
      /\ \A x \in 1..Len(m) : (m \o t)[x] = m[x]
  BY ConcatProperties
<1>2. Len1[word] \in Nat /\ Len(m) \in Nat /\ Len(t) \in Nat
  BY WordIs, LenProperties
<1>3. a \in 1..Len(m) /\ a + Len1[word] \in 1..Len(m)
  BY DEF StoredAt
<1>4. a \in 1..Len(m \o t) /\ a + Len1[word] \in 1..Len(m \o t)
  BY ONLY <1>1, <1>2, <1>3
<1>5. ASSUME NEW k \in 1..Len1[word] PROVE (m \o t)[a + k - 1] = <<word, k>>
  <2>1. a + k - 1 \in 1..Len(m)
    BY <1>2, <1>3
  <2>2. m[a + k - 1] = <<word, k>>
    BY DEF StoredAt
  <2> QED BY <1>1, <2>1, <2>2
<1>6. (m \o t)[a + Len1[word]] = NUL
  BY <1>1, <1>3 DEF StoredAt
<1> QED BY <1>4, <1>5, <1>6 DEF StoredAt

\* ... and the word that is put there does.
LEMMA StoredBehind ==
    ASSUME NEW m \in Seq(Chars), NEW word \in Words
    PROVE  StoredAt(m \o Stored(word), Len(m) + 1, word)
<1> DEFINE t == Stored(word)
<1>1. t \in Seq(Chars) /\ Len(t) = Len1[word] + 1 /\ Len1[word] \in Nat /\ Len(m) \in Nat
      /\ (\A k \in 1..Len1[word] : t[k] = <<word, k>>) /\ t[Len1[word] + 1] = NUL
  BY WordIs, LenProperties
<1> HIDE DEF t
<1>2. Len(m \o t) = Len(m) + Len(t) /\ \A x \in 1..Len(t) : (m \o t)[Len(m) + x] = t[x]
  <2>1. /\ Len(m \o t) = Len(m) + Len(t)
        /\ \A x \in 1..(Len(m) + Len(t)) :
              (m \o t)[x] = IF x <= Len(m) THEN m[x] ELSE t[x - Len(m)]
    BY <1>1, ConcatProperties
  <2>2. ASSUME NEW x \in 1..Len(t) PROVE (m \o t)[Len(m) + x] = t[x]
    <3>1. /\ Len(m) + x \in 1..(Len(m) + Len(t)) /\ ~(Len(m) + x <= Len(m))
          /\ (Len(m) + x) - Len(m) = x
      BY <1>1
    <3> QED BY <2>1, <3>1
  <2> QED BY <2>1, <2>2
<1>3. PICK n, l \in Nat : n = Len(m) /\ l = Len1[word]
  BY <1>1
<1>4. Len(m) + 1 \in 1..Len(m \o t) /\ (Len(m) + 1) + Len1[word] \in 1..Len(m \o t)
  BY ONLY <1>1, <1>2, <1>3
<1>5. ASSUME NEW k \in 1..Len1[word] PROVE (m \o t)[(Len(m) + 1) + k - 1] = <<word, k>>
  <2>1. k \in 1..Len(t) /\ (Len(m) + 1) + k - 1 = Len(m) + k
    BY <1>1, <1>3
  <2>2. (m \o t)[Len(m) + k] = t[k] /\ t[k] = <<word, k>>
    BY <1>1, <1>2, <2>1
  <2> QED BY <2>1, <2>2
<1>6. (m \o t)[(Len(m) + 1) + Len1[word]] = NUL
  <2>1. PICK x \in 1..Len(t) : x = Len1[word] + 1
    BY <1>1
  <2>2. (Len(m) + 1) + Len1[word] = Len(m) + x
    <3>1. (n + 1) + l = n + (l + 1)
      OBVIOUS
    <3> QED BY <1>3, <2>1, <3>1
  <2>3. (m \o t)[Len(m) + x] = t[x]
    BY <1>2
  <2>4. t[x] = NUL
    BY <1>1, <2>1
  <2> QED BY <2>2, <2>3, <2>4
<1>7. StoredAt(m \o t, Len(m) + 1, word)
  BY <1>4, <1>5, <1>6 DEF StoredAt
<1> QED BY <1>7 DEF t

LEMMA LaidIsStored ==
    ASSUME NEW words \in Seq(Words), NEW n \in 0..Len(words)
    PROVE  \A i \in 1..n : StoredAt(Laying(words, n), Address(words, i), words[i])
<1> DEFINE Bad == {k \in 0..Len(words) :
                      \E i \in 1..k : ~StoredAt(Laying(words, k), Address(words, i), words[i])}
<1>1. SUFFICES ASSUME Bad # {} PROVE FALSE
  <2>1. n \notin Bad
    BY <1>1
  <2> QED BY <2>1
<1>2. PICK k \in Bad : \A l \in Bad : k <= l
  <2>1. Bad \subseteq Nat
    OBVIOUS
  <2> HIDE DEF Bad
  <2> QED BY <1>1, <2>1, LeastThere
<1>3. PICK i \in 1..k : ~StoredAt(Laying(words, k), Address(words, i), words[i])
  BY <1>2
<1>4. /\ k \in 1..Len(words) /\ k - 1 \in 0..Len(words) /\ k \in 0..Len(words) /\ k > 0
      /\ words[k] \in Words /\ i \in 1..Len(words) /\ words[i] \in Words
  <2>1. k \in 0..Len(words) /\ Len(words) \in Nat
    BY <1>2
  <2> QED BY <2>1, <1>3
<1>5. /\ Laying(words, k - 1) \in Seq(Chars) /\ Stored(words[k]) \in Seq(Chars)
      /\ Laying(words, k) = Laying(words, k - 1) \o Stored(words[k])
  BY <1>4, LayingNext, WordIs
<1>6. CASE i = k
  <2>1. Address(words, k) = Len(Laying(words, k - 1)) + 1
    BY <1>4, AddressNext
  <2> QED BY <1>3, <1>4, <1>5, <1>6, <2>1, StoredBehind
<1>7. CASE i # k
  <2>1. k - 1 \notin Bad
    BY <1>2, <1>4
  <2>2. i \in 1..(k - 1)
    BY <1>3, <1>4, <1>7
  <2>3. StoredAt(Laying(words, k - 1), Address(words, i), words[i])
    BY <1>4, <2>1, <2>2
  <2>4. Address(words, i) \in Nat
    BY <1>4, AddressNext
  <2> QED BY <1>3, <1>4, <1>5, <2>3, <2>4, StoredBefore
<1> QED BY <1>6, <1>7

\* A word that lies in memory is read back.
LEMMA StoredReads ==
    ASSUME NEW m \in Seq(Chars), NEW a, NEW word \in Words, StoredAt(m, a, word)
    PROVE  /\ Strlen(m, a) = Len1[word] /\ StringAt(m, a) = Text(word)
           /\ After(m, a) = a + Len1[word] + 1
<1>1. /\ a \in 1..Len(m) /\ a + Len1[word] \in 1..Len(m) /\ m[a + Len1[word]] = NUL
      /\ \A k \in 1..Len1[word] : m[a + k - 1] = <<word, k>>
  BY DEF StoredAt
<1>2. PICK l \in Nat : l = Len1[word]
  BY WordIs
<1>3. a \in Nat /\ Len(m) \in Nat /\ a + l \in a..Len(m)
  BY <1>1, <1>2, LenProperties
<1>4. ASSUME NEW x \in a..(a + l - 1) PROVE m[x] # NUL
  <2>1. PICK k \in 1..l : x = a + k - 1
    <3>1. x - a + 1 \in 1..l /\ x = a + (x - a + 1) - 1
      BY <1>3
    <3> QED BY <3>1
  <2>2. m[x] = <<word, k>>
    BY <1>1, <1>2, <2>1
  <2>3. <<word, k>> # NUL
    BY <1>2, WordIs
  <2> QED BY <2>2, <2>3
<1>5. ASSUME NEW x \in a..Len(m), m[x] = NUL, \A y \in a..(x - 1) : m[y] # NUL
      PROVE  x = a + l
  <2>1. ~(x < a + l)
    BY <1>3, <1>4, <1>5
  <2>2. ~(a + l < x)
    <3> SUFFICES ASSUME a + l < x PROVE FALSE
      OBVIOUS
    <3>1. a + l \in a..(x - 1)
      BY <1>3
    <3> QED BY <1>1, <1>2, <1>5, <3>1
  <2> QED BY <1>3, <2>1, <2>2
<1>6. m[a + l] = NUL /\ \A y \in a..((a + l) - 1) : m[y] # NUL
  BY <1>1, <1>2, <1>4
<1>7. (CHOOSE x \in a..Len(m) : m[x] = NUL /\ \A y \in a..(x - 1) : m[y] # NUL) = a + l
  BY <1>3, <1>5, <1>6
<1>8. Strlen(m, a) = l
  <2>1. Strlen(m, a) = (a + l) - a
    BY <1>7 DEF Strlen
  <2> QED BY <1>3, <2>1
<1>9. StringAt(m, a) = Text(word)
  <2>1. StringAt(m, a) = SubSeq(m, a, a + l - 1)
    BY <1>8 DEF StringAt
  <2>2. /\ SubSeq(m, a, a + l - 1) \in Seq(Chars)
        /\ Len(SubSeq(m, a, a + l - 1)) = IF a <= a + l - 1 THEN (a + l - 1) - a + 1 ELSE 0
        /\ \A i \in 1..Len(SubSeq(m, a, a + l - 1)) : SubSeq(m, a, a + l - 1)[i] = m[a + i - 1]
    <3>1. a \in 1..(Len(m) + 1) /\ a + l - 1 \in (a - 1)..Len(m)
      BY <1>1, <1>3
    <3>2. \A i \in a..(a + l - 1) : m[i] \in Chars
      <4>1. \A i \in 1..Len(m) : m[i] \in Chars
        OBVIOUS
      <4> QED BY <1>1, <1>3, <4>1
    <3> QED BY <1>3, <3>1, <3>2, SubSeqProperties
  <2>3. Len(SubSeq(m, a, a + l - 1)) = l
    BY <1>3, <2>2
  <2>4. Text(word) \in Seq(Chars) /\ Len(Text(word)) = l /\ \A k \in 1..l : Text(word)[k] = <<word, k>>
    BY <1>2, WordIs
  <2>5. \A k \in 1..l : SubSeq(m, a, a + l - 1)[k] = Text(word)[k]
    BY <1>1, <1>2, <2>2, <2>3, <2>4
  <2> QED BY <2>1, <2>2, <2>3, <2>4, <2>5, SeqEqual
<1> QED BY <1>2, <1>8, <1>9 DEF After

LEMMA WordOfText ==
    ASSUME NEW word \in Words
    PROVE  WordOf(Text(word)) = word
<1>1. ASSUME NEW other \in Words, Text(other) = Text(word) PROVE other = word
  <2>1. Len1[other] = Len1[word] /\ Len1[word] \in Nat
    BY <1>1, WordIs
  <2>2. CASE Len1[word] = 0
    BY <2>1, <2>2, TitleAssumption
  <2>3. CASE Len1[word] # 0
    <3>1. 1 \in 1..Len1[word] /\ 1 \in 1..Len1[other]
      BY <2>1, <2>3
    <3>2. Text(word)[1] = <<word, 1>> /\ Text(other)[1] = <<other, 1>>
      BY <3>1, WordIs
    <3>3. <<word, 1>>[1] = <<other, 1>>[1]
      BY <1>1, <3>2
    <3> QED BY <3>3
  <2> QED BY <2>2, <2>3
<1> QED BY <1>1 DEF WordOf

\* What exec lays out: the arguments, and behind them the environment.
LEMMA LaidIs ==
    ASSUME NEW av \in Seq(Words), NEW ev \in Seq(Words), Laid(av, ev)
    PROVE  /\ mem' \in Seq(Chars)
           /\ \A i \in 1..Len(av) : StoredAt(mem', Address(av, i), av[i])
           /\ EnvironInv(mem', environ', ev, Address(av, Len(av) + 1))
<1> DEFINE words == av \o ev
<1>1. PICK n, l \in Nat : n = Len(av) /\ l = Len(ev)
  BY LenProperties
<1>2. /\ words \in Seq(Words) /\ Len(words) = n + l /\ DOMAIN words = 1..(n + l)
      /\ \A i \in 1..n : words[i] = av[i]
      /\ \A k \in 1..l : words[n + k] = ev[k]
  <2>1. /\ words \in Seq(Words) /\ Len(words) = Len(av) + Len(ev)
        /\ \A x \in 1..(Len(av) + Len(ev)) :
              words[x] = IF x <= Len(av) THEN av[x] ELSE ev[x - Len(av)]
    BY ConcatProperties
  <2> HIDE DEF words
  <2>2. \A i \in 1..n : words[i] = av[i]
    BY <1>1, <2>1
  <2>3. ASSUME NEW k \in 1..l PROVE words[n + k] = ev[k]
    <3>1. n + k \in 1..(n + l) /\ ~(n + k <= n) /\ (n + k) - n = k
      BY <1>1
    <3> QED BY <1>1, <2>1, <3>1
  <2> QED BY <1>1, <2>1, <2>2, <2>3
<1>3. /\ mem' = FlattenSeq([k \in DOMAIN words |-> Stored(words[k])])
      /\ environ' = [k \in DOMAIN ev |-> [at |-> Address(words, n + k), text |-> <<>>]]
  BY <1>1 DEF Laid
<1>4. \A i \in 1..(n + 1) : Address(av, i) = Address(words, i)
  <2> SUFFICES ASSUME NEW i \in 1..(n + 1) PROVE Address(av, i) = Address(words, i)
    OBVIOUS
  <2>1. \A k \in 1..(i - 1) : words[k] = av[k]
    BY <1>2
  <2> HIDE DEF words
  <2>2. [k \in 1..(i - 1) |-> Stored(av[k])] = [k \in 1..(i - 1) |-> Stored(words[k])]
    BY <2>1
  <2> QED BY <2>2 DEF Address
<1> HIDE DEF words
<1>5. mem' = Laying(words, n + l)
  <2>1. [k \in DOMAIN words |-> Stored(words[k])] = Rows(words, n + l)
    BY <1>2 DEF Rows
  <2> QED BY <1>3, <2>1 DEF Laying
<1>6. mem' \in Seq(Chars) /\ \A i \in 1..(n + l) : StoredAt(mem', Address(words, i), words[i])
  <2>1. n + l \in 0..Len(words)
    BY <1>2
  <2> QED BY <1>2, <1>5, <2>1, LayingNext, LaidIsStored
<1>7. ASSUME NEW i \in 1..Len(av) PROVE StoredAt(mem', Address(av, i), av[i])
  <2>1. i \in 1..n /\ i \in 1..(n + 1) /\ i \in 1..(n + l)
    BY <1>1
  <2> QED BY <1>2, <1>4, <1>6, <2>1
<1>8. ASSUME NEW k \in 1..l
      PROVE  /\ n + k \in 1..Len(words) /\ Address(words, n + k) \in Nat
             /\ Address(words, n + 1) <= Address(words, n + k)
             /\ StoredAt(mem', Address(words, n + k), ev[k])
  <2>1. n + k \in 1..(n + l) /\ n + 1 \in 1..(n + l) /\ n + k \in 1..((n + l) + 1)
    OBVIOUS
  <2>2. Address(words, n + k) \in Nat /\ Address(words, n + 1) \in Nat
    BY <1>2, <2>1, AddressNext
  <2>3. Address(words, n + 1) <= Address(words, n + k)
    <3>1. CASE k = 1
      BY <2>2, <3>1
    <3>2. CASE k # 1
      <4>1. n + 1 < n + k
        BY <3>2
      <4>2. Address(words, n + 1) + Len1[words[n + 1]] + 1 <= Address(words, n + k)
        BY <1>2, <2>1, <4>1, AddressOrder
      <4>3. Len1[words[n + 1]] \in Nat
        BY <1>2, <2>1, WordIs
      <4> QED BY <2>2, <4>2, <4>3
    <3> QED BY <3>1, <3>2
  <2> QED BY <1>2, <1>6, <2>1, <2>2, <2>3
<1>9. /\ environ' \in Seq([at : Nat, text : Seq(Chars)]) /\ Len(environ') = l
      /\ \A k \in 1..l : environ'[k].at = Address(words, n + k) /\ environ'[k].text = <<>>
  <2>1. DOMAIN ev = 1..l /\ <<>> \in Seq(Chars)
    BY <1>1, EmptySeq
  <2>2. \A k \in 1..l : [at |-> Address(words, n + k), text |-> <<>>] \in [at : Nat, text : Seq(Chars)]
    BY <1>8, <2>1
  <2> QED BY <1>3, <2>1, <2>2
<1>10. Address(av, Len(av) + 1) = Address(words, n + 1)
  BY <1>1, <1>4
<1>11. ASSUME NEW i \in 1..l, NEW j \in 1..l, i < j
       PROVE  environ'[i].at + Len1[ev[i]] + 1 <= environ'[j].at
  <2>1. n + i \in 1..(n + l) /\ n + j \in 1..((n + l) + 1) /\ n + i < n + j
    BY <1>11
  <2>2. Address(words, n + i) + Len1[words[n + i]] + 1 <= Address(words, n + j)
    BY <1>2, <2>1, AddressOrder
  <2> QED BY <1>2, <1>9, <2>2
<1>12. EnvironInv(mem', environ', ev, Address(words, n + 1))
  <2>1. \A k \in 1..l : StringInv(mem', environ'[k], ev[k], Address(words, n + 1))
    BY <1>8, <1>9 DEF StringInv
  <2> QED BY <1>1, <1>9, <1>11, <2>1 DEF EnvironInv
<1> QED BY <1>6, <1>7, <1>10, <1>12

\* A string of the environment reads as the word it is.
LEMMA StringReads ==
    ASSUME NEW m \in Seq(Chars), NEW e, NEW word \in Words, NEW low \in Nat \ {0}, StringInv(m, e, word, low)
    PROVE  Reads(m, e) = Text(word)
<1>1. CASE e = OnHeap(Text(word))
  <2>1. e.at = 0 /\ e.text = Text(word)
    BY <1>1 DEF OnHeap
  <2> QED BY <2>1 DEF Reads
<1>2. CASE StoredAt(m, e.at, word)
  <2>1. e.at \in 1..Len(m)
    BY <1>2 DEF StoredAt
  <2>2. e.at # 0
    BY <2>1
  <2>3. StringAt(m, e.at) = Text(word)
    BY <1>2, StoredReads
  <2> QED BY <2>2, <2>3 DEF Reads
<1> QED BY <1>1, <1>2 DEF StringInv

LEMMA EnvironReads ==
    ASSUME NEW m \in Seq(Chars), NEW es, NEW words, NEW low \in Nat \ {0}, EnvironInv(m, es, words, low)
    PROVE  /\ DOMAIN es = DOMAIN words /\ DOMAIN words = 1..Len(words)
           /\ \A i \in DOMAIN words : words[i] \in Words /\ Reads(m, es[i]) = Text(words[i])
<1>1. /\ es \in Seq([at : Nat, text : Seq(Chars)]) /\ words \in Seq(Words) /\ Len(es) = Len(words)
      /\ \A i \in 1..Len(words) : StringInv(m, es[i], words[i], low)
  BY DEF EnvironInv
<1>2. DOMAIN es = 1..Len(words) /\ DOMAIN words = 1..Len(words) /\ \A i \in 1..Len(words) : words[i] \in Words
  BY <1>1
<1> QED BY <1>1, <1>2, StringReads

LEMMA Copies ==
    ASSUME NEW word \in Words
    PROVE  /\ OnHeap(Text(word)) \in [at : Nat, text : Seq(Chars)] /\ OnHeap(Text(word)).at = 0
           /\ \A m, low : StringInv(m, OnHeap(Text(word)), word, low)
<1>1. Text(word) \in Seq(Chars)
  BY WordIs
<1> QED BY <1>1 DEF OnHeap, StringInv

\* setenv of a variable that is set, and of one that is not
LEMMA StringChanged ==
    ASSUME NEW m, NEW es, NEW words, NEW low, EnvironInv(m, es, words, low), NEW word \in Words, NEW old
    PROVE  EnvironInv(m, [i \in DOMAIN es |-> IF i \in old THEN OnHeap(Text(word)) ELSE es[i]],
                      [i \in DOMAIN words |-> IF i \in old THEN word ELSE words[i]], low)
<1> DEFINE es2 == [i \in DOMAIN es |-> IF i \in old THEN OnHeap(Text(word)) ELSE es[i]]
           words2 == [i \in DOMAIN words |-> IF i \in old THEN word ELSE words[i]]
<1>1. /\ es \in Seq([at : Nat, text : Seq(Chars)]) /\ words \in Seq(Words) /\ Len(es) = Len(words)
      /\ \A i \in 1..Len(words) : StringInv(m, es[i], words[i], low)
      /\ \A i, j \in 1..Len(words) :
            i < j /\ es[i].at # 0 /\ es[j].at # 0 => es[i].at + Len1[words[i]] + 1 <= es[j].at
  BY DEF EnvironInv
<1>2. PICK n \in Nat : n = Len(words)
  BY <1>1, LenProperties
<1>3. DOMAIN es = 1..n /\ DOMAIN words = 1..n
  BY <1>1, <1>2
<1>4. PICK copy : copy = OnHeap(Text(word)) /\ copy \in [at : Nat, text : Seq(Chars)] /\ copy.at = 0
                  /\ StringInv(m, copy, word, low)
  BY Copies
<1>5. /\ es2 \in Seq([at : Nat, text : Seq(Chars)]) /\ words2 \in Seq(Words)
      /\ Len(es2) = n /\ Len(words2) = n
  <2>1. PICK R : R = [at : Nat, text : Seq(Chars)]
    OBVIOUS
  <2>2. es \in Seq(R) /\ copy \in R
    BY <1>1, <1>4, <2>1
  <2>3. \A i \in 1..n : es[i] \in R /\ words[i] \in Words
    BY ONLY <1>1, <1>2, <2>2, ElementOfSeq
  <2>4. /\ es2 = [i \in 1..n |-> IF i \in old THEN copy ELSE es[i]]
        /\ words2 = [i \in 1..n |-> IF i \in old THEN word ELSE words[i]]
    BY <1>3, <1>4
  <2> HIDE DEF es2, words2
  <2>5. es2 \in Seq(R) /\ Len(es2) = n
    BY ONLY <2>2, <2>3, <2>4, n \in Nat
  <2>6. words2 \in Seq(Words) /\ Len(words2) = n
    BY ONLY <2>3, <2>4, n \in Nat, word \in Words
  <2> QED BY <2>1, <2>5, <2>6
<1>6. \A i \in 1..n : /\ i \in old => es2[i] = copy /\ words2[i] = word
                      /\ i \notin old => es2[i] = es[i] /\ words2[i] = words[i]
  BY <1>3, <1>4
<1> HIDE DEF es2, words2
<1>7. \A i \in 1..n : StringInv(m, es2[i], words2[i], low)
  BY <1>1, <1>2, <1>4, <1>6
<1>8. ASSUME NEW i \in 1..n, NEW j \in 1..n, i < j, es2[i].at # 0, es2[j].at # 0
      PROVE  es2[i].at + Len1[words2[i]] + 1 <= es2[j].at
  <2>1. i \notin old /\ j \notin old
    BY <1>4, <1>6, <1>8
  <2> QED BY <1>1, <1>2, <1>6, <1>8, <2>1
<1>9. EnvironInv(m, es2, words2, low)
  BY <1>2, <1>5, <1>7, <1>8 DEF EnvironInv
<1> QED BY <1>9 DEF es2, words2

LEMMA StringAppended ==
    ASSUME NEW m, NEW es, NEW words, NEW low, EnvironInv(m, es, words, low), NEW word \in Words
    PROVE  EnvironInv(m, Append(es, OnHeap(Text(word))), Append(words, word), low)
<1>1. /\ es \in Seq([at : Nat, text : Seq(Chars)]) /\ words \in Seq(Words) /\ Len(es) = Len(words)
      /\ \A i \in 1..Len(words) : StringInv(m, es[i], words[i], low)
      /\ \A i, j \in 1..Len(words) :
            i < j /\ es[i].at # 0 /\ es[j].at # 0 => es[i].at + Len1[words[i]] + 1 <= es[j].at
  BY DEF EnvironInv
<1>2. PICK n \in Nat : n = Len(words)
  BY <1>1, LenProperties
<1>3. PICK copy : copy = OnHeap(Text(word)) /\ copy \in [at : Nat, text : Seq(Chars)] /\ copy.at = 0
                  /\ StringInv(m, copy, word, low)
  BY Copies
<1>4. PICK es2, words2 : es2 = Append(es, copy) /\ words2 = Append(words, word)
  OBVIOUS
<1>5. /\ es2 \in Seq([at : Nat, text : Seq(Chars)]) /\ words2 \in Seq(Words)
      /\ Len(es2) = n + 1 /\ Len(words2) = n + 1
      /\ \A i \in 1..n : es2[i] = es[i] /\ words2[i] = words[i]
      /\ es2[n + 1] = copy /\ words2[n + 1] = word
  BY <1>1, <1>2, <1>3, <1>4, AppendProperties
<1>6. ASSUME NEW i \in 1..(n + 1) PROVE StringInv(m, es2[i], words2[i], low)
  <2>1. CASE i = n + 1
    BY <1>3, <1>5, <2>1
  <2>2. CASE i # n + 1
    <3>1. i \in 1..n
      BY <2>2
    <3> QED BY <1>1, <1>2, <1>5, <3>1
  <2> QED BY <2>1, <2>2
<1>7. ASSUME NEW i \in 1..(n + 1), NEW j \in 1..(n + 1), i < j, es2[i].at # 0, es2[j].at # 0
      PROVE  es2[i].at + Len1[words2[i]] + 1 <= es2[j].at
  <2>1. i \in 1..n /\ j \in 1..n
    BY <1>3, <1>5, <1>7
  <2> QED BY <1>1, <1>2, <1>5, <1>7, <2>1
<1>8. EnvironInv(m, es2, words2, low)
  BY <1>5, <1>6, <1>7 DEF EnvironInv
<1> QED BY <1>3, <1>4, <1>8

LEMMA Removed ==
    ASSUME NEW S, NEW s \in Seq(S), NEW i \in 1..Len(s)
    PROVE  /\ RemoveAt(s, i) \in Seq(S) /\ Len(RemoveAt(s, i)) = Len(s) - 1
           /\ \A k \in 1..(Len(s) - 1) : RemoveAt(s, i)[k] = IF k < i THEN s[k] ELSE s[k + 1]
<1>1. PICK n \in Nat : n = Len(s)
  BY LenProperties
<1>2. PICK f, g : f = SubSeq(s, 1, i - 1) /\ g = SubSeq(s, i + 1, n)
  OBVIOUS
<1>3. \A k \in 1..n : s[k] \in S
  BY <1>1
<1>4. f \in Seq(S) /\ Len(f) = i - 1 /\ \A k \in 1..(i - 1) : f[k] = s[k]
  <2>1. 1 \in Int /\ i - 1 \in Int /\ \A k \in 1..(i - 1) : s[k] \in S
    BY <1>1, <1>3
  <2>2. /\ f \in Seq(S) /\ Len(f) = IF 1 <= i - 1 THEN (i - 1) - 1 + 1 ELSE 0
        /\ \A k \in 1..((i - 1) - 1 + 1) : f[k] = s[1 + k - 1]
    BY <1>2, <2>1, SubSeqProperties
  <2> QED BY <1>1, <2>2
<1>5. g \in Seq(S) /\ Len(g) = n - i /\ \A k \in 1..(n - i) : g[k] = s[i + k]
  <2>1. i + 1 \in Int /\ n \in Int /\ \A k \in (i + 1)..n : s[k] \in S
    BY <1>1, <1>3
  <2>2. /\ g \in Seq(S) /\ Len(g) = IF i + 1 <= n THEN n - (i + 1) + 1 ELSE 0
        /\ \A k \in 1..(n - (i + 1) + 1) : g[k] = s[(i + 1) + k - 1]
    BY <1>2, <2>1, SubSeqProperties
  <2>3. Len(g) = n - i
    BY <1>1, <2>2
  <2>4. ASSUME NEW k \in 1..(n - i) PROVE g[k] = s[i + k]
    <3>0. i \in Nat /\ k \in Nat /\ k >= 1 /\ k <= n - i
      BY <1>1
    <3>1. k \in 1..(n - (i + 1) + 1) /\ (i + 1) + k - 1 = i + k
      BY ONLY <3>0, n \in Nat
    <3> QED BY <2>2, <3>1
  <2> QED BY <2>2, <2>3, <2>4
<1>6. RemoveAt(s, i) = f \o g
  BY <1>1, <1>2 DEF RemoveAt
<1>7. /\ f \o g \in Seq(S) /\ Len(f \o g) = Len(f) + Len(g)
      /\ \A x \in 1..(Len(f) + Len(g)) : (f \o g)[x] = IF x <= Len(f) THEN f[x] ELSE g[x - Len(f)]
  BY <1>4, <1>5, ConcatProperties
<1>8. i \in 1..n /\ Len(f) + Len(g) = n - 1
  <2>1. i \in 1..n
    BY <1>1
  <2> QED BY ONLY <1>4, <1>5, <2>1, n \in Nat
<1>9. ASSUME NEW k \in 1..(n - 1) PROVE (f \o g)[k] = IF k < i THEN s[k] ELSE s[k + 1]
  <2>1. CASE k < i
    <3>1. k \in 1..(i - 1) /\ k <= Len(f)
      BY <1>4, <1>8, <2>1
    <3> QED BY <1>4, <1>7, <1>8, <2>1, <3>1
  <2>2. CASE ~(k < i)
    <3>1. k - (i - 1) \in 1..(n - i) /\ ~(k <= Len(f)) /\ i + (k - (i - 1)) = k + 1
      BY <1>4, <1>8, <2>2
    <3>2. (f \o g)[k] = g[k - (i - 1)]
      BY <1>4, <1>7, <1>8, <3>1
    <3> QED BY <1>5, <2>2, <3>1, <3>2
  <2> QED BY <2>1, <2>2
<1> QED BY <1>1, <1>6, <1>7, <1>8, <1>9

\* unsetenv
LEMMA StringRemoved ==
    ASSUME NEW m, NEW es, NEW words, NEW low, EnvironInv(m, es, words, low), NEW x \in DOMAIN words
    PROVE  EnvironInv(m, RemoveAt(es, x), RemoveAt(words, x), low)
<1>1. /\ es \in Seq([at : Nat, text : Seq(Chars)]) /\ words \in Seq(Words) /\ Len(es) = Len(words)
      /\ \A i \in 1..Len(words) : StringInv(m, es[i], words[i], low)
      /\ \A i, j \in 1..Len(words) :
            i < j /\ es[i].at # 0 /\ es[j].at # 0 => es[i].at + Len1[words[i]] + 1 <= es[j].at
  BY DEF EnvironInv
<1>2. PICK n \in Nat : n = Len(words) /\ n = Len(es) /\ x \in 1..n
  BY <1>1, LenProperties
<1>3. PICK es2, words2 : es2 = RemoveAt(es, x) /\ words2 = RemoveAt(words, x)
  OBVIOUS
<1> DEFINE Was(k) == IF k < x THEN k ELSE k + 1
<1>4. /\ es2 \in Seq([at : Nat, text : Seq(Chars)]) /\ Len(es2) = n - 1
      /\ \A k \in 1..(n - 1) : es2[k] = IF k < x THEN es[k] ELSE es[k + 1]
  <2>1. PICK R : R = [at : Nat, text : Seq(Chars)]
    OBVIOUS
  <2>2. es \in Seq(R) /\ x \in 1..Len(es)
    BY <1>1, <1>2, <2>1
  <2>3. /\ RemoveAt(es, x) \in Seq(R) /\ Len(RemoveAt(es, x)) = Len(es) - 1
        /\ \A k \in 1..(Len(es) - 1) : RemoveAt(es, x)[k] = IF k < x THEN es[k] ELSE es[k + 1]
    BY ONLY <2>2, Removed
  <2> QED BY <1>2, <1>3, <2>1, <2>3
<1>5. /\ words2 \in Seq(Words) /\ Len(words2) = n - 1
      /\ \A k \in 1..(n - 1) : words2[k] = IF k < x THEN words[k] ELSE words[k + 1]
  BY <1>1, <1>2, <1>3, Removed
<1>6. ASSUME NEW k \in 1..(n - 1)
      PROVE  Was(k) \in 1..n /\ es2[k] = es[Was(k)] /\ words2[k] = words[Was(k)]
  <2>1. Was(k) \in 1..n
    BY <1>2
  <2>2. es2[k] = (IF k < x THEN es[k] ELSE es[k + 1])
        /\ words2[k] = (IF k < x THEN words[k] ELSE words[k + 1])
    BY <1>4, <1>5
  <2>3. CASE k < x
    BY <2>1, <2>2, <2>3
  <2>4. CASE ~(k < x)
    BY <2>1, <2>2, <2>4
  <2> QED BY <2>3, <2>4
<1>7. \A i, j \in 1..(n - 1) : i < j => Was(i) < Was(j)
  BY <1>2
<1> HIDE DEF Was
<1>8. \A i \in 1..(n - 1) : StringInv(m, es2[i], words2[i], low)
  BY <1>1, <1>2, <1>6
<1>9. ASSUME NEW i \in 1..(n - 1), NEW j \in 1..(n - 1), i < j, es2[i].at # 0, es2[j].at # 0
      PROVE  es2[i].at + Len1[words2[i]] + 1 <= es2[j].at
  <2>1. Was(i) < Was(j)
    BY <1>7, <1>9
  <2>2. PICK i2, j2 : i2 = Was(i) /\ j2 = Was(j)
    OBVIOUS
  <2>3. /\ i2 \in 1..Len(words) /\ j2 \in 1..Len(words) /\ i2 < j2
        /\ es2[i] = es[i2] /\ es2[j] = es[j2] /\ words2[i] = words[i2]
    BY <1>2, <1>6, <2>1, <2>2
  <2> QED BY <1>1, <1>9, <2>3
<1>10. EnvironInv(m, es2, words2, low)
  BY <1>4, <1>5, <1>8, <1>9 DEF EnvironInv
<1> QED BY <1>3, <1>10

LEMMA TitleTextIs ==
    ASSUME NEW t \in Words
    PROVE  TitleText(t) \in Seq(Chars) /\ \A x \in 1..Len(TitleText(t)) : TitleText(t)[x] # NUL
<1>1. /\ Text(t) \in Seq(Chars) /\ Len(Text(t)) = Len1[t] /\ Len1[t] \in Nat
      /\ \A k \in 1..Len1[t] : Text(t)[k] = <<t, k>> /\ <<t, k>> # NUL
  BY WordIs
<1>2. PICK l \in 0..Len1[t] : l = Min({Len1[t], TITLE_SIZE - 2})
  <2>1. PICK a, z : a = Len1[t] /\ z = TITLE_SIZE - 2
    OBVIOUS
  <2>2. a \in Nat /\ z \in Nat
    BY <1>1, <2>1, TitleAssumption
  <2>3. Min({a, z}) \in {a, z} /\ Min({a, z}) <= a
    <3>1. \E x \in {a, z} : \A y \in {a, z} : x <= y
      BY ONLY <2>2
    <3>2. Min({a, z}) = CHOOSE x \in {a, z} : \A y \in {a, z} : x <= y
      BY DEF Min
    <3> QED BY <3>1, <3>2
  <2> QED BY ONLY <2>1, <2>2, <2>3
<1>3. PICK text, cut : text = Text(t) /\ cut = SubSeq(text, 1, l)
  OBVIOUS
<1>4. TitleText(t) = cut
  BY <1>2, <1>3 DEF TitleText
<1>5. text \in Seq(Chars) /\ l \in 0..Len(text)
  BY <1>1, <1>2, <1>3
<1>6. 1 \in Int /\ l \in Int /\ \A k \in 1..l : text[k] \in Chars
  BY ONLY <1>5, ElementOfSeq, LenProperties
<1>7. /\ cut \in Seq(Chars) /\ Len(cut) = (IF 1 <= l THEN l - 1 + 1 ELSE 0)
      /\ \A k \in 1..(l - 1 + 1) : cut[k] = text[1 + k - 1]
  BY ONLY <1>3, <1>6, SubSeqProperties
<1>8. Len(cut) = l /\ \A k \in 1..l : cut[k] = text[k]
  <2>1. l \in Nat
    BY <1>1, <1>2
  <2>2. Len(cut) = l
    BY <1>7, <2>1
  <2>3. ASSUME NEW k \in 1..l PROVE cut[k] = text[k]
    <3>1. k \in 1..(l - 1 + 1) /\ 1 + k - 1 = k
      BY <2>1
    <3> QED BY <1>7, <3>1
  <2> QED BY <2>2, <2>3
<1>9. ASSUME NEW k \in 1..l PROVE text[k] # NUL
  <2>1. k \in 1..Len1[t]
    BY <1>1, <1>2
  <2>2. Text(t)[k] # NUL
    BY <1>1, <2>1
  <2> QED BY <1>3, <2>2
<1> QED BY <1>4, <1>7, <1>8, <1>9

\* What daemon_set_title writes, and what it leaves alone.
LEMMA OverIs ==
    ASSUME NEW text \in Seq(Chars), NEW end \in 2..(Len(mem) + 1), mem \in Seq(Chars)
    PROVE  /\ Over(text, end) \in Seq(Chars) /\ Len(Over(text, end)) = Len(mem)
           /\ ShownInv(Over(text, end), text, end)
           /\ \A a, word : word \in Words /\ StoredAt(mem, a, word) /\ a >= end
                              => StoredAt(Over(text, end), a, word)
<1>1. PICK n \in Nat : n = Len(mem) /\ DOMAIN mem = 1..n
  BY LenProperties
<1>2. PICK m : m = Over(text, end)
  OBVIOUS
<1>3. m = [x \in 1..n |-> IF x >= end THEN mem[x]
                          ELSE IF x <= Len(text) /\ x < end - 1 THEN text[x] ELSE NUL]
  BY <1>1, <1>2 DEF Over
<1>4. Len(text) \in Nat /\ end \in 2..(n + 1)
  BY <1>1, LenProperties
<1>5. NUL \in Chars /\ (\A x \in 1..n : mem[x] \in Chars) /\ \A x \in 1..Len(text) : text[x] \in Chars
  BY <1>1, ElementOfSeq DEF Chars
<1>6. m \in Seq(Chars) /\ Len(m) = n
  <2>1. \A x \in 1..n : (IF x >= end THEN mem[x]
                         ELSE IF x <= Len(text) /\ x < end - 1 THEN text[x] ELSE NUL) \in Chars
    BY ONLY <1>4, <1>5, n \in Nat
  <2> QED BY ONLY <1>3, <2>1, n \in Nat
<1>7. ShownInv(m, text, end)
  <2>1. \A x \in 1..(end - 1) : x \in 1..n /\ ~(x >= end)
    BY ONLY <1>4, n \in Nat
  <2> QED BY <1>3, <2>1 DEF ShownInv
<1>8. ASSUME NEW a, NEW word \in Words, StoredAt(mem, a, word), a >= end
      PROVE  StoredAt(m, a, word)
  <2>1. /\ a \in 1..n /\ a + Len1[word] \in 1..n
        /\ \A k \in 1..Len1[word] : mem[a + k - 1] = <<word, k>>
        /\ mem[a + Len1[word]] = NUL
    BY <1>1, <1>8 DEF StoredAt
  <2>2. PICK l \in Nat : l = Len1[word]
    BY WordIs
  <2>3. \A x \in a..n : m[x] = mem[x]
    BY <1>3, <1>4, <1>8, <2>1
  <2>4. \A k \in 1..l : a + k - 1 \in a..n
    BY ONLY <2>1, <2>2
  <2>5. a + l \in a..n
    BY ONLY <2>1, <2>2
  <2> QED BY <1>6, <2>1, <2>2, <2>3, <2>4, <2>5 DEF StoredAt
<1> QED BY <1>1, <1>2, <1>6, <1>7, <1>8

\* The strings that adjoin are the first ones; those behind them lie behind.
LEMMA AdjoiningIs ==
    ASSUME mem \in Seq(Chars), NEW low \in 2..(Len(mem) + 1), EnvironInv(mem, environ, env, low),
           Adjoining # {}
    PROVE  \E final \in Adjoining, end \in low..(Len(mem) + 1) :
              /\ final = Max(Adjoining) /\ end = After(mem, environ[final].at)
              /\ \A j \in 1..Len(env) : j \notin Adjoining /\ environ[j].at # 0 => environ[j].at >= end
<1>1. /\ environ \in Seq([at : Nat, text : Seq(Chars)]) /\ env \in Seq(Words) /\ Len(environ) = Len(env)
      /\ \A i \in 1..Len(env) : StringInv(mem, environ[i], env[i], low)
      /\ \A i, j \in 1..Len(env) :
            i < j /\ environ[i].at # 0 /\ environ[j].at # 0
               => environ[i].at + Len1[env[i]] + 1 <= environ[j].at
  BY DEF EnvironInv
<1>2. PICK n \in Nat : n = Len(env) /\ DOMAIN environ = 1..n /\ DOMAIN env = 1..n
  BY <1>1, LenProperties
<1>3. \A i \in Adjoining : i \in 1..n /\ environ[i].at # 0
  <2> SUFFICES ASSUME NEW i \in Adjoining PROVE i \in 1..n /\ environ[i].at # 0
    OBVIOUS
  <2>1. i \in 1..n
    BY <1>2 DEF Adjoining
  <2>2. i \in 1..i
    BY <2>1
  <2> QED BY <2>1, <2>2 DEF Adjoining
<1>4. \A i \in Adjoining : \A j \in 1..i : j \in Adjoining
  <2> SUFFICES ASSUME NEW i \in Adjoining, NEW j \in 1..i PROVE j \in Adjoining
    OBVIOUS
  <2>1. i \in 1..n
    BY <1>3
  <2>2. j \in 1..n /\ \A k \in 1..j : k \in 1..i
    BY <2>1
  <2> QED BY <1>2, <2>2 DEF Adjoining
<1>5. PICK final \in Adjoining : \A i \in Adjoining : i <= final
  <2>1. Adjoining \subseteq 0..n
    BY <1>3
  <2> QED BY <2>1, GreatestThere
<1>6. final = Max(Adjoining)
  <2>1. Adjoining \subseteq Nat
    BY <1>3
  <2>2. \A x \in Adjoining : (\A y \in Adjoining : x >= y) => x = final
    BY <1>5, <2>1
  <2> HIDE DEF Adjoining
  <2>3. \A y \in Adjoining : final >= y
    BY <1>5, <2>1
  <2> QED BY <2>2, <2>3 DEF Max
<1>7. final \in 1..n /\ environ[final].at # 0 /\ env[final] \in Words
  <2>1. final \in 1..n /\ environ[final].at # 0
    BY <1>3
  <2> QED BY <1>1, <1>2, <2>1, ElementOfSeq
<1>8. environ[final].at >= low /\ StoredAt(mem, environ[final].at, env[final])
  <2>1. StringInv(mem, environ[final], env[final], low)
    BY <1>1, <1>2, <1>7
  <2>2. environ[final] # OnHeap(Text(env[final]))
    BY <1>7 DEF OnHeap
  <2> QED BY <2>1, <2>2 DEF StringInv
<1>9. PICK end : end = environ[final].at + Len1[env[final]] + 1
  OBVIOUS
<1>10. After(mem, environ[final].at) = end
  BY <1>7, <1>8, <1>9, StoredReads
<1>11. end \in low..(Len(mem) + 1)
  <2>1. PICK x, l : x = environ[final].at /\ l = Len1[env[final]]
    OBVIOUS
  <2>2. x \in 1..Len(mem) /\ x + l \in 1..Len(mem) /\ l \in Nat /\ x >= low /\ end = x + l + 1
    BY <1>7, <1>8, <1>9, <2>1, WordIs DEF StoredAt
  <2>3. Len(mem) \in Nat
    BY LenProperties
  <2> QED BY ONLY <2>2, <2>3, low \in 2..(Len(mem) + 1)
<1>12. ASSUME NEW j \in 1..Len(env), j \notin Adjoining, environ[j].at # 0
       PROVE  environ[j].at >= end
  <2>1. j \notin 1..final
    BY <1>4, <1>12
  <2>2. j \in 1..n /\ final < j
    BY <1>2, <1>7, <2>1
  <2>3. environ[final].at + Len1[env[final]] + 1 <= environ[j].at
    BY <1>1, <1>2, <1>7, <1>12, <2>2
  <2>4. environ[j].at \in Nat
    <3>1. PICK R : R = [at : Nat, text : Seq(Chars)]
      OBVIOUS
    <3>2. environ[j] \in R
      BY ONLY <1>1, <1>2, <2>2, <3>1, ElementOfSeq
    <3> QED BY <3>1, <3>2
  <2>5. end \in Nat
    BY <1>11, LenProperties
  <2> QED BY <1>9, <2>3, <2>4, <2>5
<1> QED BY <1>6, <1>10, <1>11, <1>12

LEMMA TitleBegins == TitleInit => TitleInv
<1> SUFFICES ASSUME TitleInit PROVE TitleInv
  OBVIOUS
<1> QED BY EmptySeq DEF TitleInit, TitleInv

\* The arguments and the environment of a process that has just been made.
LEMMA BootIs ==
    ASSUME NEW av \in Seq(Words) \ {<<>>}, NEW ev \in Seq(Words), Laid(av, ev), title' = ""
    PROVE  TitleInv'
<1>1. /\ mem' \in Seq(Chars)
      /\ \A i \in 1..Len(av) : StoredAt(mem', Address(av, i), av[i])
      /\ EnvironInv(mem', environ', ev, Address(av, Len(av) + 1))
  BY LaidIs
<1>2. role' = "boot" /\ args' = av /\ env' = ev
  BY DEF Laid
<1> QED BY <1>1, <1>2 DEF TitleInv

LEMMA Execing ==
    ASSUME TitleInv, Exec
    PROVE  TitleInv'
<1>1. PICK av \in ArgLists, ev \in EnvLists : Laid(av, ev)
  BY DEF Exec
<1>2. av \in Seq(Words) \ {<<>>} /\ ev \in Seq(Words)
  BY TitleAssumption
<1>3. title' = ""
  BY DEF Exec, TitleInv
<1> QED BY <1>1, <1>2, <1>3, BootIs

LEMMA Starting ==
    ASSUME TitleInv, DaemonStart
    PROVE  TitleInv'
<1>1. /\ mem \in Seq(Chars) /\ args \in Seq(Words) \ {<<>>} /\ title = ""
      /\ \A i \in 1..Len(args) : StoredAt(mem, Address(args, i), args[i])
      /\ EnvironInv(mem, environ, env, Address(args, Len(args) + 1))
  BY DEF TitleInv, DaemonStart
<1>2. /\ role' = "parent" /\ arg_end' = After(mem, Address(args, Len(args)))
      /\ saved_argv' = DupArgv(mem, args)
      /\ UNCHANGED <<mem, environ, title, args, env>>
  BY Zenon DEF DaemonStart
<1>3. PICK n \in Nat : n = Len(args) /\ n \in 1..Len(args) /\ DOMAIN args = 1..n
  <2>1. Len(args) \in Nat /\ Len(args) # 0 /\ DOMAIN args = 1..Len(args)
    BY <1>1, EmptySeq, LenProperties
  <2>2. Len(args) \in 1..Len(args)
    BY ONLY <2>1
  <2> QED BY ONLY <2>1, <2>2, Zenon
<1>4. \A i \in 1..n : args[i] \in Words
  BY <1>1, <1>3, ElementOfSeq
<1>5. arg_end' = Address(args, Len(args) + 1) /\ arg_end' \in 2..(Len(mem) + 1)
  <2>1. args[n] \in Words /\ StoredAt(mem, Address(args, n), args[n])
    BY <1>1, <1>3, <1>4
  <2>2. After(mem, Address(args, n)) = Address(args, n) + Len1[args[n]] + 1
    BY <1>1, <2>1, StoredReads
  <2>3. Address(args, n + 1) = Address(args, n) + Len1[args[n]] + 1 /\ Address(args, n) \in Nat \ {0}
    BY <1>1, <1>3, AddressNext
  <2>4. Len1[args[n]] \in Nat /\ Address(args, n) + Len1[args[n]] \in 1..Len(mem) /\ Len(mem) \in Nat
    BY <1>1, <2>1, WordIs, LenProperties DEF StoredAt
  <2>5. PICK a, l : a = Address(args, n) /\ l = Len1[args[n]]
    OBVIOUS
  <2>6. a + l + 1 \in 2..(Len(mem) + 1)
    BY ONLY <2>3, <2>4, <2>5
  <2> QED BY <1>2, <1>3, <2>2, <2>3, <2>5, <2>6
<1>6. saved_argv' = [i \in DOMAIN args |-> OnHeap(Text(args[i]))]
  <2>1. ASSUME NEW i \in DOMAIN args PROVE StringAt(mem, Address(args, i)) = Text(args[i])
    <3>1. args[i] \in Words /\ StoredAt(mem, Address(args, i), args[i])
      BY <1>1, <1>3, <1>4
    <3> QED BY <1>1, <3>1, StoredReads
  <2> QED BY <1>2, <2>1 DEF DupArgv
<1>7. EnvironInv(mem, environ, env, arg_end')
  BY <1>1, <1>5
<1> QED BY <1>1, <1>2, <1>5, <1>6, <1>7 DEF TitleInv

LEMMA Forking ==
    ASSUME TitleInv, Fork
    PROVE  TitleInv'
  BY DEF TitleInv, Fork

\* What holds of a parent and of a worker that has no title.
LEMMA RunningIs ==
    ASSUME TitleInv, role \in {"parent", "worker"}
    PROVE  /\ mem \in Seq(Chars) /\ args \in Seq(Words) \ {<<>>} /\ arg_end \in 2..(Len(mem) + 1)
           /\ arg_end \in Nat \ {0} /\ EnvironInv(mem, environ, env, arg_end)
           /\ saved_argv = [i \in DOMAIN args |-> OnHeap(Text(args[i]))]
           /\ title # "" => role = "worker" /\ title \in Titles /\ ShownInv(mem, TitleText(title), arg_end)
<1>1. mem \in Seq(Chars) /\ arg_end \in 2..(Len(mem) + 1)
  BY DEF TitleInv
<1>2. arg_end \in Nat \ {0}
  BY <1>1, LenProperties
<1> QED BY <1>1, <1>2 DEF TitleInv

\* The plugin changes the environment only.
LEMMA ChangingEnviron ==
    ASSUME TitleInv, role \in {"parent", "worker"}, EnvironInv(mem, environ', env', arg_end),
           UNCHANGED <<mem, arg_end, saved_argv, role, title, args>>
    PROVE  TitleInv'
  BY DEF TitleInv

LEMMA Setting ==
    ASSUME TitleInv, NEW word \in DOMAIN VarOf, Setenv(word)
    PROVE  TitleInv'
<1> DEFINE old == {i \in DOMAIN env : VarOf[env[i]] = VarOf[word]}
<1>1. /\ role \in {"parent", "worker"} /\ EnvironInv(mem, environ, env, arg_end)
      /\ UNCHANGED <<mem, arg_end, saved_argv, role, title, args>>
  BY RunningIs DEF Setenv
<1>2. /\ environ' = (IF old = {} THEN Append(environ, OnHeap(Text(word)))
                     ELSE [i \in DOMAIN environ |-> IF i \in old THEN OnHeap(Text(word)) ELSE environ[i]])
      /\ env' = (IF old = {} THEN Append(env, word)
                 ELSE [i \in DOMAIN env |-> IF i \in old THEN word ELSE env[i]])
  BY DEF Setenv
<1>3. word \in Words
  BY TitleAssumption
<1> HIDE DEF old
<1>4. CASE old = {}
  <2>1. EnvironInv(mem, Append(environ, OnHeap(Text(word))), Append(env, word), arg_end)
    BY <1>1, <1>3, StringAppended
  <2> QED BY <1>1, <1>2, <1>4, <2>1, ChangingEnviron
<1>5. CASE old # {}
  <2>1. EnvironInv(mem, [i \in DOMAIN environ |-> IF i \in old THEN OnHeap(Text(word)) ELSE environ[i]],
                   [i \in DOMAIN env |-> IF i \in old THEN word ELSE env[i]], arg_end)
    BY <1>1, <1>3, StringChanged
  <2>2. /\ environ' = [i \in DOMAIN environ |-> IF i \in old THEN OnHeap(Text(word)) ELSE environ[i]]
        /\ env' = [i \in DOMAIN env |-> IF i \in old THEN word ELSE env[i]]
    BY <1>2, <1>5
  <2>3. EnvironInv(mem, environ', env', arg_end)
    BY <2>1, <2>2, Zenon
  <2> QED BY <1>1, <2>3, ChangingEnviron
<1> QED BY <1>4, <1>5

LEMMA Unsetting ==
    ASSUME TitleInv, NEW i \in DOMAIN env, Unsetenv(i)
    PROVE  TitleInv'
<1>1. /\ role \in {"parent", "worker"} /\ EnvironInv(mem, environ, env, arg_end)
      /\ UNCHANGED <<mem, arg_end, saved_argv, role, title, args>>
      /\ environ' = RemoveAt(environ, i) /\ env' = RemoveAt(env, i)
  BY RunningIs DEF Unsetenv
<1>2. EnvironInv(mem, RemoveAt(environ, i), RemoveAt(env, i), arg_end)
  BY <1>1, StringRemoved
<1> QED BY <1>1, <1>2, ChangingEnviron

\* The program is started anew with the arguments and the environment as they are.
LEMMA Stopping ==
    ASSUME TitleInv, DaemonStop
    PROVE  TitleInv'
<1>1. /\ mem \in Seq(Chars) /\ args \in Seq(Words) \ {<<>>} /\ arg_end \in Nat \ {0}
      /\ EnvironInv(mem, environ, env, arg_end) /\ title = ""
      /\ saved_argv = [i \in DOMAIN args |-> OnHeap(Text(args[i]))]
  BY RunningIs DEF DaemonStop
<1>2. PICK n \in Nat : n = Len(args) /\ DOMAIN args = 1..n /\ args = [i \in 1..n |-> args[i]]
  BY <1>1, LenProperties
<1>3. [i \in DOMAIN saved_argv |-> WordOf(Reads(mem, saved_argv[i]))] = args
  <2>1. ASSUME NEW i \in 1..n PROVE WordOf(Reads(mem, OnHeap(Text(args[i])))) = args[i]
    <3>1. args[i] \in Words
      BY <1>1, <1>2, ElementOfSeq
    <3>2. Reads(mem, OnHeap(Text(args[i]))) = Text(args[i])
      BY DEF Reads, OnHeap
    <3> QED BY <3>1, <3>2, WordOfText
  <2>2. [i \in DOMAIN saved_argv |-> WordOf(Reads(mem, saved_argv[i]))] = [i \in 1..n |-> args[i]]
    BY <1>1, <1>2, <2>1
  <2> QED BY <1>2, <2>2
<1>4. /\ DOMAIN environ = DOMAIN env /\ DOMAIN env = 1..Len(env)
      /\ \A i \in DOMAIN env : env[i] \in Words /\ Reads(mem, environ[i]) = Text(env[i])
  BY <1>1, EnvironReads
<1>5. env \in Seq(Words) /\ env = [i \in DOMAIN env |-> env[i]]
  <2>1. env \in Seq(Words)
    BY <1>1 DEF EnvironInv
  <2> QED BY <2>1
<1>6. [i \in DOMAIN environ |-> WordOf(Reads(mem, environ[i]))] = env
  <2>1. \A i \in DOMAIN env : WordOf(Reads(mem, environ[i])) = env[i]
    BY <1>4, WordOfText
  <2>2. [i \in DOMAIN environ |-> WordOf(Reads(mem, environ[i]))] = [i \in DOMAIN env |-> env[i]]
    BY <1>4, <2>1
  <2> QED BY <1>5, <2>2
<1>7. Laid(args, env) /\ title' = ""
  BY <1>1, <1>3, <1>6 DEF DaemonStop
<1> QED BY <1>1, <1>5, <1>7, BootIs

\* The strings whose memory is taken are copied; the others lie behind what is written.
LEMMA Copying ==
    ASSUME mem \in Seq(Chars), NEW low \in 2..(Len(mem) + 1), EnvironInv(mem, environ, env, low),
           NEW end \in low..(Len(mem) + 1), NEW m, NEW taken,
           \A a, word : word \in Words /\ StoredAt(mem, a, word) /\ a >= end => StoredAt(m, a, word),
           \A j \in taken : environ[j].at # 0,
           \A j \in 1..Len(env) : j \notin taken /\ environ[j].at # 0 => environ[j].at >= end
    PROVE  EnvironInv(m, [i \in DOMAIN environ |-> IF i \in taken THEN Moved(i) ELSE environ[i]], env, end)
<1>1. /\ environ \in Seq([at : Nat, text : Seq(Chars)]) /\ env \in Seq(Words) /\ Len(environ) = Len(env)
      /\ \A i \in 1..Len(env) : StringInv(mem, environ[i], env[i], low)
      /\ \A i, j \in 1..Len(env) :
            i < j /\ environ[i].at # 0 /\ environ[j].at # 0
               => environ[i].at + Len1[env[i]] + 1 <= environ[j].at
  BY DEF EnvironInv
<1>2. PICK n \in Nat : n = Len(env) /\ DOMAIN environ = 1..n
  BY <1>1, LenProperties
<1>3. PICK es : es = [i \in DOMAIN environ |-> IF i \in taken THEN Moved(i) ELSE environ[i]]
  OBVIOUS
<1>4. PICK R : R = [at : Nat, text : Seq(Chars)]
  OBVIOUS
<1>5. ASSUME NEW i \in 1..n PROVE env[i] \in Words /\ environ[i] \in R
  <2>1. environ \in Seq(R) /\ i \in 1..Len(environ) /\ i \in 1..Len(env)
    BY <1>1, <1>2, <1>4
  <2> QED BY ONLY <1>1, <2>1, ElementOfSeq
<1>6. ASSUME NEW i \in 1..n, i \in taken
      PROVE  es[i] = OnHeap(Text(env[i])) /\ es[i].at = 0 /\ es[i] \in R
  <2>1. es[i] = OnHeap(StringAt(mem, environ[i].at))
    BY <1>2, <1>3, <1>6 DEF Moved
  <2>2. StringInv(mem, environ[i], env[i], low) /\ environ[i].at # 0
    BY <1>1, <1>2, <1>6
  <2>3. OnHeap(Text(env[i])).at = 0 /\ OnHeap(Text(env[i])) \in R
    BY <1>4, <1>5, Copies
  <2>4. StoredAt(mem, environ[i].at, env[i])
    BY <2>2, <2>3 DEF StringInv
  <2>5. StringAt(mem, environ[i].at) = Text(env[i])
    BY <1>5, <2>4, StoredReads
  <2> QED BY <2>1, <2>3, <2>5
<1>7. ASSUME NEW i \in 1..n, i \notin taken
      PROVE  es[i] = environ[i] /\ StringInv(m, es[i], env[i], end)
  <2>1. es[i] = environ[i]
    BY <1>2, <1>3, <1>7
  <2>2. StringInv(mem, environ[i], env[i], low)
    BY <1>1, <1>2
  <2>3. CASE environ[i] = OnHeap(Text(env[i]))
    BY <2>1, <2>3 DEF StringInv
  <2>4. CASE environ[i].text = <<>> /\ StoredAt(mem, environ[i].at, env[i])
    <3>1. environ[i].at # 0
      <4>1. environ[i].at \in 1..Len(mem)
        BY <2>4 DEF StoredAt
      <4> QED BY <4>1
    <3>2. environ[i].at >= end
      BY <1>2, <1>7, <3>1
    <3>3. StoredAt(m, environ[i].at, env[i])
      BY <1>5, <2>4, <3>2
    <3> QED BY <2>1, <2>4, <3>2, <3>3 DEF StringInv
  <2> QED BY <2>2, <2>3, <2>4 DEF StringInv
<1>8. es \in Seq(R) /\ Len(es) = n
  <2>1. \A i \in 1..n : es[i] \in R
    BY <1>5, <1>6, <1>7
  <2>2. es = [i \in 1..n |-> es[i]]
    BY <1>2, <1>3
  <2>3. es \in [1..n -> R]
    BY ONLY <2>1, <2>2
  <2> QED BY ONLY <2>3, n \in Nat
<1>9. \A i \in 1..n : StringInv(m, es[i], env[i], end)
  BY <1>6, <1>7 DEF StringInv
<1>10. ASSUME NEW i \in 1..n, NEW j \in 1..n, i < j, es[i].at # 0, es[j].at # 0
       PROVE  es[i].at + Len1[env[i]] + 1 <= es[j].at
  <2>1. i \notin taken /\ j \notin taken
    BY <1>6, <1>10
  <2>2. es[i] = environ[i] /\ es[j] = environ[j]
    BY <1>7, <2>1
  <2> QED BY <1>1, <1>2, <1>10, <2>2
<1>11. EnvironInv(m, es, env, end)
  BY <1>1, <1>2, <1>4, <1>8, <1>9, <1>10 DEF EnvironInv
<1> QED BY <1>3, <1>11

LEMMA Titling ==
    ASSUME TitleInv, NEW t \in Titles, SetTitle(t)
    PROVE  TitleInv'
<1> DEFINE text == TitleText(t)
           stretch == arg_end - 1 < Len(text) + 1 /\ env_start = arg_end
           final == IF Adjoining = {} THEN 0 ELSE Max(Adjoining)
           end == IF ~stretch THEN arg_end
                  ELSE IF final = 0 THEN env_start
                  ELSE After(mem, environ[final].at)
           taken == IF stretch THEN Adjoining ELSE {}
<1>1. /\ role = "worker" /\ role' = "worker" /\ title' = t
      /\ environ' = [i \in DOMAIN environ |-> IF stretch /\ i \in Adjoining THEN Moved(i) ELSE environ[i]]
      /\ arg_end' = end /\ mem' = Over(text, end)
      /\ UNCHANGED <<saved_argv, args, env>>
  BY DEF SetTitle
<1>2. /\ mem \in Seq(Chars) /\ args \in Seq(Words) \ {<<>>} /\ arg_end \in 2..(Len(mem) + 1)
      /\ EnvironInv(mem, environ, env, arg_end)
      /\ saved_argv = [i \in DOMAIN args |-> OnHeap(Text(args[i]))]
  BY <1>1, RunningIs
<1>3. text \in Seq(Chars)
  BY TitleAssumption, TitleTextIs
<1>4. environ' = [i \in DOMAIN environ |-> IF i \in taken THEN Moved(i) ELSE environ[i]]
  <2>1. \A i : i \in taken <=> stretch /\ i \in Adjoining
    OBVIOUS
  <2> HIDE DEF taken, stretch
  <2> QED BY <1>1, <2>1
<1>5. /\ end \in arg_end..(Len(mem) + 1)
      /\ \A j \in taken : environ[j].at # 0
      /\ \A j \in 1..Len(env) : j \notin taken /\ environ[j].at # 0 => environ[j].at >= end
  <2>1. \A j \in Adjoining : j \in 1..j /\ environ[j].at # 0
    <3> SUFFICES ASSUME NEW j \in Adjoining PROVE j \in 1..j /\ environ[j].at # 0
      OBVIOUS
    <3>1. DOMAIN environ = 1..Len(environ) /\ Len(environ) \in Nat
      BY <1>2, LenProperties DEF EnvironInv
    <3>2. j \in 1..j
      BY <3>1 DEF Adjoining
    <3> QED BY <3>2 DEF Adjoining
  <2>2. \A j \in 1..Len(env) : environ[j].at # 0 => environ[j].at >= arg_end
    <3> SUFFICES ASSUME NEW j \in 1..Len(env), environ[j].at # 0 PROVE environ[j].at >= arg_end
      OBVIOUS
    <3>1. StringInv(mem, environ[j], env[j], arg_end)
      BY <1>2 DEF EnvironInv
    <3>2. environ[j] # OnHeap(Text(env[j]))
      BY DEF OnHeap
    <3> QED BY <3>1, <3>2 DEF StringInv
  <2>3. CASE ~stretch \/ Adjoining = {}
    <3>1. end = arg_end /\ taken = {}
      BY <2>3
    <3>2. arg_end \in arg_end..(Len(mem) + 1)
      BY <1>2, LenProperties
    <3> HIDE DEF end, taken
    <3> QED BY <2>2, <3>1, <3>2
  <2>4. CASE stretch /\ Adjoining # {}
    <3>1. PICK l \in Adjoining, e \in arg_end..(Len(mem) + 1) :
             /\ l = Max(Adjoining) /\ e = After(mem, environ[l].at)
             /\ \A j \in 1..Len(env) : j \notin Adjoining /\ environ[j].at # 0 => environ[j].at >= e
      BY <1>2, <2>4, AdjoiningIs
    <3>2. final = l /\ l # 0
      BY <2>1, <2>4, <3>1
    <3>3. end = e /\ taken = Adjoining
      BY <2>4, <3>1, <3>2
    <3> HIDE DEF end, taken
    <3> QED BY <2>1, <3>1, <3>3
  <2> QED BY <2>3, <2>4
<1> HIDE DEF text, end, taken, stretch, final
<1>6. end \in 2..(Len(mem) + 1)
  BY <1>2, <1>5, LenProperties
<1>7. /\ mem' \in Seq(Chars) /\ Len(mem') = Len(mem) /\ ShownInv(mem', text, end)
      /\ \A a, word : word \in Words /\ StoredAt(mem, a, word) /\ a >= end => StoredAt(mem', a, word)
  BY <1>1, <1>2, <1>3, <1>6, OverIs
<1>8. EnvironInv(mem', environ', env, end)
  <2>1. PICK m, low, e, tk : m = mem' /\ low = arg_end /\ e = end /\ tk = taken
    OBVIOUS
  <2>2. EnvironInv(m, [i \in DOMAIN environ |-> IF i \in tk THEN Moved(i) ELSE environ[i]], env, e)
    BY <1>2, <1>5, <1>7, <2>1, Copying
  <2> QED BY <1>4, <2>1, <2>2
<1>9. TitleText(title') = text
  BY <1>1 DEF text
<1> QED BY <1>1, <1>2, <1>6, <1>7, <1>8, <1>9 DEF TitleInv

LEMMA TitleSteps ==
    ASSUME TitleInv, [TitleNext]_titlevars
    PROVE  TitleInv'
<1>1. CASE UNCHANGED titlevars
  BY <1>1 DEF titlevars, TitleInv
<1>2. CASE TitleNext
  BY <1>2, Execing, Starting, Forking, Stopping, Setting, Unsetting, Titling DEF TitleNext
<1> QED BY <1>1, <1>2

\* What lies at the head of memory is the title, cut to the room there is.
LEMMA HeadIs ==
    ASSUME NEW m \in Seq(Chars), NEW text \in Seq(Chars), \A x \in 1..Len(text) : text[x] # NUL,
           NEW end \in 2..(Len(m) + 1), ShownInv(m, text, end)
    PROVE  LET shown == StringAt(m, 1)
           IN  /\ IsPrefix(shown, text)
               /\ Len(shown) < Len(text) => Len(shown) = end - 2
               /\ \A x \in (Len(shown) + 1)..(end - 1) : m[x] = NUL
<1> DEFINE shown == StringAt(m, 1)
<1> HIDE DEF shown
<1>1. PICK n, k \in Nat : n = Len(m) /\ k = Len(text) /\ end \in 2..(n + 1) /\ end \in Nat
  BY LenProperties
<1>2. PICK l \in Nat : l = IF k <= end - 2 THEN k ELSE end - 2
  <2>1. end - 2 \in Nat
    BY ONLY <1>1, n \in Nat
  <2> QED BY ONLY <2>1, k \in Nat
<1>3. end \in 2..(n + 1) /\ l <= k /\ l <= end - 2 /\ (l < k => l = end - 2)
  BY <1>1, <1>2
<1>4. \A x \in 1..(end - 1) : m[x] = IF x <= k /\ x < end - 1 THEN text[x] ELSE NUL
  BY <1>1 DEF ShownInv
<1>5. ASSUME NEW x \in 1..l PROVE m[x] = text[x] /\ m[x] # NUL
  <2>1. x \in 1..(end - 1) /\ x <= k /\ x < end - 1 /\ x \in 1..k
    BY ONLY <1>1, <1>3, x \in 1..l, l \in Nat, k \in Nat
  <2> QED BY <1>1, <1>4, <2>1
<1>6. ASSUME NEW x \in (l + 1)..(end - 1) PROVE m[x] = NUL
  <2>1. x \in 1..(end - 1) /\ ~(x <= k /\ x < end - 1)
    BY ONLY <1>1, <1>3, x \in (l + 1)..(end - 1), l \in Nat, k \in Nat
  <2> QED BY <1>4, <2>1
<1>7. Strlen(m, 1) = l
  <2>1. l + 1 \in 1..n /\ l + 1 \in (l + 1)..(end - 1) /\ (l + 1) - 1 = l
    BY ONLY <1>1, <1>3, l \in Nat, n \in Nat
  <2>2. m[l + 1] = NUL /\ \A y \in 1..((l + 1) - 1) : m[y] # NUL
    BY <1>5, <1>6, <2>1
  <2>3. ASSUME NEW x \in 1..n, m[x] = NUL, \A y \in 1..(x - 1) : m[y] # NUL
        PROVE  x = l + 1
    <3>1. x \notin 1..l
      BY <1>5, <2>3
    <3>2. l + 1 \notin 1..(x - 1)
      BY <2>2, <2>3
    <3> QED BY <3>1, <3>2
  <2>4. (CHOOSE x \in 1..n : m[x] = NUL /\ \A y \in 1..(x - 1) : m[y] # NUL) = l + 1
    BY <2>1, <2>2, <2>3
  <2> QED BY <1>1, <2>1, <2>4 DEF Strlen
<1>8. shown = SubSeq(m, 1, l)
  <2>1. 1 + l - 1 = l
    OBVIOUS
  <2> QED BY <1>7, <2>1 DEF StringAt, shown
<1>9. shown \in Seq(Chars) /\ Len(shown) = l /\ \A x \in 1..l : shown[x] = m[x]
  <2>1. \A x \in 1..l : x \in 1..n
    BY ONLY <1>1, <1>3, l \in Nat, n \in Nat
  <2>2. \A x \in 1..l : m[x] \in Chars
    BY <1>1, <2>1, ElementOfSeq
  <2>3. /\ shown \in Seq(Chars) /\ Len(shown) = (IF 1 <= l THEN l - 1 + 1 ELSE 0)
        /\ \A x \in 1..(l - 1 + 1) : shown[x] = m[1 + x - 1]
    BY <1>8, <2>2, SubSeqProperties
  <2>4. ASSUME NEW x \in 1..l PROVE shown[x] = m[x]
    <3>1. x \in 1..(l - 1 + 1) /\ 1 + x - 1 = x
      OBVIOUS
    <3> QED BY <2>3, <3>1
  <2> QED BY <2>3, <2>4
<1>10. IsPrefix(shown, text)
  <2>1. PICK begin : begin = SubSeq(text, 1, l)
    OBVIOUS
  <2>2. \A x \in 1..l : text[x] \in Chars
    BY <1>1, <1>3, ElementOfSeq
  <2>3. /\ begin \in Seq(Chars) /\ Len(begin) = (IF 1 <= l THEN l - 1 + 1 ELSE 0)
        /\ \A x \in 1..(l - 1 + 1) : begin[x] = text[1 + x - 1]
    BY <2>1, <2>2, SubSeqProperties
  <2>4. ASSUME NEW x \in 1..l PROVE begin[x] = shown[x]
    <3>1. x \in 1..(l - 1 + 1) /\ 1 + x - 1 = x
      OBVIOUS
    <3> QED BY <1>5, <1>9, <2>3, <3>1
  <2>5. begin = shown
    BY <1>9, <2>3, <2>4, SeqEqual
  <2>6. SubSeq(shown, 1, Len(shown)) = shown
    BY <1>9, SubSeqFull
  <2> QED BY <1>1, <1>3, <1>9, <2>1, <2>5, <2>6 DEF IsPrefix
<1>11. Len(shown) < Len(text) => Len(shown) = end - 2
  BY <1>1, <1>3, <1>9
<1> QED BY <1>6, <1>9, <1>10, <1>11 DEF shown

LEMMA TitleIsShown == TitleInv => TitleShown
<1>1. ASSUME TitleInv, role = "worker" /\ title # ""
      PROVE  LET shown == StringAt(mem, 1)
             IN  /\ IsPrefix(shown, TitleText(title))
                 /\ Len(shown) < Len(TitleText(title)) => Len(shown) = arg_end - 2
                 /\ \A x \in (Len(shown) + 1)..(arg_end - 1) : mem[x] = NUL
  <2>1. /\ mem \in Seq(Chars) /\ arg_end \in 2..(Len(mem) + 1) /\ title \in Words
        /\ ShownInv(mem, TitleText(title), arg_end)
    BY <1>1, RunningIs, TitleAssumption
  <2>2. TitleText(title) \in Seq(Chars) /\ \A x \in 1..Len(TitleText(title)) : TitleText(title)[x] # NUL
    BY <2>1, TitleTextIs
  <2> QED BY <2>1, <2>2, HeadIs
<1> QED BY <1>1 DEF TitleShown

LEMMA StringsAreIntact == TitleInv => StringsIntact
<1> SUFFICES ASSUME TitleInv PROVE StringsIntact
  OBVIOUS
<1>1. [i \in DOMAIN environ |-> Reads(mem, environ[i])] = [i \in DOMAIN env |-> Text(env[i])]
  <2>1. CASE role = "none"
    <3>1. environ = <<>> /\ env = <<>>
      BY <2>1 DEF TitleInv
    <3> QED BY <3>1
  <2>2. CASE role # "none"
    <3>1. PICK low \in Nat \ {0} : EnvironInv(mem, environ, env, low)
      <4>1. CASE role = "boot"
        <5>1. args \in Seq(Words) \ {<<>>} /\ EnvironInv(mem, environ, env, Address(args, Len(args) + 1))
          BY <4>1 DEF TitleInv
        <5>2. Len(args) \in 1..Len(args)
          BY <5>1, EmptySeq, LenProperties
        <5>3. Address(args, Len(args) + 1) = Len(Laying(args, Len(args))) + 1
          BY <5>1, <5>2, AddressNext
        <5>4. Laying(args, Len(args)) \in Seq(Chars)
          <6>1. Len(args) \in 0..Len(args)
            BY <5>2
          <6> QED BY <5>1, <6>1, LayingNext
        <5>5. Len(Laying(args, Len(args))) + 1 \in Nat \ {0}
          BY <5>4, LenProperties
        <5> QED BY <5>1, <5>3, <5>5
      <4>2. CASE role \in {"parent", "worker"}
        BY <4>2, RunningIs
      <4> QED BY <2>2, <4>1, <4>2 DEF TitleInv
    <3>2. mem \in Seq(Chars)
      BY DEF TitleInv
    <3>3. /\ DOMAIN environ = DOMAIN env
          /\ \A i \in DOMAIN env : Reads(mem, environ[i]) = Text(env[i])
      BY <3>1, <3>2, EnvironReads
    <3> QED BY <3>3
  <2> QED BY <2>1, <2>2
<1>2. ASSUME role \in {"parent", "worker"}
      PROVE  [i \in DOMAIN saved_argv |-> Reads(mem, saved_argv[i])] = [i \in DOMAIN args |-> Text(args[i])]
  <2>1. saved_argv = [i \in DOMAIN args |-> OnHeap(Text(args[i]))]
    BY <1>2, RunningIs
  <2>2. \A i \in DOMAIN args : Reads(mem, OnHeap(Text(args[i]))) = Text(args[i])
    BY DEF Reads, OnHeap
  <2> QED BY <2>1, <2>2
<1> QED BY <1>1, <1>2 DEF StringsIntact

\* However the plugin changes the environment and however often the program is
\* started again, the title is shown over the arguments, cut to the room there is, and
\* the environment and the saved arguments read as they were set (daemon.c:160-262).
THEOREM TitleStays == TitleSpec => []TitleKept
<1>1. TitleInv /\ [TitleNext]_titlevars => TitleInv'
  BY TitleSteps
<1>2. TitleInv => TitleKept
  BY TitleIsShown, StringsAreIntact DEF TitleKept
<1> QED BY TitleBegins, <1>1, <1>2, PTL DEF TitleSpec
=============================================================================
