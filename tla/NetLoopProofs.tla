----------------------------- MODULE NetLoopProofs ----------------------------
(***************************************************************************)
(* Proofs about net_loop, for any number of connections, buffers and       *)
(* limits of any size, and whatever arrives.  First the inductive          *)
(* invariant: what holds of the fd table by itself, and what the loop, the *)
(* batch of events and the two walks may rely on at each place.            *)
(***************************************************************************)
EXTENDS NetLoop, FiniteSetTheorems, WellFoundedInduction, TLAPS

-----------------------------------------------------------------------------
(* The table.                                                              *)

Table == [fds : [Fd -> FdInfo], sock : [Fd -> Socket], close_head : Seq(Fd),
          etin_head : Seq(Fd), maxfd : Fd, owed : SUBSET Conn, lied : BOOLEAN, lost : BOOLEAN]

\* The entry fi of descriptor f and its socket k: only what is read and written
\* is queued, and has output; and the entry knows what the kernel has.
Fine(f, fi, k) ==
    /\ fi.flag # {"CLOSE", "POLLIN"}
    /\ fi.flag # {} => fi.type \in {"remote", "listen"}
    /\ "CLOSE" \in fi.flag => fi.type = "remote"
    /\ fi.type \in {"remote", "listen"} => "IN" \in fi.mask
    /\ fi.sendlen > 0 => fi.type = "remote"
    /\ k.room > 0 => k.st = "up"
    /\ k.st \in {"none", "connecting"} => k.rx = 0 /\ k.end = "no"
    /\ IF f = Listen
       THEN \/ fi.type = "listen" /\ k.st = "listening" /\ k.end = "no"
            \/ fi.type = "pipe" /\ k = NoSocket
       ELSE /\ fi.type \in {"unused", "remote", "asyn_connect"} /\ k.st # "listening"
            /\ fi.type = "unused" <=> k.st = "none"

Once(q) == \A i, j \in DOMAIN q : q[i] = q[j] => i = j

\* A descriptor is on a queue if its flag says so, at one place.
QueuesFine(s) ==
    /\ Once(s.close_head) /\ Once(s.etin_head)
    /\ \A f \in Fd : /\ OnQueue(s.close_head, f) <=> "CLOSE" \in s.fds[f].flag
                     /\ OnQueue(s.etin_head, f) <=> "POLLIN" \in s.fds[f].flag

MaxFine(s) == Used(s, s.maxfd) /\ \A f \in Fd : Used(s, f) => f <= s.maxfd

Good(s) ==
    /\ s \in Table /\ \A f \in Fd : Fine(f, s.fds[f], s.sock[f])
    /\ QueuesFine(s) /\ MaxFine(s)

\* Nobody has to come back to f: what it has to read has notice, output kept back
\* has no room or has notice, the buffer has room for what is awaited, and EPOLLOUT
\* is asked for if it is needed.
NoInput(s, f) ==
    s.fds[f].type \in {"remote", "listen"} /\ s.sock[f].rx > 0 =>
        s.sock[f].ready \/ s.fds[f].flag # {}

NoOutput(s, f) ==
    s.fds[f].type = "remote" /\ s.fds[f].sendlen > 0 /\ s.sock[f].room > 0 => s.sock[f].ready

Roomy(s, f) ==
    Used(s, f) => /\ s.fds[f].recvlen < page_size
                  /\ s.fds[f].rcvprotlen # 0 => s.fds[f].recvlen < s.fds[f].rcvprotlen

Masked(s, f) == s.fds[f].type = "remote" => (s.fds[f].sendlen > 0 <=> "OUT" \in s.fds[f].mask)

\* The parent connects to nobody, and its output has a limit.
Bounded(s, f) ==
    is_parent => s.fds[f].type # "asyn_connect" /\ s.fds[f].sendlen <= SendLimit

OwedFine(s) == \A f \in s.owed : s.fds[f].type = "asyn_connect" /\ "OUT" \in s.fds[f].mask

-----------------------------------------------------------------------------
(* The loop.                                                               *)

AtWork == pc \in {"recv", "parse", "accept", "out"}
FromEtin == pc = "etin" \/ (pc \in {"recv", "parse", "accept"} /\ cur.from = "etin")

\* Where the loop is with what.
PlaceInv ==
    /\ is_parent \in BOOLEAN /\ tame \in BOOLEAN /\ (is_parent => tame)
    /\ ep.fds[Listen].type = (IF is_parent THEN "listen" ELSE "pipe")
    /\ cur.fd \in Fd \cup {None} /\ cur.events \in SUBSET {"IN", "OUT", "HUP"}
    /\ cur.from \in {"etin", "events"} /\ (cur.from = "etin" => cur.events = {})
    /\ pc = "sendq" => is_parent
    /\ pc \in {"recv", "parse"} => cur.fd \in Conn /\ ep.fds[cur.fd].type = "remote"
    /\ pc = "accept" => cur.fd = Listen /\ is_parent
    /\ pc = "out" => cur.fd \in Fd /\ (tame => ep.fds[cur.fd].type # "asyn_connect")
    /\ AtWork /\ cur.fd = Listen => cur.events \subseteq {"IN"}

\* The events of a batch are all handled before the queues are walked; those of a
\* plugin that keeps to its own connection are about the connections they were for.
BatchInv ==
    /\ evs \in [DOMAIN evs -> SUBSET {"IN", "OUT", "HUP"}] /\ DOMAIN evs \subseteq Fd
    /\ pc \in {"close", "wait"} \/ FromEtin => evs = Empty
    /\ AtWork => cur.fd \notin DOMAIN evs
    /\ Listen \in DOMAIN evs => is_parent /\ evs[Listen] \subseteq {"IN"}
    /\ tame /\ ~is_parent => \A f \in DOMAIN evs :
          /\ Used(ep, f)
          /\ ep.fds[f].type = "asyn_connect" => ep.sock[f].st # "connecting"

\* The saved element of the walk stays on its queue.
WalkInv ==
    /\ it \in Fd \cup {None}
    /\ tame => pc # "broken"
    /\ tame /\ FromEtin =>
          it = None \/ (OnQueue(ep.etin_head, it) /\ (pc # "etin" => it # cur.fd))

InputInv ==
    /\ \A f \in Fd : Roomy(ep, f) \/ (pc = "parse" /\ cur.fd = f)
    /\ pc # "broken" => \A f \in Fd :
          \/ NoInput(ep, f) \/ (f = Listen /\ aborted)
          \/ f \in DOMAIN evs /\ "IN" \in evs[f]
          \/ cur.fd = f /\ pc \in {"recv", "accept"}

OutputInv ==
    /\ ~ep.lost /\ \A f \in Fd : Masked(ep, f) /\ Bounded(ep, f)
    /\ \A f \in Fd :
          \/ NoOutput(ep, f)
          \/ f \in DOMAIN evs /\ "OUT" \in evs[f]
          \/ cur.fd = f /\ AtWork /\ "OUT" \in cur.events

ConnectInv == tame => OwedFine(ep) /\ ~ep.lied

IInv == /\ TypeOK /\ Good(ep) /\ PlaceInv /\ BatchInv /\ WalkInv
        /\ InputInv /\ OutputInv /\ ConnectInv

------------------------------------------------------------------------------
(* Numbers.                                                                 *)

\* A set of natural numbers that is not empty has a least element.
LEMMA LeastThere ==
    ASSUME NEW S, S \subseteq Nat, S # {}
    PROVE  \E x \in S : \A y \in S : x <= y
<1> DEFINE R == OpToRel(<, Nat)
<1>1. \E x \in S : \A y \in S : ~ (<<y, x>> \in R)
  BY WFMin, NatLessThanWellFounded, Zenon
<1>2. \A x, y \in Nat : x < y => <<x, y>> \in R
  BY DEF OpToRel
<1> HIDE DEF R
<1>3. PICK x \in S : \A y \in S : ~ (<<y, x>> \in R)
  BY <1>1
<1>4. \A y \in S : ~(y < x)
  BY <1>2, <1>3
<1>5. \A y \in S : x <= y
  BY <1>4
<1> QED BY <1>5

\* ... and, if it is bounded, a greatest.
LEMMA GreatestThere ==
    ASSUME NEW S, NEW n \in Nat, S \subseteq 0..n, S # {}
    PROVE  \E x \in S : \A y \in S : y <= x
<1> DEFINE T == {n - x : x \in S}
<1>1. T \subseteq Nat /\ T # {}
  <2>1. \A x \in 0..n : n - x \in Nat
    OBVIOUS
  <2>2. PICK x \in S : TRUE
    OBVIOUS
  <2>3. n - x \in T
    OBVIOUS
  <2> QED BY <2>1, <2>3
<1>2. PICK z \in T : \A y \in T : z <= y
  <2> HIDE DEF T
  <2> QED BY <1>1, LeastThere
<1>3. PICK x \in S : z = n - x
  OBVIOUS
<1>4. \A y \in S : n - x <= n - y
  BY <1>2, <1>3
<1>5. \A y \in S : y <= x
  <2> SUFFICES ASSUME NEW y \in S PROVE y <= x
    OBVIOUS
  <2>1. x \in 0..n /\ y \in 0..n
    OBVIOUS
  <2>2. n - x <= n - y
    BY <1>4
  <2> QED BY ONLY <2>1, <2>2, n \in Nat
<1> QED BY <1>5

\* The kernel gives out a number that is free.
LEMMA LowestFree ==
    ASSUME SizesAssumption, NEW S, S \subseteq Conn, S # {}
    PROVE  Lowest(S) \in S
<1>1. S \subseteq Nat
  BY DEF Conn, SizesAssumption
<1>2. \E x \in S : \A y \in S : x <= y
  BY <1>1, LeastThere
<1> QED BY <1>2 DEF Lowest

------------------------------------------------------------------------------
(* Queues.                                                                  *)

\* list_del takes one descriptor off its queue and leaves the others on it.
LEMMA WithoutOf ==
    ASSUME NEW F, NEW q \in Seq(F), NEW f \in F, OnQueue(q, f), Once(q)
    PROVE  /\ Without(q, f) \in Seq(F) /\ Once(Without(q, f)) /\ ~OnQueue(Without(q, f), f)
           /\ \A g \in F \ {f} : OnQueue(Without(q, f), g) <=> OnQueue(q, g)
<1> DEFINE i == Place(q, f)  w == Without(q, f)  n == Len(q)
<1>1. i \in 1..n /\ q[i] = f /\ n \in Nat /\ DOMAIN q = 1..n /\ \A j \in 1..n : q[j] \in F
  BY DEF OnQueue, Place
<1>2. w = [j \in 1..(n - 1) |-> IF j < i THEN q[j] ELSE q[j + 1]]
  BY DEF Without
<1> HIDE DEF i, w, n
<1>3. w \in Seq(F)
  BY <1>1, <1>2
<1>4. DOMAIN w = 1..(n - 1) /\ \A j \in 1..(n - 1) : w[j] = IF j < i THEN q[j] ELSE q[j + 1]
  BY <1>2
<1>5. Once(w) /\ ~OnQueue(w, f)
  <2>1. \A a, b \in 1..n : q[a] = q[b] => a = b
    BY <1>1 DEF Once
  <2> QED BY ONLY <1>1, <1>4, <2>1 DEF Once, OnQueue
<1>6. ASSUME NEW g \in F \ {f} PROVE OnQueue(w, g) <=> OnQueue(q, g)
  <2>1. ASSUME NEW k \in 1..n, q[k] = g PROVE OnQueue(w, g)
    <3>1. k # i
      BY <1>1, <2>1
    <3>2. CASE k < i
      BY <1>1, <3>2, <2>1, <1>4 DEF OnQueue
    <3>3. CASE k > i
      <4>1. k - 1 \in 1..(n - 1) /\ ~(k - 1 < i) /\ (k - 1) + 1 = k
        BY <1>1, <3>3
      <4>2. w[k - 1] = q[k]
        BY <4>1, <1>4
      <4> QED BY <4>1, <4>2, <2>1, <1>4 DEF OnQueue
    <3> QED BY <3>1, <3>2, <3>3, <1>1
  <2>2. ASSUME NEW k \in 1..(n - 1), w[k] = g PROVE OnQueue(q, g)
    <3>1. k \in 1..n /\ k + 1 \in 1..n
      BY <1>1
    <3> QED BY <3>1, <1>4, <2>2, <1>1 DEF OnQueue
  <2> QED BY <2>1, <2>2, <1>1, <1>4 DEF OnQueue
<1> QED BY <1>3, <1>5, <1>6 DEF w

\* list_add_tail puts one descriptor on a queue that does not have it.
LEMMA AppendOf ==
    ASSUME NEW F, NEW q \in Seq(F), NEW f \in F, ~OnQueue(q, f), Once(q)
    PROVE  /\ Append(q, f) \in Seq(F) /\ Once(Append(q, f)) /\ OnQueue(Append(q, f), f)
           /\ \A g \in F \ {f} : OnQueue(Append(q, f), g) <=> OnQueue(q, g)
<1> DEFINE w == Append(q, f)  n == Len(q)
<1>1. n \in Nat /\ DOMAIN q = 1..n /\ DOMAIN w = 1..(n + 1) /\ w[n + 1] = f
      /\ (\A j \in 1..n : w[j] = q[j])
  OBVIOUS
<1>2. w \in Seq(F)
  OBVIOUS
<1> HIDE DEF w, n
<1>3. Once(w)
  <2>1. \A a, b \in 1..n : q[a] = q[b] => a = b
    BY <1>1 DEF Once
  <2>2. \A a \in 1..n : q[a] # f
    BY <1>1 DEF OnQueue
  <2> QED BY ONLY <1>1, <2>1, <2>2 DEF Once
<1>4. OnQueue(w, f)
  <2>1. n + 1 \in 1..(n + 1)
    BY <1>1
  <2> QED BY <1>1, <2>1 DEF OnQueue
<1>5. ASSUME NEW g \in F \ {f} PROVE OnQueue(w, g) <=> OnQueue(q, g)
  <2>1. \A j \in 1..(n + 1) : j = n + 1 \/ j \in 1..n
    BY <1>1
  <2>2. \A j \in 1..n : j \in 1..(n + 1)
    BY <1>1
  <2> QED BY <1>1, <2>1, <2>2 DEF OnQueue
<1> QED BY <1>2, <1>3, <1>4, <1>5 DEF w

------------------------------------------------------------------------------
(* Tables.                                                                  *)

\* What the sizes say of the numbers of descriptors.
LEMMA Numbers ==
    ASSUME SizesAssumption
    PROVE  /\ Fd \subseteq Nat /\ Listen \in Fd /\ Listen \notin Conn /\ Conn \subseteq Fd
           /\ \A f \in Fd : f \in Conn \/ f = Listen
           /\ None \notin Fd /\ MaxFd \in Nat /\ page_size \in Nat \ {0}
           /\ SendLimit \in Nat \ {0} /\ Room \in Nat \ {0}
  BY DEF Fd, Conn, Listen, None, SizesAssumption

\* The parts of a table have their types.
LEMMA TableParts ==
    ASSUME NEW s \in Table
    PROVE  /\ s.fds \in [Fd -> FdInfo] /\ s.sock \in [Fd -> Socket]
           /\ s.close_head \in Seq(Fd) /\ s.etin_head \in Seq(Fd)
           /\ s.maxfd \in Fd /\ s.owed \in SUBSET Conn /\ s.lied \in BOOLEAN /\ s.lost \in BOOLEAN
  BY DEF Table

\* Changing the entry of one descriptor, and its socket.
LEMMA GoodPut ==
    ASSUME SizesAssumption, NEW s, Good(s), NEW f \in Fd, NEW fi \in FdInfo, NEW k \in Socket,
           NEW t \in Table, t.fds = [s.fds EXCEPT ![f] = fi], t.sock = [s.sock EXCEPT ![f] = k],
           Fine(f, fi, k), QueuesFine(t), MaxFine(t)
    PROVE  Good(t)
<1>1. s \in Table /\ s.fds \in [Fd -> FdInfo] /\ s.sock \in [Fd -> Socket]
  BY TableParts DEF Good
<1>2. \A g \in Fd : /\ t.fds[g] = (IF g = f THEN fi ELSE s.fds[g])
                    /\ t.sock[g] = (IF g = f THEN k ELSE s.sock[g])
  BY <1>1
<1>3. \A g \in Fd : Fine(g, t.fds[g], t.sock[g])
  BY <1>2 DEF Good
<1> QED BY <1>3 DEF Good

\* ... in what the queues and maxfd do not depend on.
LEMMA GoodTouch ==
    ASSUME SizesAssumption, NEW s, Good(s), NEW f \in Fd, NEW fi \in FdInfo, NEW k \in Socket,
           NEW t \in Table, t.fds = [s.fds EXCEPT ![f] = fi], t.sock = [s.sock EXCEPT ![f] = k],
           t.close_head = s.close_head, t.etin_head = s.etin_head, t.maxfd = s.maxfd,
           Fine(f, fi, k), fi.flag = s.fds[f].flag,
           fi.type = "unused" <=> s.fds[f].type = "unused"
    PROVE  Good(t)
<1>1. s.fds \in [Fd -> FdInfo]
  BY TableParts DEF Good
<1>2. \A g \in Fd : t.fds[g] = (IF g = f THEN fi ELSE s.fds[g])
  BY <1>1
<1>3. QueuesFine(t)
  <2>1. QueuesFine(s)
    BY DEF Good
  <2>2. \A g \in Fd : t.fds[g].flag = s.fds[g].flag
    BY <1>2
  <2> QED BY <2>1, <2>2 DEF QueuesFine
<1>4. MaxFine(t)
  <2>1. MaxFine(s) /\ s.maxfd \in Fd
    BY TableParts DEF Good
  <2>2. \A g \in Fd : Used(t, g) <=> Used(s, g)
    BY <1>2 DEF Used
  <2> QED BY <2>1, <2>2 DEF MaxFine
<1> QED BY <1>3, <1>4, GoodPut

------------------------------------------------------------------------------
(* What a change of the table leaves alone.                                *)

\* Nobody has to come back to a descriptor that nobody had to come back to.
Kept(s, t) ==
    \A g \in Fd : /\ NoInput(s, g) => NoInput(t, g)
                  /\ NoOutput(s, g) => NoOutput(t, g)
                  /\ Roomy(s, g) => Roomy(t, g)
                  /\ Masked(s, g) => Masked(t, g)
                  /\ Bounded(s, g) => Bounded(t, g)

\* The other descriptors in use stay as they are.
Apart(s, t, f) ==
    \A g \in Fd \ {f} : Used(s, g) => t.fds[g] = s.fds[g] /\ t.sock[g] = s.sock[g]

Step(s, t, f) ==
    Good(s) => Good(t) /\ Kept(s, t) /\ Apart(s, t, f) /\ t.lied = s.lied /\ t.lost = s.lost

\* No connect is taken away, unless it is one on f.
Calm(s, t, f) ==
    s.fds[f].type # "asyn_connect" /\ OwedFine(s) =>
        t.fds[f].type # "asyn_connect" /\ OwedFine(t)

\* Two steps for f are one.
LEMMA StepTwice ==
    ASSUME NEW s, NEW t, NEW u, NEW f \in Fd, Step(s, t, f), Step(t, u, f)
    PROVE  Step(s, u, f)
  BY DEF Step, Kept, Apart, Used

\* Nothing happening is a step.
LEMMA StepNone ==
    ASSUME NEW s, NEW f \in Fd
    PROVE  Step(s, s, f) /\ Calm(s, s, f)
  BY DEF Step, Kept, Apart, Calm

\* A change of the entry of f that leaves its type and lengths, or empties it.
LEMMA StepPut ==
    ASSUME NEW s, NEW f \in Fd, NEW t, Good(s), Good(t),
           \A g \in Fd \ {f} : t.fds[g] = s.fds[g] /\ t.sock[g] = s.sock[g],
           NoInput(s, f) => NoInput(t, f), NoOutput(s, f) => NoOutput(t, f),
           Roomy(s, f) => Roomy(t, f), Masked(s, f) => Masked(t, f),
           Bounded(s, f) => Bounded(t, f),
           t.lied = s.lied, t.lost = s.lost
    PROVE  Step(s, t, f)
<1>1. Kept(s, t)
  BY DEF Kept, NoInput, NoOutput, Roomy, Masked, Bounded, Used
<1>2. Apart(s, t, f)
  BY DEF Apart
<1> QED BY <1>1, <1>2 DEF Step

------------------------------------------------------------------------------
(* The queues of a table.                                                   *)

\* The lengths and the room of a connection are numbers.
LEMMA EntryOf ==
    ASSUME SizesAssumption, NEW s, Good(s), NEW f \in Fd
    PROVE  /\ s.fds[f] \in FdInfo /\ s.sock[f] \in Socket /\ Fine(f, s.fds[f], s.sock[f])
           /\ s.fds[f].sendlen \in Nat /\ s.fds[f].recvlen \in 0..page_size
           /\ s.fds[f].rcvprotlen \in 0..page_size
           /\ s.sock[f].room \in 0..Room /\ s.sock[f].rx \in Nat
           /\ page_size \in Nat /\ Room \in Nat
<1>1. s.fds[f] \in FdInfo /\ s.sock[f] \in Socket
  BY TableParts DEF Good
<1>2. Fine(f, s.fds[f], s.sock[f])
  BY DEF Good
<1> QED BY <1>1, <1>2, Numbers DEF FdInfo, Socket

\* One flag at most, and the queue it speaks of.
LEMMA FlagOf ==
    ASSUME SizesAssumption, NEW s, Good(s), NEW f \in Fd
    PROVE  /\ s.fds[f].flag \in {{}, {"CLOSE"}, {"POLLIN"}}
           /\ s.fds[f].flag # {} => s.fds[f].type \in {"remote", "listen"}
<1>1. s.fds[f] \in FdInfo
  BY TableParts DEF Good
<1>2. s.fds[f].flag \in SUBSET {"CLOSE", "POLLIN"}
  BY <1>1 DEF FdInfo
<1>3. s.fds[f].flag # {"CLOSE", "POLLIN"}
      /\ (s.fds[f].flag # {} => s.fds[f].type \in {"remote", "listen"})
  BY DEF Good, Fine
<1> QED BY <1>2, <1>3

\* A descriptor taken off the queue it is on.
Off(s, f, ch, eh) ==
    [s EXCEPT !.fds[f].flag = {}, !.close_head = ch, !.etin_head = eh]

\* A descriptor taken off both queues is on neither, and the others stay.
LEMMA UnqueuedIs ==
    ASSUME SizesAssumption, NEW s, Good(s), NEW f \in Fd
    PROVE  \E ch, eh \in Seq(Fd) :
              /\ Unqueued(s, f) = Off(s, f, ch, eh)
              /\ Once(ch) /\ Once(eh) /\ ~OnQueue(ch, f) /\ ~OnQueue(eh, f)
              /\ \A g \in Fd \ {f} : /\ OnQueue(ch, g) <=> OnQueue(s.close_head, g)
                                     /\ OnQueue(eh, g) <=> OnQueue(s.etin_head, g)
<1>1. s \in Table /\ QueuesFine(s)
  BY DEF Good
<1>2. s.fds \in [Fd -> FdInfo] /\ s.close_head \in Seq(Fd) /\ s.etin_head \in Seq(Fd)
  BY <1>1, TableParts
<1>3. s.fds[f] \in FdInfo
  BY <1>2
<1>4. Once(s.close_head) /\ Once(s.etin_head)
      /\ (OnQueue(s.close_head, f) <=> "CLOSE" \in s.fds[f].flag)
      /\ (OnQueue(s.etin_head, f) <=> "POLLIN" \in s.fds[f].flag)
  BY <1>1 DEF QueuesFine
<1>5. CASE s.fds[f].flag = {}
  <2>1. Unqueued(s, f) = s
    BY <1>5 DEF Unqueued, DelFromEtin, DelFromClose
  <2>2. s = Off(s, f, s.close_head, s.etin_head)
    <3>1. [s.fds[f] EXCEPT !.flag = {}] = s.fds[f]
      BY <1>3, <1>5 DEF FdInfo
    <3>2. [s.fds EXCEPT ![f] = s.fds[f]] = s.fds
      BY <1>2
    <3>3. [s.fds EXCEPT ![f].flag = {}] = s.fds
      BY <3>1, <3>2
    <3>4. [s EXCEPT !.fds = s.fds, !.close_head = s.close_head, !.etin_head = s.etin_head] = s
      BY <1>1 DEF Table
    <3> QED BY <3>3, <3>4 DEF Off
  <2> QED BY <2>1, <2>2, <1>2, <1>4, <1>5
<1>6. CASE s.fds[f].flag = {"POLLIN"}
  <2> DEFINE eh == Without(s.etin_head, f)
  <2>1. DelFromEtin(s, f) = [s EXCEPT !.fds[f].flag = {}, !.etin_head = eh]
    <3>1. s.fds[f].flag \ {"POLLIN"} = {}
      BY <1>6
    <3> QED BY <1>6, <3>1, <1>1, <1>2, <1>3 DEF DelFromEtin, Table, FdInfo
  <2>2. Unqueued(s, f) = [s EXCEPT !.fds[f].flag = {}, !.etin_head = eh]
    <3> HIDE DEF eh
    <3> DEFINE u == [s EXCEPT !.fds[f].flag = {}, !.etin_head = eh]
    <3>1. u.fds[f].flag = {}
      BY <1>1, <1>2, <1>3 DEF Table, FdInfo
    <3> HIDE DEF u
    <3>2. DelFromEtin(s, f) = u
      BY <2>1 DEF u
    <3>3. Unqueued(s, f) = u
      BY <3>1, <3>2 DEF Unqueued, DelFromClose
    <3> QED BY <3>3 DEF u
  <2>3. Unqueued(s, f) = Off(s, f, s.close_head, eh)
    <3> HIDE DEF eh
    <3> QED BY <2>2, <1>1, <1>2, <1>3 DEF Off, Table, FdInfo
  <2>4. eh \in Seq(Fd) /\ Once(eh) /\ ~OnQueue(eh, f)
        /\ \A g \in Fd \ {f} : OnQueue(eh, g) <=> OnQueue(s.etin_head, g)
    BY <1>2, <1>4, <1>6, WithoutOf
  <2> HIDE DEF eh
  <2>5. ~OnQueue(s.close_head, f)
    BY <1>4, <1>6
  <2> QED BY <2>3, <2>4, <2>5, <1>2, <1>4
<1>7. CASE s.fds[f].flag = {"CLOSE"}
  <2> DEFINE ch == Without(s.close_head, f)
  <2>1. DelFromEtin(s, f) = s
    BY <1>7 DEF DelFromEtin
  <2>2. Unqueued(s, f) = [s EXCEPT !.fds[f].flag = {}, !.close_head = ch]
    <3>1. s.fds[f].flag \ {"CLOSE"} = {}
      BY <1>7
    <3> QED BY <1>7, <2>1, <3>1, <1>1, <1>2, <1>3 DEF Unqueued, DelFromClose, Table, FdInfo
  <2>3. Unqueued(s, f) = Off(s, f, ch, s.etin_head)
    <3> HIDE DEF ch
    <3> QED BY <2>2, <1>1, <1>2, <1>3 DEF Off, Table, FdInfo
  <2>4. ch \in Seq(Fd) /\ Once(ch) /\ ~OnQueue(ch, f)
        /\ \A g \in Fd \ {f} : OnQueue(ch, g) <=> OnQueue(s.close_head, g)
    BY <1>2, <1>4, <1>7, WithoutOf
  <2> HIDE DEF ch
  <2>5. ~OnQueue(s.etin_head, f)
    BY <1>4, <1>7
  <2> QED BY <2>3, <2>4, <2>5, <1>2, <1>4
<1> QED BY <1>5, <1>6, <1>7, FlagOf

------------------------------------------------------------------------------
(* Closing.                                                                 *)

\* There is always a lower number in use: that of the listening socket or pipe.
LEMMA HighestUsed ==
    ASSUME SizesAssumption, NEW s, Good(s), NEW f \in Conn
    PROVE  /\ Highest(s, f) \in Fd /\ Highest(s, f) # f /\ Used(s, Highest(s, f))
           /\ \A g \in Fd : g < f /\ Used(s, g) => g <= Highest(s, f)
<1> DEFINE used == {g \in Fd : g < f /\ Used(s, g)}
<1>1. Used(s, Listen)
  BY Numbers DEF Good, Fine, Used
<1>2. Listen \in used
  BY <1>1, Numbers DEF Listen, Conn
<1>3. used \subseteq 0..MaxFd /\ MaxFd \in Nat
  BY Numbers DEF Fd
<1>4. \E x \in used : \A y \in used : y <= x
  <2> HIDE DEF used
  <2> QED BY <1>2, <1>3, GreatestThere
<1>5. Highest(s, f) = CHOOSE g \in used : \A h \in used : h <= g
  BY <1>2 DEF Highest
<1>6. Highest(s, f) \in used /\ \A h \in used : h <= Highest(s, f)
  <2> HIDE DEF used
  <2> QED BY <1>4, <1>5
<1> QED BY <1>6, Numbers

Unused(fi) == [fi EXCEPT !.flag = {}, !.type = "unused", !.recvlen = 0, !.sendlen = 0]

\* do_del_conn, part by part.
LEMMA DelConnIs ==
    ASSUME SizesAssumption, NEW s, Good(s), NEW f \in Conn, Used(s, f)
    PROVE  LET t == DelConn(s, f)
           IN  /\ t \in Table /\ QueuesFine(t) /\ MaxFine(t)
               /\ t.fds = [s.fds EXCEPT ![f] = Unused(s.fds[f])]
               /\ t.sock = [s.sock EXCEPT ![f] = NoSocket]
               /\ t.owed = s.owed /\ t.lied = s.lied /\ t.lost = s.lost
<1>0. f \in Fd
  BY Numbers
<1>1. s \in Table /\ s.fds \in [Fd -> FdInfo] /\ s.sock \in [Fd -> Socket] /\ s.maxfd \in Fd
  BY TableParts DEF Good
<1>2. s.fds[f] \in FdInfo /\ Unused(s.fds[f]) \in FdInfo
  <2>1. s.fds[f] \in FdInfo
    BY <1>0, <1>1
  <2>2. 0 \in 0..page_size /\ {} \in SUBSET {"CLOSE", "POLLIN"}
    BY Numbers
  <2> QED BY <2>1, <2>2 DEF FdInfo, Unused
<1>3. NoSocket \in Socket
  BY Numbers DEF NoSocket, Socket
<1>4. PICK ch, eh \in Seq(Fd) :
         /\ Unqueued(s, f) = Off(s, f, ch, eh)
         /\ Once(ch) /\ Once(eh) /\ ~OnQueue(ch, f) /\ ~OnQueue(eh, f)
         /\ \A g \in Fd \ {f} : /\ OnQueue(ch, g) <=> OnQueue(s.close_head, g)
                                /\ OnQueue(eh, g) <=> OnQueue(s.etin_head, g)
  BY <1>0, UnqueuedIs
<1> DEFINE fds == [s.fds EXCEPT ![f] = Unused(s.fds[f])]
           sock == [s.sock EXCEPT ![f] = NoSocket]
           m == IF s.maxfd = f THEN Highest(s, f) ELSE s.maxfd
           t == [s EXCEPT !.fds = fds, !.sock = sock, !.close_head = ch, !.etin_head = eh,
                          !.maxfd = m]
<1>5. DelConn(s, f) = t
  <2> DEFINE closed(fi) == [fi EXCEPT !.type = "unused", !.recvlen = 0, !.sendlen = 0]
  <2>1. DelConn(s, f) = [Off(s, f, ch, eh) EXCEPT
             !.fds[f] = closed(@), !.sock[f] = NoSocket,
             !.maxfd = IF @ = f THEN Highest(s, f) ELSE @]
    BY <1>4 DEF DelConn
  <2>2. fds = [[s.fds EXCEPT ![f].flag = {}] EXCEPT ![f] = closed(@)]
    <3>1. closed([s.fds[f] EXCEPT !.flag = {}]) = Unused(s.fds[f])
      BY <1>2 DEF Unused, FdInfo
    <3> HIDE DEF closed
    <3> QED BY <1>0, <1>1, <3>1
  <2> HIDE DEF closed
  <2> DEFINE o == Off(s, f, ch, eh)
  <2>3. /\ o \in Table /\ o.fds = [s.fds EXCEPT ![f].flag = {}] /\ o.sock = s.sock
        /\ o.maxfd = s.maxfd /\ o = [s EXCEPT !.fds = o.fds, !.close_head = ch, !.etin_head = eh]
    <3>1. [s.fds EXCEPT ![f].flag = {}] \in [Fd -> FdInfo]
      <4>1. [s.fds[f] EXCEPT !.flag = {}] \in FdInfo
        BY <1>2 DEF FdInfo
      <4> QED BY <1>0, <1>1, <4>1
    <3>2. o = [s EXCEPT !.fds = [s.fds EXCEPT ![f].flag = {}], !.close_head = ch, !.etin_head = eh]
      BY DEF Off
    <3> QED BY <1>1, <3>1, <3>2 DEF Table
  <2> HIDE DEF o
  <2>4. [o EXCEPT !.fds[f] = closed(@), !.sock[f] = NoSocket,
                  !.maxfd = IF @ = f THEN Highest(s, f) ELSE @]
        = [o EXCEPT !.fds = [o.fds EXCEPT ![f] = closed(@)],
                    !.sock = [o.sock EXCEPT ![f] = NoSocket],
                    !.maxfd = IF o.maxfd = f THEN Highest(s, f) ELSE o.maxfd]
    BY <2>3 DEF Table
  <2>5. DelConn(s, f) = [o EXCEPT !.fds = fds, !.sock = sock, !.maxfd = m]
    BY <2>1, <2>2, <2>3, <2>4 DEF o
  <2> HIDE DEF fds, sock, m
  <2>6. [o EXCEPT !.fds = fds, !.sock = sock, !.maxfd = m] = t
    BY <1>1, <2>3 DEF Table
  <2> QED BY <2>5, <2>6
<1>6. fds \in [Fd -> FdInfo] /\ sock \in [Fd -> Socket] /\ m \in Fd
  BY <1>0, <1>1, <1>2, <1>3, HighestUsed
<1>7. /\ t \in Table /\ t.fds = fds /\ t.sock = sock /\ t.close_head = ch /\ t.etin_head = eh
      /\ t.maxfd = m /\ t.owed = s.owed /\ t.lied = s.lied /\ t.lost = s.lost
  <2> HIDE DEF fds, sock, m
  <2> QED BY <1>1, <1>6 DEF Table
<1> HIDE DEF t
<1>8. /\ \A g \in Fd \ {f} : t.fds[g] = s.fds[g]
      /\ t.fds[f].type = "unused" /\ t.fds[f].flag = {}
  <2>1. t.fds[f] = Unused(s.fds[f]) /\ \A g \in Fd \ {f} : t.fds[g] = s.fds[g]
    BY <1>0, <1>1, <1>7
  <2>2. Unused(s.fds[f]).type = "unused" /\ Unused(s.fds[f]).flag = {}
    BY <1>2 DEF Unused, FdInfo
  <2> QED BY <2>1, <2>2
<1>9. QueuesFine(t)
  <2>1. QueuesFine(s)
    BY DEF Good
  <2>2. \A g \in Fd \ {f} : /\ OnQueue(ch, g) <=> "CLOSE" \in s.fds[g].flag
                            /\ OnQueue(eh, g) <=> "POLLIN" \in s.fds[g].flag
    BY <1>4, <2>1 DEF QueuesFine
  <2>3. \A g \in Fd : /\ OnQueue(ch, g) <=> "CLOSE" \in t.fds[g].flag
                      /\ OnQueue(eh, g) <=> "POLLIN" \in t.fds[g].flag
    BY <1>4, <1>8, <2>2
  <2> QED BY <1>4, <1>7, <2>3 DEF QueuesFine
<1>10. MaxFine(t)
  <2>1. MaxFine(s)
    BY DEF Good
  <2>2. ~Used(t, f) /\ \A g \in Fd \ {f} : Used(t, g) <=> Used(s, g)
    BY <1>8 DEF Used
  <2>3. CASE s.maxfd = f
    <3>1. m = Highest(s, f)
      BY <2>3
    <3>2. \A g \in Fd \ {f} : Used(s, g) => g < f
      BY <2>1, <2>3, <1>0, Numbers DEF MaxFine
    <3> QED BY <1>7, <2>2, <3>1, <3>2, HighestUsed DEF MaxFine
  <2>4. CASE s.maxfd # f
    BY <1>1, <1>7, <2>1, <2>2, <2>4 DEF MaxFine
  <2> QED BY <2>3, <2>4
<1> QED BY <1>5, <1>7, <1>9, <1>10

\* do_del_conn leaves the rest of the table as it is.
LEMMA DelConnStep ==
    ASSUME SizesAssumption, NEW s, Good(s), NEW f \in Conn
    PROVE  LET t == DelConn(s, f)
           IN  /\ Step(s, t, f) /\ ~Used(t, f) /\ t.owed = s.owed /\ Calm(s, t, f)
               /\ s.fds[f].type # "asyn_connect" /\ OwedFine(s) => f \notin t.owed
<1> DEFINE t == DelConn(s, f)
<1>1. CASE ~Used(s, f)
  <2>1. t = s
    BY <1>1 DEF DelConn
  <2> HIDE DEF t
  <2>2. s.fds[f].type # "asyn_connect"
    BY <1>1 DEF Used
  <2> QED BY <1>1, <2>1, <2>2, StepNone, Numbers DEF OwedFine, t
<1>2. CASE Used(s, f)
  <2>1. /\ t \in Table /\ QueuesFine(t) /\ MaxFine(t)
        /\ t.fds = [s.fds EXCEPT ![f] = Unused(s.fds[f])]
        /\ t.sock = [s.sock EXCEPT ![f] = NoSocket]
        /\ t.owed = s.owed /\ t.lied = s.lied /\ t.lost = s.lost
    BY <1>2, DelConnIs
  <2> HIDE DEF t
  <2>2. /\ f \in Fd /\ f # Listen /\ s \in Table
        /\ s.fds \in [Fd -> FdInfo] /\ s.sock \in [Fd -> Socket]
    BY Numbers, TableParts DEF Good
  <2>3. s.fds[f] \in FdInfo
    BY <2>2
  <2>4. LET fi == Unused(s.fds[f])
        IN  fi.type = "unused" /\ fi.flag = {} /\ fi.recvlen = 0 /\ fi.sendlen = 0
    BY <2>3 DEF Unused, FdInfo
  <2>5. Unused(s.fds[f]) \in FdInfo /\ NoSocket \in Socket
    <3>1. 0 \in 0..page_size /\ 0 \in 0..Room /\ {} \in SUBSET {"CLOSE", "POLLIN"}
      BY Numbers
    <3> QED BY <2>3, <3>1 DEF Unused, FdInfo, NoSocket, Socket
  <2>6. Fine(f, Unused(s.fds[f]), NoSocket)
    BY <2>2, <2>4 DEF Fine, NoSocket
  <2>7. Good(t)
    BY <2>1, <2>2, <2>4, <2>5, <2>6, Numbers, GoodPut
  <2>8. t.fds[f] = Unused(s.fds[f]) /\ t.sock[f] = NoSocket
        /\ \A g \in Fd \ {f} : t.fds[g] = s.fds[g] /\ t.sock[g] = s.sock[g]
    BY <2>1, <2>2
  <2>9. ~Used(t, f)
    BY <2>4, <2>8 DEF Used
  <2>10. Step(s, t, f)
    <3>1. NoInput(t, f) /\ NoOutput(t, f) /\ Roomy(t, f) /\ Masked(t, f) /\ Bounded(t, f)
      BY <2>4, <2>8, <2>9 DEF NoInput, NoOutput, Roomy, Masked, Bounded
    <3> QED BY <2>1, <2>2, <2>7, <2>8, <3>1, StepPut
  <2>11. s.fds[f].type # "asyn_connect" /\ OwedFine(s) =>
            f \notin t.owed /\ t.fds[f].type # "asyn_connect" /\ OwedFine(t)
    <3>1. s.owed \subseteq Fd
      BY <2>2, TableParts, Numbers
    <3> QED BY <2>1, <2>4, <2>8, <3>1 DEF OwedFine
  <2> QED BY <2>1, <2>9, <2>10, <2>11 DEF Calm, t
<1> QED BY <1>1, <1>2

\* close_svr also forgets the callback.
LEMMA Forgotten ==
    ASSUME SizesAssumption, NEW s, Good(s), NEW O \in SUBSET s.owed, NEW f \in Fd
    PROVE  LET t == [s EXCEPT !.owed = O]
           IN  /\ Step(s, t, f) /\ t.fds = s.fds /\ t.sock = s.sock /\ t.owed = O
               /\ t.lied = s.lied /\ t.lost = s.lost
               /\ OwedFine(s) => OwedFine(t)
<1> DEFINE t == [s EXCEPT !.owed = O]
<1>1. s \in Table
  BY DEF Good
<1>2. /\ t \in Table /\ t.fds = s.fds /\ t.sock = s.sock /\ t.close_head = s.close_head
      /\ t.etin_head = s.etin_head /\ t.maxfd = s.maxfd /\ t.owed = O
      /\ t.lied = s.lied /\ t.lost = s.lost
  BY <1>1 DEF Table
<1> HIDE DEF t
<1>3. Good(t)
  BY <1>2 DEF Good, QueuesFine, MaxFine, Used
<1>4. Step(s, t, f) /\ (OwedFine(s) => OwedFine(t))
  BY <1>2, <1>3 DEF Step, Kept, Apart, NoInput, NoOutput, Roomy, Masked, Bounded, Used, OwedFine
<1> QED BY <1>2, <1>4 DEF t

\* close_svr leaves no connection at f, and no callback owed for one.
LEMMA CloseSvrStep ==
    ASSUME SizesAssumption, NEW s, Good(s), NEW f \in Conn
    PROVE  LET t == CloseSvr(s, f)
           IN  Good(t) /\ Step(s, t, f) /\ ~Used(t, f) /\ (OwedFine(s) => OwedFine(t))
<1> DEFINE u == DelConn(s, f)  t == CloseSvr(s, f)
<1>1. f \in Fd
  BY Numbers
<1>2. Step(s, u, f) /\ Good(u) /\ ~Used(u, f) /\ u.owed = s.owed /\ Apart(s, u, f)
  BY DelConnStep DEF Step
<1>3. t = [u EXCEPT !.owed = u.owed \ {f}]
  BY DEF CloseSvr
<1> HIDE DEF u, t
<1>4. Step(u, t, f) /\ t.fds = u.fds /\ t.owed = u.owed \ {f}
  BY <1>1, <1>2, <1>3, Forgotten
<1>5. Step(s, t, f) /\ Good(t)
  BY <1>1, <1>2, <1>4, StepTwice DEF Step
<1>6. ~Used(t, f)
  BY <1>2, <1>4 DEF Used
<1>7. OwedFine(s) => OwedFine(t)
  <2> SUFFICES ASSUME OwedFine(s), NEW g \in t.owed
               PROVE  t.fds[g].type = "asyn_connect" /\ "OUT" \in t.fds[g].mask
    BY DEF OwedFine
  <2>1. g \in s.owed /\ g # f
    BY <1>2, <1>4
  <2>2. g \in Fd
    BY <2>1, TableParts, Numbers DEF Good
  <2>3. s.fds[g].type = "asyn_connect" /\ "OUT" \in s.fds[g].mask
    BY <2>1 DEF OwedFine
  <2>4. u.fds[g] = s.fds[g]
    BY <1>2, <2>1, <2>2, <2>3 DEF Apart, Used
  <2> QED BY <1>4, <2>3, <2>4
<1> QED BY <1>5, <1>6, <1>7 DEF t

------------------------------------------------------------------------------
(* epoll.                                                                   *)

\* epoll_ctl notes what is there already.
LEMMA NotedIs ==
    ASSUME SizesAssumption, NEW s \in Table, NEW f \in Fd
    PROVE  LET t == NotedIf(s, f)
           IN  /\ t \in Table /\ t.fds = s.fds /\ t.close_head = s.close_head
               /\ t.etin_head = s.etin_head /\ t.maxfd = s.maxfd /\ t.owed = s.owed
               /\ t.lied = s.lied /\ t.lost = s.lost
               /\ \E b \in BOOLEAN :
                     /\ t.sock = [s.sock EXCEPT ![f] = [@ EXCEPT !.ready = b]]
                     /\ s.sock[f].ready => b
                     /\ s.sock[f].rx > 0 /\ "IN" \in s.fds[f].mask => b
                     /\ s.sock[f].room > 0 /\ s.sock[f].st = "up" /\ "OUT" \in s.fds[f].mask => b
<1> DEFINE b == s.sock[f].ready \/ Reported(s, f) # {}
           sock == [s.sock EXCEPT ![f] = [@ EXCEPT !.ready = b]]
           t == NotedIf(s, f)
<1>1. s.sock \in [Fd -> Socket] /\ s.sock[f] \in Socket
  BY TableParts
<1>2. t = [s EXCEPT !.sock = sock]
  BY DEF NotedIf, Table
<1>3. b \in BOOLEAN
  BY <1>1 DEF Socket
<1>4. sock \in [Fd -> Socket]
  <2> HIDE DEF b
  <2>1. [s.sock[f] EXCEPT !.ready = b] \in Socket
    BY <1>1, <1>3 DEF Socket
  <2> QED BY <1>1, <2>1
<1>5. s.sock[f].rx > 0 /\ "IN" \in s.fds[f].mask => b
  BY DEF Reported, Poll
<1>6. s.sock[f].room > 0 /\ s.sock[f].st = "up" /\ "OUT" \in s.fds[f].mask => b
  BY DEF Reported, Poll
<1>7. s.sock[f].ready => b
  OBVIOUS
<1>8. /\ t \in Table /\ t.fds = s.fds /\ t.close_head = s.close_head
      /\ t.etin_head = s.etin_head /\ t.maxfd = s.maxfd /\ t.owed = s.owed
      /\ t.lied = s.lied /\ t.lost = s.lost /\ t.sock = sock
  <2> HIDE DEF sock, t
  <2> QED BY <1>2, <1>4 DEF Table
<1> HIDE DEF b, t
<1> QED BY <1>3, <1>5, <1>6, <1>7, <1>8 DEF t

Asks(fi, mask) == [fi EXCEPT !.mask = mask, !.et = TRUE]

\* What a wait for other events does to a table in which they are right.
LEMMA ModEventsIs ==
    ASSUME SizesAssumption, NEW s \in Table, NEW f \in Fd, s.sock[f].st # "none",
           NEW mask \in SUBSET {"IN", "OUT"}
    PROVE  LET t == ModEvents(s, f, mask)
           IN  /\ t \in Table /\ t.close_head = s.close_head
               /\ t.etin_head = s.etin_head /\ t.maxfd = s.maxfd /\ t.owed = s.owed
               /\ t.lied = s.lied /\ t.lost = s.lost
               /\ t.fds = [s.fds EXCEPT ![f] = Asks(s.fds[f], mask)]
               /\ \E b \in BOOLEAN :
                     /\ t.sock = [s.sock EXCEPT ![f] = [@ EXCEPT !.ready = b]]
                     /\ s.sock[f].ready => b
                     /\ s.sock[f].rx > 0 /\ "IN" \in mask => b
                     /\ s.sock[f].room > 0 /\ s.sock[f].st = "up" /\ "OUT" \in mask => b
<1> DEFINE fi == [s.fds[f] EXCEPT !.mask = mask, !.et = TRUE]
           u == [s EXCEPT !.fds[f] = fi]
<1>1. s.fds \in [Fd -> FdInfo] /\ s.fds[f] \in FdInfo
  BY TableParts
<1>2. fi \in FdInfo /\ fi.mask = mask
  BY <1>1 DEF FdInfo
<1>3. ModEvents(s, f, mask) = NotedIf(u, f)
  BY DEF ModEvents
<1> HIDE DEF fi
<1>4. /\ u \in Table /\ u.fds = [s.fds EXCEPT ![f] = fi] /\ u.sock = s.sock
      /\ u.close_head = s.close_head /\ u.etin_head = s.etin_head /\ u.maxfd = s.maxfd
      /\ u.owed = s.owed /\ u.lied = s.lied /\ u.lost = s.lost
  BY <1>1, <1>2 DEF Table
<1> HIDE DEF u
<1>5. u.fds[f].mask = mask
  BY <1>1, <1>2, <1>4
<1> DEFINE t == NotedIf(u, f)
<1>6. /\ t \in Table /\ t.fds = u.fds /\ t.close_head = u.close_head
      /\ t.etin_head = u.etin_head /\ t.maxfd = u.maxfd /\ t.owed = u.owed
      /\ t.lied = u.lied /\ t.lost = u.lost
  BY <1>4, NotedIs
<1>7. PICK b \in BOOLEAN :
         /\ t.sock = [u.sock EXCEPT ![f] = [@ EXCEPT !.ready = b]]
         /\ u.sock[f].ready => b
         /\ u.sock[f].rx > 0 /\ "IN" \in u.fds[f].mask => b
         /\ u.sock[f].room > 0 /\ u.sock[f].st = "up" /\ "OUT" \in u.fds[f].mask => b
  BY <1>4, NotedIs
<1> HIDE DEF t
<1>8. /\ t.sock = [s.sock EXCEPT ![f] = [@ EXCEPT !.ready = b]]
      /\ s.sock[f].ready => b
      /\ s.sock[f].rx > 0 /\ "IN" \in mask => b
      /\ s.sock[f].room > 0 /\ s.sock[f].st = "up" /\ "OUT" \in mask => b
  BY <1>4, <1>5, <1>7
<1>9. t.fds = [s.fds EXCEPT ![f] = Asks(s.fds[f], mask)]
  <2>1. fi = Asks(s.fds[f], mask)
    BY DEF fi, Asks
  <2> QED BY <1>4, <1>6, <2>1
<1> QED BY <1>3, <1>4, <1>6, <1>8, <1>9 DEF t

------------------------------------------------------------------------------
(* Opening.                                                                 *)

NewConn(type) ==
    [Blank EXCEPT !.type = type, !.mask = EventsFor(type), !.et = type # "asyn_connect"]

\* do_add_conn puts a connection where there was none.
LEMMA AddConnIs ==
    ASSUME SizesAssumption, NEW s, Good(s), NEW f \in Conn, s.sock[f].st = "none",
           NEW type, type # "unused", NewConn(type) \in FdInfo, NEW socket \in Socket
    PROVE  LET t == AddConn(s, f, type, socket)
           IN  /\ t \in Table /\ t.fds = [s.fds EXCEPT ![f] = NewConn(type)]
               /\ t.close_head = s.close_head /\ t.etin_head = s.etin_head
               /\ t.owed = s.owed /\ t.lied = s.lied /\ t.lost = s.lost /\ MaxFine(t)
               /\ \A g \in Fd \ {f} : t.sock[g] = s.sock[g]
               /\ t.sock[f].rx = socket.rx /\ t.sock[f].end = socket.end
               /\ t.sock[f].st = socket.st /\ t.sock[f].room = socket.room
<1> DEFINE fi == NewConn(type)
           m == IF f > s.maxfd THEN f ELSE s.maxfd
           u == [s EXCEPT !.fds[f] = fi, !.sock[f] = socket, !.maxfd = m]
           t == NotedIf(u, f)
<1>1. s \in Table /\ s.fds \in [Fd -> FdInfo] /\ s.sock \in [Fd -> Socket] /\ s.maxfd \in Fd
      /\ f \in Fd /\ m \in Fd
  BY TableParts, Numbers DEF Good
<1>2. AddConn(s, f, type, socket) = t
  BY DEF AddConn, NewConn
<1>0. fi \in FdInfo
  OBVIOUS
<1>. HIDE DEF fi
<1>3. /\ u \in Table /\ u.fds = [s.fds EXCEPT ![f] = fi] /\ u.sock = [s.sock EXCEPT ![f] = socket]
      /\ u.close_head = s.close_head /\ u.etin_head = s.etin_head /\ u.maxfd = m
      /\ u.owed = s.owed /\ u.lied = s.lied /\ u.lost = s.lost
  <2>1. /\ [s.fds EXCEPT ![f] = fi] \in [Fd -> FdInfo]
        /\ [s.sock EXCEPT ![f] = socket] \in [Fd -> Socket]
    BY <1>0, <1>1
  <2> HIDE DEF m
  <2> QED BY <1>1, <2>1 DEF Table
<1> HIDE DEF u
<1>4. /\ t \in Table /\ t.fds = u.fds /\ t.close_head = u.close_head
      /\ t.etin_head = u.etin_head /\ t.maxfd = u.maxfd /\ t.owed = u.owed
      /\ t.lied = u.lied /\ t.lost = u.lost
  BY <1>1, <1>3, NotedIs
<1>5. PICK b \in BOOLEAN :
         /\ t.sock = [u.sock EXCEPT ![f] = [@ EXCEPT !.ready = b]]
         /\ u.sock[f].ready => b
         /\ u.sock[f].rx > 0 /\ "IN" \in u.fds[f].mask => b
         /\ u.sock[f].room > 0 /\ u.sock[f].st = "up" /\ "OUT" \in u.fds[f].mask => b
  BY <1>1, <1>3, NotedIs
<1> HIDE DEF t
<1>6. /\ \A g \in Fd \ {f} : t.sock[g] = s.sock[g]
      /\ t.sock[f].rx = socket.rx /\ t.sock[f].end = socket.end
      /\ t.sock[f].st = socket.st /\ t.sock[f].room = socket.room
  <2>1. t.sock = [s.sock EXCEPT ![f] = [socket EXCEPT !.ready = b]]
    BY <1>1, <1>3, <1>5
  <2>2. t.sock[f] = [socket EXCEPT !.ready = b] /\ \A g \in Fd \ {f} : t.sock[g] = s.sock[g]
    BY <1>1, <2>1
  <2> QED BY <2>2 DEF Socket
<1>7. MaxFine(t)
  <2>1. MaxFine(s)
    BY DEF Good
  <2>2. fi.type # "unused"
    BY DEF fi, NewConn, Blank
  <2>3. t.maxfd = m /\ Used(t, f) /\ \A g \in Fd \ {f} : Used(t, g) <=> Used(s, g)
    BY <1>1, <1>3, <1>4, <2>2 DEF Used
  <2>4. f \in Nat /\ s.maxfd \in Nat /\ Fd \subseteq Nat
    BY <1>1, Numbers
  <2> QED BY <1>1, <2>1, <2>3, <2>4 DEF MaxFine
<1> QED BY <1>2, <1>3, <1>4, <1>6, <1>7 DEF t, fi

\* It disturbs nobody.
LEMMA AddConnStep ==
    ASSUME SizesAssumption, NEW s, Good(s), NEW f \in Conn, s.sock[f].st = "none",
           NEW type \in {"remote", "asyn_connect"},
           is_parent => type = "remote",
           NEW socket \in Socket, socket.rx = 0, socket.end = "no",
           socket.st = (IF type = "remote" THEN "up" ELSE "connecting"),
           socket.room > 0 => type = "remote"
    PROVE  LET t == AddConn(s, f, type, socket)
           IN  /\ Good(t) /\ ~Used(s, f) /\ \A g \in Fd : Step(s, t, g)
               /\ \A g \in Fd \ {f} : t.fds[g] = s.fds[g]
               /\ t.fds[f].type = type /\ t.owed = s.owed
               /\ t.fds[f].recvlen = 0 /\ t.fds[f].rcvprotlen = 0
               /\ type = "asyn_connect" => "OUT" \in t.fds[f].mask
<1> DEFINE fi == NewConn(type)  t == AddConn(s, f, type, socket)
<1>1. s \in Table /\ s.fds \in [Fd -> FdInfo] /\ s.sock \in [Fd -> Socket]
      /\ f \in Fd /\ f # Listen
  BY TableParts, Numbers DEF Good
<1>2. /\ fi \in FdInfo /\ fi.type = type /\ fi.flag = {} /\ fi.sendlen = 0 /\ fi.recvlen = 0
      /\ fi.rcvprotlen = 0 /\ fi.mask = EventsFor(type)
  <2>1. 0 \in 0..page_size /\ {} \in SUBSET {"CLOSE", "POLLIN"}
    BY Numbers
  <2> QED BY <2>1 DEF NewConn, Blank, FdInfo, EventsFor
<1> HIDE DEF fi
<1>3. s.fds[f].type = "unused" /\ s.fds[f].flag = {}
  BY <1>1, FlagOf DEF Good, Fine
<1> HIDE DEF t
<1>4. /\ t \in Table /\ t.fds = [s.fds EXCEPT ![f] = fi]
      /\ t.close_head = s.close_head /\ t.etin_head = s.etin_head
      /\ t.owed = s.owed /\ t.lied = s.lied /\ t.lost = s.lost /\ MaxFine(t)
      /\ (\A g \in Fd \ {f} : t.sock[g] = s.sock[g])
      /\ t.sock[f].rx = 0 /\ t.sock[f].end = "no"
      /\ t.sock[f].st = socket.st /\ t.sock[f].room = socket.room
  <2>1. NewConn(type) \in FdInfo
    BY <1>2 DEF fi
  <2> DEFINE u == AddConn(s, f, type, socket)
  <2>2. /\ u \in Table /\ u.fds = [s.fds EXCEPT ![f] = NewConn(type)]
        /\ u.close_head = s.close_head /\ u.etin_head = s.etin_head
        /\ u.owed = s.owed /\ u.lied = s.lied /\ u.lost = s.lost /\ MaxFine(u)
        /\ (\A g \in Fd \ {f} : u.sock[g] = s.sock[g])
        /\ u.sock[f].rx = socket.rx /\ u.sock[f].end = socket.end
        /\ u.sock[f].st = socket.st /\ u.sock[f].room = socket.room
    BY <2>1, AddConnIs
  <2> HIDE DEF u
  <2>3. u = t
    BY DEF u, t
  <2> QED BY <2>2, <2>3 DEF fi
<1> DEFINE k == t.sock[f]
<1>5. t.sock \in [Fd -> Socket] /\ t.sock = [s.sock EXCEPT ![f] = k]
  BY <1>1, <1>4, TableParts
<1>6. /\ k \in Socket /\ k.rx = 0 /\ k.end = "no" /\ k.st = socket.st /\ k.room = socket.room
  BY <1>1, <1>4, <1>5
<1> HIDE DEF k
<1>7. Fine(f, fi, k)
  BY <1>1, <1>2, <1>6 DEF Fine, EventsFor
<1>8. \A g \in Fd : /\ t.fds[g] = (IF g = f THEN fi ELSE s.fds[g])
                    /\ t.sock[g] = (IF g = f THEN k ELSE s.sock[g])
  BY <1>1, <1>4 DEF k
<1>9. QueuesFine(t)
  BY <1>2, <1>3, <1>4, <1>8 DEF QueuesFine, Good
<1>10. t.sock = [s.sock EXCEPT ![f] = k]
  BY <1>5
<1>11. Good(t)
  BY <1>1, <1>2, <1>4, <1>6, <1>7, <1>9, <1>10, Numbers, GoodPut
<1>12. NoInput(t, f) /\ NoOutput(t, f) /\ Roomy(t, f) /\ Masked(t, f) /\ Bounded(t, f)
  BY <1>1, <1>2, <1>6, <1>8, Numbers DEF NoInput, NoOutput, Roomy, Masked, Bounded, EventsFor
<1>13. \A g \in Fd : Step(s, t, g)
  <2>1. Kept(s, t)
    BY <1>8, <1>12 DEF Kept, NoInput, NoOutput, Roomy, Masked, Bounded, Used
  <2>2. \A g \in Fd : Apart(s, t, g)
    BY <1>3, <1>8 DEF Apart, Used
  <2> QED BY <1>4, <1>11, <2>1, <2>2 DEF Step
<1> QED BY <1>1, <1>2, <1>3, <1>4, <1>8, <1>11, <1>13 DEF t, Used, EventsFor

\* asyn_connect adds a connect whose callback is owed; it may find no number.
LEMMA AsynConnectStep ==
    ASSUME SizesAssumption, NEW s, Good(s), ~is_parent
    PROVE  LET t == AsynConnect(s)
           IN  /\ Good(t) /\ (OwedFine(s) => OwedFine(t))
               /\ \A g \in Fd : Step(s, t, g) /\ (Used(s, g) => t.fds[g] = s.fds[g])
               /\ \A g \in Fd : Used(t, g) /\ ~Used(s, g) =>
                      t.fds[g].recvlen = 0 /\ t.fds[g].rcvprotlen = 0
<1>1. CASE Free(s) = {}
  <2>1. AsynConnect(s) = s
    BY <1>1 DEF AsynConnect
  <2> QED BY <2>1, StepNone
<1>2. CASE Free(s) # {}
  <2> DEFINE f == Lowest(Free(s))
             socket == [NoSocket EXCEPT !.st = "connecting"]
             u == AddConn(s, f, "asyn_connect", socket)
             t == AsynConnect(s)
  <2>1. t = [u EXCEPT !.owed = @ \cup {f}]
    BY <1>2 DEF AsynConnect
  <2>2. f \in Conn /\ s.sock[f].st = "none" /\ f \in Fd
    <3>1. Free(s) \subseteq Conn
      BY DEF Free
    <3>2. f \in Free(s)
      BY <1>2, <3>1, LowestFree
    <3> QED BY <3>2, Numbers DEF Free
  <2>3. socket \in Socket /\ socket.rx = 0 /\ socket.end = "no" /\ socket.st = "connecting"
        /\ socket.room = 0
    <3>1. 0 \in 0..Room
      BY Numbers
    <3> QED BY <3>1 DEF NoSocket, Socket
  <2> HIDE DEF f, socket, t
  <2>4. /\ Good(u) /\ ~Used(s, f) /\ (\A g \in Fd : Step(s, u, g))
        /\ (\A g \in Fd \ {f} : u.fds[g] = s.fds[g]) /\ u.owed = s.owed
        /\ u.fds[f].type = "asyn_connect" /\ "OUT" \in u.fds[f].mask
        /\ u.fds[f].recvlen = 0 /\ u.fds[f].rcvprotlen = 0
    BY <2>2, <2>3, AddConnStep
  <2> HIDE DEF u
  <2>5. u \in Table /\ u.owed \in SUBSET Conn
    BY <2>4, TableParts DEF Good
  <2>6. /\ t \in Table /\ t.fds = u.fds /\ t.sock = u.sock /\ t.close_head = u.close_head
        /\ t.etin_head = u.etin_head /\ t.maxfd = u.maxfd /\ t.owed = u.owed \cup {f}
        /\ t.lied = u.lied /\ t.lost = u.lost
    BY <2>1, <2>2, <2>5 DEF Table
  <2>7. Good(t)
    BY <2>4, <2>6 DEF Good, QueuesFine, MaxFine, Used
  <2>8. \A g \in Fd : Step(s, t, g)
    BY <2>4, <2>6, <2>7 DEF Step, Kept, Apart, NoInput, NoOutput, Roomy, Masked, Bounded, Used
  <2>9. \A g \in Fd : Used(s, g) => t.fds[g] = s.fds[g]
    BY <2>4, <2>6
  <2>10. ASSUME OwedFine(s) PROVE OwedFine(t)
    <3>1. s.owed \subseteq Fd
      BY TableParts, Numbers DEF Good
    <3> QED BY <2>4, <2>6, <2>10, <3>1 DEF OwedFine
  <2>11. \A g \in Fd : Used(t, g) /\ ~Used(s, g) =>
            t.fds[g].recvlen = 0 /\ t.fds[g].rcvprotlen = 0
    BY <2>4, <2>6 DEF Used
  <2> QED BY <2>7, <2>8, <2>9, <2>10, <2>11 DEF t
<1> QED BY <1>1, <1>2

\* The number of a new connection, and its socket.
LEMMA OpenedStep ==
    ASSUME SizesAssumption, NEW s, Good(s), Free(s) # {}
    PROVE  LET f == Lowest(Free(s))
               t == AddConn(s, f, "remote", [NoSocket EXCEPT !.st = "up", !.room = Room])
           IN  /\ f \in Conn /\ ~Used(s, f) /\ Good(t) /\ (\A g \in Fd : Step(s, t, g))
               /\ (\A g \in Fd : Used(s, g) => t.fds[g] = s.fds[g])
               /\ (OwedFine(s) => OwedFine(t)) /\ t.fds[f].type = "remote"
<1> DEFINE f == Lowest(Free(s))
           socket == [NoSocket EXCEPT !.st = "up", !.room = Room]
           t == AddConn(s, f, "remote", socket)
<1>1. f \in Conn /\ s.sock[f].st = "none" /\ f \in Fd
  <2>1. Free(s) \subseteq Conn
    BY DEF Free
  <2>2. f \in Free(s)
    BY <2>1, LowestFree
  <2> QED BY <2>2, Numbers DEF Free
<1>2. socket \in Socket /\ socket.rx = 0 /\ socket.end = "no" /\ socket.st = "up"
  <2>1. Room \in 0..Room
    BY Numbers
  <2> QED BY <2>1 DEF NoSocket, Socket
<1> HIDE DEF f, socket
<1>3. /\ Good(t) /\ ~Used(s, f) /\ (\A g \in Fd : Step(s, t, g))
      /\ (\A g \in Fd \ {f} : t.fds[g] = s.fds[g]) /\ t.owed = s.owed
      /\ t.fds[f].type = "remote"
  BY <1>1, <1>2, AddConnStep
<1> HIDE DEF t
<1>4. \A g \in Fd : Used(s, g) => t.fds[g] = s.fds[g]
  BY <1>3
<1>5. ASSUME OwedFine(s) PROVE OwedFine(t)
  <2>1. s.owed \subseteq Fd
    BY TableParts, Numbers DEF Good
  <2> QED BY <1>3, <1>4, <1>5, <2>1 DEF OwedFine, Used
<1> QED BY <1>1, <1>3, <1>4, <1>5 DEF t, f, socket

\* connect_to_svr opens a connection at a number that was free, or nothing.
LEMMA ConnectToSvrStep ==
    ASSUME SizesAssumption, NEW s, Good(s)
    PROVE  LET t == ConnectToSvr(s)
           IN  /\ Good(t) /\ (OwedFine(s) => OwedFine(t))
               /\ \A g \in Fd : Step(s, t, g) /\ (Used(s, g) => t.fds[g] = s.fds[g])
<1>1. CASE Free(s) = {}
  <2>1. ConnectToSvr(s) = s
    BY <1>1 DEF ConnectToSvr
  <2> QED BY <2>1, StepNone
<1>2. CASE Free(s) # {}
  BY <1>2, OpenedStep DEF ConnectToSvr
<1> QED BY <1>1, <1>2

------------------------------------------------------------------------------
(* do_del_conn with its callback.                                           *)

\* The plugin may connect anew while it is told: never with the number of the
\* connection that goes.
LEMMA DeletedStep ==
    ASSUME SizesAssumption, NEW s, Good(s), NEW f \in Conn, NEW t \in Deleted(s, f)
    PROVE  /\ Good(t) /\ Step(s, t, f) /\ ~Used(t, f) /\ Calm(s, t, f)
<1>1. f \in Fd
  BY Numbers
<1>2. CASE t = DelConn(s, f)
  BY <1>2, DelConnStep DEF Step
<1>3. CASE t = DelConn(AsynConnect(s), f) /\ Used(s, f) /\ ~is_parent
  <2> DEFINE u == AsynConnect(s)
  <2>2. /\ Good(u) /\ (OwedFine(s) => OwedFine(u)) /\ Step(s, u, f)
        /\ u.fds[f] = s.fds[f]
    BY <1>1, <1>3, AsynConnectStep
  <2> HIDE DEF u
  <2>3. t = DelConn(u, f)
    BY <1>3 DEF u
  <2>4. Step(u, t, f) /\ ~Used(t, f) /\ Calm(u, t, f)
    BY <2>2, <2>3, DelConnStep
  <2> QED BY <1>1, <2>2, <2>4, StepTwice DEF Calm, Step
<1> QED BY <1>2, <1>3 DEF Deleted

------------------------------------------------------------------------------
(* Sending.                                                                 *)

\* A change of f alone, which others need not notice.
Loose(s, t, f) ==
    /\ Good(t) /\ \A g \in Fd \ {f} : t.fds[g] = s.fds[g] /\ t.sock[g] = s.sock[g]
    /\ t.owed = s.owed /\ t.lied = s.lied /\ t.lost = s.lost

\* A change of f, then a step for f, is a step if what is kept is kept over both.
LEMMA LooseThenStep ==
    ASSUME NEW s, NEW t, NEW u, NEW f \in Fd, Good(s), Loose(s, t, f), Step(t, u, f),
           NoInput(s, f) => NoInput(u, f), NoOutput(s, f) => NoOutput(u, f),
           Roomy(s, f) => Roomy(u, f), Masked(s, f) => Masked(u, f),
           Bounded(s, f) => Bounded(u, f)
    PROVE  Step(s, u, f)
<1>1. Kept(s, u)
  BY DEF Loose, Step, Kept, NoInput, NoOutput, Roomy, Masked, Bounded, Used
<1>2. Apart(s, u, f)
  BY DEF Loose, Step, Apart, Used
<1> QED BY <1>1, <1>2 DEF Loose, Step

\* Two changes of f are one.
LEMMA LooseThenLoose ==
    ASSUME NEW s, NEW t, NEW u, NEW f \in Fd, Loose(s, t, f), Loose(t, u, f)
    PROVE  Loose(s, u, f)
  BY DEF Loose

\* A change of f takes no connect away, unless f was or becomes one.
LEMMA LooseCalm ==
    ASSUME SizesAssumption, NEW s, NEW t, NEW f \in Fd, Good(s), Loose(s, t, f),
           s.fds[f].type # "asyn_connect" => t.fds[f].type # "asyn_connect"
    PROVE  Calm(s, t, f)
<1>1. s.owed \subseteq Fd
  BY TableParts, Numbers DEF Good
<1> QED BY <1>1 DEF Calm, Loose, OwedFine

\* A connection in use after a change that leaves nothing of it.
LEMMA LooseThenGone ==
    ASSUME SizesAssumption, NEW s, NEW t, NEW u, NEW f \in Fd, Good(s), Loose(s, t, f),
           s.fds[f].type # "asyn_connect" => t.fds[f].type # "asyn_connect",
           Step(t, u, f), ~Used(u, f), Calm(t, u, f)
    PROVE  Step(s, u, f) /\ Calm(s, u, f)
<1>1. NoInput(u, f) /\ NoOutput(u, f) /\ Roomy(u, f) /\ Masked(u, f) /\ Bounded(u, f)
  <2>1. u.fds[f].type = "unused" /\ u.fds[f].sendlen = 0
    BY EntryOf DEF Used, Step, Loose, Fine
  <2> QED BY <2>1, Numbers DEF NoInput, NoOutput, Roomy, Masked, Bounded, Used
<1>2. Step(s, u, f)
  BY <1>1, LooseThenStep
<1>3. Calm(s, u, f)
  BY LooseCalm DEF Calm
<1> QED BY <1>2, <1>3

\* Only the output of f, the room for it and its idleness have changed.
SameInput(fi, gi) ==
    /\ gi.type = fi.type /\ gi.flag = fi.flag /\ gi.mask = fi.mask
    /\ gi.recvlen = fi.recvlen /\ gi.rcvprotlen = fi.rcvprotlen

SentOnly(s, t, f) ==
    /\ Loose(s, t, f) /\ SameInput(s.fds[f], t.fds[f])
    /\ LET k == s.sock[f]  l == t.sock[f]
       IN  l.st = k.st /\ l.rx = k.rx /\ l.end = k.end /\ l.ready = k.ready

Output(s, f, fi, room) == [s EXCEPT !.fds[f] = fi, !.sock[f].room = room]

\* A change of what is kept back and of the room, and nothing else.
LEMMA OutputSentOnly ==
    ASSUME SizesAssumption, NEW s, Good(s), NEW f \in Conn, s.fds[f].type = "remote",
           NEW fi \in FdInfo, SameInput(s.fds[f], fi), NEW room \in 0..Room,
           room <= s.sock[f].room
    PROVE  LET t == Output(s, f, fi, room)
           IN  SentOnly(s, t, f) /\ t.fds[f] = fi /\ t.sock[f].room = room
<1> DEFINE k == [s.sock[f] EXCEPT !.room = room]
           t == Output(s, f, fi, room)
<1>1. s \in Table /\ s.fds \in [Fd -> FdInfo] /\ s.sock \in [Fd -> Socket] /\ f \in Fd /\ f # Listen
  BY TableParts, Numbers DEF Good
<1>2. s.fds[f] \in FdInfo /\ s.sock[f] \in Socket
  BY <1>1
<1>3. /\ k \in Socket /\ k.room = room /\ k.st = s.sock[f].st /\ k.rx = s.sock[f].rx
      /\ k.end = s.sock[f].end /\ k.ready = s.sock[f].ready
  BY <1>2 DEF Socket
<1>4. t = [s EXCEPT !.fds = [s.fds EXCEPT ![f] = fi], !.sock = [s.sock EXCEPT ![f] = k]]
  BY <1>1 DEF Output, Table
<1> HIDE DEF k, t
<1>5. [s.fds EXCEPT ![f] = fi] \in [Fd -> FdInfo] /\ [s.sock EXCEPT ![f] = k] \in [Fd -> Socket]
  BY <1>1, <1>3
<1>6. /\ t \in Table /\ t.fds = [s.fds EXCEPT ![f] = fi] /\ t.sock = [s.sock EXCEPT ![f] = k]
      /\ t.close_head = s.close_head /\ t.etin_head = s.etin_head /\ t.maxfd = s.maxfd
      /\ t.owed = s.owed /\ t.lied = s.lied /\ t.lost = s.lost
  BY <1>1, <1>4, <1>5 DEF Table
<1>7. Fine(f, fi, k)
  <2>1. Fine(f, s.fds[f], s.sock[f]) /\ s.sock[f].room \in 0..Room /\ Room \in Nat
    BY <1>1, EntryOf
  <2> QED BY <1>1, <1>3, <2>1 DEF Fine, SameInput
<1>8. fi.flag = s.fds[f].flag /\ fi.type = s.fds[f].type
  BY DEF SameInput
<1>9. Good(t)
  BY <1>1, <1>3, <1>6, <1>7, <1>8, GoodTouch
<1>10. /\ t.fds[f] = fi /\ t.sock[f] = k
       /\ \A g \in Fd \ {f} : t.fds[g] = s.fds[g] /\ t.sock[g] = s.sock[g]
  BY <1>1, <1>6
<1> QED BY <1>3, <1>6, <1>9, <1>10 DEF Loose, SentOnly, t

\* What do_write_conn leaves is what the kernel has no room for.
LEMMA WriteConnIs ==
    ASSUME SizesAssumption, NEW s, Good(s), NEW f \in Conn, s.fds[f].type = "remote"
    PROVE  LET t == WriteConn(s, f)
           IN  /\ SentOnly(s, t, f) /\ (t.fds[f].sendlen = 0 \/ t.sock[f].room = 0)
               /\ t.fds[f].sendlen <= s.fds[f].sendlen
<1> DEFINE n == Least(s.fds[f].sendlen, s.sock[f].room)
           len == s.fds[f].sendlen - n
           room == s.sock[f].room - n
           fi == [s.fds[f] EXCEPT !.sendlen = len, !.idle = @ /\ n = 0]
           t == WriteConn(s, f)
<1>1. s.fds[f] \in FdInfo /\ s.fds[f].sendlen \in Nat /\ s.sock[f].room \in 0..Room /\ Room \in Nat
  BY EntryOf, Numbers
<1>2. /\ n \in Nat /\ len \in Nat /\ room \in 0..Room /\ room <= s.sock[f].room
      /\ len <= s.fds[f].sendlen /\ (len = 0 \/ room = 0)
  BY <1>1 DEF Least
<1>3. fi \in FdInfo /\ fi.sendlen = len /\ SameInput(s.fds[f], fi)
  <2> DEFINE idle == s.fds[f].idle /\ n = 0
  <2>1. idle \in BOOLEAN
    BY <1>1 DEF FdInfo
  <2> HIDE DEF idle, len
  <2>2. LET gi == [s.fds[f] EXCEPT !.sendlen = len, !.idle = idle]
        IN  gi \in FdInfo /\ gi.sendlen = len /\ SameInput(s.fds[f], gi)
    BY <1>1, <1>2, <2>1 DEF FdInfo, SameInput
  <2> QED BY <2>2 DEF idle
<1>4. t = Output(s, f, fi, room)
  <2>1. t = [s EXCEPT !.fds[f] = fi, !.sock[f].room = @ - n]
    BY DEF WriteConn
  <2>2. [s.sock[f] EXCEPT !.room = @ - n] = [s.sock[f] EXCEPT !.room = room]
    OBVIOUS
  <2>3. s \in Table
    BY DEF Good
  <2> HIDE DEF n, len, room, fi, t
  <2> QED BY <2>1, <2>2, <2>3 DEF Output, Table
<1> HIDE DEF n, len, room, fi, t
<1>5. SentOnly(s, t, f) /\ t.fds[f] = fi /\ t.sock[f].room = room
  BY <1>2, <1>3, <1>4, OutputSentOnly
<1> QED BY <1>2, <1>3, <1>5 DEF t

\* A wait for other events finds what is there already.
LEMMA ModEventsStep ==
    ASSUME SizesAssumption, NEW s, Good(s), NEW f \in Conn, Used(s, f),
           NEW mask \in SUBSET {"IN", "OUT"}, "IN" \in mask
    PROVE  LET t == ModEvents(s, f, mask)
           IN  /\ Loose(s, t, f) /\ NoInput(t, f)
               /\ (NoOutput(s, f) \/ "OUT" \in mask => NoOutput(t, f))
               /\ (Roomy(s, f) => Roomy(t, f)) /\ (Bounded(s, f) => Bounded(t, f))
               /\ t.fds[f].type = s.fds[f].type /\ t.fds[f].mask = mask
               /\ t.fds[f].recvlen = s.fds[f].recvlen
               /\ t.fds[f].rcvprotlen = s.fds[f].rcvprotlen
               /\ t.fds[f].sendlen = s.fds[f].sendlen /\ t.sock[f].room = s.sock[f].room
<1> DEFINE fi == [s.fds[f] EXCEPT !.mask = mask, !.et = TRUE]
           t == ModEvents(s, f, mask)
<1>1. s \in Table /\ s.fds \in [Fd -> FdInfo] /\ s.sock \in [Fd -> Socket] /\ f \in Fd /\ f # Listen
  BY TableParts, Numbers DEF Good
<1>2. /\ s.fds[f] \in FdInfo /\ s.sock[f] \in Socket /\ Fine(f, s.fds[f], s.sock[f])
      /\ s.sock[f].room \in 0..Room /\ s.sock[f].rx \in Nat
  BY <1>1, EntryOf
<1>3. s.sock[f].st # "none"
  BY <1>1, <1>2 DEF Fine, Used
<1>4. /\ fi \in FdInfo /\ SameInput(s.fds[f], [fi EXCEPT !.mask = s.fds[f].mask])
      /\ fi.mask = mask /\ fi.sendlen = s.fds[f].sendlen /\ fi.type = s.fds[f].type
      /\ fi.flag = s.fds[f].flag /\ fi.recvlen = s.fds[f].recvlen
      /\ fi.rcvprotlen = s.fds[f].rcvprotlen
  BY <1>2 DEF FdInfo, SameInput
<1>5. /\ t \in Table /\ t.close_head = s.close_head
      /\ t.etin_head = s.etin_head /\ t.maxfd = s.maxfd /\ t.owed = s.owed
      /\ t.lied = s.lied /\ t.lost = s.lost
      /\ t.fds = [s.fds EXCEPT ![f] = Asks(s.fds[f], mask)]
  BY <1>1, <1>3, ModEventsIs
<1>6. PICK b \in BOOLEAN :
         /\ t.sock = [s.sock EXCEPT ![f] = [@ EXCEPT !.ready = b]]
         /\ s.sock[f].ready => b
         /\ s.sock[f].rx > 0 /\ "IN" \in mask => b
         /\ s.sock[f].room > 0 /\ s.sock[f].st = "up" /\ "OUT" \in mask => b
  BY <1>1, <1>3, ModEventsIs
<1> DEFINE k == [s.sock[f] EXCEPT !.ready = b]
<1>7. /\ k \in Socket /\ k.room = s.sock[f].room /\ k.st = s.sock[f].st /\ k.rx = s.sock[f].rx
      /\ k.end = s.sock[f].end /\ k.ready = b
  BY <1>2 DEF Socket
<1>8. t.sock = [s.sock EXCEPT ![f] = k] /\ t.fds = [s.fds EXCEPT ![f] = fi]
  <2> HIDE DEF t
  <2>1. fi = Asks(s.fds[f], mask)
    BY DEF Asks
  <2> HIDE DEF fi
  <2> QED BY <1>5, <1>6, <2>1
<1> HIDE DEF fi, k, t
<1>9. Fine(f, fi, k)
  BY <1>1, <1>2, <1>4, <1>7 DEF Fine
<1>10. Good(t)
  BY <1>1, <1>4, <1>5, <1>7, <1>8, <1>9, GoodTouch
<1>11. /\ t.fds[f] = fi /\ t.sock[f] = k
       /\ \A g \in Fd \ {f} : t.fds[g] = s.fds[g] /\ t.sock[g] = s.sock[g]
  BY <1>1, <1>5, <1>8
<1>12. Loose(s, t, f)
  BY <1>5, <1>10, <1>11 DEF Loose
<1>13. NoInput(t, f)
  BY <1>6, <1>7, <1>11 DEF NoInput
<1>14. NoOutput(s, f) \/ "OUT" \in mask => NoOutput(t, f)
  BY <1>1, <1>2, <1>4, <1>6, <1>7, <1>11 DEF NoOutput, Fine
<1>15. (Roomy(s, f) => Roomy(t, f)) /\ (Bounded(s, f) => Bounded(t, f))
  BY <1>4, <1>11 DEF Roomy, Bounded, Used
<1> QED BY <1>4, <1>7, <1>11, <1>12, <1>13, <1>14, <1>15 DEF t

\* Which events are asked for when what was kept back for f, and then the room,
\* has changed: s before net_send, u after its two attempts.
LEMMA ArmedStep ==
    ASSUME SizesAssumption, NEW s, Good(s), NEW f \in Conn, s.fds[f].type = "remote",
           NEW u, SentOnly(s, u, f), u.fds[f].sendlen = 0 \/ u.sock[f].room = 0, Bounded(u, f)
    PROVE  LET t == Armed(u, f, s.fds[f].sendlen > 0)
           IN  /\ Good(t) /\ Step(s, t, f) /\ Calm(s, t, f) /\ t.fds[f].type = "remote"
               /\ t.fds[f].recvlen = s.fds[f].recvlen
               /\ t.fds[f].rcvprotlen = s.fds[f].rcvprotlen
<1> DEFINE t == Armed(u, f, s.fds[f].sendlen > 0)
<1> DEFINE Goal == /\ Good(t) /\ Step(s, t, f) /\ Calm(s, t, f) /\ t.fds[f].type = "remote"
                   /\ t.fds[f].recvlen = s.fds[f].recvlen
                   /\ t.fds[f].rcvprotlen = s.fds[f].rcvprotlen
<1> SUFFICES Goal
  OBVIOUS
<1>1. /\ Good(u) /\ f \in Fd /\ u.fds[f].type = "remote" /\ Loose(s, u, f)
      /\ u.fds[f].sendlen \in Nat /\ s.fds[f].sendlen \in Nat /\ u.sock[f].room \in 0..Room
      /\ Room \in Nat
  BY Numbers, EntryOf DEF SentOnly, Loose, SameInput
<1>2. /\ NoOutput(u, f) /\ (NoInput(s, f) => NoInput(u, f)) /\ (Roomy(s, f) => Roomy(u, f))
  BY <1>1 DEF NoOutput, NoInput, Roomy, SentOnly, SameInput, Used
<1>3. ASSUME NEW mask \in SUBSET {"IN", "OUT"}, "IN" \in mask, t = ModEvents(u, f, mask),
             u.fds[f].sendlen > 0 <=> "OUT" \in mask
      PROVE  Goal
  <2> HIDE DEF t
  <2>1. /\ Loose(u, t, f) /\ NoInput(t, f) /\ NoOutput(t, f)
        /\ (Roomy(u, f) => Roomy(t, f)) /\ Bounded(t, f)
        /\ t.fds[f].type = "remote" /\ t.fds[f].mask = mask
        /\ t.fds[f].sendlen = u.fds[f].sendlen
        /\ t.fds[f].recvlen = u.fds[f].recvlen
        /\ t.fds[f].rcvprotlen = u.fds[f].rcvprotlen
    BY <1>1, <1>2, <1>3, ModEventsStep DEF Used
  <2>2. Masked(t, f)
    BY <1>3, <2>1 DEF Masked
  <2>3. Loose(s, t, f)
    BY <1>1, <2>1, LooseThenLoose
  <2>4. Step(t, t, f)
    BY <1>1, StepNone
  <2>5. Step(s, t, f)
    BY <1>1, <1>2, <2>1, <2>2, <2>3, <2>4, LooseThenStep
  <2>6. Calm(s, t, f)
    BY <1>1, <2>1, <2>3, LooseCalm
  <2> QED BY <2>1, <2>3, <2>5, <2>6 DEF Loose, SentOnly, SameInput
<1>4. CASE u.fds[f].sendlen > 0 /\ ~(s.fds[f].sendlen > 0)
  <2>1. t = ModEvents(u, f, {"IN", "OUT"})
    BY <1>4 DEF Armed
  <2> HIDE DEF t
  <2> QED BY <1>3, <1>4, <2>1
<1>5. CASE s.fds[f].sendlen > 0 /\ u.fds[f].sendlen = 0
  <2>1. t = ModEvents(u, f, {"IN"})
    BY <1>5 DEF Armed
  <2> HIDE DEF t
  <2> QED BY <1>1, <1>3, <1>5, <2>1
<1>6. CASE u.fds[f].sendlen > 0 <=> s.fds[f].sendlen > 0
  <2>1. t = u
    BY <1>1, <1>6 DEF Armed
  <2>2. Masked(s, f) => Masked(u, f)
    BY <1>6 DEF Masked, SentOnly, SameInput
  <2>3. Step(u, u, f)
    BY <1>1, StepNone
  <2>4. Step(s, u, f)
    BY <1>1, <1>2, <2>2, <2>3, LooseThenStep
  <2>5. Calm(s, u, f)
    BY <1>1, LooseCalm
  <2> QED BY <1>1, <2>1, <2>4, <2>5 DEF SentOnly, SameInput
<1> QED BY <1>1, <1>4, <1>5, <1>6

\* net_send leaves a table in which nothing that could be sent is left without
\* notice, or the connection is gone.
LEMMA NetSendStep ==
    ASSUME SizesAssumption, NEW s, Good(s), NEW f \in Conn, s.fds[f].type = "remote",
           Bounded(s, f), NEW n \in Nat, NEW t \in NetSend(s, f, n)
    PROVE  /\ Good(t) /\ Step(s, t, f) /\ Calm(s, t, f)
           /\ Used(t, f) => /\ t.fds[f].type = "remote"
                            /\ t.fds[f].recvlen = s.fds[f].recvlen
                            /\ t.fds[f].rcvprotlen = s.fds[f].rcvprotlen
<1>0. f \in Fd /\ f # Listen
  BY Numbers
<1>1. CASE Broken(s, f)
  <2>1. t \in Deleted(s, f)
    BY <1>1 DEF NetSend
  <2> QED BY <2>1, DeletedStep
<1>2. CASE ~Broken(s, f)
  <2> DEFINE prev == s.fds[f].sendlen > 0
             w    == IF prev THEN WriteConn(s, f) ELSE s
             n0   == IF w.fds[f].sendlen = 0 THEN Least(n, w.sock[f].room) ELSE 0
             len  == w.fds[f].sendlen + n - n0
             room == w.sock[f].room - n0
             fi   == [w.fds[f] EXCEPT !.sendlen = len]
             u    == [w EXCEPT !.fds[f].sendlen = @ + n - n0, !.sock[f].room = @ - n0]
  <2>1. IF n > n0 /\ OverLimit(u.fds[f].sendlen) THEN t \in Deleted(u, f) ELSE t = Armed(u, f, prev)
    BY <1>2 DEF NetSend
  <2>2. /\ SentOnly(s, w, f) /\ w.fds[f].sendlen <= s.fds[f].sendlen
        /\ prev => w.fds[f].sendlen = 0 \/ w.sock[f].room = 0
        /\ ~prev => w.fds[f].sendlen = 0
    <3>1. CASE prev
      <4>1. w = WriteConn(s, f)
        BY <3>1
      <4> HIDE DEF w
      <4> QED BY <3>1, <4>1, WriteConnIs
    <3>2. CASE ~prev
      <4>1. w = s /\ s.fds[f].sendlen = 0
        BY <1>0, <3>2, EntryOf
      <4> HIDE DEF w
      <4>2. SentOnly(s, s, f)
        BY DEF SentOnly, Loose, SameInput
      <4> QED BY <3>2, <4>1, <4>2, <1>0, EntryOf
    <3> QED BY <3>1, <3>2
  <2> HIDE DEF w
  <2>3. /\ Good(w) /\ Loose(s, w, f) /\ w.fds[f].type = "remote"
    BY <2>2 DEF SentOnly, Loose, SameInput
  <2>4. /\ w.fds[f] \in FdInfo /\ w.sock[f] \in Socket /\ w.fds[f].sendlen \in Nat
        /\ s.fds[f].sendlen \in Nat /\ w.sock[f].room \in 0..Room /\ Room \in Nat
    BY <1>0, <2>3, EntryOf
  <2>5. /\ n0 \in Nat /\ n0 <= n /\ len \in Nat /\ room \in 0..Room /\ room <= w.sock[f].room
        /\ (len = 0 \/ room = 0) /\ (n = n0 => len = w.fds[f].sendlen) /\ (n > n0 \/ n = n0)
    <3>1. CASE w.fds[f].sendlen = 0
      BY <2>4, <3>1 DEF Least
    <3>2. CASE w.fds[f].sendlen # 0
      <4>1. w.sock[f].room = 0 /\ n0 = 0
        BY <2>2, <3>2
      <4> QED BY <2>4, <4>1
    <3> QED BY <3>1, <3>2
  <2>6. fi \in FdInfo /\ fi.sendlen = len /\ SameInput(w.fds[f], fi)
    <3> HIDE DEF len
    <3> QED BY <2>4, <2>5 DEF FdInfo, SameInput
  <2>7. u = Output(w, f, fi, room)
    <3>1. [w.fds[f] EXCEPT !.sendlen = @ + n - n0] = fi
      OBVIOUS
    <3>2. [w.sock[f] EXCEPT !.room = @ - n0] = [w.sock[f] EXCEPT !.room = room]
      OBVIOUS
    <3>3. w \in Table /\ w.fds \in [Fd -> FdInfo] /\ w.sock \in [Fd -> Socket]
      BY <2>3, TableParts DEF Good
    <3>4. u = [w EXCEPT !.fds = [w.fds EXCEPT ![f] = [w.fds[f] EXCEPT !.sendlen = @ + n - n0]],
                        !.sock = [w.sock EXCEPT ![f] = [w.sock[f] EXCEPT !.room = @ - n0]]]
      <4> HIDE DEF n0
      <4> QED BY <3>3 DEF Table
    <3> HIDE DEF n0, len, room, fi, u
    <3> QED BY <3>1, <3>2, <3>3, <3>4 DEF Output, Table
  <2> HIDE DEF n0, len, room, fi, u
  <2>8. SentOnly(w, u, f) /\ u.fds[f] = fi /\ u.sock[f].room = room
    BY <2>3, <2>5, <2>6, <2>7, OutputSentOnly
  <2>9. /\ SentOnly(s, u, f) /\ u.fds[f].sendlen = len /\ Good(u) /\ Loose(s, u, f)
        /\ u.fds[f].type = "remote"
    BY <2>2, <2>3, <2>6, <2>8 DEF SentOnly, Loose, SameInput
  <2>10. CASE n > n0 /\ OverLimit(u.fds[f].sendlen)
    <3>1. t \in Deleted(u, f)
      BY <2>1, <2>10
    <3>2. Good(t) /\ Step(u, t, f) /\ ~Used(t, f) /\ Calm(u, t, f)
      BY <2>9, <3>1, DeletedStep
    <3>3. Step(s, t, f) /\ Calm(s, t, f)
      BY <1>0, <2>9, <3>2, LooseThenGone
    <3> QED BY <3>2, <3>3
  <2>11. CASE ~(n > n0 /\ OverLimit(u.fds[f].sendlen))
    <3>1. t = Armed(u, f, prev)
      BY <2>1, <2>11
    <3>2. Bounded(u, f)
      <4>1. CASE ~(n > n0)
        BY <2>2, <2>4, <2>5, <2>9, <4>1, Numbers DEF Bounded
      <4>2. CASE ~OverLimit(u.fds[f].sendlen)
        BY <2>5, <2>9, <4>2, Numbers DEF Bounded, OverLimit
      <4> QED BY <2>11, <4>1, <4>2
    <3>3. LET v == Armed(u, f, s.fds[f].sendlen > 0)
          IN  /\ Good(v) /\ Step(s, v, f) /\ Calm(s, v, f) /\ v.fds[f].type = "remote"
              /\ v.fds[f].recvlen = s.fds[f].recvlen
              /\ v.fds[f].rcvprotlen = s.fds[f].rcvprotlen
      BY <2>5, <2>8, <2>9, <3>2, ArmedStep
    <3> QED BY <3>1, <3>3
  <2> QED BY <2>10, <2>11
<1> QED BY <1>1, <1>2

\* do_write_conn once more, then the connection goes: nothing is left that the
\* kernel would have taken.
LEMMA LastWriteStep ==
    ASSUME SizesAssumption, NEW s, Good(s), NEW f \in Conn, s.fds[f].type = "remote"
    PROVE  LET w == LastWrite(s, f)
               t == DelConn(w, f)
           IN  Good(t) /\ Step(s, t, f) /\ Calm(s, t, f) /\ ~Sendable(w, f)
<1> DEFINE w == LastWrite(s, f)  t == DelConn(w, f)
<1>0. f \in Fd
  BY Numbers
<1>1. /\ Good(w) /\ Loose(s, w, f) /\ w.fds[f].type = "remote" /\ ~Sendable(w, f)
  <2>1. CASE s.fds[f].sendlen > 0 /\ ~Broken(s, f)
    <3>1. w = WriteConn(s, f)
      BY <2>1 DEF LastWrite
    <3> HIDE DEF w
    <3>2. SentOnly(s, w, f) /\ (w.fds[f].sendlen = 0 \/ w.sock[f].room = 0)
      BY <3>1, WriteConnIs
    <3> QED BY <3>2 DEF SentOnly, Loose, SameInput, Sendable
  <2>2. CASE ~(s.fds[f].sendlen > 0 /\ ~Broken(s, f))
    <3>1. w = s
      BY <2>2 DEF LastWrite
    <3> HIDE DEF w
    <3> QED BY <2>2, <3>1 DEF Loose, Sendable
  <2> QED BY <2>1, <2>2
<1> HIDE DEF w
<1>2. Good(t) /\ Step(w, t, f) /\ ~Used(t, f) /\ Calm(w, t, f)
  BY <1>1, DelConnStep DEF Step
<1> HIDE DEF t
<1>3. Step(s, t, f) /\ Calm(s, t, f)
  BY <1>0, <1>1, <1>2, LooseThenGone
<1> QED BY <1>1, <1>2, <1>3 DEF t, w

\* The EPOLLOUT of an event.
LEMMA FlushStep ==
    ASSUME SizesAssumption, NEW s, Good(s), NEW f \in Conn,
           NEW v \in Flushed(s, f), NEW t, t = Disarmed(v, f), Bounded(s, f)
    PROVE  /\ Good(t) /\ Step(s, t, f) /\ NoOutput(t, f)
           /\ s.fds[f].type # "asyn_connect" => Calm(s, t, f) /\ t.fds[f].type # "asyn_connect"
<1>0. f \in Fd /\ f # Listen /\ s.fds[f].sendlen \in Nat /\ Fine(f, s.fds[f], s.sock[f])
  BY Numbers, EntryOf
<1>1. ASSUME Good(v), ~Used(v, f) PROVE t = v /\ NoOutput(v, f)
  <2>1. v.sock[f].st = "none"
    BY <1>0, <1>1, EntryOf DEF Fine, Used
  <2>2. t = v
    BY <2>1 DEF Disarmed, ModEvents
  <2> QED BY <1>1, <2>2 DEF NoOutput, Used
<1>2. ASSUME Good(v), Loose(s, v, f), Used(v, f), v.fds[f].type = s.fds[f].type,
             v.fds[f].sendlen = 0, NoInput(s, f) => NoInput(v, f), Roomy(s, f) => Roomy(v, f),
             Bounded(s, f) => Bounded(v, f)
      PROVE  /\ Good(t) /\ Step(s, t, f) /\ NoOutput(t, f)
             /\ s.fds[f].type # "asyn_connect" => Calm(s, t, f) /\ t.fds[f].type # "asyn_connect"
  <2>1. t = ModEvents(v, f, {"IN"})
    BY <1>2 DEF Disarmed
  <2>2. NoOutput(v, f)
    BY <1>2 DEF NoOutput
  <2>3. /\ Loose(v, t, f) /\ NoInput(t, f) /\ NoOutput(t, f)
        /\ (Roomy(v, f) => Roomy(t, f)) /\ (Bounded(v, f) => Bounded(t, f))
        /\ t.fds[f].type = v.fds[f].type /\ t.fds[f].mask = {"IN"}
        /\ t.fds[f].sendlen = v.fds[f].sendlen
    BY <1>2, <2>1, <2>2, ModEventsStep
  <2>4. Masked(t, f)
    BY <1>2, <2>3 DEF Masked
  <2>5. Loose(s, t, f) /\ Good(t)
    BY <1>0, <1>2, <2>3, LooseThenLoose DEF Loose
  <2>6. Step(t, t, f)
    BY <1>0, StepNone
  <2>7. Step(s, t, f)
    BY <1>0, <1>2, <2>3, <2>4, <2>5, <2>6, LooseThenStep
  <2>8. s.fds[f].type # "asyn_connect" => Calm(s, t, f)
    BY <1>0, <1>2, <2>3, <2>5, LooseCalm
  <2> QED BY <1>2, <2>3, <2>5, <2>7, <2>8
<1>3. CASE ~(s.fds[f].sendlen > 0)
  <2>1. v = s /\ s.fds[f].sendlen = 0
    BY <1>0, <1>3 DEF Flushed
  <2>2. CASE Used(s, f)
    <3>1. Loose(s, s, f)
      BY DEF Loose
    <3> QED BY <1>2, <2>1, <2>2, <3>1
  <2>3. CASE ~Used(s, f)
    <3>1. t = s /\ NoOutput(t, f)
      BY <1>1, <2>1, <2>3
    <3> QED BY <1>0, <3>1, StepNone
  <2> QED BY <2>2, <2>3
<1>4. CASE s.fds[f].sendlen > 0 /\ Broken(s, f)
  <2>1. v \in Deleted(s, f)
    BY <1>4 DEF Flushed
  <2>2. Good(v) /\ Step(s, v, f) /\ ~Used(v, f) /\ Calm(s, v, f)
    BY <2>1, DeletedStep
  <2> QED BY <1>1, <2>2 DEF Used
<1>5. CASE s.fds[f].sendlen > 0 /\ ~Broken(s, f)
  <2>1. v = WriteConn(s, f) /\ s.fds[f].type = "remote"
    BY <1>0, <1>5 DEF Flushed, Fine
  <2>2. /\ SentOnly(s, v, f) /\ (v.fds[f].sendlen = 0 \/ v.sock[f].room = 0)
        /\ v.fds[f].sendlen <= s.fds[f].sendlen
    BY <2>1, WriteConnIs
  <2>3. /\ Good(v) /\ Loose(s, v, f) /\ v.fds[f].type = "remote" /\ Used(v, f)
        /\ (NoInput(s, f) => NoInput(v, f)) /\ (Roomy(s, f) => Roomy(v, f))
    BY <2>1, <2>2 DEF SentOnly, Loose, SameInput, NoInput, Roomy, Used
  <2>4. v.fds[f].sendlen \in Nat /\ v.sock[f].room \in 0..Room /\ Room \in Nat
    BY <1>0, <2>3, EntryOf
  <2>5. Bounded(s, f) => Bounded(v, f)
    BY <1>0, <2>2, <2>3, <2>4, Numbers DEF Bounded
  <2>6. CASE v.fds[f].sendlen = 0
    BY <1>2, <2>1, <2>3, <2>5, <2>6
  <2>7. CASE v.fds[f].sendlen # 0
    <3>1. t = v /\ v.sock[f].room = 0 /\ v.fds[f].sendlen > 0
      BY <2>2, <2>4, <2>7 DEF Disarmed
    <3>2. NoOutput(v, f)
      BY <3>1 DEF NoOutput
    <3>3. Masked(s, f) => Masked(v, f)
      BY <1>5, <2>1, <2>2, <2>3, <3>1 DEF Masked, SentOnly, SameInput
    <3>4. Step(v, v, f)
      BY <1>0, StepNone
    <3>5. Step(s, v, f)
      BY <1>0, <2>3, <2>5, <3>2, <3>3, <3>4, LooseThenStep
    <3>6. Calm(s, v, f)
      BY <1>0, <2>1, <2>3, LooseCalm
    <3> QED BY <2>3, <3>1, <3>2, <3>5, <3>6
  <2> QED BY <2>6, <2>7
<1> QED BY <1>3, <1>4, <1>5

------------------------------------------------------------------------------
(* Reading.                                                                 *)

\* One entry and its socket, with the descriptor's place in the queues kept.
Entry(s, f, fi, k) == [s EXCEPT !.fds[f] = fi, !.sock[f] = k]

\* A new entry and a new socket for f, which fit each other.
LEMMA EntryLoose ==
    ASSUME SizesAssumption, NEW s, Good(s), NEW f \in Fd, NEW fi \in FdInfo, NEW k \in Socket,
           Fine(f, fi, k), fi.flag = s.fds[f].flag, fi.type = "unused" <=> s.fds[f].type = "unused"
    PROVE  LET t == Entry(s, f, fi, k)
           IN  Loose(s, t, f) /\ Good(t) /\ t.fds[f] = fi /\ t.sock[f] = k
<1> DEFINE t == Entry(s, f, fi, k)
<1>1. s \in Table /\ s.fds \in [Fd -> FdInfo] /\ s.sock \in [Fd -> Socket]
  BY TableParts DEF Good
<1>2. t = [s EXCEPT !.fds = [s.fds EXCEPT ![f] = fi], !.sock = [s.sock EXCEPT ![f] = k]]
  BY <1>1 DEF Entry, Table
<1>3. [s.fds EXCEPT ![f] = fi] \in [Fd -> FdInfo] /\ [s.sock EXCEPT ![f] = k] \in [Fd -> Socket]
  BY <1>1
<1> HIDE DEF t
<1>4. /\ t \in Table /\ t.fds = [s.fds EXCEPT ![f] = fi] /\ t.sock = [s.sock EXCEPT ![f] = k]
      /\ t.close_head = s.close_head /\ t.etin_head = s.etin_head /\ t.maxfd = s.maxfd
      /\ t.owed = s.owed /\ t.lied = s.lied /\ t.lost = s.lost
  BY <1>1, <1>2, <1>3 DEF Table
<1>5. Good(t)
  BY <1>4, GoodTouch
<1>6. /\ t.fds[f] = fi /\ t.sock[f] = k
      /\ \A g \in Fd \ {f} : t.fds[g] = s.fds[g] /\ t.sock[g] = s.sock[g]
  BY <1>1, <1>4
<1> QED BY <1>4, <1>5, <1>6 DEF Loose, t

\* A descriptor put on a queue or taken off one.
FlagOnly(s, t, f) ==
    /\ Loose(s, t, f) /\ t.sock = s.sock /\ t.fds[f].type = s.fds[f].type
    /\ t.fds[f].sendlen = s.fds[f].sendlen /\ t.fds[f].mask = s.fds[f].mask
    /\ t.fds[f].recvlen = s.fds[f].recvlen /\ t.fds[f].rcvprotlen = s.fds[f].rcvprotlen

Queued(s, f, flag, ch, eh) ==
    [s EXCEPT !.fds[f].flag = flag, !.close_head = ch, !.etin_head = eh]

\* The flag and the queues may be those of f in s.
QueueFor(s, f, flag, ch, eh) ==
    /\ flag \in {{}, {"CLOSE"}, {"POLLIN"}}
    /\ flag # {} => s.fds[f].type \in {"remote", "listen"}
    /\ "CLOSE" \in flag => s.fds[f].type = "remote"
    /\ ch \in Seq(Fd) /\ eh \in Seq(Fd) /\ Once(ch) /\ Once(eh)
    /\ OnQueue(ch, f) <=> "CLOSE" \in flag
    /\ OnQueue(eh, f) <=> "POLLIN" \in flag
    /\ \A g \in Fd \ {f} : /\ OnQueue(ch, g) <=> OnQueue(s.close_head, g)
                           /\ OnQueue(eh, g) <=> OnQueue(s.etin_head, g)

\* A new flag for f with the queues that agree with it.
LEMMA QueuedIs ==
    ASSUME SizesAssumption, NEW s, Good(s), NEW f \in Fd, NEW flag, NEW ch, NEW eh,
           QueueFor(s, f, flag, ch, eh), NEW t, t = Queued(s, f, flag, ch, eh)
    PROVE  FlagOnly(s, t, f) /\ Good(t) /\ t.fds[f].flag = flag
<1> DEFINE fi == [s.fds[f] EXCEPT !.flag = flag]
<1>1. s \in Table /\ s.fds \in [Fd -> FdInfo] /\ s.sock \in [Fd -> Socket]
  BY TableParts DEF Good
<1>2. s.fds[f] \in FdInfo /\ s.sock[f] \in Socket /\ Fine(f, s.fds[f], s.sock[f])
  BY EntryOf
<1>3. /\ fi \in FdInfo /\ fi.flag = flag /\ fi.type = s.fds[f].type
      /\ fi.sendlen = s.fds[f].sendlen /\ fi.mask = s.fds[f].mask
      /\ fi.recvlen = s.fds[f].recvlen /\ fi.rcvprotlen = s.fds[f].rcvprotlen
  <2>1. flag \in SUBSET {"CLOSE", "POLLIN"}
    BY DEF QueueFor
  <2> QED BY <1>2, <2>1 DEF FdInfo
<1> HIDE DEF fi
<1>4. t = [s EXCEPT !.fds = [s.fds EXCEPT ![f] = fi], !.close_head = ch, !.etin_head = eh]
  BY <1>1 DEF Table, fi, Queued
<1>5. [s.fds EXCEPT ![f] = fi] \in [Fd -> FdInfo]
  BY <1>1, <1>3
<1>6. /\ t \in Table /\ t.fds = [s.fds EXCEPT ![f] = fi] /\ t.sock = s.sock
      /\ t.close_head = ch /\ t.etin_head = eh /\ t.maxfd = s.maxfd
      /\ t.owed = s.owed /\ t.lied = s.lied /\ t.lost = s.lost
  BY <1>1, <1>4, <1>5 DEF Table, QueueFor
<1>7. t.fds[f] = fi /\ \A g \in Fd \ {f} : t.fds[g] = s.fds[g]
  BY <1>1, <1>6
<1>8. QueuesFine(t)
  <2>1. QueuesFine(s)
    BY DEF Good
  <2>2. \A g \in Fd : /\ OnQueue(ch, g) <=> "CLOSE" \in t.fds[g].flag
                      /\ OnQueue(eh, g) <=> "POLLIN" \in t.fds[g].flag
    BY <1>3, <1>7, <2>1 DEF QueuesFine, QueueFor
  <2> QED BY <1>6, <2>2 DEF QueuesFine, QueueFor
<1>9. MaxFine(t)
  <2>1. MaxFine(s) /\ s.maxfd \in Fd
    BY TableParts DEF Good
  <2>2. \A g \in Fd : Used(t, g) <=> Used(s, g)
    BY <1>3, <1>7 DEF Used
  <2> QED BY <1>6, <2>1, <2>2 DEF MaxFine
<1>10. \A g \in Fd : Fine(g, t.fds[g], t.sock[g])
  <2>1. Fine(f, fi, s.sock[f])
    BY <1>2, <1>3 DEF Fine, QueueFor
  <2> QED BY <1>6, <1>7, <2>1 DEF Good
<1>11. Good(t)
  BY <1>6, <1>8, <1>9, <1>10 DEF Good
<1> QED BY <1>3, <1>6, <1>7, <1>11 DEF FlagOnly, Loose

\* The flag of f says on which queue f is.
LEMMA FlagsAgree ==
    ASSUME SizesAssumption, NEW s, Good(s), NEW f \in Fd
    PROVE  /\ s.close_head \in Seq(Fd) /\ s.etin_head \in Seq(Fd)
           /\ Once(s.close_head) /\ Once(s.etin_head)
           /\ OnQueue(s.close_head, f) <=> "CLOSE" \in s.fds[f].flag
           /\ OnQueue(s.etin_head, f) <=> "POLLIN" \in s.fds[f].flag
  BY TableParts DEF Good, QueuesFine

\* Nothing happening changes no more than the flag.
LEMMA FlagSame ==
    ASSUME NEW s, Good(s), NEW f
    PROVE  FlagOnly(s, s, f)
  BY DEF FlagOnly, Loose

\* del_from_etin_queue takes off the queue what is on it.
LEMMA DelFromEtinIs ==
    ASSUME SizesAssumption, NEW s, Good(s), NEW f \in Fd
    PROVE  LET t == DelFromEtin(s, f)
           IN  FlagOnly(s, t, f) /\ Good(t) /\ t.fds[f].flag = s.fds[f].flag \ {"POLLIN"}
<1> DEFINE t == DelFromEtin(s, f)
<1> SUFFICES FlagOnly(s, t, f) /\ Good(t) /\ t.fds[f].flag = s.fds[f].flag \ {"POLLIN"}
  OBVIOUS
<1>1. CASE "POLLIN" \notin s.fds[f].flag
  <2>1. t = s
    BY <1>1 DEF DelFromEtin
  <2>2. s.fds[f].flag = s.fds[f].flag \ {"POLLIN"}
    BY <1>1, FlagOf
  <2> QED BY <2>1, <2>2, FlagSame
<1>2. CASE "POLLIN" \in s.fds[f].flag
  <2> DEFINE eh == Without(s.etin_head, f)
  <2>1. s.fds[f].flag = {"POLLIN"} /\ s.fds[f].flag \ {"POLLIN"} = {}
    BY <1>2, FlagOf
  <2>2. t = [s EXCEPT !.fds[f].flag = @ \ {"POLLIN"}, !.etin_head = eh]
    BY <1>2 DEF DelFromEtin
  <2>3. t = Queued(s, f, {}, s.close_head, eh)
    <3>1. s \in Table /\ s.fds \in [Fd -> FdInfo] /\ s.fds[f] \in FdInfo
      BY TableParts DEF Good
    <3> HIDE DEF eh, t
    <3> QED BY <2>1, <2>2, <3>1 DEF Table, FdInfo, Queued
  <2>4. eh \in Seq(Fd) /\ Once(eh) /\ ~OnQueue(eh, f)
        /\ \A g \in Fd \ {f} : OnQueue(eh, g) <=> OnQueue(s.etin_head, g)
    BY <1>2, FlagsAgree, WithoutOf
  <2> HIDE DEF eh, t
  <2>5. QueueFor(s, f, {}, s.close_head, eh)
    BY <2>1, <2>4, FlagsAgree DEF QueueFor
  <2>6. FlagOnly(s, t, f) /\ Good(t) /\ t.fds[f].flag = {}
    BY <2>3, <2>5, QueuedIs
  <2> QED BY <2>1, <2>6
<1> QED BY <1>1, <1>2

\* add_to_etin_queue leaves f on one of the queues.
LEMMA AddToEtinIs ==
    ASSUME SizesAssumption, NEW s, Good(s), NEW f \in Fd, s.fds[f].type \in {"remote", "listen"}
    PROVE  LET t == AddToEtin(s, f)
           IN  FlagOnly(s, t, f) /\ Good(t) /\ t.fds[f].flag # {}
<1> DEFINE t == AddToEtin(s, f)
<1> SUFFICES FlagOnly(s, t, f) /\ Good(t) /\ t.fds[f].flag # {}
  OBVIOUS
<1>1. CASE s.fds[f].flag # {}
  <2>1. t = s
    BY <1>1 DEF AddToEtin
  <2> QED BY <1>1, <2>1, FlagSame
<1>2. CASE s.fds[f].flag = {}
  <2> DEFINE eh == Append(s.etin_head, f)
  <2>1. t = Queued(s, f, {"POLLIN"}, s.close_head, eh)
    <3>1. s \in Table
      BY DEF Good
    <3>2. t = [s EXCEPT !.fds[f].flag = {"POLLIN"}, !.etin_head = eh]
      BY <1>2 DEF AddToEtin
    <3> HIDE DEF eh, t
    <3> QED BY <3>1, <3>2 DEF Table, Queued
  <2>2. ~OnQueue(s.close_head, f) /\ ~OnQueue(s.etin_head, f)
    BY <1>2, FlagsAgree
  <2>3. eh \in Seq(Fd) /\ Once(eh) /\ OnQueue(eh, f)
        /\ \A g \in Fd \ {f} : OnQueue(eh, g) <=> OnQueue(s.etin_head, g)
    BY <2>2, FlagsAgree, AppendOf
  <2> HIDE DEF eh, t
  <2>4. QueueFor(s, f, {"POLLIN"}, s.close_head, eh)
    BY <2>2, <2>3, FlagsAgree DEF QueueFor
  <2>5. FlagOnly(s, t, f) /\ Good(t) /\ t.fds[f].flag = {"POLLIN"}
    BY <2>1, <2>4, QueuedIs
  <2> QED BY <2>5
<1> QED BY <1>1, <1>2

\* add_to_close_queue leaves f on the close queue.
LEMMA AddToCloseIs ==
    ASSUME SizesAssumption, NEW s, Good(s), NEW f \in Fd, s.fds[f].type = "remote"
    PROVE  LET t == AddToClose(s, f)
           IN  FlagOnly(s, t, f) /\ Good(t) /\ t.fds[f].flag # {}
<1> DEFINE u == DelFromEtin(s, f)  t == AddToClose(s, f)
<1> SUFFICES FlagOnly(s, t, f) /\ Good(t) /\ t.fds[f].flag # {}
  OBVIOUS
<1>1. FlagOnly(s, u, f) /\ Good(u) /\ u.fds[f].flag = s.fds[f].flag \ {"POLLIN"}
  BY DelFromEtinIs
<1>2. t = IF "CLOSE" \in u.fds[f].flag THEN u
          ELSE [u EXCEPT !.fds[f].flag = @ \cup {"CLOSE"}, !.close_head = Append(@, f)]
  BY DEF AddToClose
<1> HIDE DEF u
<1>3. CASE "CLOSE" \in u.fds[f].flag
  BY <1>1, <1>2, <1>3
<1>4. CASE "CLOSE" \notin u.fds[f].flag
  <2> DEFINE ch == Append(u.close_head, f)
  <2>1. u.fds[f].flag = {} /\ u.fds[f].flag \cup {"CLOSE"} = {"CLOSE"}
    BY <1>1, <1>4, FlagOf
  <2>2. t = Queued(u, f, {"CLOSE"}, ch, u.etin_head)
    <3>1. u \in Table /\ u.fds \in [Fd -> FdInfo] /\ u.fds[f] \in FdInfo
      BY <1>1, TableParts DEF Good
    <3>2. t = [u EXCEPT !.fds[f].flag = @ \cup {"CLOSE"}, !.close_head = ch]
      BY <1>2, <1>4
    <3> HIDE DEF ch, t
    <3> QED BY <2>1, <3>1, <3>2 DEF Table, FdInfo, Queued
  <2>3. ~OnQueue(u.close_head, f) /\ ~OnQueue(u.etin_head, f)
    BY <1>1, <2>1, FlagsAgree
  <2>4. ch \in Seq(Fd) /\ Once(ch) /\ OnQueue(ch, f)
        /\ \A g \in Fd \ {f} : OnQueue(ch, g) <=> OnQueue(u.close_head, g)
    BY <1>1, <2>3, FlagsAgree, AppendOf
  <2>5. u.fds[f].type = "remote"
    BY <1>1 DEF FlagOnly
  <2> HIDE DEF ch, t
  <2>6. QueueFor(u, f, {"CLOSE"}, ch, u.etin_head)
    BY <1>1, <2>3, <2>4, <2>5, FlagsAgree DEF QueueFor
  <2>7. FlagOnly(u, t, f) /\ Good(t) /\ t.fds[f].flag = {"CLOSE"}
    BY <1>1, <2>2, <2>6, QueuedIs
  <2>8. FlagOnly(s, t, f)
    BY <1>1, <2>7 DEF FlagOnly, Loose
  <2> QED BY <2>7, <2>8
<1> QED BY <1>3, <1>4

\* On a queue, what is to be read is not forgotten; off it, if there is nothing.
LEMMA FlagStep ==
    ASSUME SizesAssumption, NEW s, Good(s), NEW f \in Fd, NEW t, FlagOnly(s, t, f), Good(t),
           t.fds[f].flag # {} \/ NoInput(t, f)
    PROVE  Step(s, t, f) /\ Calm(s, t, f)
<1>1. NoInput(t, f)
  BY DEF NoInput
<1>2. NoOutput(s, f) => NoOutput(t, f)
  BY DEF NoOutput, FlagOnly
<1>3. /\ (Roomy(s, f) => Roomy(t, f)) /\ (Masked(s, f) => Masked(t, f))
      /\ (Bounded(s, f) => Bounded(t, f))
  BY DEF Roomy, Masked, Bounded, FlagOnly, Used
<1>4. Step(t, t, f) /\ Loose(s, t, f)
  BY StepNone DEF FlagOnly
<1>5. Step(s, t, f)
  BY <1>1, <1>2, <1>3, <1>4, LooseThenStep
<1>6. Calm(s, t, f)
  BY <1>4, LooseCalm DEF FlagOnly
<1> QED BY <1>5, <1>6

\* What has been received: everything, unless the buffer is full.
LEMMA ReceiveIs ==
    ASSUME SizesAssumption, NEW s, Good(s), NEW f \in Conn, s.fds[f].type = "remote"
    PROVE  LET t == Receive(s, f)
           IN  /\ Loose(s, t, f) /\ Good(t) /\ t.fds[f].type = "remote"
               /\ t.fds[f].sendlen = s.fds[f].sendlen /\ t.fds[f].mask = s.fds[f].mask
               /\ t.sock[f].room = s.sock[f].room /\ t.sock[f].ready = s.sock[f].ready
               /\ (Full(t, f) \/ t.sock[f].rx = 0)
<1> DEFINE n == Least(s.sock[f].rx, page_size - s.fds[f].recvlen)
           t == Receive(s, f)
           Goal == /\ Loose(s, t, f) /\ Good(t) /\ t.fds[f].type = "remote"
                   /\ t.fds[f].sendlen = s.fds[f].sendlen /\ t.fds[f].mask = s.fds[f].mask
                   /\ t.sock[f].room = s.sock[f].room /\ t.sock[f].ready = s.sock[f].ready
                   /\ (Full(t, f) \/ t.sock[f].rx = 0)
<1> SUFFICES Goal
  OBVIOUS
<1>1. f \in Fd /\ f # Listen
  BY Numbers
<1>2. /\ s.fds[f] \in FdInfo /\ s.sock[f] \in Socket /\ Fine(f, s.fds[f], s.sock[f])
      /\ s.fds[f].recvlen \in 0..page_size /\ s.sock[f].rx \in Nat /\ page_size \in Nat
  BY <1>1, EntryOf
<1>3. s \in Table /\ s.fds \in [Fd -> FdInfo] /\ s.sock \in [Fd -> Socket]
  BY TableParts DEF Good
<1>4. /\ n \in Nat /\ n <= s.sock[f].rx /\ s.fds[f].recvlen + n \in 0..page_size
      /\ s.sock[f].rx - n \in Nat /\ (s.fds[f].recvlen + n = page_size \/ s.sock[f].rx - n = 0)
  BY <1>2 DEF Least
<1>5. CASE n > 0
  <2> DEFINE len == s.fds[f].recvlen + n
             rx == s.sock[f].rx - n
             fi == [s.fds[f] EXCEPT !.recvlen = len, !.idle = FALSE]
             k  == [s.sock[f] EXCEPT !.rx = rx]
  <2>1. t = Entry(s, f, fi, k)
    <3>1. t = [s EXCEPT !.sock[f].rx = @ - n, !.fds[f] = fi]
      BY <1>5 DEF Receive
    <3>2. [s.sock[f] EXCEPT !.rx = @ - n] = k
      OBVIOUS
    <3> HIDE DEF n, fi, k, t
    <3> QED BY <1>3, <3>1, <3>2 DEF Entry, Table
  <2> HIDE DEF t
  <2>2. /\ fi \in FdInfo /\ k \in Socket /\ fi.type = s.fds[f].type /\ fi.flag = s.fds[f].flag
        /\ fi.mask = s.fds[f].mask /\ fi.sendlen = s.fds[f].sendlen /\ fi.recvlen = len
        /\ k.room = s.sock[f].room /\ k.ready = s.sock[f].ready /\ k.rx = rx
        /\ k.st = s.sock[f].st /\ k.end = s.sock[f].end
    <3>1. len \in 0..page_size /\ rx \in Nat
      BY <1>4
    <3> HIDE DEF len, rx
    <3> QED BY <1>2, <3>1 DEF FdInfo, Socket
  <2> HIDE DEF fi, k
  <2>3. Fine(f, fi, k)
    <3>1. s.sock[f].rx = 0 => k.rx = 0
      BY <1>2, <1>4, <2>2
    <3> QED BY <1>1, <1>2, <2>2, <3>1 DEF Fine
  <2>4. Loose(s, t, f) /\ Good(t) /\ t.fds[f] = fi /\ t.sock[f] = k
    BY <1>1, <2>1, <2>2, <2>3, EntryLoose
  <2> QED BY <1>4, <2>2, <2>4 DEF Full
<1>6. CASE ~(n > 0)
  <2>0. n = 0 /\ (s.fds[f].recvlen = page_size \/ s.sock[f].rx = 0)
    BY <1>4, <1>6, <1>2
  <2>1. CASE s.sock[f].end = "rst"
    <3> DEFINE k == [s.sock[f] EXCEPT !.end = "gone"]
    <3>1. t = [s EXCEPT !.sock[f].end = "gone"]
      BY <1>6, <2>1 DEF Receive
    <3>2. t = Entry(s, f, s.fds[f], k)
      <4>1. [s.fds EXCEPT ![f] = s.fds[f]] = s.fds
        BY <1>3
      <4> HIDE DEF t
      <4> QED BY <1>3, <3>1, <4>1 DEF Entry, Table
    <3> HIDE DEF t
    <3>3. /\ k \in Socket /\ k.room = s.sock[f].room /\ k.ready = s.sock[f].ready
          /\ k.rx = s.sock[f].rx /\ k.st = s.sock[f].st
      BY <1>2 DEF Socket
    <3> HIDE DEF k
    <3>4. Fine(f, s.fds[f], k)
      BY <1>1, <1>2, <2>1, <3>3 DEF Fine
    <3>5. Loose(s, t, f) /\ Good(t) /\ t.fds[f] = s.fds[f] /\ t.sock[f] = k
      BY <1>1, <1>2, <3>2, <3>3, <3>4, EntryLoose
    <3> QED BY <2>0, <3>3, <3>5 DEF Full
  <2>2. CASE s.sock[f].end # "rst"
    <3>1. t = s
      BY <1>6, <2>2 DEF Receive
    <3> HIDE DEF t
    <3> QED BY <2>0, <3>1 DEF Full, Loose
  <2> QED BY <2>1, <2>2
<1> QED BY <1>5, <1>6

\* After recv, nothing to be read is forgotten: the buffer is full, and the
\* descriptor on a queue, or the kernel has no more.
LEMMA ReceiveStep ==
    ASSUME SizesAssumption, NEW s, Good(s), NEW f \in Conn, s.fds[f].type = "remote"
    PROVE  LET t == Requeued(Receive(s, f), f)
           IN  /\ Loose(s, t, f) /\ Good(t) /\ t.fds[f].type = "remote"
               /\ NoInput(t, f) /\ (NoOutput(s, f) => NoOutput(t, f))
               /\ (Masked(s, f) => Masked(t, f)) /\ (Bounded(s, f) => Bounded(t, f))
               /\ Calm(s, t, f)
<1> DEFINE u == Receive(s, f)  t == Requeued(u, f)
<1>1. f \in Fd
  BY Numbers
<1>2. /\ Loose(s, u, f) /\ Good(u) /\ u.fds[f].type = "remote"
      /\ u.fds[f].sendlen = s.fds[f].sendlen /\ u.fds[f].mask = s.fds[f].mask
      /\ u.sock[f].room = s.sock[f].room /\ u.sock[f].ready = s.sock[f].ready
      /\ (Full(u, f) \/ u.sock[f].rx = 0)
  BY ReceiveIs
<1> HIDE DEF u
<1>3. FlagOnly(u, t, f) /\ Good(t) /\ NoInput(t, f)
  <2>1. CASE Full(u, f)
    <3>1. t = AddToEtin(u, f)
      BY <2>1 DEF Requeued
    <3> HIDE DEF t
    <3>2. FlagOnly(u, t, f) /\ Good(t) /\ t.fds[f].flag # {}
      BY <1>1, <1>2, <3>1, AddToEtinIs
    <3> QED BY <3>2 DEF NoInput
  <2>2. CASE ~Full(u, f)
    <3>1. t = DelFromEtin(u, f)
      BY <2>2 DEF Requeued
    <3> HIDE DEF t
    <3>2. FlagOnly(u, t, f) /\ Good(t)
      BY <1>1, <1>2, <3>1, DelFromEtinIs
    <3> QED BY <1>2, <2>2, <3>2 DEF NoInput, FlagOnly
  <2> QED BY <2>1, <2>2
<1> HIDE DEF t
<1>4. Loose(s, t, f) /\ t.fds[f].type = "remote"
  BY <1>1, <1>2, <1>3, LooseThenLoose DEF FlagOnly
<1>5. /\ (NoOutput(s, f) => NoOutput(t, f))
      /\ (Masked(s, f) => Masked(t, f)) /\ (Bounded(s, f) => Bounded(t, f))
  BY <1>2, <1>3 DEF FlagOnly, NoOutput, Masked, Bounded
<1>6. Calm(s, t, f)
  BY <1>1, <1>4, LooseCalm
<1> QED BY <1>3, <1>4, <1>5, <1>6 DEF t, u

------------------------------------------------------------------------------
(* What an action may do to the table.                                      *)

\* Nobody has to come back to a descriptor on account of the change, but for
\* the buffer of f; the others keep type, flags and, unless it ends, their connect.
KeptBut(s, t, f) ==
    \A g \in Fd : /\ NoInput(s, g) => NoInput(t, g)
                  /\ NoOutput(s, g) => NoOutput(t, g)
                  /\ Masked(s, g) => Masked(t, g)
                  /\ Bounded(s, g) => Bounded(t, g)
                  /\ g # f => (Roomy(s, g) => Roomy(t, g))

Held(s, t, f) ==
    \A g \in Fd \ {f} : Used(s, g) =>
        /\ t.fds[g].type = s.fds[g].type /\ t.fds[g].flag = s.fds[g].flag
        /\ t.sock[g].st = "connecting" => s.sock[g].st = "connecting"

Moved(s, t, f) ==
    /\ Good(t) /\ KeptBut(s, t, f) /\ t.lost = s.lost
    /\ t.fds[Listen].type = s.fds[Listen].type
    /\ tame => /\ Held(s, t, f) /\ t.lied = s.lied
               /\ OwedFine(s) => OwedFine(t)

\* Two actions for f are one.
LEMMA MovedTwice ==
    ASSUME NEW s, NEW t, NEW u, NEW f \in Fd, Moved(s, t, f), Moved(t, u, f)
    PROVE  Moved(s, u, f)
<1>1. KeptBut(s, u, f)
  BY DEF Moved, KeptBut
<1>2. Held(s, t, f) /\ Held(t, u, f) => Held(s, u, f)
  BY DEF Held, Used
<1> QED BY <1>1, <1>2 DEF Moved

\* No action at all.
LEMMA MovedNone ==
    ASSUME NEW s, NEW f, Good(s)
    PROVE  Moved(s, s, f)
  BY DEF Moved, KeptBut, Held

\* By a step of a table ...
LEMMA MovedStep ==
    ASSUME SizesAssumption, NEW s, NEW t, NEW f \in Conn, Good(s), Step(s, t, f),
           tame /\ OwedFine(s) => OwedFine(t)
    PROVE  Moved(s, t, f)
<1>1. Used(s, Listen) /\ Listen \in Fd \ {f}
  BY Numbers DEF Good, Fine, Used
<1>2. Apart(s, t, f) /\ Kept(s, t) /\ Good(t) /\ t.lied = s.lied /\ t.lost = s.lost
  BY DEF Step
<1>3. t.fds[Listen].type = s.fds[Listen].type
  BY <1>1, <1>2 DEF Apart
<1>4. Held(s, t, f)
  BY <1>2 DEF Apart, Held
<1>5. KeptBut(s, t, f)
  BY <1>2 DEF Kept, KeptBut
<1> QED BY <1>2, <1>3, <1>4, <1>5 DEF Moved

\* ... by several, of any descriptors, when nobody relies on the others ...
LEMMA MovedWild ==
    ASSUME NEW s, NEW t, NEW f, ~tame, Good(t), Kept(s, t), t.lost = s.lost,
           t.fds[Listen].type = s.fds[Listen].type
    PROVE  Moved(s, t, f)
  BY DEF Moved, Kept, KeptBut

\* ... or by a change of f alone.
LEMMA MovedLoose ==
    ASSUME SizesAssumption, NEW s, NEW t, NEW f \in Fd, Good(s), Loose(s, t, f),
           NoInput(s, f) => NoInput(t, f), NoOutput(s, f) => NoOutput(t, f),
           Masked(s, f) => Masked(t, f), Bounded(s, f) => Bounded(t, f),
           tame => s.fds[f].type # "asyn_connect" /\ t.fds[f].type # "asyn_connect",
           f = Listen => t.fds[f].type = s.fds[f].type
    PROVE  Moved(s, t, f)
<1>1. KeptBut(s, t, f)
  BY DEF Loose, KeptBut, NoInput, NoOutput, Masked, Bounded, Roomy, Used
<1>2. Held(s, t, f)
  BY DEF Loose, Held
<1>3. t.fds[Listen].type = s.fds[Listen].type
  BY Numbers DEF Loose
<1>4. tame => (OwedFine(s) => OwedFine(t))
  BY LooseCalm DEF Calm
<1> QED BY <1>1, <1>2, <1>3, <1>4 DEF Moved, Loose

\* The lengths of a buffer.
Buffered(s, f, a, b) == [s EXCEPT !.fds[f] = [s.fds[f] EXCEPT !.recvlen = a, !.rcvprotlen = b]]

\* New lengths for the buffer of f.
LEMMA BufferIs ==
    ASSUME SizesAssumption, NEW s, Good(s), NEW f \in Conn, Used(s, f),
           NEW a \in 0..page_size, NEW b \in 0..page_size, NEW t,
           t = Buffered(s, f, a, b),
           tame => s.fds[f].type # "asyn_connect"
    PROVE  /\ Good(t) /\ Moved(s, t, f) /\ t.fds[f].type = s.fds[f].type
           /\ t.fds[f].recvlen = a /\ t.fds[f].rcvprotlen = b
<1> DEFINE fi == [s.fds[f] EXCEPT !.recvlen = a, !.rcvprotlen = b]
<1>1. f \in Fd /\ f # Listen
  BY Numbers
<1>2. /\ s.fds[f] \in FdInfo /\ s.sock[f] \in Socket /\ Fine(f, s.fds[f], s.sock[f])
      /\ s \in Table /\ s.fds \in [Fd -> FdInfo] /\ s.sock \in [Fd -> Socket]
  BY <1>1, EntryOf, TableParts DEF Good
<1>3. /\ fi \in FdInfo /\ fi.type = s.fds[f].type /\ fi.flag = s.fds[f].flag
      /\ fi.mask = s.fds[f].mask /\ fi.sendlen = s.fds[f].sendlen
      /\ fi.recvlen = a /\ fi.rcvprotlen = b
  BY <1>2 DEF FdInfo
<1>4. t = [s EXCEPT !.fds[f] = fi]
  BY DEF Buffered
<1> HIDE DEF fi
<1>5. t = Entry(s, f, fi, s.sock[f])
  <2>1. [s.sock EXCEPT ![f] = s.sock[f]] = s.sock
    BY <1>2
  <2> QED BY <1>2, <1>4, <2>1 DEF Entry, Table
<1>6. Fine(f, fi, s.sock[f])
  BY <1>2, <1>3 DEF Fine
<1>7. Loose(s, t, f) /\ Good(t) /\ t.fds[f] = fi /\ t.sock[f] = s.sock[f]
  <2> DEFINE k == s.sock[f]  u == Entry(s, f, fi, k)
  <2>1. k \in Socket /\ Fine(f, fi, k) /\ t = u
    BY <1>2, <1>5, <1>6
  <2> HIDE DEF k
  <2>2. Loose(s, u, f) /\ Good(u) /\ u.fds[f] = fi /\ u.sock[f] = k
    BY ONLY <1>1, <1>3, <2>1, EntryLoose, SizesAssumption, Good(s)
  <2> HIDE DEF u
  <2> QED BY <2>1, <2>2 DEF k
<1>8. /\ (NoInput(s, f) => NoInput(t, f)) /\ (NoOutput(s, f) => NoOutput(t, f))
      /\ (Masked(s, f) => Masked(t, f)) /\ (Bounded(s, f) => Bounded(t, f))
  BY <1>3, <1>7 DEF NoInput, NoOutput, Masked, Bounded
<1>9. Moved(s, t, f)
  BY <1>1, <1>3, <1>7, <1>8, MovedLoose
<1> QED BY <1>3, <1>7, <1>9

\* There is nothing to come back for at a number that is not in use.
LEMMA Gone ==
    ASSUME SizesAssumption, NEW s, Good(s), NEW f \in Fd, ~Used(s, f)
    PROVE  NoInput(s, f) /\ NoOutput(s, f) /\ Roomy(s, f) /\ s.fds[f].type = "unused"
  BY DEF NoInput, NoOutput, Roomy, Used

\* do_del_conn with its callback, for f.
LEMMA DeletedMoved ==
    ASSUME SizesAssumption, NEW s, Good(s), NEW f \in Conn,
           tame => s.fds[f].type # "asyn_connect", NEW t \in Deleted(s, f)
    PROVE  Good(t) /\ Moved(s, t, f) /\ ~Used(t, f)
<1>1. Good(t) /\ Step(s, t, f) /\ ~Used(t, f) /\ Calm(s, t, f)
  BY DeletedStep
<1>2. tame /\ OwedFine(s) => OwedFine(t)
  BY <1>1 DEF Calm
<1> QED BY <1>1, <1>2, MovedStep

\* net_send, for f.
LEMMA NetSendMoved ==
    ASSUME SizesAssumption, NEW s, Good(s), NEW f \in Conn, s.fds[f].type = "remote",
           Bounded(s, f), NEW n \in Nat, NEW t \in NetSend(s, f, n)
    PROVE  Good(t) /\ Moved(s, t, f)
<1>1. Good(t) /\ Step(s, t, f) /\ Calm(s, t, f)
  BY NetSendStep
<1>2. OwedFine(s) => OwedFine(t)
  BY <1>1 DEF Calm
<1> QED BY <1>1, <1>2, MovedStep

\* close_svr, for f.
LEMMA CloseSvrMoved ==
    ASSUME SizesAssumption, NEW s, Good(s), NEW f \in Conn
    PROVE  LET t == CloseSvr(s, f)
           IN  Good(t) /\ Moved(s, t, f) /\ ~Used(t, f)
  BY CloseSvrStep, MovedStep

\* The type of what has number 0 does not change with the rest.
LEMMA ListenSame ==
    ASSUME SizesAssumption, NEW s, Good(s), NEW t, NEW f \in Conn, Step(s, t, f)
    PROVE  t.fds[Listen].type = s.fds[Listen].type
<1>1. Used(s, Listen) /\ Listen \in Fd \ {f}
  BY Numbers DEF Good, Fine, Used
<1> QED BY <1>1 DEF Step, Apart

\* proc_pkg_from_serv: what the connection's number stands for afterwards.
LEMMA InPackageStep ==
    ASSUME SizesAssumption, NEW s, Good(s), NEW f \in Conn, s.fds[f].type = "remote",
           Bounded(s, f), ~is_parent, NEW t \in InPackage(s, f)
    PROVE  /\ Good(t) /\ Moved(s, t, f)
           /\ \/ ~Used(t, f)
              \/ /\ t.fds[f].type = "remote" /\ t.fds[f].recvlen = s.fds[f].recvlen
                 /\ t.fds[f].rcvprotlen = s.fds[f].rcvprotlen
              \/ ~tame /\ Used(t, f) /\ t.fds[f].recvlen = 0 /\ t.fds[f].rcvprotlen = 0
<1>0. f \in Fd /\ Used(s, f)
  BY Numbers DEF Used
<1>1. CASE t = s
  BY <1>0, <1>1, MovedNone
<1>2. CASE t = CloseSvr(s, f)
  BY <1>2, CloseSvrMoved
<1>3. CASE t \in NetSend(s, f, 1)
  <2>1. Good(t) /\ Moved(s, t, f)
    BY <1>3, NetSendMoved
  <2>2. Used(t, f) => /\ t.fds[f].type = "remote" /\ t.fds[f].recvlen = s.fds[f].recvlen
                      /\ t.fds[f].rcvprotlen = s.fds[f].rcvprotlen
    BY <1>3, NetSendStep
  <2> QED BY <2>1, <2>2
<1>4. ASSUME ~tame, NEW g \in Conn, t = CloseSvr(s, g), g # f
      PROVE  Good(t) /\ Moved(s, t, f) /\ t.fds[f] = s.fds[f]
  <2>1. Good(t) /\ Step(s, t, g)
    BY <1>4, CloseSvrStep
  <2>2. t.fds[Listen].type = s.fds[Listen].type
    BY <2>1, ListenSame
  <2>3. Kept(s, t) /\ t.lost = s.lost /\ t.fds[f] = s.fds[f]
    BY <1>0, <1>4, <2>1 DEF Step, Apart
  <2> QED BY <1>4, <2>1, <2>2, <2>3, MovedWild
<1>5. CASE ~tame /\ t = AsynConnect(CloseSvr(s, f))
  <2> DEFINE u == CloseSvr(s, f)
  <2>1. Good(u) /\ Step(s, u, f) /\ ~Used(u, f)
    BY CloseSvrStep
  <2> HIDE DEF u
  <2>2. t = AsynConnect(u)
    BY <1>5 DEF u
  <2>3. /\ Good(t) /\ Step(u, t, f)
        /\ Used(t, f) => t.fds[f].recvlen = 0 /\ t.fds[f].rcvprotlen = 0
    BY <1>0, <2>1, <2>2, AsynConnectStep
  <2>4. Step(s, t, f)
    BY <1>0, <2>1, <2>3, StepTwice
  <2>5. t.fds[Listen].type = s.fds[Listen].type
    BY <2>4, ListenSame
  <2>6. Moved(s, t, f)
    BY <1>5, <2>3, <2>4, <2>5, MovedWild DEF Step
  <2> QED BY <1>5, <2>3, <2>6
<1> QED BY <1>1, <1>2, <1>3, <1>4, <1>5 DEF InPackage

\* handle_asyn_connect: afterwards there is a connection, or none.
LEMMA AsynOutcomeStep ==
    ASSUME SizesAssumption, NEW s, Good(s), NEW f \in Conn, s.fds[f].type = "asyn_connect",
           tame => s.sock[f].st # "connecting", ~is_parent
    PROVE  LET t == [AsynOutcome(s, f) EXCEPT !.owed = @ \ {f}]
           IN  /\ Good(t) /\ Moved(s, t, f) /\ NoInput(t, f) /\ NoOutput(t, f)
               /\ Roomy(s, f) => Roomy(t, f)
               /\ Used(t, f) => t.fds[f].type = "remote"
<1> DEFINE u == AsynOutcome(s, f)
           t == [u EXCEPT !.owed = u.owed \ {f}]
           Goal == /\ Good(t) /\ Moved(s, t, f) /\ NoInput(t, f) /\ NoOutput(t, f)
                   /\ Roomy(s, f) => Roomy(t, f)
                   /\ Used(t, f) => t.fds[f].type = "remote"
<1> SUFFICES Goal
  OBVIOUS
<1>1. f \in Fd /\ f # Listen
  BY Numbers
<1>2. /\ s.fds[f] \in FdInfo /\ s.sock[f] \in Socket /\ Fine(f, s.fds[f], s.sock[f])
      /\ s \in Table /\ s.fds \in [Fd -> FdInfo] /\ s.sock \in [Fd -> Socket]
      /\ s.fds[f].sendlen \in Nat
  BY <1>1, EntryOf, TableParts DEF Good
<1>3. /\ s.fds[f].sendlen = 0 /\ s.fds[f].flag = {}
      /\ s.sock[f].st \in {"connecting", "up", "failed"}
  BY <1>1, <1>2, FlagOf DEF Fine, Socket
<1>4. CASE ConnectError(s, f)
  <2>1. u = DelConn(s, f)
    BY <1>4 DEF AsynOutcome
  <2>2. t = CloseSvr(s, f)
    BY <2>1 DEF CloseSvr
  <2> HIDE DEF t
  <2>3. Good(t) /\ Moved(s, t, f) /\ ~Used(t, f)
    BY <2>2, CloseSvrMoved
  <2> QED BY <1>1, <2>3, Gone
<1>5. CASE ~ConnectError(s, f)
  <2> DEFINE lied == s.lied \/ s.sock[f].st # "up"
             fi == [s.fds[f] EXCEPT !.type = "remote"]
             gi == Asks(fi, {"IN"})
             v  == [s EXCEPT !.fds[f] = fi, !.lied = lied]
  <2>1. u = ModEvents(v, f, {"IN"})
    BY <1>5 DEF AsynOutcome
  <2>2. /\ fi \in FdInfo /\ fi.type = "remote" /\ fi.flag = {} /\ fi.sendlen = 0
        /\ fi.recvlen = s.fds[f].recvlen /\ fi.rcvprotlen = s.fds[f].rcvprotlen
    BY <1>2, <1>3 DEF FdInfo
  <2>3. /\ gi \in FdInfo /\ gi.type = "remote" /\ gi.flag = {} /\ gi.sendlen = 0
        /\ gi.recvlen = s.fds[f].recvlen /\ gi.rcvprotlen = s.fds[f].rcvprotlen
        /\ gi.mask = {"IN"}
    <3> HIDE DEF fi
    <3>1. {"IN"} \in SUBSET {"IN", "OUT"} /\ TRUE \in BOOLEAN
      OBVIOUS
    <3> QED BY <2>2, <3>1 DEF FdInfo, Asks
  <2>4. lied \in BOOLEAN /\ s.lied \in BOOLEAN
    BY <1>2 DEF Table
  <2>5. /\ v \in Table /\ v.fds = [s.fds EXCEPT ![f] = fi] /\ v.sock = s.sock
        /\ v.close_head = s.close_head /\ v.etin_head = s.etin_head /\ v.maxfd = s.maxfd
        /\ v.owed = s.owed /\ v.lied = lied /\ v.lost = s.lost
    <3>1. [s.fds EXCEPT ![f] = fi] \in [Fd -> FdInfo]
      <4> HIDE DEF fi
      <4> QED BY <1>2, <2>2
    <3> HIDE DEF fi, lied
    <3> QED BY <1>2, <2>4, <3>1 DEF Table
  <2>6. v = [s EXCEPT !.fds[f].type = "remote", !.lied = @ \/ s.sock[f].st # "up"]
    OBVIOUS
  <2> HIDE DEF v, lied, fi, u
  <2>7. v.fds[f] = fi /\ v.sock[f].st # "none"
    BY <1>1, <1>2, <1>3, <2>5
  <2>8. /\ u \in Table /\ u.close_head = v.close_head
        /\ u.etin_head = v.etin_head /\ u.maxfd = v.maxfd /\ u.owed = v.owed
        /\ u.lied = v.lied /\ u.lost = v.lost
        /\ u.fds = [v.fds EXCEPT ![f] = Asks(v.fds[f], {"IN"})]
    BY <1>1, <2>1, <2>5, <2>7, ModEventsIs
  <2> DEFINE mask == {"IN"}
  <2>9a. mask \in SUBSET {"IN", "OUT"} /\ u = ModEvents(v, f, mask) /\ "IN" \in mask
    BY <2>1
  <2> HIDE DEF mask
  <2>9. PICK b \in BOOLEAN :
           /\ u.sock = [v.sock EXCEPT ![f] = [@ EXCEPT !.ready = b]]
           /\ v.sock[f].ready => b
           /\ v.sock[f].rx > 0 /\ "IN" \in mask => b
           /\ v.sock[f].room > 0 /\ v.sock[f].st = "up" /\ "OUT" \in mask => b
    BY <1>1, <2>9a, <2>5, <2>7, ModEventsIs
  <2> DEFINE k == [s.sock[f] EXCEPT !.ready = b]
  <2>10. /\ k \in Socket /\ k.room = s.sock[f].room /\ k.st = s.sock[f].st
         /\ k.rx = s.sock[f].rx /\ k.end = s.sock[f].end /\ k.ready = b
    BY <1>2 DEF Socket
  <2>11. u.fds = [s.fds EXCEPT ![f] = gi] /\ u.sock = [s.sock EXCEPT ![f] = k]
    <3>1. u.fds = [v.fds EXCEPT ![f] = gi]
      BY <2>7, <2>8
    <3> HIDE DEF gi
    <3> QED BY <1>2, <2>5, <2>9, <3>1
  <2> HIDE DEF gi, k, t
  <2>12. /\ t \in Table /\ t.fds = u.fds /\ t.sock = u.sock /\ t.close_head = s.close_head
         /\ t.etin_head = s.etin_head /\ t.maxfd = s.maxfd /\ t.owed = s.owed \ {f}
         /\ t.lied = lied /\ t.lost = s.lost
    <3>1. u.owed \in SUBSET Conn
      BY <2>8, TableParts
    <3> QED BY <2>5, <2>8, <3>1 DEF Table, t
  <2>13. Fine(f, gi, k)
    BY <1>1, <1>2, <1>3, <2>3, <2>10 DEF Fine
  <2>14. Good(t)
    <3>1. /\ t.fds = [s.fds EXCEPT ![f] = gi] /\ t.sock = [s.sock EXCEPT ![f] = k]
          /\ gi.flag = s.fds[f].flag /\ (gi.type = "unused" <=> s.fds[f].type = "unused")
      BY <1>3, <2>3, <2>11, <2>12
    <3> QED BY ONLY <1>1, <2>3, <2>10, <2>12, <2>13, <3>1, GoodTouch, SizesAssumption, Good(s)
  <2>15. /\ t.fds[f] = gi /\ t.sock[f] = k
         /\ \A g \in Fd \ {f} : t.fds[g] = s.fds[g] /\ t.sock[g] = s.sock[g]
    BY <1>1, <1>2, <2>11, <2>12
  <2>16. NoInput(t, f) /\ NoOutput(t, f) /\ (Roomy(s, f) => Roomy(t, f)) /\ Masked(t, f)
    BY <2>3, <2>5, <2>9, <2>9a, <2>10, <2>15 DEF NoInput, NoOutput, Roomy, Masked, Used
  <2>17. KeptBut(s, t, f)
    BY <2>15, <2>16 DEF KeptBut, NoInput, NoOutput, Masked, Bounded, Roomy, Used
  <2>18. Held(s, t, f) /\ t.fds[Listen].type = s.fds[Listen].type
    BY <1>1, <2>15, Numbers DEF Held
  <2>19. tame => t.lied = s.lied
    <3>1. tame => s.sock[f].st = "up"
      BY <1>3, <1>5 DEF ConnectError
    <3> QED BY <2>4, <2>12, <3>1 DEF lied
  <2>20. OwedFine(s) => OwedFine(t)
    <3>1. s.owed \subseteq Fd
      BY <1>2, TableParts, Numbers
    <3> QED BY <2>12, <2>15, <3>1 DEF OwedFine
  <2> QED BY <2>3, <2>12, <2>14, <2>15, <2>16, <2>17, <2>18, <2>19, <2>20 DEF Moved
<1> QED BY <1>4, <1>5

------------------------------------------------------------------------------
(* The loop.                                                                *)

PcSet == {"close", "etin", "wait", "sendq", "events", "accept", "recv", "parse", "out", "broken"}

\* The type invariant, from the table and the place of the loop.
LEMMA TypeMade ==
    ASSUME SizesAssumption, TypeOK, Good(ep'), UNCHANGED <<is_parent, tame>>, pc' \in PcSet,
           it' \in Fd \cup {None},
           DOMAIN evs' \subseteq Fd, budget' = budget \/ (budget > 0 /\ budget' = budget - 1)
    PROVE  TypeOK'
<1>1. Role' = Role
  BY DEF Role
<1>2. budget' \in 0..Budget[Role]
  <2>1. budget \in 0..Budget[Role]
    BY DEF TypeOK
  <2>2. Budget[Role] \in Nat
    BY DEF Role, SizesAssumption
  <2> QED BY <2>1, <2>2
<1>3. ep' \in Table
  BY DEF Good
<1>4. /\ ep.fds' \in [Fd -> FdInfo] /\ ep.sock' \in [Fd -> Socket]
      /\ ep.close_head' \in Seq(Fd) /\ ep.etin_head' \in Seq(Fd)
      /\ ep.maxfd' \in Fd /\ ep.owed' \in SUBSET Conn
  BY <1>3, TableParts
<1> QED BY <1>1, <1>2, <1>4 DEF TypeOK, PcSet

\* Nothing is on a queue by itself: the flag that says so is on a connection or
\* the listening socket.
LEMMA OnEtin ==
    ASSUME SizesAssumption, NEW s, Good(s), NEW f \in Fd
    PROVE  /\ OnQueue(s.etin_head, f) <=> "POLLIN" \in s.fds[f].flag
           /\ OnQueue(s.etin_head, f) => s.fds[f].type \in {"remote", "listen"} /\ Used(s, f)
  BY FlagsAgree, FlagOf DEF Used

\* What is held stays on the etin queue.
LEMMA HeldEtin ==
    ASSUME SizesAssumption, NEW s, NEW t, Good(s), Good(t), NEW f \in Fd, Held(s, t, f),
           NEW g \in Fd, g # f, OnQueue(s.etin_head, g)
    PROVE  OnQueue(t.etin_head, g)
<1>1. "POLLIN" \in s.fds[g].flag /\ Used(s, g)
  BY OnEtin
<1>2. t.fds[g].flag = s.fds[g].flag
  BY <1>1 DEF Held
<1> QED BY <1>1, <1>2, OnEtin

\* An action on the table, for f: in a place where the loop stays, for the
\* connection it is at work with, or at the end of that work.
Stays(f) ==
    /\ pc' = pc /\ cur' = cur
    /\ \/ pc \in {"close", "sendq", "events"}
       \/ pc = "accept" /\ ~Used(ep, f)
Works(f) ==
    /\ pc \in {"recv", "parse", "accept"} /\ cur.fd = f /\ cur' = cur /\ evs' = evs
    /\ pc' = Back \/ (pc # "accept" /\ pc' = "parse" /\ ep'.fds[f].type = "remote")
Ends(f) == pc = "out" /\ pc' = "events" /\ cur.fd = f /\ cur' = Nothing /\ evs' = evs

\* Where the loop goes from the work with a connection.
LEMMA BackIs ==
    ASSUME PlaceInv, pc \in {"recv", "parse", "accept"}
    PROVE  /\ Back = "etin" => FromEtin /\ cur.events = {}
           /\ Back = "out" => ~FromEtin
           /\ Back \in {"etin", "out"}
  BY DEF Back, FromEtin, PlaceInv

\* An action on the table for f keeps the invariant, if f is left as nobody has to
\* come back to it or the one at work with it still will.
LEMMA WorkKept ==
    ASSUME SizesAssumption, IInv, NEW f \in Fd, Moved(ep, ep', f),
           UNCHANGED <<is_parent, tame, it>>, aborted => aborted',
           budget' = budget \/ (budget > 0 /\ budget' = budget - 1),
           Stays(f) \/ Works(f) \/ Ends(f),
           evs' = evs \/ (evs' = Rest(f) /\ pc = "events"),
           is_parent \/ f \notin DOMAIN evs',
           Roomy(ep', f) \/ pc' = "parse",
           pc = "recv" \/ evs' # evs => NoInput(ep', f),
           Works(f) /\ pc = "accept" => NoInput(ep', f) \/ aborted',
           pc = "out" \/ evs' # evs => NoOutput(ep', f),
           tame /\ pc' = "out" => ep'.fds[f].type # "asyn_connect"
    PROVE  IInv'
<1>1. /\ Good(ep) /\ Good(ep') /\ KeptBut(ep, ep', f)
      /\ ep'.lost = ep.lost /\ ep'.fds[Listen].type = ep.fds[Listen].type
      /\ None \notin Fd
  BY Numbers DEF Moved, IInv
<1>2. PlaceInv /\ BatchInv /\ WalkInv /\ InputInv /\ OutputInv /\ ConnectInv /\ TypeOK
  BY DEF IInv
<1>3. DOMAIN evs' \subseteq DOMAIN evs /\ \A g \in DOMAIN evs' : evs'[g] = evs[g]
  BY DEF Rest
<1>4. \A g \in DOMAIN evs : g \in DOMAIN evs' \/ g = f
  BY DEF Rest
<1>5. Back \in {"etin", "out"} /\ pc' \in PcSet /\ pc # "broken" /\ pc' # "broken"
  BY DEF Stays, Works, Ends, PcSet, Back
<1>6. TypeOK'
  <2>1. it' \in Fd \cup {None} /\ DOMAIN evs' \subseteq Fd
    BY <1>2, <1>3 DEF TypeOK
  <2> QED BY <1>1, <1>2, <1>5, <2>1, TypeMade
<1>7. PlaceInv'
  <2>1. CASE Stays(f)
    BY <1>1, <1>2, <2>1 DEF Stays, PlaceInv, AtWork
  <2>2. CASE Works(f)
    BY <1>1, <1>2, <1>5, <2>2 DEF Works, PlaceInv, AtWork
  <2>3. CASE Ends(f)
    BY <1>1, <1>2, <2>3 DEF Ends, PlaceInv, Nothing, AtWork
  <2> QED BY <2>1, <2>2, <2>3
<1>8. BatchInv'
  <2>1. /\ evs' \in [DOMAIN evs' -> SUBSET {"IN", "OUT", "HUP"}] /\ DOMAIN evs' \subseteq Fd
        /\ (Listen \in DOMAIN evs' => is_parent /\ evs'[Listen] \subseteq {"IN"})
    BY <1>2, <1>3 DEF BatchInv, Rest
  <2>2. pc' \in {"close", "wait"} \/ FromEtin' => evs' = Empty
    BY <1>2 DEF Stays, Works, Ends, BatchInv, FromEtin, Back
  <2>3. AtWork' => cur'.fd \notin DOMAIN evs'
    BY <1>2, <1>3 DEF Stays, Works, Ends, BatchInv, AtWork
  <2>4. ASSUME tame', ~is_parent', NEW g \in DOMAIN evs'
        PROVE  /\ Used(ep', g)
               /\ ep'.fds[g].type = "asyn_connect" => ep'.sock[g].st # "connecting"
    <3>1. g \in Fd /\ g # f /\ g \in DOMAIN evs
      BY <1>3, <2>1, <2>4
    <3>2. Held(ep, ep', f)
      BY <2>4 DEF Moved
    <3>3. Used(ep, g) /\ (ep.fds[g].type = "asyn_connect" => ep.sock[g].st # "connecting")
      BY <1>2, <2>4, <3>1 DEF BatchInv
    <3> QED BY <3>1, <3>2, <3>3 DEF Held, Used
  <2> QED BY <2>1, <2>2, <2>3, <2>4 DEF BatchInv
<1>9. WalkInv'
  <2>1. it' \in Fd \cup {None} /\ pc' # "broken"
    BY <1>2, <1>5 DEF WalkInv
  <2>2. ASSUME tame, FromEtin', it # None
        PROVE  OnQueue(ep'.etin_head, it) /\ (pc' # "etin" => it # cur'.fd)
    <3>1. FromEtin /\ pc # "etin" /\ cur' = cur
      BY <1>2, <2>2, BackIs DEF Stays, Works, Ends, FromEtin
    <3>2. OnQueue(ep.etin_head, it) /\ it # cur.fd /\ it \in Fd
      BY <1>2, <2>2, <3>1 DEF WalkInv
    <3>3. it # f
      BY <1>1, <3>1, <3>2, OnEtin DEF Stays, Works, Ends, FromEtin
    <3>4. Held(ep, ep', f)
      BY <2>2 DEF Moved
    <3>5. OnQueue(ep'.etin_head, it)
      BY <1>1, <3>2, <3>3, <3>4, HeldEtin
    <3> QED BY <3>1, <3>2, <3>5
  <2> QED BY <2>1, <2>2 DEF WalkInv
<1>10. InputInv'
  <2>1. ASSUME NEW g \in Fd PROVE Roomy(ep', g) \/ (pc' = "parse" /\ cur'.fd = g)
    <3>1. CASE g = f
      BY <3>1, <1>1, <1>2 DEF Stays, Works, Ends
    <3>2. CASE g # f
      BY <3>2, <1>1, <1>2 DEF Stays, Works, Ends, InputInv, KeptBut
    <3> QED BY <3>1, <3>2
  <2>2. ASSUME NEW g \in Fd
        PROVE  \/ NoInput(ep', g) \/ (g = Listen /\ aborted')
               \/ g \in DOMAIN evs' /\ "IN" \in evs'[g]
               \/ cur'.fd = g /\ pc' \in {"recv", "accept"}
    <3>1. CASE NoInput(ep, g)
      BY <1>1, <3>1 DEF KeptBut
    <3>2. CASE g = Listen /\ aborted
      BY <3>2
    <3>3. CASE g \in DOMAIN evs /\ "IN" \in evs[g]
      BY <1>3, <1>4, <3>3
    <3>4. CASE cur.fd = g /\ pc \in {"recv", "accept"}
      <4>1. CASE Stays(f)
        BY <3>4, <4>1 DEF Stays
      <4>2. CASE Works(f)
        BY <1>1, <1>2, <3>4, <4>2 DEF Works, PlaceInv
      <4>3. CASE Ends(f)
        BY <3>4, <4>3 DEF Ends
      <4> QED BY <4>1, <4>2, <4>3
    <3> QED BY <1>2, <1>5, <3>1, <3>2, <3>3, <3>4 DEF InputInv
  <2> QED BY <2>1, <2>2 DEF InputInv
<1>11. OutputInv'
  <2>1. ~ep'.lost /\ \A g \in Fd : Masked(ep', g)
    BY <1>1, <1>2 DEF OutputInv, KeptBut
  <2>2. \A g \in Fd : Bounded(ep, g)'
    <3>1. \A g \in Fd : Bounded(ep', g)
      BY <1>1, <1>2 DEF OutputInv, KeptBut
    <3> QED BY <3>1 DEF Bounded
  <2>3. ASSUME NEW g \in Fd
        PROVE  \/ NoOutput(ep', g)
               \/ g \in DOMAIN evs' /\ "OUT" \in evs'[g]
               \/ cur'.fd = g /\ AtWork' /\ "OUT" \in cur'.events
    <3>1. CASE NoOutput(ep, g)
      BY <1>1, <3>1 DEF KeptBut
    <3>2. CASE g \in DOMAIN evs /\ "OUT" \in evs[g]
      BY <1>3, <1>4, <3>2
    <3>3. CASE cur.fd = g /\ AtWork /\ "OUT" \in cur.events
      <4>1. CASE Stays(f)
        BY <3>3, <4>1 DEF Stays, AtWork
      <4>2. CASE Works(f)
        <5>1. Back # "etin"
          BY <1>2, <3>3, <4>2, BackIs DEF Works
        <5>2. pc' \in {"out", "parse"}
          BY <1>5, <4>2, <5>1 DEF Works
        <5> QED BY <3>3, <4>2, <5>2 DEF Works, AtWork
      <4>3. CASE Ends(f)
        BY <3>3, <4>3 DEF Ends
      <4> QED BY <4>1, <4>2, <4>3
    <3> QED BY <1>2, <3>1, <3>2, <3>3 DEF OutputInv
  <2> QED BY <2>1, <2>2, <2>3 DEF OutputInv
<1>12. ConnectInv'
  BY <1>2 DEF ConnectInv, Moved
<1> QED BY <1>1, <1>6, <1>7, <1>8, <1>9, <1>10, <1>11, <1>12 DEF IInv

------------------------------------------------------------------------------
(* The actions.                                                             *)

\* The invariant holds where the loop begins.
LEMMA InitOK ==
    ASSUME SizesAssumption, Init
    PROVE  IInv
<1>1. /\ 0 \in 0..page_size /\ 0 \in 0..Room /\ 0 \in Nat /\ {} \in SUBSET {"CLOSE", "POLLIN"}
      /\ {} \in SUBSET {"IN", "OUT"} /\ {"IN"} \in SUBSET {"IN", "OUT"}
      /\ page_size > 0 /\ 0 <= SendLimit
  BY Numbers
<1>2. /\ Blank \in FdInfo /\ NoSocket \in Socket
      /\ [Blank EXCEPT !.type = "listen", !.mask = {"IN"}] \in FdInfo
      /\ [Blank EXCEPT !.type = "pipe"] \in FdInfo
      /\ [NoSocket EXCEPT !.st = "listening"] \in Socket
  BY <1>1 DEF Blank, NoSocket, FdInfo, Socket
<1> DEFINE fi(f) == IF f = Listen /\ is_parent
                    THEN [Blank EXCEPT !.type = "listen", !.mask = {"IN"}]
                    ELSE IF f = Listen THEN [Blank EXCEPT !.type = "pipe"] ELSE Blank
           k(f) == IF f = Listen /\ is_parent
                   THEN [NoSocket EXCEPT !.st = "listening"] ELSE NoSocket
<1>3. /\ ep.fds = [f \in Fd |-> fi(f)] /\ ep.sock = [f \in Fd |-> k(f)]
      /\ ep.close_head = <<>> /\ ep.etin_head = <<>> /\ ep.maxfd = 0 /\ ep.owed = {}
      /\ ep.lied = FALSE /\ ep.lost = FALSE
  BY DEF Init
<1>4. \A f \in Fd : fi(f) \in FdInfo /\ k(f) \in Socket
  BY <1>2
<1>5. \A f \in Fd : ep.fds[f] = fi(f) /\ ep.sock[f] = k(f)
  BY <1>3
<1>6. ep \in Table
  <2> DEFINE fds == [f \in Fd |-> fi(f)]  sock == [f \in Fd |-> k(f)]
  <2>1. fds \in [Fd -> FdInfo] /\ sock \in [Fd -> Socket]
    BY <1>4
  <2>2. ep = [fds |-> fds, sock |-> sock, close_head |-> <<>>, etin_head |-> <<>>,
              maxfd |-> 0, owed |-> {}, lied |-> FALSE, lost |-> FALSE]
    BY DEF Init
  <2>3. 0 \in Fd /\ <<>> \in Seq(Fd) /\ {} \in SUBSET Conn
    BY Numbers DEF Listen
  <2> HIDE DEF fds, sock
  <2> QED BY <2>1, <2>2, <2>3 DEF Table
<1>7. \A f \in Fd : /\ fi(f).flag = {} /\ fi(f).sendlen = 0 /\ fi(f).recvlen = 0
                    /\ fi(f).rcvprotlen = 0 /\ k(f).rx = 0 /\ k(f).room = 0 /\ k(f).end = "no"
                    /\ fi(f).type = (IF f = Listen THEN IF is_parent THEN "listen" ELSE "pipe"
                                     ELSE "unused")
                    /\ (f = Listen /\ is_parent => fi(f).mask = {"IN"})
                    /\ k(f).st = (IF f = Listen /\ is_parent THEN "listening" ELSE "none")
                    /\ ((f = Listen /\ is_parent) \/ k(f) = NoSocket)
  BY DEF Blank, NoSocket
<1> HIDE DEF fi, k
<1>8. Good(ep)
  <2>1. \A f \in Fd : Fine(f, ep.fds[f], ep.sock[f])
    BY <1>5, <1>7 DEF Fine
  <2>2. QueuesFine(ep)
    BY <1>3, <1>5, <1>7 DEF QueuesFine, Once, OnQueue
  <2>3. MaxFine(ep)
    BY <1>3, <1>5, <1>7, Numbers DEF MaxFine, Used, Listen
  <2> QED BY <1>6, <2>1, <2>2, <2>3 DEF Good
<1>9. TypeOK
  <2>1. budget \in 0..Budget[Role]
    BY DEF Init, Role, SizesAssumption
  <2> QED BY <1>6, <2>1, TableParts DEF Init, TypeOK, Empty
<1>10. PlaceInv
  BY <1>5, <1>7, Numbers DEF PlaceInv, Init, Nothing, AtWork
<1>11. BatchInv
  BY DEF BatchInv, Init, AtWork, Empty
<1>12. WalkInv
  BY DEF WalkInv, Init, FromEtin
<1>13. InputInv
  <2>1. \A f \in Fd : Roomy(ep, f)
    BY <1>1, <1>5, <1>7 DEF Roomy
  <2>2. \A f \in Fd : NoInput(ep, f)
    BY <1>5, <1>7 DEF NoInput
  <2> QED BY <2>1, <2>2 DEF InputInv
<1>14. OutputInv
  BY <1>1, <1>3, <1>5, <1>7 DEF OutputInv, Init, NoOutput, Masked, Bounded
<1>15. ConnectInv
  BY <1>3 DEF ConnectInv, OwedFine
<1> QED BY <1>8, <1>9, <1>10, <1>11, <1>12, <1>13, <1>14, <1>15 DEF IInv

\* Where only the place of the loop changes.
LEMMA PlaceOnly ==
    ASSUME SizesAssumption, IInv, UNCHANGED <<is_parent, tame, ep, budget, aborted>>,
           pc' \in PcSet, it' \in Fd \cup {None}, DOMAIN evs' \subseteq Fd,
           PlaceInv', BatchInv', WalkInv',
           pc # "parse" /\ pc # "broken",
           pc' # "broken" =>
             \A g \in Fd : \/ NoInput(ep, g) \/ (g = Listen /\ aborted)
                           \/ g \in DOMAIN evs' /\ "IN" \in evs'[g]
                           \/ cur'.fd = g /\ pc' \in {"recv", "accept"},
           \A g \in Fd : \/ NoOutput(ep, g)
                         \/ g \in DOMAIN evs' /\ "OUT" \in evs'[g]
                         \/ cur'.fd = g /\ AtWork' /\ "OUT" \in cur'.events
    PROVE  IInv'
<1>1. Good(ep') /\ TypeOK /\ InputInv /\ OutputInv /\ ConnectInv
  BY DEF IInv
<1>2. TypeOK'
  BY <1>1, TypeMade
<1>3. InputInv'
  <2>1. \A g \in Fd : Roomy(ep', g)
    BY <1>1 DEF InputInv
  <2> QED BY <2>1 DEF InputInv
<1>4. OutputInv'
  <2>1. ~ep'.lost /\ \A g \in Fd : Masked(ep', g) /\ Bounded(ep, g)
    BY <1>1 DEF OutputInv
  <2>2. \A g \in Fd : Bounded(ep, g)'
    BY <2>1 DEF Bounded
  <2> QED BY <2>1, <2>2 DEF OutputInv
<1>5. ConnectInv'
  BY <1>1 DEF ConnectInv
<1> QED BY <1>1, <1>2, <1>3, <1>4, <1>5 DEF IInv

\* While the loop is at work with nothing, what has to be looked at is in the batch.
LEMMA IdleHas ==
    ASSUME IInv, ~AtWork, pc # "broken"
    PROVE  /\ \A g \in Fd : \/ NoInput(ep, g) \/ (g = Listen /\ aborted)
                            \/ g \in DOMAIN evs /\ "IN" \in evs[g]
           /\ \A g \in Fd : NoOutput(ep, g) \/ (g \in DOMAIN evs /\ "OUT" \in evs[g])
           /\ \A g \in Fd : Roomy(ep, g)
  BY DEF IInv, InputInv, OutputInv, AtWork

\* The loop goes from place to place, without an event.
LEMMA MovesOn ==
    ASSUME SizesAssumption, IInv, UNCHANGED <<is_parent, tame, ep, evs, budget, aborted>>,
           ~AtWork, pc # "broken", pc' \in PcSet, it' \in Fd \cup {None},
           PlaceInv', BatchInv', WalkInv'
    PROVE  IInv'
<1>1. pc # "parse" /\ DOMAIN evs' \subseteq Fd
  BY DEF AtWork, IInv, TypeOK
<1> QED BY <1>1, IdleHas, PlaceOnly

\* The first element of a queue is on it.
LEMMA FirstOn ==
    ASSUME NEW q \in Seq(Fd)
    PROVE  First(q) = None \/ (First(q) \in Fd /\ OnQueue(q, First(q)))
<1>1. CASE q = <<>>
  BY <1>1 DEF First
<1>2. CASE q # <<>>
  <2>1. 1 \in DOMAIN q /\ q[1] \in Fd
    BY <1>2
  <2> QED BY <1>2, <2>1 DEF First, OnQueue
<1> QED BY <1>1, <1>2

\* The next element of a queue is on it, and another.
LEMMA AfterOn ==
    ASSUME NEW q \in Seq(Fd), NEW f, OnQueue(q, f), Once(q)
    PROVE  After(q, f) = None \/ (After(q, f) \in Fd /\ OnQueue(q, After(q, f)) /\ After(q, f) # f)
<1> DEFINE p == Place(q, f)
<1>1. p \in DOMAIN q /\ q[p] = f
  BY DEF OnQueue, Place
<1>2. DOMAIN q = 1..Len(q) /\ Len(q) \in Nat
  OBVIOUS
<1>3. CASE p = Len(q)
  BY <1>3 DEF After
<1>4. CASE p # Len(q)
  <2>1. p + 1 \in DOMAIN q /\ p + 1 # p
    BY <1>1, <1>2, <1>4
  <2>2. q[p + 1] \in Fd
    BY <2>1
  <2>3. q[p + 1] # f
    BY <1>1, <2>1 DEF Once
  <2>4. After(q, f) = q[p + 1]
    BY <1>4 DEF After
  <2> QED BY <2>1, <2>2, <2>3, <2>4 DEF OnQueue
<1> QED BY <1>3, <1>4

\* CloseQueueDone keeps the invariant.
LEMMA CloseQueueDoneOK ==
    ASSUME SizesAssumption, IInv, CloseQueueDone
    PROVE  IInv'
<1>1. /\ pc = "close" /\ pc' = "etin" /\ it' = First(ep.etin_head)
      /\ UNCHANGED <<is_parent, tame, ep, evs, cur, budget, aborted>>
  BY DEF CloseQueueDone
<1>2. PlaceInv /\ BatchInv /\ Good(ep) /\ ep.etin_head \in Seq(Fd)
  BY TableParts DEF IInv, Good
<1>3. it' = None \/ (it' \in Fd /\ OnQueue(ep.etin_head, it'))
  BY <1>1, <1>2, FirstOn
<1>4. PlaceInv'
  BY <1>1, <1>2 DEF PlaceInv, AtWork
<1>5. BatchInv'
  BY <1>1, <1>2 DEF BatchInv, FromEtin, AtWork
<1>6. WalkInv'
  BY <1>1, <1>3 DEF WalkInv
<1> QED BY <1>1, <1>3, <1>4, <1>5, <1>6, MovesOn DEF AtWork, PcSet

\* IterateEtinQueue keeps the invariant.
LEMMA IterateEtinQueueOK ==
    ASSUME SizesAssumption, IInv, IterateEtinQueue
    PROVE  IInv'
<1>1. /\ pc = "etin" /\ it # None /\ it \in Fd
      /\ UNCHANGED <<is_parent, tame, ep, evs, budget, aborted>>
  BY DEF IterateEtinQueue, IInv, WalkInv
<1>2. PlaceInv /\ BatchInv /\ WalkInv /\ Good(ep) /\ ep.etin_head \in Seq(Fd) /\ Once(ep.etin_head)
  BY TableParts DEF IInv, Good, QueuesFine
<1>3. evs = Empty
  BY <1>1, <1>2 DEF BatchInv, FromEtin
<1>4. CASE ~OnQueue(ep.etin_head, it)
  <2>1. pc' = "broken" /\ UNCHANGED <<cur, it>> /\ ~tame
    BY <1>1, <1>2, <1>4 DEF IterateEtinQueue, WalkInv, FromEtin
  <2>2. PlaceInv'
    BY <1>1, <1>2, <2>1 DEF PlaceInv, AtWork
  <2>3. BatchInv'
    BY <1>1, <1>2, <2>1 DEF BatchInv, FromEtin, AtWork
  <2>4. WalkInv'
    BY <1>1, <1>2, <2>1 DEF WalkInv
  <2> QED BY <1>1, <2>1, <2>2, <2>3, <2>4, MovesOn DEF AtWork, PcSet
<1>5. CASE OnQueue(ep.etin_head, it)
  <2>1. /\ cur' = [fd |-> it, events |-> {}, from |-> "etin"]
        /\ it' = After(ep.etin_head, it)
        /\ pc' = IF ep.fds[it].type = "listen" THEN "accept" ELSE "recv"
    BY <1>5 DEF IterateEtinQueue, SavedNext
  <2>2. it' = None \/ (it' \in Fd /\ OnQueue(ep.etin_head, it') /\ it' # it)
    BY <1>2, <1>5, <2>1, AfterOn
  <2>3. ep.fds[it].type \in {"remote", "listen"} /\ Fine(it, ep.fds[it], ep.sock[it])
    BY <1>1, <1>2, <1>5, OnEtin DEF Good
  <2>4. ep.fds[it].type = "listen" <=> it = Listen
    BY <2>3 DEF Fine
  <2>5. it = Listen => is_parent
    BY <1>2, <2>3 DEF PlaceInv
  <2>6. it # Listen => it \in Conn
    BY <1>1, Numbers
  <2>7. PlaceInv'
    BY <1>1, <1>2, <2>1, <2>3, <2>4, <2>5, <2>6 DEF PlaceInv, AtWork
  <2>8. BatchInv'
    BY <1>1, <1>2, <1>3, <2>1 DEF BatchInv, FromEtin, AtWork, Empty
  <2>9. WalkInv'
    BY <1>1, <1>2, <2>1, <2>2 DEF WalkInv
  <2> QED BY <1>1, <2>1, <2>2, <2>7, <2>8, <2>9, MovesOn DEF AtWork, PcSet
<1> QED BY <1>4, <1>5

\* EtinQueueDone keeps the invariant.
LEMMA EtinQueueDoneOK ==
    ASSUME SizesAssumption, IInv, EtinQueueDone
    PROVE  IInv'
<1>1. /\ pc = "etin" /\ pc' = "wait" /\ cur' = Nothing
      /\ UNCHANGED <<is_parent, tame, ep, it, evs, budget, aborted>>
  BY DEF EtinQueueDone
<1>2. PlaceInv /\ BatchInv /\ WalkInv
  BY DEF IInv
<1>3. PlaceInv'
  BY <1>1, <1>2 DEF PlaceInv, Nothing, AtWork
<1>4. BatchInv'
  BY <1>1, <1>2 DEF BatchInv, FromEtin, AtWork
<1>5. WalkInv'
  BY <1>1, <1>2 DEF WalkInv, FromEtin
<1> QED BY <1>1, <1>2, <1>3, <1>4, <1>5, MovesOn DEF AtWork, PcSet, WalkInv

\* SendQueueDone keeps the invariant.
LEMMA SendQueueDoneOK ==
    ASSUME SizesAssumption, IInv, SendQueueDone
    PROVE  IInv'
<1>1. /\ pc = "sendq" /\ pc' = "events"
      /\ UNCHANGED <<is_parent, tame, ep, it, evs, cur, budget, aborted>>
  BY DEF SendQueueDone
<1>2. PlaceInv /\ BatchInv /\ WalkInv
  BY DEF IInv
<1>3. PlaceInv'
  BY <1>1, <1>2 DEF PlaceInv, AtWork
<1>4. BatchInv'
  BY <1>1, <1>2 DEF BatchInv, FromEtin, AtWork
<1>5. WalkInv'
  BY <1>1, <1>2 DEF WalkInv, FromEtin
<1> QED BY <1>1, <1>2, <1>3, <1>4, <1>5, MovesOn DEF AtWork, PcSet, WalkInv

\* LoopDone keeps the invariant.
LEMMA LoopDoneOK ==
    ASSUME SizesAssumption, IInv, LoopDone
    PROVE  IInv'
<1>1. /\ pc = "events" /\ pc' = "close" /\ evs = Empty
      /\ UNCHANGED <<is_parent, tame, ep, it, evs, cur, budget, aborted>>
  BY DEF LoopDone
<1>2. PlaceInv /\ BatchInv /\ WalkInv
  BY DEF IInv
<1>3. PlaceInv'
  BY <1>1, <1>2 DEF PlaceInv, AtWork
<1>4. BatchInv'
  BY <1>1, <1>2 DEF BatchInv, FromEtin, AtWork
<1>5. WalkInv'
  BY <1>1, <1>2 DEF WalkInv, FromEtin
<1> QED BY <1>1, <1>2, <1>3, <1>4, <1>5, MovesOn DEF AtWork, PcSet, WalkInv

\* The batch without an event.
LEMMA RestOf ==
    ASSUME BatchInv, NEW f \in DOMAIN evs
    PROVE  /\ DOMAIN Rest(f) = DOMAIN evs \ {f} /\ \A g \in DOMAIN evs \ {f} : Rest(f)[g] = evs[g]
           /\ Rest(f) \in [DOMAIN Rest(f) -> SUBSET {"IN", "OUT", "HUP"}]
           /\ evs[f] \in SUBSET {"IN", "OUT", "HUP"} /\ f \in Fd
  BY DEF Rest, BatchInv

\* The batch stays what it is when an event is taken from it.
LEMMA RestKept ==
    ASSUME BatchInv, PlaceInv, NEW f \in DOMAIN evs, evs' = Rest(f), pc = "events",
           UNCHANGED <<is_parent, tame, ep>>, pc' \in {"events", "recv", "accept", "out"},
           cur'.from = "events" \/ pc' = "events", cur'.fd = f \/ pc' = "events"
    PROVE  BatchInv'
<1>1. /\ DOMAIN evs' = DOMAIN evs \ {f} /\ \A g \in DOMAIN evs' : evs'[g] = evs[g]
      /\ evs' \in [DOMAIN evs' -> SUBSET {"IN", "OUT", "HUP"}]
  BY RestOf
<1>2. ~FromEtin'
  BY DEF FromEtin
<1>3. AtWork' => cur'.fd \notin DOMAIN evs'
  BY <1>1 DEF AtWork
<1> QED BY <1>1, <1>2, <1>3 DEF BatchInv

\* DropEvent keeps the invariant.
LEMMA DropEventOK ==
    ASSUME SizesAssumption, IInv, NEW f \in Fd, DropEvent(f)
    PROVE  IInv'
<1>1. /\ pc = "events" /\ pc' = "events" /\ f \in DOMAIN evs /\ evs' = Rest(f) /\ Delayed(f)
      /\ UNCHANGED <<is_parent, tame, ep, it, cur, budget, aborted>>
  BY DEF DropEvent
<1>2. PlaceInv /\ BatchInv /\ WalkInv /\ Good(ep)
  BY DEF IInv
<1>3. DOMAIN evs' = DOMAIN evs \ {f} /\ \A g \in DOMAIN evs' : evs'[g] = evs[g]
  BY <1>1, <1>2, RestOf
<1>4. NoInput(ep, f) /\ NoOutput(ep, f)
  <2>1. ~Used(ep, f)
    <3>1. /\ ep.maxfd \in Nat /\ f \in Nat
          /\ \A g \in Fd : Used(ep, g) => g <= ep.maxfd
      BY <1>2, TableParts, Numbers DEF Good, MaxFine
    <3> QED BY <1>1, <3>1 DEF Delayed
  <2> QED BY <1>2, <2>1, Gone
<1>5. PlaceInv'
  BY <1>1, <1>2 DEF PlaceInv, AtWork
<1>6. BatchInv'
  BY <1>1, <1>2, RestKept
<1>7. WalkInv'
  BY <1>1, <1>2 DEF WalkInv, FromEtin
<1>8. ~AtWork /\ pc # "broken" /\ pc # "parse" /\ pc' \in PcSet /\ it' \in Fd \cup {None}
  BY <1>1, <1>2 DEF AtWork, PcSet, WalkInv
<1>9. DOMAIN evs' \subseteq Fd
  BY <1>2, <1>3 DEF BatchInv
<1>10. \A g \in Fd : \/ NoInput(ep, g) \/ (g = Listen /\ aborted)
                     \/ g \in DOMAIN evs' /\ "IN" \in evs'[g]
  BY <1>3, <1>4, <1>8, IdleHas
<1>11. \A g \in Fd : NoOutput(ep, g) \/ (g \in DOMAIN evs' /\ "OUT" \in evs'[g])
  BY <1>3, <1>4, <1>8, IdleHas
<1> QED BY <1>1, <1>5, <1>6, <1>7, <1>8, <1>9, <1>10, <1>11, PlaceOnly

\* TakeEvent keeps the invariant.
LEMMA TakeEventOK ==
    ASSUME SizesAssumption, IInv, NEW f \in Fd, TakeEvent(f)
    PROVE  IInv'
<1>1. /\ pc = "events" /\ f \in DOMAIN evs /\ evs' = Rest(f) /\ Used(ep, f)
      /\ ep.fds[f].type # "asyn_connect"
      /\ cur' = [fd |-> f, events |-> evs[f], from |-> "events"]
      /\ pc' = IF "IN" \notin evs[f] THEN "out"
               ELSE IF ep.fds[f].type = "listen" THEN "accept" ELSE "recv"
      /\ UNCHANGED <<is_parent, tame, ep, it, budget, aborted>>
  BY DEF TakeEvent, Delayed
<1>2. PlaceInv /\ BatchInv /\ WalkInv /\ Good(ep) /\ Fine(f, ep.fds[f], ep.sock[f])
  BY DEF IInv, Good
<1>3. /\ DOMAIN evs' = DOMAIN evs \ {f} /\ \A g \in DOMAIN evs' : evs'[g] = evs[g]
      /\ evs[f] \in SUBSET {"IN", "OUT", "HUP"}
  BY <1>1, <1>2, RestOf
<1>4. f = Listen => is_parent /\ evs[f] \subseteq {"IN"} /\ ep.fds[f].type = "listen"
  BY <1>1, <1>2 DEF BatchInv, PlaceInv
<1>5. f # Listen => f \in Conn /\ ep.fds[f].type = "remote"
  BY <1>1, <1>2, Numbers DEF Fine, Used
<1>6. PlaceInv'
  BY <1>1, <1>2, <1>3, <1>4, <1>5 DEF PlaceInv, AtWork
<1>7. pc' \in {"recv", "accept", "out"} /\ AtWork'
  BY <1>1 DEF AtWork
<1>8. BatchInv'
  BY <1>1, <1>2, <1>7, RestKept
<1>9. WalkInv'
  BY <1>1, <1>2, <1>7 DEF WalkInv, FromEtin
<1>10. ~AtWork /\ pc # "broken" /\ pc # "parse" /\ pc' \in PcSet /\ it' \in Fd \cup {None}
  BY <1>1, <1>2, <1>7 DEF AtWork, PcSet, WalkInv
<1>11. DOMAIN evs' \subseteq Fd
  BY <1>2, <1>3 DEF BatchInv
<1>12. \A g \in Fd : \/ NoInput(ep, g) \/ (g = Listen /\ aborted)
                     \/ g \in DOMAIN evs' /\ "IN" \in evs'[g]
                     \/ cur'.fd = g /\ pc' \in {"recv", "accept"}
  <2> TAKE g \in Fd
  <2>1. CASE g = f /\ "IN" \in evs[g]
    BY <1>1, <2>1
  <2>2. CASE g # f \/ "IN" \notin evs[g]
    BY <1>3, <1>10, <2>2, IdleHas
  <2> QED BY <2>1, <2>2
<1>13. \A g \in Fd : \/ NoOutput(ep, g)
                     \/ g \in DOMAIN evs' /\ "OUT" \in evs'[g]
                     \/ cur'.fd = g /\ AtWork' /\ "OUT" \in cur'.events
  <2> TAKE g \in Fd
  <2>1. CASE g = f /\ "OUT" \in evs[g]
    BY <1>1, <1>7, <2>1
  <2>2. CASE g # f \/ "OUT" \notin evs[g]
    BY <1>3, <1>10, <2>2, IdleHas
  <2> QED BY <2>1, <2>2
<1> QED BY <1>1, <1>6, <1>8, <1>9, <1>10, <1>11, <1>12, <1>13, PlaceOnly

\* What epoll_wait may report, and of which sockets nothing.
LEMMA ReportedIs ==
    ASSUME SizesAssumption, NEW s, Good(s), NEW f \in Fd
    PROVE  /\ Reported(s, f) \in SUBSET {"IN", "OUT", "HUP"}
           /\ s.fds[f].type \in {"remote", "listen"} /\ s.sock[f].rx > 0 => "IN" \in Reported(s, f)
           /\ s.sock[f].room > 0 /\ "OUT" \in s.fds[f].mask => "OUT" \in Reported(s, f)
           /\ s.sock[f].st \in {"none", "connecting"} => Reported(s, f) = {}
           /\ s.sock[f].st = "listening" /\ s.sock[f].end = "no" => Reported(s, f) \subseteq {"IN"}
<1>1. Fine(f, s.fds[f], s.sock[f]) /\ s.sock[f].room \in Nat /\ s.sock[f].rx \in Nat
  BY EntryOf
<1> QED BY <1>1 DEF Reported, Poll, Fine

Readied(s, ready) ==
    [s EXCEPT !.sock = [f \in Fd |-> [s.sock[f] EXCEPT !.ready = ready[f]]]]

\* s and t, but for what is ready.
ReadyOnly(s, t) ==
    /\ Good(t) /\ t.fds = s.fds /\ t.owed = s.owed /\ t.lied = s.lied /\ t.lost = s.lost
    /\ \A f \in Fd : /\ t.sock[f].rx = s.sock[f].rx /\ t.sock[f].end = s.sock[f].end
                     /\ t.sock[f].st = s.sock[f].st /\ t.sock[f].room = s.sock[f].room

\* epoll_wait changes what is ready.
LEMMA ReadyIs ==
    ASSUME SizesAssumption, NEW s, Good(s), NEW ready \in [Fd -> BOOLEAN],
           s.fds[Listen].type = "pipe" => ready[Listen] = FALSE,
           NEW t, t = Readied(s, ready)
    PROVE  ReadyOnly(s, t)
<1>1. /\ s \in Table /\ s.fds \in [Fd -> FdInfo] /\ s.sock \in [Fd -> Socket]
      /\ s.close_head \in Seq(Fd) /\ s.etin_head \in Seq(Fd) /\ s.maxfd \in Fd
      /\ QueuesFine(s) /\ MaxFine(s) /\ \A f \in Fd : Fine(f, s.fds[f], s.sock[f])
  BY TableParts DEF Good
<1> DEFINE sock == [f \in Fd |-> [s.sock[f] EXCEPT !.ready = ready[f]]]
<1>2. sock \in [Fd -> Socket]
  <2>1. ASSUME NEW f \in Fd PROVE [s.sock[f] EXCEPT !.ready = ready[f]] \in Socket
    <3>1. s.sock[f] \in Socket /\ ready[f] \in BOOLEAN
      BY <1>1
    <3> QED BY <3>1 DEF Socket
  <2> QED BY <2>1
<1>3. \A f \in Fd : sock[f] = [s.sock[f] EXCEPT !.ready = ready[f]]
  OBVIOUS
<1>4. t = [s EXCEPT !.sock = sock]
  BY DEF Readied
<1> HIDE DEF sock
<1>5. t \in Table /\ t.fds = s.fds /\ t.sock = sock /\ t.close_head = s.close_head
      /\ t.etin_head = s.etin_head /\ t.maxfd = s.maxfd /\ t.owed = s.owed
      /\ t.lied = s.lied /\ t.lost = s.lost
  BY <1>1, <1>2, <1>4 DEF Table
<1>6. ASSUME NEW f \in Fd PROVE Fine(f, t.fds[f], t.sock[f])
  <2> DEFINE k == s.sock[f]
  <2>1. k \in Socket /\ Fine(f, s.fds[f], k) /\ t.fds[f] = s.fds[f]
        /\ t.sock[f] = [k EXCEPT !.ready = ready[f]] /\ ready[f] \in BOOLEAN
    BY <1>1, <1>3, <1>5
  <2>2. k = NoSocket /\ ready[f] = FALSE => [k EXCEPT !.ready = ready[f]] = NoSocket
    <3>1. k.ready = ready[f] => [k EXCEPT !.ready = ready[f]] = k
      BY <2>1 DEF Socket
    <3>2. k = NoSocket => k.ready = FALSE
      BY DEF NoSocket
    <3> QED BY <3>1, <3>2
  <2>3. f = Listen => (s.fds[f].type = "pipe" => ready[f] = FALSE)
    OBVIOUS
  <2>4. LET j == [k EXCEPT !.ready = ready[f]]
        IN  j.st = k.st /\ j.rx = k.rx /\ j.end = k.end /\ j.room = k.room
    BY <2>1 DEF Socket
  <2> HIDE DEF k
  <2> QED BY <2>1, <2>2, <2>3, <2>4 DEF Fine
<1>7. QueuesFine(t) /\ MaxFine(t)
  BY <1>1, <1>5 DEF QueuesFine, MaxFine, Used
<1>8. ASSUME NEW f \in Fd
      PROVE  /\ t.sock[f].rx = s.sock[f].rx /\ t.sock[f].end = s.sock[f].end
             /\ t.sock[f].st = s.sock[f].st /\ t.sock[f].room = s.sock[f].room
  <2>1. s.sock[f] \in Socket /\ t.sock[f] = [s.sock[f] EXCEPT !.ready = ready[f]]
    BY <1>1, <1>3, <1>5
  <2> QED BY <2>1 DEF Socket
<1> QED BY <1>5, <1>6, <1>7, <1>8 DEF Good, ReadyOnly

\* Woken keeps the invariant.
LEMMA WokenOK ==
    ASSUME SizesAssumption, IInv, Woken
    PROVE  IInv'
<1>0. PICK ready : ready = [f \in Fd |-> StillReady(f)]
  OBVIOUS
<1>1. /\ pc = "wait" /\ evs' = [f \in Hits |-> Reported(ep, f)]
      /\ ep' = Readied(ep, ready)
      /\ pc' = IF is_parent THEN "sendq" ELSE "events"
      /\ UNCHANGED <<is_parent, tame, it, cur, budget, aborted>>
  BY <1>0 DEF Woken, Readied
<1>2. PlaceInv /\ BatchInv /\ WalkInv /\ Good(ep) /\ TypeOK /\ ConnectInv /\ OutputInv
  BY DEF IInv
<1>3. evs = Empty /\ DOMAIN evs = {} /\ ~AtWork
  BY <1>1, <1>2 DEF BatchInv, Empty, AtWork
<1>4. /\ \A g \in Fd : NoInput(ep, g) \/ (g = Listen /\ aborted)
      /\ \A g \in Fd : NoOutput(ep, g) /\ Roomy(ep, g)
  BY <1>1, <1>3, IdleHas
<1>5. \A f \in Fd : ep.sock[f].ready \in BOOLEAN /\ ep.fds[f].et \in BOOLEAN
  BY <1>2, EntryOf DEF Socket, FdInfo
<1>6. ready \in [Fd -> BOOLEAN]
  BY <1>0, <1>5 DEF StillReady
<1>7. ~is_parent => Listen \notin Hits
  <2>1. ~is_parent => ep.sock[Listen] = NoSocket
    BY <1>2, EntryOf, Numbers DEF PlaceInv, Fine
  <2> QED BY <2>1 DEF Hits, NoSocket
<1>8. ep.fds[Listen].type = "pipe" => ready[Listen] = FALSE
  BY <1>0, <1>2, <1>7, Numbers DEF StillReady, PlaceInv
<1>9. ReadyOnly(ep, ep')
  BY <1>1, <1>2, <1>6, <1>8, ReadyIs
<1>10. /\ Good(ep') /\ ep'.fds = ep.fds /\ ep'.owed = ep.owed /\ ep'.lied = ep.lied
       /\ ep'.lost = ep.lost
       /\ \A f \in Fd : /\ ep'.sock[f].rx = ep.sock[f].rx /\ ep'.sock[f].room = ep.sock[f].room
                        /\ ep'.sock[f].st = ep.sock[f].st
  BY <1>9 DEF ReadyOnly
<1>11. DOMAIN evs' = Hits /\ Hits \subseteq Fd /\ \A f \in Hits : evs'[f] = Reported(ep, f)
  BY <1>1 DEF Hits
<1>12. \A f \in Hits : /\ evs'[f] \in SUBSET {"IN", "OUT", "HUP"}
                       /\ ep.sock[f].st \notin {"none", "connecting"}
  BY <1>2, <1>11, ReportedIs DEF Hits
<1>13. TypeOK'
  BY <1>1, <1>2, <1>10, <1>11, TypeMade DEF PcSet, WalkInv
<1>14. PlaceInv'
  BY <1>1, <1>2, <1>10 DEF PlaceInv, AtWork
<1>15. BatchInv'
  <2>1. evs' \in [DOMAIN evs' -> SUBSET {"IN", "OUT", "HUP"}]
    <3>1. evs' = [f \in DOMAIN evs' |-> evs'[f]]
      BY <1>1
    <3> QED BY <3>1, <1>11, <1>12
  <2>2. Listen \in DOMAIN evs' => is_parent /\ evs'[Listen] \subseteq {"IN"}
    <3>1. is_parent => ep.sock[Listen].st = "listening" /\ ep.sock[Listen].end = "no"
      BY <1>2, EntryOf, Numbers DEF PlaceInv, Fine
    <3> QED BY <1>2, <1>7, <1>11, <3>1, ReportedIs, Numbers
  <2>3. ASSUME ~is_parent, NEW f \in DOMAIN evs'
        PROVE  /\ Used(ep', f)
               /\ ep'.fds[f].type = "asyn_connect" => ep'.sock[f].st # "connecting"
    <3>1. f \in Fd /\ f # Listen /\ ep.sock[f].st \notin {"none", "connecting"}
      BY <1>7, <1>11, <1>12, <2>3
    <3>2. Used(ep, f)
      BY <1>2, <3>1, EntryOf DEF Fine, Used
    <3> QED BY <1>10, <3>1, <3>2 DEF Used
  <2>4. ~FromEtin' /\ ~AtWork' /\ pc' \notin {"close", "wait"}
    BY <1>1 DEF FromEtin, AtWork
  <2> QED BY <1>1, <1>11, <2>1, <2>2, <2>3, <2>4 DEF BatchInv
<1>16. WalkInv'
  BY <1>1, <1>2 DEF WalkInv, FromEtin
<1>17. InputInv'
  <2>1. ASSUME NEW g \in Fd PROVE Roomy(ep', g)
    BY <1>4, <1>10 DEF Roomy, Used
  <2>2. ASSUME NEW g \in Fd
        PROVE  NoInput(ep', g) \/ (g = Listen /\ aborted) \/ (g \in DOMAIN evs' /\ "IN" \in evs'[g])
    <3>1. CASE NoInput(ep, g)
      <4>1. CASE ep.sock[g].ready /\ "IN" \in Reported(ep, g)
        BY <1>11, <4>1 DEF Hits
      <4>2. CASE ~ep.sock[g].ready \/ "IN" \notin Reported(ep, g)
        BY <1>2, <1>10, <3>1, <4>2, ReportedIs DEF NoInput
      <4> QED BY <4>1, <4>2
    <3> QED BY <1>4, <3>1
  <2> QED BY <1>1, <2>1, <2>2 DEF InputInv
<1>18. OutputInv'
  <2>1. ~ep'.lost /\ \A g \in Fd : Masked(ep', g)
    BY <1>2, <1>10 DEF OutputInv, Masked
  <2>2. \A g \in Fd : Bounded(ep, g)'
    BY <1>1, <1>2, <1>10 DEF OutputInv, Bounded
  <2>3. ASSUME NEW g \in Fd PROVE NoOutput(ep', g) \/ (g \in DOMAIN evs' /\ "OUT" \in evs'[g])
    <3>1. NoOutput(ep, g) /\ Masked(ep, g)
      BY <1>2, <1>4 DEF OutputInv
    <3>2. CASE ep.sock[g].ready /\ "OUT" \in Reported(ep, g)
      BY <1>11, <3>2 DEF Hits
    <3>3. CASE ~ep.sock[g].ready \/ "OUT" \notin Reported(ep, g)
      BY <1>2, <1>10, <3>1, <3>3, ReportedIs DEF NoOutput, Masked
    <3> QED BY <3>2, <3>3
  <2> QED BY <2>1, <2>2, <2>3 DEF OutputInv
<1>19. ConnectInv'
  BY <1>1, <1>2, <1>10 DEF ConnectInv, OwedFine
<1> QED BY <1>10, <1>13, <1>14, <1>15, <1>16, <1>17, <1>18, <1>19 DEF IInv

------------------------------------------------------------------------------
(* The kernel and the peers, at any place of the loop.                      *)

Quiet(s, t) ==
    /\ Good(t) /\ Kept(s, t) /\ t.etin_head = s.etin_head
    /\ t.owed = s.owed /\ t.lied = s.lied /\ t.lost = s.lost
    /\ \A g \in Fd : /\ t.fds[g].type = s.fds[g].type /\ t.fds[g].mask = s.fds[g].mask
                     /\ t.sock[g].st = "connecting" => s.sock[g].st = "connecting"

\* The kernel keeps the invariant wherever the loop is.
LEMMA QuietKept ==
    ASSUME SizesAssumption, IInv, Quiet(ep, ep'),
           UNCHANGED <<is_parent, tame, pc, it, evs, cur, aborted>>,
           budget' = budget \/ (budget > 0 /\ budget' = budget - 1)
    PROVE  IInv'
<1>1. /\ Good(ep') /\ Kept(ep, ep') /\ ep'.etin_head = ep.etin_head
      /\ ep'.owed = ep.owed /\ ep'.lied = ep.lied /\ ep'.lost = ep.lost
      /\ \A g \in Fd : /\ ep'.fds[g].type = ep.fds[g].type /\ ep'.fds[g].mask = ep.fds[g].mask
                       /\ ep'.sock[g].st = "connecting" => ep.sock[g].st = "connecting"
  BY DEF Quiet
<1>2. PlaceInv /\ BatchInv /\ WalkInv /\ InputInv /\ OutputInv /\ ConnectInv /\ TypeOK
  BY DEF IInv
<1>3. TypeOK'
  BY <1>1, <1>2, TypeMade DEF PcSet, TypeOK
<1>4. PlaceInv'
  BY <1>1, <1>2, Numbers DEF PlaceInv, AtWork
<1>5. BatchInv'
  BY <1>1, <1>2 DEF BatchInv, FromEtin, AtWork, Used
<1>6. WalkInv'
  BY <1>1, <1>2 DEF WalkInv, FromEtin
<1>7. InputInv'
  BY <1>1, <1>2 DEF InputInv, Kept
<1>8. OutputInv'
  <2>1. \A g \in Fd : Bounded(ep, g)'
    <3>1. \A g \in Fd : Bounded(ep', g)
      BY <1>1, <1>2 DEF OutputInv, Kept
    <3> QED BY <3>1 DEF Bounded
  <2>2. \A g \in Fd : Masked(ep', g)
    BY <1>1, <1>2 DEF OutputInv, Kept
  <2>3. \A g \in Fd : \/ NoOutput(ep', g)
                      \/ g \in DOMAIN evs' /\ "OUT" \in evs'[g]
                      \/ cur'.fd = g /\ AtWork' /\ "OUT" \in cur'.events
    BY <1>1, <1>2 DEF OutputInv, Kept, AtWork
  <2>4. ~ep'.lost
    BY <1>1, <1>2 DEF OutputInv
  <2> QED BY <2>1, <2>2, <2>3, <2>4 DEF OutputInv
<1>9. ConnectInv'
  <2>1. TypeOK => ep.owed \subseteq Fd
    BY Numbers DEF TypeOK
  <2> QED BY <1>1, <1>2, <2>1 DEF ConnectInv, OwedFine
<1> QED BY <1>1, <1>3, <1>4, <1>5, <1>6, <1>7, <1>8, <1>9 DEF IInv

SockPut(s, f, k) == [s EXCEPT !.sock[f] = k]

Ready(k, b) == [k EXCEPT !.ready = b]

\* A socket that wakes its descriptor if the event is asked for.
LEMMA WokeIs ==
    ASSUME NEW s \in Table, NEW f \in Fd, NEW k \in Socket, NEW ev, NEW u, u = SockPut(s, f, k)
    PROVE  \E b \in BOOLEAN : /\ Woke(u, f, ev) = SockPut(s, f, Ready(k, b))
                              /\ k.ready => b
                              /\ ev \in s.fds[f].mask \cup {"HUP"} => b
<1> DEFINE b == k.ready \/ ev \in s.fds[f].mask \cup {"HUP"}
<1>1. s.sock \in [Fd -> Socket] /\ k.ready \in BOOLEAN
  BY TableParts DEF Socket
<1>2. u \in Table /\ u.fds = s.fds /\ u.sock = [s.sock EXCEPT ![f] = k]
  BY <1>1 DEF Table, SockPut
<1>3. u.sock[f] = k
  BY <1>1, <1>2
<1>4. Woke(u, f, ev) = [u EXCEPT !.sock = [u.sock EXCEPT ![f] = Ready(k, b)]]
  BY <1>2, <1>3 DEF Woke, Ready, Table
<1>5. [u.sock EXCEPT ![f] = Ready(k, b)] = [s.sock EXCEPT ![f] = Ready(k, b)]
  BY <1>1, <1>2
<1>6. [u EXCEPT !.sock = [s.sock EXCEPT ![f] = Ready(k, b)]] = SockPut(s, f, Ready(k, b))
  BY <1>1, <1>2 DEF SockPut, Table
<1> QED BY <1>1, <1>4, <1>5, <1>6

\* A new socket for f, part by part.
LEMMA SockPutIs ==
    ASSUME NEW s \in Table, NEW f \in Fd, NEW k \in Socket, NEW t, t = SockPut(s, f, k)
    PROVE  /\ t \in Table /\ t.fds = s.fds /\ t.sock = [s.sock EXCEPT ![f] = k]
           /\ t.close_head = s.close_head /\ t.etin_head = s.etin_head /\ t.maxfd = s.maxfd
           /\ t.owed = s.owed /\ t.lied = s.lied /\ t.lost = s.lost
<1>1. s.fds \in [Fd -> FdInfo] /\ s.sock \in [Fd -> Socket]
  BY TableParts
<1>2. /\ t \in Table /\ t.fds = s.fds /\ t.sock = [s.sock EXCEPT ![f] = k]
      /\ t.close_head = s.close_head /\ t.etin_head = s.etin_head /\ t.maxfd = s.maxfd
      /\ t.owed = s.owed /\ t.lied = s.lied /\ t.lost = s.lost
  BY <1>1 DEF SockPut, Table
<1> QED BY <1>2

\* A new socket for f is quiet if what it brings makes it ready.
LEMMA QuietPut ==
    ASSUME SizesAssumption, NEW s, Good(s), NEW f \in Fd, NEW k \in Socket, Fine(f, s.fds[f], k),
           NEW t, t = SockPut(s, f, k),
           s.fds[f].type \in {"remote", "listen"} => k.rx = s.sock[f].rx \/ k.ready,
           s.fds[f].type = "remote" /\ s.fds[f].sendlen > 0 =>
               k.room = s.sock[f].room \/ k.ready,
           s.sock[f].ready => k.ready,
           k.st = "connecting" => s.sock[f].st = "connecting"
    PROVE  Quiet(s, t)
<1>1. s \in Table /\ s.fds \in [Fd -> FdInfo] /\ s.sock \in [Fd -> Socket]
  BY TableParts DEF Good
<1>2. /\ t \in Table /\ t.fds = s.fds /\ t.sock = [s.sock EXCEPT ![f] = k]
      /\ t.close_head = s.close_head /\ t.etin_head = s.etin_head /\ t.maxfd = s.maxfd
      /\ t.owed = s.owed /\ t.lied = s.lied /\ t.lost = s.lost
  BY <1>1, SockPutIs
<1>3. t.sock[f] = k /\ \A g \in Fd \ {f} : t.sock[g] = s.sock[g]
  BY <1>1, <1>2
<1>4. Good(t)
  <2>1. t.fds = [s.fds EXCEPT ![f] = s.fds[f]] /\ s.fds[f] \in FdInfo
    BY <1>1, <1>2
  <2> QED BY <1>2, <2>1, GoodTouch
<1>5. ASSUME NEW g \in Fd
      PROVE  /\ NoInput(s, g) => NoInput(t, g)
             /\ NoOutput(s, g) => NoOutput(t, g)
             /\ Roomy(s, g) => Roomy(t, g)
             /\ Masked(s, g) => Masked(t, g)
             /\ Bounded(s, g) => Bounded(t, g)
  <2>1. Roomy(s, g) => Roomy(t, g)
    BY <1>2 DEF Roomy, Used
  <2>2. Masked(s, g) => Masked(t, g)
    BY <1>2 DEF Masked
  <2>3. Bounded(s, g) => Bounded(t, g)
    BY <1>2 DEF Bounded
  <2>4. NoInput(s, g) => NoInput(t, g)
    BY <1>2, <1>3 DEF NoInput
  <2>5. NoOutput(s, g) => NoOutput(t, g)
    BY <1>2, <1>3 DEF NoOutput
  <2> QED BY <2>1, <2>2, <2>3, <2>4, <2>5
<1>6. Kept(s, t)
  BY <1>5 DEF Kept
<1> QED BY <1>2, <1>3, <1>4, <1>6 DEF Quiet

\* A socket is quiet if what it brings wakes its descriptor.
LEMMA WokeQuiet ==
    ASSUME SizesAssumption, NEW s, Good(s), NEW f \in Fd, NEW k \in Socket, Fine(f, s.fds[f], k),
           k.ready = s.sock[f].ready, s.sock[f].st # "none", NEW ev,
           k.rx = s.sock[f].rx \/ ev = "IN",
           k.room = s.sock[f].room \/ (ev = "OUT" /\ Masked(s, f)),
           k.st = "connecting" => s.sock[f].st = "connecting",
           NEW t, t = Woke(SockPut(s, f, k), f, ev)
    PROVE  Quiet(s, t)
<1>1. s \in Table /\ Fine(f, s.fds[f], s.sock[f]) /\ k.ready \in BOOLEAN
  BY DEF Good, Socket
<1>2. PICK b \in BOOLEAN : /\ t = SockPut(s, f, Ready(k, b))
                           /\ k.ready => b
                           /\ ev \in s.fds[f].mask \cup {"HUP"} => b
  BY <1>1, WokeIs
<1> DEFINE j == Ready(k, b)
<1>3. /\ j \in Socket /\ j.rx = k.rx /\ j.end = k.end /\ j.st = k.st /\ j.room = k.room
      /\ j.ready = b
  BY DEF Ready, Socket
<1> HIDE DEF j
<1>4. s.fds[f].type # "pipe"
  BY <1>1 DEF Fine, NoSocket
<1>5. Fine(f, s.fds[f], j)
  BY <1>3, <1>4 DEF Fine
<1>6. s.fds[f].type \in {"remote", "listen"} => "IN" \in s.fds[f].mask
  BY <1>1 DEF Fine
<1>7. s.fds[f].type \in {"remote", "listen"} => j.rx = s.sock[f].rx \/ j.ready
  BY <1>2, <1>3, <1>6
<1>8. s.fds[f].type = "remote" /\ s.fds[f].sendlen > 0 => j.room = s.sock[f].room \/ j.ready
  BY <1>2, <1>3 DEF Masked
<1>9. t = SockPut(s, f, j)
  BY <1>2 DEF j
<1>10. (s.sock[f].ready => j.ready) /\ (j.st = "connecting" => s.sock[f].st = "connecting")
  BY <1>2, <1>3
<1> QED BY <1>3, <1>5, <1>7, <1>8, <1>9, <1>10, QuietPut

\* Arrive keeps the invariant.
LEMMA ArriveOK ==
    ASSUME SizesAssumption, IInv, NEW f \in Fd, Arrive(f)
    PROVE  IInv'
<1> DEFINE k == [ep.sock[f] EXCEPT !.rx = ep.sock[f].rx + 1]
<1>1. /\ Good(ep) /\ ep.sock[f] \in Socket /\ Fine(f, ep.fds[f], ep.sock[f])
      /\ ep.sock[f].rx \in Nat
  BY EntryOf DEF IInv
<1>2. ep.sock[f].st \in {"up", "listening"} /\ ep.sock[f].end = "no"
  BY DEF Arrive
<1>3. [ep EXCEPT !.sock[f].rx = @ + 1] = SockPut(ep, f, k)
  BY DEF SockPut
<1>4. /\ k \in Socket /\ k.st = ep.sock[f].st /\ k.end = ep.sock[f].end /\ k.room = ep.sock[f].room
      /\ k.ready = ep.sock[f].ready
  BY <1>1 DEF Socket
<1> HIDE DEF k
<1>5. Fine(f, ep.fds[f], k)
  BY <1>1, <1>2, <1>4 DEF Fine, NoSocket
<1>6. ep' = Woke(SockPut(ep, f, k), f, "IN")
  BY <1>3 DEF Arrive, Kernel
<1>7. Quiet(ep, ep')
  BY <1>1, <1>2, <1>4, <1>5, <1>6, WokeQuiet
<1> QED BY <1>7, QuietKept DEF Arrive, Kernel

\* PeerEnds keeps the invariant.
LEMMA PeerEndsOK ==
    ASSUME SizesAssumption, IInv, NEW f \in Conn, PeerEnds(f)
    PROVE  IInv'
<1>1. /\ Good(ep) /\ ep.sock[f] \in Socket /\ Fine(f, ep.fds[f], ep.sock[f])
      /\ f \in Fd /\ f # Listen
  BY EntryOf, Numbers DEF IInv
<1>2. ep.sock[f].st = "up" /\ ep.sock[f].end = "no"
  BY DEF PeerEnds
<1>3. ASSUME NEW e \in {"fin", "rst"}, NEW ev, Kernel(Woke([ep EXCEPT !.sock[f].end = e], f, ev))
      PROVE  Quiet(ep, ep')
  <2> DEFINE k == [ep.sock[f] EXCEPT !.end = e]
  <2>1. [ep EXCEPT !.sock[f].end = e] = SockPut(ep, f, k)
    BY DEF SockPut
  <2>2. /\ k \in Socket /\ k.st = ep.sock[f].st /\ k.rx = ep.sock[f].rx
        /\ k.room = ep.sock[f].room /\ k.ready = ep.sock[f].ready
    BY <1>1 DEF Socket
  <2> HIDE DEF k
  <2>3. Fine(f, ep.fds[f], k)
    BY <1>1, <1>2, <2>2 DEF Fine
  <2>4. ep' = Woke(SockPut(ep, f, k), f, ev)
    BY <1>3, <2>1 DEF Kernel
  <2> QED BY <1>1, <1>2, <2>2, <2>3, <2>4, WokeQuiet
<1>4. Quiet(ep, ep') /\ UNCHANGED <<is_parent, tame, pc, it, evs, cur, aborted>>
  <2>1. CASE Kernel(Woke([ep EXCEPT !.sock[f].end = "fin"], f, "IN"))
    BY <1>3, <2>1 DEF Kernel
  <2>2. CASE Kernel(Woke([ep EXCEPT !.sock[f].end = "rst"], f, "HUP"))
    BY <1>3, <2>2 DEF Kernel
  <2> QED BY <2>1, <2>2 DEF PeerEnds
<1> QED BY <1>4, QuietKept DEF PeerEnds

\* PeerReads keeps the invariant.
LEMMA PeerReadsOK ==
    ASSUME SizesAssumption, IInv, NEW f \in Conn, PeerReads(f)
    PROVE  IInv'
<1> DEFINE k == [ep.sock[f] EXCEPT !.room = Room]
<1>1. /\ Good(ep) /\ ep.sock[f] \in Socket /\ Fine(f, ep.fds[f], ep.sock[f])
      /\ f \in Fd /\ f # Listen /\ Room \in 0..Room /\ Masked(ep, f)
  BY EntryOf, Numbers DEF IInv, OutputInv
<1>2. ep.sock[f].st = "up"
  BY DEF PeerReads
<1>3. [ep EXCEPT !.sock[f].room = Room] = SockPut(ep, f, k)
  BY DEF SockPut
<1>4. /\ k \in Socket /\ k.st = ep.sock[f].st /\ k.rx = ep.sock[f].rx
      /\ k.end = ep.sock[f].end /\ k.ready = ep.sock[f].ready
  BY <1>1 DEF Socket
<1> HIDE DEF k
<1>5. Fine(f, ep.fds[f], k)
  BY <1>1, <1>2, <1>4 DEF Fine
<1>6. ep' = Woke(SockPut(ep, f, k), f, "OUT")
  BY <1>3 DEF PeerReads, Kernel
<1>7. Quiet(ep, ep')
  BY <1>1, <1>2, <1>4, <1>5, <1>6, WokeQuiet
<1> QED BY <1>7, QuietKept DEF PeerReads, Kernel

\* Connected keeps the invariant.
LEMMA ConnectedOK ==
    ASSUME SizesAssumption, IInv, NEW f \in Conn, Connected(f)
    PROVE  IInv'
<1>1. /\ Good(ep) /\ ep.sock[f] \in Socket /\ Fine(f, ep.fds[f], ep.sock[f])
      /\ f \in Fd /\ f # Listen /\ Room \in 0..Room /\ Masked(ep, f)
  BY EntryOf, Numbers DEF IInv, OutputInv
<1>2. ep.sock[f].st = "connecting" /\ ep.sock[f].room = 0
  <2>1. ep.sock[f].st = "connecting"
    BY DEF Connected
  <2> QED BY <1>1, <2>1, EntryOf DEF Fine
<1>3. ASSUME Kernel(Woke([ep EXCEPT !.sock[f] = [@ EXCEPT !.st = "up", !.room = Room]], f, "OUT"))
      PROVE  Quiet(ep, ep')
  <2> DEFINE k == [ep.sock[f] EXCEPT !.st = "up", !.room = Room]
  <2>1. [ep EXCEPT !.sock[f] = [@ EXCEPT !.st = "up", !.room = Room]] = SockPut(ep, f, k)
    BY DEF SockPut
  <2>2. /\ k \in Socket /\ k.st = "up" /\ k.rx = ep.sock[f].rx /\ k.end = ep.sock[f].end
        /\ k.ready = ep.sock[f].ready
    BY <1>1 DEF Socket
  <2> HIDE DEF k
  <2>3. Fine(f, ep.fds[f], k)
    BY <1>1, <1>2, <2>2 DEF Fine
  <2>4. ep' = Woke(SockPut(ep, f, k), f, "OUT")
    BY <1>3, <2>1 DEF Kernel
  <2> QED BY <1>1, <1>2, <2>2, <2>3, <2>4, WokeQuiet
<1>4. ASSUME Kernel(Woke([ep EXCEPT !.sock[f].st = "failed"], f, "HUP"))
      PROVE  Quiet(ep, ep')
  <2> DEFINE k == [ep.sock[f] EXCEPT !.st = "failed"]
  <2>1. [ep EXCEPT !.sock[f].st = "failed"] = SockPut(ep, f, k)
    BY DEF SockPut
  <2>2. /\ k \in Socket /\ k.st = "failed" /\ k.rx = ep.sock[f].rx /\ k.end = ep.sock[f].end
        /\ k.ready = ep.sock[f].ready /\ k.room = ep.sock[f].room
    BY <1>1 DEF Socket
  <2> HIDE DEF k
  <2>3. Fine(f, ep.fds[f], k)
    BY <1>1, <1>2, <2>2 DEF Fine
  <2>4. ep' = Woke(SockPut(ep, f, k), f, "HUP")
    BY <1>4, <2>1 DEF Kernel
  <2> QED BY <1>1, <1>2, <2>2, <2>3, <2>4, WokeQuiet
<1>5. Quiet(ep, ep') /\ UNCHANGED <<is_parent, tame, pc, it, evs, cur, aborted, budget>>
  BY <1>3, <1>4 DEF Connected, Kernel
<1> QED BY <1>5, QuietKept

\* Tick keeps the invariant.
LEMMA TickOK ==
    ASSUME SizesAssumption, IInv, Tick
    PROVE  IInv'
<1> DEFINE fds == [f \in Fd |-> IF f \in Remotes(ep) THEN [ep.fds[f] EXCEPT !.idle = TRUE]
                                ELSE ep.fds[f]]
<1>1. /\ Good(ep) /\ ep \in Table /\ ep.fds \in [Fd -> FdInfo] /\ ep.sock \in [Fd -> Socket]
      /\ QueuesFine(ep) /\ MaxFine(ep) /\ ep.maxfd \in Fd
      /\ \A f \in Fd : Fine(f, ep.fds[f], ep.sock[f])
  BY TableParts DEF IInv, Good
<1>2. ep' = [ep EXCEPT !.fds = fds]
  BY DEF Tick, Kernel
<1>3. ASSUME NEW f \in Fd
      PROVE  /\ fds[f] \in FdInfo /\ fds[f].type = ep.fds[f].type /\ fds[f].flag = ep.fds[f].flag
             /\ fds[f].mask = ep.fds[f].mask /\ fds[f].sendlen = ep.fds[f].sendlen
             /\ fds[f].recvlen = ep.fds[f].recvlen /\ fds[f].rcvprotlen = ep.fds[f].rcvprotlen
  <2> DEFINE fi == ep.fds[f]
             gi == [fi EXCEPT !.idle = TRUE]
  <2>1. fi \in FdInfo
    BY <1>1
  <2>2. /\ gi \in FdInfo /\ gi.type = fi.type /\ gi.flag = fi.flag /\ gi.mask = fi.mask
        /\ gi.sendlen = fi.sendlen /\ gi.recvlen = fi.recvlen /\ gi.rcvprotlen = fi.rcvprotlen
    BY <2>1 DEF FdInfo
  <2>3. fds[f] = gi \/ fds[f] = fi
    OBVIOUS
  <2> HIDE DEF fds, fi, gi
  <2>4. fi = ep.fds[f]
    BY DEF fi
  <2> QED BY <2>1, <2>2, <2>3, <2>4
<1>4. fds \in [Fd -> FdInfo]
  BY <1>3
<1> HIDE DEF fds
<1>5. /\ ep' \in Table /\ ep'.fds = fds /\ ep'.sock = ep.sock
      /\ ep'.close_head = ep.close_head /\ ep'.etin_head = ep.etin_head /\ ep'.maxfd = ep.maxfd
      /\ ep'.owed = ep.owed /\ ep'.lied = ep.lied /\ ep'.lost = ep.lost
  BY <1>1, <1>2, <1>4 DEF Table
<1>6. Good(ep')
  <2>1. QueuesFine(ep') /\ MaxFine(ep')
    BY <1>1, <1>3, <1>5 DEF QueuesFine, MaxFine, Used
  <2>2. \A f \in Fd : Fine(f, ep'.fds[f], ep'.sock[f])
    BY <1>1, <1>3, <1>5 DEF Fine
  <2> QED BY <1>5, <2>1, <2>2 DEF Good
<1>7. Kept(ep, ep')
  BY <1>3, <1>5 DEF Kept, NoInput, NoOutput, Roomy, Masked, Bounded, Used
<1>8. Quiet(ep, ep')
  BY <1>3, <1>5, <1>6, <1>7 DEF Quiet
<1> QED BY <1>8, QuietKept DEF Tick, Kernel

------------------------------------------------------------------------------
(* The actions on the table.                                                *)

\* An action on the table, at a place where the loop stays.
LEMMA StaysKept ==
    ASSUME SizesAssumption, IInv, NEW f \in Fd, Moved(ep, ep', f),
           UNCHANGED <<is_parent, tame, pc, it, evs, cur, aborted>>,
           budget' = budget \/ (budget > 0 /\ budget' = budget - 1),
           pc \in {"close", "sendq", "events"}, is_parent \/ evs = Empty,
           Roomy(ep', f)
    PROVE  IInv'
<1>1. Stays(f) /\ (is_parent \/ f \notin DOMAIN evs')
  BY DEF Stays, Empty
<1> QED BY <1>1, WorkKept

\* IterateCloseQueue keeps the invariant.
LEMMA IterateCloseQueueOK ==
    ASSUME SizesAssumption, IInv, IterateCloseQueue
    PROVE  IInv'
<1> DEFINE f == Head(ep.close_head)
           w == LastWrite(ep, f)
           t == DelConn(w, f)
<1>1. /\ pc = "close" /\ ep.close_head # <<>> /\ ep' = [t EXCEPT !.lost = @ \/ Sendable(w, f)]
      /\ UNCHANGED <<is_parent, tame, pc, it, evs, cur, budget, aborted>>
  BY DEF IterateCloseQueue
<1>2. /\ Good(ep) /\ PlaceInv /\ BatchInv /\ ep.close_head \in Seq(Fd)
      /\ QueuesFine(ep)
  BY TableParts DEF IInv, Good
<1>3. f \in Fd /\ OnQueue(ep.close_head, f)
  BY <1>1, <1>2 DEF OnQueue
<1>4. ep.fds[f].type = "remote" /\ f \in Conn
  <2>1. Fine(f, ep.fds[f], ep.sock[f]) /\ "CLOSE" \in ep.fds[f].flag
    BY <1>2, <1>3, EntryOf DEF QueuesFine
  <2> QED BY <1>3, <2>1, Numbers DEF Fine
<1> HIDE DEF f, w, t
<1>5. Good(t) /\ Step(ep, t, f) /\ Calm(ep, t, f) /\ ~Sendable(w, f)
  BY <1>2, <1>4, LastWriteStep DEF w, t
<1>6. ep' = t
  <2>1. t.lost \in BOOLEAN /\ t \in Table
    BY <1>5, TableParts DEF Good
  <2> QED BY <1>1, <1>5, <2>1 DEF Table
<1>7. Moved(ep, ep', f)
  BY <1>2, <1>4, <1>5, <1>6, MovedStep DEF Calm
<1>8. Roomy(ep', f)
  <2>1. Roomy(ep, f)
    BY <1>1, <1>3, IdleHas DEF AtWork
  <2> QED BY <1>2, <1>3, <1>5, <1>6, <2>1 DEF Step, Kept
<1>9. evs = Empty
  BY <1>1, <1>2 DEF BatchInv
<1> QED BY <1>1, <1>3, <1>7, <1>8, <1>9, StaysKept

\* A step of the table for f, at a place where the loop stays.
LEMMA StepStays ==
    ASSUME SizesAssumption, IInv, NEW f \in Conn, Step(ep, ep', f),
           OwedFine(ep) => OwedFine(ep'),
           UNCHANGED <<is_parent, tame, pc, it, evs, cur, aborted>>,
           budget' = budget \/ (budget > 0 /\ budget' = budget - 1),
           pc \in {"close", "sendq", "events"}, is_parent \/ evs = Empty
    PROVE  IInv'
<1>1. Good(ep) /\ f \in Fd
  BY Numbers DEF IInv
<1>2. Moved(ep, ep', f)
  BY <1>1, MovedStep
<1>3. Roomy(ep, f)
  BY <1>1, IdleHas DEF AtWork
<1>4. Roomy(ep', f)
  BY <1>1, <1>3 DEF Step, Kept
<1> QED BY <1>1, <1>2, <1>4, StaysKept

\* The connections the plugin or the send queue may send on.
LEMMA RemotesAre ==
    ASSUME SizesAssumption, IInv, NEW f \in Remotes(ep)
    PROVE  /\ Good(ep) /\ f \in Conn /\ f \in Fd /\ ep.fds[f].type = "remote" /\ Bounded(ep, f)
  BY Numbers DEF Remotes, IInv, OutputInv

\* net_send, at a place where the loop stays.
LEMMA SendStays ==
    ASSUME SizesAssumption, IInv, NEW f \in Remotes(ep), NEW n \in 1..2, ep' \in NetSend(ep, f, n),
           UNCHANGED <<is_parent, tame, pc, it, evs, cur, aborted>>,
           budget' = budget \/ (budget > 0 /\ budget' = budget - 1),
           pc \in {"close", "sendq", "events"}, is_parent \/ evs = Empty
    PROVE  IInv'
<1>1. /\ Good(ep) /\ f \in Conn /\ ep.fds[f].type = "remote" /\ Bounded(ep, f) /\ n \in Nat
  BY RemotesAre
<1>2. Step(ep, ep', f) /\ Calm(ep, ep', f)
  BY <1>1, NetSendStep
<1>3. OwedFine(ep) => OwedFine(ep')
  BY <1>1, <1>2 DEF Calm
<1> QED BY <1>1, <1>2, <1>3, StepStays

\* ScheduleData keeps the invariant.
LEMMA ScheduleDataOK ==
    ASSUME SizesAssumption, IInv, ScheduleData
    PROVE  IInv'
<1>1. PICK f \in Remotes(ep), n \in 1..2 : ep' \in NetSend(ep, f, n)
  BY DEF ScheduleData
<1>2. /\ pc = "sendq" /\ is_parent /\ budget > 0 /\ budget' = budget - 1
      /\ UNCHANGED <<is_parent, tame, pc, it, evs, cur, aborted>>
  BY DEF ScheduleData, IInv, PlaceInv
<1> QED BY <1>1, <1>2, SendStays

\* ScheduleFin keeps the invariant.
LEMMA ScheduleFinOK ==
    ASSUME SizesAssumption, IInv, ScheduleFin
    PROVE  IInv'
<1>1. PICK f \in Remotes(ep) : ep' = AddToClose(ep, f)
  BY DEF ScheduleFin
<1>2. /\ pc = "sendq" /\ is_parent /\ budget > 0 /\ budget' = budget - 1
      /\ UNCHANGED <<is_parent, tame, pc, it, evs, cur, aborted>>
  BY DEF ScheduleFin, IInv, PlaceInv
<1>3. Good(ep) /\ f \in Conn /\ f \in Fd /\ ep.fds[f].type = "remote"
  BY RemotesAre
<1>4. FlagOnly(ep, ep', f) /\ Good(ep') /\ ep'.fds[f].flag # {}
  BY <1>1, <1>3, AddToCloseIs
<1>5. Step(ep, ep', f) /\ Calm(ep, ep', f)
  BY <1>3, <1>4, FlagStep
<1>6. OwedFine(ep) => OwedFine(ep')
  BY <1>3, <1>5 DEF Calm
<1> QED BY <1>2, <1>3, <1>5, <1>6, StepStays

\* CheckTimeout keeps the invariant.
LEMMA CheckTimeoutOK ==
    ASSUME SizesAssumption, IInv, CheckTimeout
    PROVE  IInv'
<1> DEFINE f == Lowest(TimedOut(ep))
<1>1. /\ pc = "events" /\ is_parent /\ ep' = DelConn(ep, f)
      /\ UNCHANGED <<is_parent, tame, pc, it, evs, cur, budget, aborted>>
  BY DEF CheckTimeout
<1>2. f \in TimedOut(ep)
  <2>1. TimedOut(ep) \subseteq Conn /\ TimedOut(ep) # {}
    BY DEF TimedOut, Remotes, CheckTimeout
  <2> QED BY <2>1, LowestFree
<1>3. f \in Remotes(ep)
  BY <1>2 DEF TimedOut
<1> HIDE DEF f
<1>4. Good(ep) /\ f \in Conn /\ ep.fds[f].type = "remote"
  BY <1>3, RemotesAre
<1>5. Step(ep, ep', f) /\ Calm(ep, ep', f)
  BY <1>1, <1>4, DelConnStep
<1>6. OwedFine(ep) => OwedFine(ep')
  BY <1>4, <1>5 DEF Calm
<1> QED BY <1>1, <1>4, <1>5, <1>6, StepStays

\* PluginConnects keeps the invariant.
LEMMA PluginConnectsOK ==
    ASSUME SizesAssumption, IInv, PluginConnects
    PROVE  IInv'
<1>1. /\ pc = "events" /\ evs = Empty /\ ~is_parent
      /\ UNCHANGED <<is_parent, tame, pc, it, evs, cur, budget, aborted>>
  BY DEF PluginConnects
<1>2. Good(ep) /\ 1 \in Conn /\ 1 \in Fd
  BY DEF IInv, SizesAssumption, Conn, Fd
<1>3. CASE ep' = AsynConnect(ep)
  <2>1. Step(ep, ep', 1) /\ (OwedFine(ep) => OwedFine(ep'))
    BY <1>1, <1>2, <1>3, AsynConnectStep
  <2> QED BY <1>1, <1>2, <2>1, StepStays
<1>4. CASE ep' = ConnectToSvr(ep)
  <2>1. Step(ep, ep', 1) /\ (OwedFine(ep) => OwedFine(ep'))
    BY <1>2, <1>4, ConnectToSvrStep
  <2> QED BY <1>1, <1>2, <2>1, StepStays
<1>5. ASSUME NEW f \in Conn, ep' = CloseSvr(ep, f)
      PROVE  IInv'
  <2>1. Step(ep, ep', f) /\ (OwedFine(ep) => OwedFine(ep'))
    BY <1>2, <1>5, CloseSvrStep
  <2> QED BY <1>1, <2>1, StepStays
<1> QED BY <1>3, <1>4, <1>5 DEF PluginConnects, Reconnecting

\* PluginSends keeps the invariant.
LEMMA PluginSendsOK ==
    ASSUME SizesAssumption, IInv, PluginSends
    PROVE  IInv'
<1>1. PICK f \in Remotes(ep), n \in 1..2 : ep' \in NetSend(ep, f, n)
  BY DEF PluginSends, Sending
<1>2. /\ pc = "events" /\ evs = Empty /\ budget > 0 /\ budget' = budget - 1
      /\ UNCHANGED <<is_parent, tame, pc, it, evs, cur, aborted>>
  BY DEF PluginSends
<1> QED BY <1>1, <1>2, SendStays

\* A client is taken off the listening socket.
Taken(s) == [s EXCEPT !.sock[Listen].rx = @ - 1]

\* Taking a client leaves everything else as it is.
LEMMA TakenIs ==
    ASSUME SizesAssumption, NEW s, Good(s), s.fds[Listen].type = "listen", s.sock[Listen].rx > 0,
           NEW t, t = Taken(s)
    PROVE  /\ Good(t) /\ t.fds = s.fds /\ Free(t) = Free(s)
           /\ \A f \in Fd : Moved(s, t, f)
<1> DEFINE k == [s.sock[Listen] EXCEPT !.rx = s.sock[Listen].rx - 1]
<1>1. /\ s \in Table /\ s.fds \in [Fd -> FdInfo] /\ s.sock \in [Fd -> Socket]
      /\ Listen \in Fd /\ Listen \notin Conn /\ s.sock[Listen].rx \in Nat
      /\ Conn \subseteq Fd /\ Fine(Listen, s.fds[Listen], s.sock[Listen])
  BY TableParts, EntryOf, Numbers DEF Good
<1>2. t = SockPut(s, Listen, k)
  BY DEF SockPut, Taken
<1>3. /\ k \in Socket /\ k.st = s.sock[Listen].st /\ k.end = s.sock[Listen].end
      /\ k.room = s.sock[Listen].room /\ k.ready = s.sock[Listen].ready
      /\ k.rx = s.sock[Listen].rx - 1
  <2>1. s.sock[Listen] \in Socket /\ s.sock[Listen].rx - 1 \in Nat
    BY <1>1
  <2> QED BY <2>1 DEF Socket
<1> HIDE DEF k
<1>4. Fine(Listen, s.fds[Listen], k)
  BY <1>1, <1>3 DEF Fine
<1>5. /\ t \in Table /\ t.fds = s.fds /\ t.sock = [s.sock EXCEPT ![Listen] = k]
      /\ t.close_head = s.close_head /\ t.etin_head = s.etin_head /\ t.maxfd = s.maxfd
      /\ t.owed = s.owed /\ t.lied = s.lied /\ t.lost = s.lost
  BY <1>1, <1>2, <1>3, SockPutIs
<1>6. t.sock[Listen] = k /\ \A g \in Fd \ {Listen} : t.sock[g] = s.sock[g]
  BY <1>1, <1>5
<1>7. Good(t)
  <2>1. t.fds = [s.fds EXCEPT ![Listen] = s.fds[Listen]] /\ s.fds[Listen] \in FdInfo
    BY <1>1, <1>5
  <2> QED BY <1>1, <1>3, <1>4, <1>5, <2>1, GoodTouch
<1>8. \A g \in Fd : t.sock[g].st = s.sock[g].st
  BY <1>3, <1>6
<1>9. Free(t) = Free(s)
  BY <1>1, <1>8 DEF Free
<1>10. ASSUME NEW g \in Fd
       PROVE  /\ NoInput(s, g) => NoInput(t, g)
              /\ NoOutput(s, g) => NoOutput(t, g)
              /\ Masked(s, g) => Masked(t, g)
              /\ Bounded(s, g) => Bounded(t, g)
              /\ Roomy(s, g) => Roomy(t, g)
  <2>1. NoInput(s, g) => NoInput(t, g)
    BY <1>1, <1>3, <1>5, <1>6 DEF NoInput
  <2>2. NoOutput(s, g) => NoOutput(t, g)
    BY <1>3, <1>5, <1>6 DEF NoOutput
  <2>3. /\ Masked(s, g) => Masked(t, g)
        /\ Bounded(s, g) => Bounded(t, g)
        /\ Roomy(s, g) => Roomy(t, g)
    BY <1>5 DEF Masked, Bounded, Roomy, Used
  <2> QED BY <2>1, <2>2, <2>3
<1>11. ASSUME NEW f \in Fd PROVE Moved(s, t, f)
  <2>1. KeptBut(s, t, f)
    BY <1>10 DEF KeptBut
  <2>2. Held(s, t, f) /\ (OwedFine(s) => OwedFine(t))
    BY <1>5, <1>8 DEF Held, OwedFine
  <2> QED BY <1>5, <1>7, <2>1, <2>2 DEF Moved
<1> QED BY <1>5, <1>7, <1>9, <1>11

\* While clients are accepted.
LEMMA AcceptsAt ==
    ASSUME SizesAssumption, IInv, pc = "accept"
    PROVE  /\ Good(ep) /\ cur.fd = Listen /\ is_parent /\ ep.fds[Listen].type = "listen"
           /\ Listen \in Fd /\ Roomy(ep, Listen)
  BY Numbers DEF IInv, PlaceInv, InputInv

\* AcceptOne keeps the invariant.
LEMMA AcceptOneOK ==
    ASSUME SizesAssumption, IInv, AcceptOne
    PROVE  IInv'
<1> DEFINE s == Taken(ep)
           f == Lowest(Free(s))
           t == AddConn(s, f, "remote", [NoSocket EXCEPT !.st = "up", !.room = Room])
<1>1. /\ pc = "accept" /\ ep.sock[Listen].rx > 0 /\ Free(ep) # {}
      /\ UNCHANGED <<is_parent, tame, pc, it, evs, cur, budget, aborted>>
  BY DEF AcceptOne
<1>2. /\ Good(ep) /\ cur.fd = Listen /\ is_parent /\ ep.fds[Listen].type = "listen"
  BY <1>1, AcceptsAt
<1>3. Good(s) /\ s.fds = ep.fds /\ Free(s) = Free(ep) /\ \A g \in Fd : Moved(ep, s, g)
  BY <1>1, <1>2, TakenIs
<1>4. ep' \in {t, DelConn(t, f)}
  BY <1>3 DEF AcceptOne, Taken
<1> HIDE DEF s
<1>5. /\ f \in Conn /\ ~Used(s, f) /\ Good(t) /\ Step(s, t, f) /\ t.fds[f].type = "remote"
      /\ (OwedFine(s) => OwedFine(t)) /\ f \in Fd /\ f # Listen
  BY <1>1, <1>3, OpenedStep, Numbers
<1> HIDE DEF f, t
<1>6. Moved(s, t, f)
  BY <1>3, <1>5, MovedStep
<1>7. Moved(ep, t, f)
  BY <1>3, <1>5, <1>6, MovedTwice
<1>8. ~Used(ep, f)
  BY <1>3, <1>5 DEF Used
<1>9. Roomy(s, f) /\ Roomy(t, f)
  <2>1. Roomy(s, f)
    BY <1>3, <1>5, Gone
  <2> QED BY <1>3, <1>5, <2>1 DEF Step, Kept
<1>10. Moved(ep, ep', f) /\ Roomy(ep', f)
  <2>1. CASE ep' = t
    BY <1>7, <1>9, <2>1
  <2>2. CASE ep' = DelConn(t, f)
    <3>1. Step(t, ep', f) /\ Calm(t, ep', f)
      BY <1>5, <2>2, DelConnStep
    <3>2. Moved(t, ep', f)
      BY <1>5, <3>1, MovedStep DEF Calm
    <3> QED BY <1>5, <1>7, <1>9, <3>1, <3>2, MovedTwice DEF Step, Kept
  <2> QED BY <1>4, <2>1, <2>2
<1>11. Stays(f) /\ ~Works(f)
  BY <1>1, <1>2, <1>5, <1>8 DEF Stays, Works
<1> QED BY <1>1, <1>2, <1>5, <1>10, <1>11, WorkKept

\* The end of do_open_conn.
LEMMA AcceptEnds ==
    ASSUME SizesAssumption, IInv, pc = "accept", pc' = Back, Moved(ep, ep', Listen),
           Roomy(ep', Listen), NoInput(ep', Listen) \/ aborted', aborted => aborted',
           UNCHANGED <<is_parent, tame, it, evs, cur>>,
           budget' = budget \/ (budget > 0 /\ budget' = budget - 1)
    PROVE  IInv'
<1>1. /\ Good(ep) /\ cur.fd = Listen /\ is_parent /\ ep.fds[Listen].type = "listen"
      /\ Listen \in Fd
  BY AcceptsAt
<1>2. Works(Listen)
  BY <1>1 DEF Works
<1>3. ep'.fds[Listen].type # "asyn_connect"
  BY <1>1 DEF Moved
<1> QED BY <1>1, <1>2, <1>3, WorkKept

\* A change of the flag of the listening socket.
LEMMA ListenFlag ==
    ASSUME SizesAssumption, NEW s, Good(s), s.fds[Listen].type = "listen", Roomy(s, Listen),
           NEW t, FlagOnly(s, t, Listen), NoInput(t, Listen)
    PROVE  Moved(s, t, Listen) /\ Roomy(t, Listen)
<1>1. Listen \in Fd
  BY Numbers
<1>2. /\ Loose(s, t, Listen) /\ t.sock = s.sock /\ t.fds[Listen].type = s.fds[Listen].type
      /\ t.fds[Listen].sendlen = s.fds[Listen].sendlen
      /\ t.fds[Listen].recvlen = s.fds[Listen].recvlen
      /\ t.fds[Listen].rcvprotlen = s.fds[Listen].rcvprotlen
  BY DEF FlagOnly
<1>3. /\ NoOutput(t, Listen) /\ Masked(t, Listen) /\ Roomy(t, Listen)
      /\ Bounded(s, Listen) => Bounded(t, Listen)
  BY <1>2 DEF NoOutput, Masked, Bounded, Roomy, Used
<1> QED BY <1>1, <1>2, <1>3, MovedLoose

\* AcceptFull keeps the invariant.
LEMMA AcceptFullOK ==
    ASSUME SizesAssumption, IInv, AcceptFull
    PROVE  IInv'
<1>1. /\ pc = "accept" /\ ep' = AddToEtin(ep, Listen) /\ pc' = Back
      /\ UNCHANGED <<is_parent, tame, it, evs, cur, budget, aborted>>
  BY DEF AcceptFull
<1>2. Good(ep) /\ ep.fds[Listen].type = "listen" /\ Listen \in Fd /\ Roomy(ep, Listen)
  BY <1>1, AcceptsAt
<1>3. FlagOnly(ep, ep', Listen) /\ ep'.fds[Listen].flag # {}
  BY <1>1, <1>2, AddToEtinIs
<1>4. NoInput(ep', Listen)
  BY <1>3 DEF NoInput
<1>5. Moved(ep, ep', Listen) /\ Roomy(ep', Listen)
  BY <1>2, <1>3, <1>4, ListenFlag
<1> QED BY <1>1, <1>4, <1>5, AcceptEnds

\* AcceptEmpty keeps the invariant.
LEMMA AcceptEmptyOK ==
    ASSUME SizesAssumption, IInv, AcceptEmpty
    PROVE  IInv'
<1>1. /\ pc = "accept" /\ ep' = DelFromEtin(ep, Listen) /\ pc' = Back /\ ep.sock[Listen].rx = 0
      /\ UNCHANGED <<is_parent, tame, it, evs, cur, budget, aborted>>
  BY DEF AcceptEmpty
<1>2. Good(ep) /\ ep.fds[Listen].type = "listen" /\ Listen \in Fd /\ Roomy(ep, Listen)
  BY <1>1, AcceptsAt
<1>3. FlagOnly(ep, ep', Listen)
  BY <1>1, <1>2, DelFromEtinIs
<1>4. NoInput(ep', Listen)
  BY <1>1, <1>3 DEF NoInput, FlagOnly
<1>5. Moved(ep, ep', Listen) /\ Roomy(ep', Listen)
  BY <1>2, <1>3, <1>4, ListenFlag
<1> QED BY <1>1, <1>4, <1>5, AcceptEnds

\* AcceptAborted keeps the invariant.
LEMMA AcceptAbortedOK ==
    ASSUME SizesAssumption, IInv, AcceptAborted
    PROVE  IInv'
<1>1. /\ pc = "accept" /\ ep.sock[Listen].rx > 0 /\ budget > 0 /\ budget' = budget - 1
      /\ pc' = Back /\ aborted' = TRUE /\ UNCHANGED <<is_parent, tame, it, evs, cur>>
  BY DEF AcceptAborted
<1>2. ep' = Taken(ep)
  BY DEF AcceptAborted, Taken
<1>3. Good(ep) /\ ep.fds[Listen].type = "listen" /\ Listen \in Fd /\ Roomy(ep, Listen)
  BY <1>1, AcceptsAt
<1>4. Moved(ep, ep', Listen) /\ ep'.fds = ep.fds
  BY <1>1, <1>2, <1>3, TakenIs
<1>5. Roomy(ep', Listen)
  BY <1>3, <1>4 DEF Roomy, Used
<1> QED BY <1>1, <1>4, <1>5, AcceptEnds

\* asyn_connect by a plugin that does not keep to its own connection.
LEMMA AsynConnectWild ==
    ASSUME SizesAssumption, NEW s, Good(s), ~is_parent, ~tame, NEW f \in Fd,
           NEW t, t = AsynConnect(s)
    PROVE  Moved(s, t, f) /\ Kept(s, t)
<1>1. /\ Good(t) /\ \A g \in Fd : Step(s, t, g) /\ (Used(s, g) => t.fds[g] = s.fds[g])
  BY AsynConnectStep
<1>2. Listen \in Fd /\ Used(s, Listen)
  BY EntryOf, Numbers DEF Fine, Used
<1>3. Kept(s, t) /\ t.lost = s.lost /\ t.fds[Listen].type = s.fds[Listen].type
  BY <1>1, <1>2 DEF Step
<1> QED BY <1>1, <1>3, MovedWild

\* HandleAsynConnect keeps the invariant.
LEMMA HandleAsynConnectOK ==
    ASSUME SizesAssumption, IInv, NEW f \in Fd, HandleAsynConnect(f)
    PROVE  IInv'
<1> DEFINE s == [AsynOutcome(ep, f) EXCEPT !.owed = @ \ {f}]
<1>1. /\ pc = "events" /\ f \in DOMAIN evs /\ ep.fds[f].type = "asyn_connect" /\ evs' = Rest(f)
      /\ ep' \in {s} \cup (IF Used(s, f) THEN {CloseSvr(s, f)} \cup NetSend(s, f, 1)
                           ELSE IF tame THEN {} ELSE {AsynConnect(s)})
      /\ UNCHANGED <<is_parent, tame, pc, it, cur, budget, aborted>>
  BY DEF HandleAsynConnect
<1>2. Good(ep) /\ BatchInv /\ Bounded(ep, f) /\ Roomy(ep, f)
  BY <1>1, IdleHas DEF IInv, OutputInv, AtWork
<1>3. ~is_parent /\ f \in Conn
  BY <1>1, <1>2, EntryOf, Numbers DEF Bounded, Fine
<1>4. tame => ep.sock[f].st # "connecting"
  BY <1>1, <1>2, <1>3 DEF BatchInv
<1>5. /\ Good(s) /\ Moved(ep, s, f) /\ NoInput(s, f) /\ NoOutput(s, f) /\ Roomy(s, f)
      /\ (Used(s, f) => s.fds[f].type = "remote")
  BY <1>1, <1>2, <1>3, <1>4, AsynOutcomeStep
<1> HIDE DEF s
<1>6. Moved(ep, ep', f) /\ NoInput(ep', f) /\ NoOutput(ep', f) /\ Roomy(ep', f)
  <2>1. CASE ep' = s
    BY <1>5, <2>1
  <2>2. CASE ep' = CloseSvr(s, f)
    <3>1. Good(ep') /\ Moved(s, ep', f) /\ ~Used(ep', f)
      BY <1>3, <1>5, <2>2, CloseSvrMoved
    <3> QED BY <1>5, <3>1, MovedTwice, Gone
  <2>3. CASE Used(s, f) /\ ep' \in NetSend(s, f, 1)
    <3>1. Bounded(s, f) /\ 1 \in Nat
      BY <1>3 DEF Bounded
    <3>2. Moved(s, ep', f) /\ Step(s, ep', f)
      BY <1>3, <1>5, <2>3, <3>1, NetSendMoved, NetSendStep
    <3> QED BY <1>5, <3>2, MovedTwice DEF Step, Kept
  <2>4. CASE ~tame /\ ep' = AsynConnect(s)
    <3>1. Moved(s, ep', f) /\ Kept(s, ep')
      BY <1>3, <1>5, <2>4, AsynConnectWild
    <3> QED BY <1>5, <3>1, MovedTwice DEF Kept
  <2> QED BY <1>1, <2>1, <2>2, <2>3, <2>4
<1>7. Stays(f) /\ f \notin DOMAIN evs'
  BY <1>1 DEF Stays, Rest
<1> QED BY <1>1, <1>6, <1>7, WorkKept DEF Works

\* While a connection is read.
LEMMA ReadsAt ==
    ASSUME SizesAssumption, IInv, pc \in {"recv", "parse"}
    PROVE  /\ Good(ep) /\ cur.fd \in Conn /\ cur.fd \in Fd /\ ep.fds[cur.fd].type = "remote"
           /\ Bounded(ep, cur.fd) /\ cur.fd \notin DOMAIN evs
  BY Numbers DEF IInv, PlaceInv, OutputInv, BatchInv, AtWork

\* A step of the work with a connection.
LEMMA WorksOn ==
    ASSUME SizesAssumption, IInv, pc \in {"recv", "parse"}, Moved(ep, ep', cur.fd),
           UNCHANGED <<is_parent, tame, it, evs, cur, budget, aborted>>,
           \/ pc' = Back /\ Roomy(ep', cur.fd) /\ (tame => ep'.fds[cur.fd].type # "asyn_connect")
           \/ pc' = "parse" /\ ep'.fds[cur.fd].type = "remote",
           pc = "recv" => NoInput(ep', cur.fd)
    PROVE  IInv'
<1>1. Good(ep) /\ cur.fd \in Fd /\ cur.fd \notin DOMAIN evs
  BY ReadsAt
<1>2. Works(cur.fd)
  BY DEF Works
<1> QED BY <1>1, <1>2, WorkKept

\* The connection at work is deleted.
LEMMA DropsIt ==
    ASSUME SizesAssumption, IInv, pc \in {"recv", "parse"}, ep' \in Deleted(ep, cur.fd), pc' = Back,
           UNCHANGED <<is_parent, tame, it, evs, cur, budget, aborted>>
    PROVE  IInv'
<1>1. Good(ep) /\ cur.fd \in Conn /\ cur.fd \in Fd /\ ep.fds[cur.fd].type = "remote"
  BY ReadsAt
<1>2. Good(ep') /\ Moved(ep, ep', cur.fd) /\ ~Used(ep', cur.fd)
  BY <1>1, DeletedMoved
<1>3. Roomy(ep', cur.fd) /\ NoInput(ep', cur.fd) /\ ep'.fds[cur.fd].type # "asyn_connect"
  BY <1>1, <1>2, Gone
<1> QED BY <1>2, <1>3, WorksOn

\* ReadConn keeps the invariant.
LEMMA ReadConnOK ==
    ASSUME SizesAssumption, IInv, ReadConn
    PROVE  IInv'
<1>1. pc = "recv" /\ UNCHANGED <<is_parent, tame, it, evs, cur, budget, aborted>>
  BY DEF ReadConn
<1>2. /\ Good(ep) /\ cur.fd \in Conn /\ cur.fd \in Fd /\ ep.fds[cur.fd].type = "remote"
  BY <1>1, ReadsAt
<1>3. ~Full(ep, cur.fd)
  <2>1. Roomy(ep, cur.fd) /\ Used(ep, cur.fd)
    BY <1>1, <1>2 DEF IInv, InputInv, Used
  <2> QED BY <1>2, <2>1, EntryOf DEF Roomy, Full
<1>4. CASE PeerClosed(ep, cur.fd)
  <2>1. ep' \in Deleted(ep, cur.fd) /\ pc' = Back
    BY <1>3, <1>4 DEF ReadConn
  <2> QED BY <1>1, <2>1, DropsIt
<1>5. CASE ~PeerClosed(ep, cur.fd)
  <2>1. ep' = Requeued(Receive(ep, cur.fd), cur.fd) /\ pc' = "parse"
    BY <1>3, <1>5 DEF ReadConn
  <2>2. /\ Loose(ep, ep', cur.fd) /\ Good(ep') /\ ep'.fds[cur.fd].type = "remote"
        /\ NoInput(ep', cur.fd) /\ (NoOutput(ep, cur.fd) => NoOutput(ep', cur.fd))
        /\ (Masked(ep, cur.fd) => Masked(ep', cur.fd))
        /\ (Bounded(ep, cur.fd) => Bounded(ep', cur.fd))
    BY <1>2, <2>1, ReceiveStep
  <2>3. Moved(ep, ep', cur.fd)
    BY <1>2, <2>2, MovedLoose
  <2> QED BY <1>1, <2>1, <2>2, <2>3, WorksOn
<1> QED BY <1>4, <1>5

\* ParseBad keeps the invariant.
LEMMA ParseBadOK ==
    ASSUME SizesAssumption, IInv, ParseBad
    PROVE  IInv'
  BY DropsIt DEF ParseBad

\* The lengths get_pkg_len may say, and the buffer they are about.
LEMMA LengthsAre ==
    ASSUME SizesAssumption, NEW s, Good(s), NEW f \in Fd, NEW len \in Lengths(s, f)
    PROVE  len \in Nat /\ s.fds[f].recvlen \in 0..page_size
<1>1. /\ s.fds[f].recvlen \in 0..page_size /\ s.fds[f].rcvprotlen \in 0..page_size
      /\ page_size \in Nat
  BY EntryOf
<1>2. len \in {s.fds[f].rcvprotlen} \/ len \in {0} \/ len \in 0..(page_size + 1)
  BY DEF Lengths
<1> QED BY <1>1, <1>2

\* ParseWait keeps the invariant.
LEMMA ParseWaitOK ==
    ASSUME SizesAssumption, IInv, ParseWait
    PROVE  IInv'
<1> DEFINE f == cur.fd
<1>1. /\ pc = "parse" /\ pc' = Back
      /\ UNCHANGED <<is_parent, tame, it, evs, cur, budget, aborted>>
  BY DEF ParseWait
<1>2. PICK len \in Lengths(ep, f) :
        /\ ~Hopeless(ep, f, len) /\ (len = 0 \/ len > ep.fds[f].recvlen)
        /\ ep' = [ep EXCEPT !.fds[f].rcvprotlen = len]
  BY DEF ParseWait
<1>3. /\ Good(ep) /\ f \in Conn /\ f \in Fd /\ ep.fds[f].type = "remote" /\ Used(ep, f)
  BY <1>1, ReadsAt DEF Used
<1> HIDE DEF f
<1> DEFINE a == ep.fds[f].recvlen
<1>4. len \in Nat /\ a \in 0..page_size /\ page_size \in Nat /\ ep.fds[f] \in FdInfo
  BY <1>3, LengthsAre, EntryOf
<1>5. len <= page_size /\ (len = 0 => a < page_size)
  BY <1>2, <1>4 DEF Hopeless, Full
<1>6. len \in 0..page_size
  BY <1>4, <1>5
<1>7. ep' = Buffered(ep, f, a, len)
  <2>1. [ep.fds[f] EXCEPT !.rcvprotlen = len]
            = [ep.fds[f] EXCEPT !.recvlen = a, !.rcvprotlen = len]
    BY <1>4 DEF FdInfo
  <2>2. ep' = [ep EXCEPT !.fds[f] = [ep.fds[f] EXCEPT !.rcvprotlen = len]]
    BY <1>2
  <2> QED BY <2>1, <2>2 DEF Buffered
<1>8. /\ Moved(ep, ep', f) /\ ep'.fds[f].type = "remote"
      /\ ep'.fds[f].recvlen = a /\ ep'.fds[f].rcvprotlen = len
  BY <1>3, <1>4, <1>6, <1>7, BufferIs
<1> HIDE DEF a
<1>9. Roomy(ep', f)
  <2>1. a < page_size /\ (len # 0 => a < len)
    <3>1. len = 0 \/ len > a
      BY <1>2 DEF a
    <3> QED BY <1>4, <1>5, <3>1
  <2> QED BY <1>8, <2>1 DEF Roomy
<1> QED BY <1>1, <1>8, <1>9, WorksOn DEF f

\* A package has been handed over: the buffer holds the rest.
LEMMA ConsumedIs ==
    ASSUME SizesAssumption, NEW s, Good(s), NEW f \in Conn, Used(s, f),
           NEW len \in Nat, len <= s.fds[f].recvlen, NEW t, t = Consumed(s, f, len),
           tame => s.fds[f].type # "asyn_connect"
    PROVE  /\ Good(t) /\ Moved(s, t, f) /\ t.fds[f].type = s.fds[f].type
           /\ t.fds[f].recvlen = s.fds[f].recvlen - len
           /\ s.fds[f].recvlen <= len => Roomy(t, f)
<1> DEFINE a == s.fds[f].recvlen - len
<1>1. f \in Fd /\ s.fds[f].recvlen \in 0..page_size /\ page_size \in Nat \ {0}
  BY EntryOf, Numbers
<1>2. a \in 0..page_size /\ 0 \in 0..page_size
  BY <1>1
<1>3. t = Buffered(s, f, a, 0)
  BY DEF Consumed, Buffered
<1>4. a = s.fds[f].recvlen - len
  OBVIOUS
<1> HIDE DEF a
<1>5. /\ Good(t) /\ Moved(s, t, f) /\ t.fds[f].type = s.fds[f].type
      /\ t.fds[f].recvlen = a /\ t.fds[f].rcvprotlen = 0
  BY <1>2, <1>3, BufferIs
<1>6. s.fds[f].recvlen <= len => a = 0
  BY <1>1, <1>4
<1>7. a = 0 => Roomy(t, f)
  BY <1>1, <1>5 DEF Roomy
<1> QED BY <1>4, <1>5, <1>6, <1>7

\* ParentPackage keeps the invariant.
LEMMA ParentPackageOK ==
    ASSUME SizesAssumption, IInv, ParentPackage
    PROVE  IInv'
<1> DEFINE f == cur.fd
<1>1. /\ pc = "parse" /\ UNCHANGED <<is_parent, tame, it, evs, cur, budget, aborted>>
  BY DEF ParentPackage
<1>2. /\ Good(ep) /\ f \in Conn /\ f \in Fd /\ ep.fds[f].type = "remote" /\ Used(ep, f)
  BY <1>1, ReadsAt DEF Used
<1>3. PICK len \in Lengths(ep, f) :
        /\ Whole(len)
        /\ \/ /\ ep' = Consumed(ep, f, len)
              /\ pc' = IF ep.fds[f].recvlen > len THEN "parse" ELSE Back
           \/ ep' \in Deleted(ep, f) /\ pc' = Back
  BY DEF ParentPackage
<1>4. CASE ep' \in Deleted(ep, f) /\ pc' = Back
  BY <1>1, <1>4, DropsIt
<1>5. CASE ep' = Consumed(ep, f, len) /\ pc' = IF ep.fds[f].recvlen > len THEN "parse" ELSE Back
  <2>1. len \in Nat /\ ep.fds[f].recvlen \in 0..page_size /\ len <= ep.fds[f].recvlen
    BY <1>2, <1>3, LengthsAre DEF Whole
  <2>2. /\ Moved(ep, ep', f) /\ ep'.fds[f].type = "remote"
        /\ ep.fds[f].recvlen <= len => Roomy(ep', f)
    BY <1>2, <1>5, <2>1, ConsumedIs
  <2>3. CASE ep.fds[f].recvlen > len
    BY <1>1, <1>5, <2>2, <2>3, WorksOn
  <2>4. CASE ~(ep.fds[f].recvlen > len)
    <3>1. ep.fds[f].recvlen <= len
      BY <1>2, <2>1, <2>4, EntryOf
    <3> QED BY <1>1, <1>5, <2>2, <2>4, <3>1, WorksOn
  <2> QED BY <2>3, <2>4
<1> QED BY <1>3, <1>4, <1>5

\* WorkerPackage keeps the invariant.
LEMMA WorkerPackageOK ==
    ASSUME SizesAssumption, IInv, WorkerPackage
    PROVE  IInv'
<1> DEFINE f == cur.fd
<1>1. /\ pc = "parse" /\ ~is_parent /\ UNCHANGED <<is_parent, tame, it, evs, cur, budget, aborted>>
  BY DEF WorkerPackage
<1>2. /\ Good(ep) /\ f \in Conn /\ f \in Fd /\ ep.fds[f].type = "remote" /\ Used(ep, f)
  BY <1>1, ReadsAt DEF Used
<1>3. PICK len \in Lengths(ep, f) :
        /\ Whole(len)
        /\ \E s \in InPackage([ep EXCEPT !.fds[f].rcvprotlen = len], f) :
              LET fi == s.fds[f]
              IN  /\ ep' = IF Used(s, f) THEN Consumed(s, f, fi.rcvprotlen) ELSE s
                  /\ pc' = IF Used(s, f) /\ fi.recvlen > fi.rcvprotlen THEN "parse" ELSE Back
  BY DEF WorkerPackage
<1>4. PICK s \in InPackage([ep EXCEPT !.fds[f].rcvprotlen = len], f) :
        /\ ep' = IF Used(s, f) THEN Consumed(s, f, s.fds[f].rcvprotlen) ELSE s
        /\ pc' = IF Used(s, f) /\ s.fds[f].recvlen > s.fds[f].rcvprotlen THEN "parse" ELSE Back
  BY <1>3
<1> DEFINE a == ep.fds[f].recvlen
           before == Buffered(ep, f, a, len)
<1>5. /\ len \in Nat /\ a \in 0..page_size /\ len <= a /\ page_size \in Nat
      /\ ep.fds[f] \in FdInfo
  BY <1>2, <1>3, LengthsAre, EntryOf DEF Whole
<1>6. len \in 0..page_size
  BY <1>5
<1>7. [ep EXCEPT !.fds[f].rcvprotlen = len] = before
  <2>1. [ep.fds[f] EXCEPT !.rcvprotlen = len]
            = [ep.fds[f] EXCEPT !.recvlen = a, !.rcvprotlen = len]
    BY <1>5 DEF FdInfo
  <2> QED BY <2>1 DEF Buffered
<1> HIDE DEF a, before, f
<1>8. /\ Good(before) /\ Moved(ep, before, f) /\ before.fds[f].type = "remote"
      /\ before.fds[f].recvlen = a /\ before.fds[f].rcvprotlen = len
  BY <1>2, <1>5, <1>6, BufferIs DEF before
<1>9. /\ Good(s) /\ Moved(before, s, f)
      /\ \/ ~Used(s, f)
         \/ s.fds[f].type = "remote" /\ s.fds[f].recvlen = a /\ s.fds[f].rcvprotlen = len
         \/ ~tame /\ Used(s, f) /\ s.fds[f].recvlen = 0 /\ s.fds[f].rcvprotlen = 0
  <2>1. Bounded(before, f) /\ s \in InPackage(before, f)
    BY <1>1, <1>4, <1>7 DEF Bounded
  <2> QED BY <1>1, <1>2, <1>8, <2>1, InPackageStep
<1>10. Moved(ep, s, f)
  BY <1>2, <1>8, <1>9, MovedTwice
<1>11. CASE ~Used(s, f)
  <2>1. ep' = s /\ pc' = Back
    BY <1>4, <1>11
  <2>2. Roomy(ep', f) /\ ep'.fds[f].type # "asyn_connect"
    BY <1>2, <1>9, <1>11, <2>1, Gone
  <2> QED BY <1>1, <1>10, <2>1, <2>2, WorksOn DEF f
<1>12. CASE s.fds[f].type = "remote" /\ s.fds[f].recvlen = a /\ s.fds[f].rcvprotlen = len
  <2>1. Used(s, f) /\ ep' = Consumed(s, f, len) /\ pc' = IF a > len THEN "parse" ELSE Back
    BY <1>4, <1>12 DEF Used
  <2>2. Moved(s, ep', f) /\ ep'.fds[f].type = "remote" /\ (a <= len => Roomy(ep', f))
    BY <1>2, <1>5, <1>9, <1>12, <2>1, ConsumedIs
  <2>3. Moved(ep, ep', f)
    BY <1>2, <1>10, <2>2, MovedTwice
  <2>4. (a > len /\ pc' = "parse") \/ (a <= len /\ pc' = Back)
    BY <1>5, <2>1
  <2> QED BY <1>1, <2>2, <2>3, <2>4, WorksOn DEF f
<1>13. CASE ~tame /\ Used(s, f) /\ s.fds[f].recvlen = 0 /\ s.fds[f].rcvprotlen = 0
  <2>1. ep' = Consumed(s, f, 0) /\ pc' = Back /\ 0 \in Nat
    BY <1>4, <1>13
  <2>2. Moved(s, ep', f) /\ Roomy(ep', f)
    BY <1>2, <1>9, <1>13, <2>1, ConsumedIs
  <2>3. Moved(ep, ep', f)
    BY <1>2, <1>10, <2>2, MovedTwice
  <2> QED BY <1>1, <1>13, <2>1, <2>2, <2>3, WorksOn DEF f
<1> QED BY <1>9, <1>11, <1>12, <1>13

\* FinishEvent keeps the invariant.
LEMMA FinishEventOK ==
    ASSUME SizesAssumption, IInv, FinishEvent
    PROVE  IInv'
<1> DEFINE f == cur.fd
           flushed == IF "OUT" \in cur.events THEN {Disarmed(s, f) : s \in Flushed(ep, f)} ELSE {ep}
<1>1. /\ pc = "out" /\ pc' = "events" /\ cur' = Nothing
      /\ UNCHANGED <<is_parent, tame, it, evs, budget, aborted>>
      /\ ep' \in IF "HUP" \in cur.events THEN UNION {Deleted(s, f) : s \in flushed} ELSE flushed
  BY DEF FinishEvent
<1>2. /\ Good(ep) /\ f \in Fd /\ (tame => ep.fds[f].type # "asyn_connect")
      /\ Bounded(ep, f) /\ f \notin DOMAIN evs /\ Roomy(ep, f)
      /\ (f = Listen => cur.events \subseteq {"IN"})
      /\ NoOutput(ep, f) \/ "OUT" \in cur.events
  BY <1>1 DEF IInv, PlaceInv, OutputInv, BatchInv, InputInv, AtWork
<1>3. Ends(f)
  BY <1>1 DEF Ends
<1>4. CASE f = Listen
  <2>1. ep' = ep /\ Moved(ep, ep', f) /\ NoOutput(ep, f)
    BY <1>1, <1>2, <1>4, MovedNone
  <2> QED BY <1>1, <1>2, <1>3, <2>1, WorkKept
<1>5. CASE f # Listen
  <2>1. f \in Conn
    BY <1>2, <1>5, Numbers
  <2>2. PICK v \in flushed : ep' = v \/ ep' \in Deleted(v, f)
    BY <1>1
  <2>3. /\ Good(v) /\ Step(ep, v, f) /\ NoOutput(v, f)
        /\ ep.fds[f].type # "asyn_connect" => Calm(ep, v, f) /\ v.fds[f].type # "asyn_connect"
    <3>1. CASE "OUT" \in cur.events
      <4>1. PICK w \in Flushed(ep, f) : v = Disarmed(w, f)
        BY <3>1
      <4> HIDE DEF f
      <4> QED BY <1>2, <2>1, <4>1, FlushStep
    <3>2. CASE "OUT" \notin cur.events
      <4>1. v = ep
        BY <3>2
      <4> QED BY <1>2, <3>2, <4>1, StepNone
    <3> QED BY <3>1, <3>2
  <2> HIDE DEF f
  <2>4. Moved(ep, v, f) /\ Roomy(v, f)
    BY <1>2, <2>1, <2>3, MovedStep DEF Calm, Step, Kept
  <2>5. Moved(ep, ep', f) /\ Roomy(ep', f) /\ NoOutput(ep', f)
    <3>1. CASE ep' = v
      BY <2>3, <2>4, <3>1
    <3>2. CASE ep' \in Deleted(v, f)
      <4>1. Good(ep') /\ Moved(v, ep', f) /\ ~Used(ep', f)
        BY <1>2, <2>1, <2>3, <3>2, DeletedMoved
      <4> QED BY <1>2, <2>4, <4>1, MovedTwice, Gone
    <3> QED BY <2>2, <3>1, <3>2
  <2> QED BY <1>1, <1>2, <1>3, <2>5, WorkKept
<1> QED BY <1>4, <1>5

------------------------------------------------------------------------------
(* The invariant, and what it says of the queues, input, output, connects.  *)

\* Every step keeps the invariant.
LEMMA NextOK ==
    ASSUME SizesAssumption, IInv, [Next]_vars
    PROVE  IInv'
<1>1. CASE UNCHANGED vars
  BY <1>1 DEF vars, IInv, TypeOK, PlaceInv, BatchInv, WalkInv, InputInv, OutputInv, ConnectInv,
              Bounded, AtWork, FromEtin, Role
<1>2. CASE Loop
  BY <1>2, IterateCloseQueueOK, CloseQueueDoneOK, IterateEtinQueueOK, EtinQueueDoneOK, WokenOK,
     SendQueueDoneOK, DropEventOK, TakeEventOK, HandleAsynConnectOK, AcceptOneOK, AcceptFullOK,
     AcceptEmptyOK, ReadConnOK, ParseBadOK, ParseWaitOK, ParentPackageOK, WorkerPackageOK,
     FinishEventOK, CheckTimeoutOK, LoopDoneOK DEF Loop, Wait
<1>3. CASE Outside
  BY <1>3, WokenOK, ScheduleDataOK, ScheduleFinOK, AcceptAbortedOK, PluginConnectsOK,
     PluginSendsOK, TickOK, ArriveOK, PeerEndsOK, PeerReadsOK DEF Outside, Nudged
<1>4. CASE \E f \in Conn : Connected(f)
  BY <1>4, ConnectedOK
<1> QED BY <1>1, <1>2, <1>3, <1>4 DEF Next

\* A descriptor is at one place of a queue, or at none.
LEMMA PlacesOf ==
    ASSUME NEW q, Once(q), NEW f
    PROVE  Cardinality(Places(q, f)) = IF OnQueue(q, f) THEN 1 ELSE 0
<1>1. CASE OnQueue(q, f)
  <2>1. PICK i \in DOMAIN q : q[i] = f
    BY <1>1 DEF OnQueue
  <2>2. Places(q, f) = {i}
    BY <2>1 DEF Places, Once
  <2> QED BY <1>1, <2>2, FS_Singleton
<1>2. CASE ~OnQueue(q, f)
  <2>1. Places(q, f) = {}
    BY <1>2 DEF Places, OnQueue
  <2> QED BY <1>2, <2>1, FS_EmptySet
<1> QED BY <1>1, <1>2

\* The invariant says what it should of the queues ...
LEMMA QueuesAre ==
    ASSUME SizesAssumption, IInv
    PROVE  QueuesKept
<1>1. Good(ep) /\ QueuesFine(ep) /\ MaxFine(ep)
  BY DEF IInv, Good
<1>2. ASSUME NEW f \in Fd
      PROVE  LET closing == Cardinality(Places(ep.close_head, f))
                 again   == Cardinality(Places(ep.etin_head, f))
             IN  /\ closing = (IF "CLOSE" \in ep.fds[f].flag THEN 1 ELSE 0)
                 /\ again = (IF "POLLIN" \in ep.fds[f].flag THEN 1 ELSE 0)
                 /\ closing + again <= (IF Used(ep, f) THEN 1 ELSE 0)
  <2>1. /\ Cardinality(Places(ep.close_head, f)) = IF "CLOSE" \in ep.fds[f].flag THEN 1 ELSE 0
        /\ Cardinality(Places(ep.etin_head, f)) = IF "POLLIN" \in ep.fds[f].flag THEN 1 ELSE 0
    BY <1>1, PlacesOf DEF QueuesFine
  <2>2. /\ ep.fds[f].flag \in {{}, {"CLOSE"}, {"POLLIN"}}
        /\ ep.fds[f].flag # {} => Used(ep, f)
    BY <1>1, FlagOf DEF Used
  <2> QED BY <2>1, <2>2
<1>3. QueuesAgree
  BY <1>1, <1>2 DEF QueuesAgree, MaxFine
<1> QED BY <1>3 DEF QueuesKept, IInv, WalkInv, WalkSafe

\* ... of input ...
LEMMA InputIs ==
    ASSUME SizesAssumption, IInv
    PROVE  InputKept
<1>1. Good(ep) /\ QueuesFine(ep) /\ InputInv /\ Conn \subseteq Fd
  BY Numbers DEF IInv, Good
<1>2. RoomToRead
  BY <1>1 DEF RoomToRead, Remotes, InputInv, Roomy, Used
<1>3. ASSUME NEW f \in Fd, ep.fds[f].type \in {"remote", "listen"}, ep.sock[f].rx > 0,
             f = Listen => ~aborted, pc # "broken"
      PROVE  \/ ep.sock[f].ready \/ InHand(f, "IN")
             \/ OnQueue(ep.etin_head, f) \/ OnQueue(ep.close_head, f)
  <2>1. CASE NoInput(ep, f)
    <3>1. ep.sock[f].ready \/ "CLOSE" \in ep.fds[f].flag \/ "POLLIN" \in ep.fds[f].flag
      BY <1>1, <1>3, <2>1, FlagOf DEF NoInput
    <3> QED BY <1>1, <3>1 DEF QueuesFine
  <2>2. CASE f \in DOMAIN evs /\ "IN" \in evs[f]
    BY <2>2 DEF InHand
  <2>3. CASE cur.fd = f /\ pc \in {"recv", "accept"}
    BY <2>3 DEF InHand
  <2> QED BY <1>1, <1>3, <2>1, <2>2, <2>3 DEF InputInv
<1> QED BY <1>2, <1>3 DEF InputKept, UnreadNoticed

\* ... of output ...
LEMMA OutputIs ==
    ASSUME SizesAssumption, IInv
    PROVE  OutputKept
<1>1. OutputInv /\ Conn \subseteq Fd
  BY Numbers DEF IInv
<1>2. OutputArmed
  BY <1>1 DEF OutputArmed, Remotes, OutputInv, Masked, NoOutput, InHand, AtWork
<1>3. SendBounded /\ FinFlushes
  BY <1>1 DEF SendBounded, FinFlushes, OutputInv, Bounded
<1> QED BY <1>2, <1>3 DEF OutputKept

\* ... and of connects.
LEMMA ConnectIs ==
    ASSUME IInv
    PROVE  ConnectKept
  BY DEF IInv, ConnectInv, OwedFine, ConnectKept, CallbackKept, ConnectedTrue

\* The invariant of net_loop: of the table, the batch, the walk over the queues,
\* input, output and connects.
THEOREM NetInvariant == Spec => []IInv
<1>1. Init => IInv
  BY InitOK, SizesAssumption
<1>2. IInv /\ [Next]_vars => IInv'
  BY NextOK, SizesAssumption
<1> QED BY <1>1, <1>2, PTL DEF Spec

\* The flags of a descriptor, its place in the two queues and the table agree, and a
\* walk over the etin queue does not leave it if the plugin keeps to its own
\* connection (net.c:66-98, 114-128).
THEOREM QueuesSound == Spec => []QueuesKept
<1>1. IInv => QueuesKept
  BY QueuesAre, SizesAssumption
<1> QED BY <1>1, NetInvariant, PTL

\* No byte is read without room for it, and what waits for an edge-triggered
\* descriptor is never left without notice (net.c:296-350).
THEOREM InputSound == Spec => []InputKept
<1>1. IInv => InputKept
  BY InputIs, SizesAssumption
<1> QED BY <1>1, NetInvariant, PTL

\* EPOLLOUT is asked for exactly while output is kept back, the parent keeps no more
\* than its limit, and a connection told to close has its output tried once more
\* (net_if.c:186-243, net.c:105-111).
THEOREM OutputSound == Spec => []OutputKept
<1>1. IInv => OutputKept
  BY OutputIs, SizesAssumption
<1> QED BY <1>1, NetInvariant, PTL

\* A connect whose callback is owed stays in the table as one, and a callback is told
\* of a connection only when there is one (net.c:527, 723-747).
THEOREM ConnectSound == Spec => []ConnectKept
<1>1. IInv => ConnectKept
  BY ConnectIs
<1> QED BY <1>1, NetInvariant, PTL
===============================================================================
