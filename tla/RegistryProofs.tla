---------------------------- MODULE RegistryProofs ----------------------------
(***************************************************************************)
(* A worker is not forgotten while it runs, and the table is true of those *)
(* that ended or were replaced, whatever the number of workers and         *)
(* whatever the times, as long as the expiry leaves room for one lost      *)
(* announcement (TimesAssumption): RegInv is inductive, and AddrInv with   *)
(* it.  Both count the seconds between announcements the same way, InTime: *)
(* the age of an entry, and how long a listener waits for an address.      *)
(***************************************************************************)
EXTENDS Registry, TLAPS

\* What keeps an entry from expiring: how old it may be while the next
\* announcement is still to come, is on its way, or has been lost.
Gap == SynMax + 1

Coming(p) == {m \in net : m.from = p[1] /\ m.to = p[2]}

MostAge(p) == IF p \in missed THEN 2 * Gap ELSE Gap

InTime(pending, most, age, next) ==
    /\ pending = {} => age + next <= most
    /\ pending # {} => age <= (IF \E m \in pending : m.late THEN most + 1 ELSE most)
    /\ most = Gap => \A m \in pending : pending = {m} => age + next <= 2 * Gap

KnownInv ==
    \A p \in known :
        LET w == p[1] l == p[2] s == ServiceOf[w]
        IN  /\ p \in Pairs /\ {w, l} \subseteq up /\ s # ServiceOf[l]
            /\ s \in DOMAIN svr_tbl[l]
            /\ InTime(Coming(p), MostAge(p), svr_tbl[l][s].age, next_syn[w] + 1)

\* A table is empty until its worker runs, then looked at when it is time.
AgeInv ==
    \A l \in Listeners :
        /\ l \notin up => svr_tbl[l] = NoEntries
        /\ \A s \in DOMAIN svr_tbl[l] : svr_tbl[l][s].age + next_del[l] <= Expire + DelPeriod

NetInv == \A m \in net : m.to \in up /\ m.from # m.to

\* The invariant behind RegTypeOK and NeverForgotten, inductive together with
\* the types.
RegInv == KnownInv /\ AgeInv /\ NetInv

\* How long a service is silent: no longer than its entry is old, but for the
\* second its last datagram took.
SilentInv ==
    \A l \in Listeners : \A s \in Services :
        /\ Others(l, s) # {} => silent[l][s] = 0
        /\ \A m \in net : m.to = l /\ ServiceOf[m.from] = s =>
              silent[l][s] <= (IF m.late THEN 1 ELSE 0)
        /\ s \in DOMAIN svr_tbl[l] => silent[l][s] <= svr_tbl[l][s].age + 1

\* How long a worker is alone in its service before a listener has its address:
\* what the former workers sent arrives in the first second, and then its own
\* announcements come, one of which may be lost.
HasAddress(p) == p \in known /\ svr_tbl[p[2]][ServiceOf[p[1]]].addr = p[1]

TogetherInv ==
    \A p \in Pairs : together[p] > 0 =>
        /\ {p[1], p[2]} \subseteq up /\ Alone(p[1])
        /\ \A m \in net : m.to = p[2] /\ ServiceOf[m.from] = ServiceOf[p[1]] /\ m.from # p[1] =>
              together[p] = 1 /\ m.late
        /\ ~HasAddress(p) =>
              InTime(Coming(p), MostAge(p), together[p] - 1, next_syn[p[1]] + 1)

AddrInv == SilentInv /\ TogetherInv

Datagram == [from : Workers, to : Workers, type : Types, late : BOOLEAN]

IInv == RegTypeOK /\ RegInv

LEMMA TimeFacts ==
    /\ Gap \in Nat /\ SynMin \in Nat /\ SynMax \in Nat /\ Expire \in Nat /\ DelPeriod \in Nat
    /\ 1 <= Gap /\ Gap = SynMax + 1 /\ 2 * Gap + 1 <= Expire
    /\ GoneAfter \in Nat /\ Expire + DelPeriod + 1 < GoneAfter /\ KnownAfter \in Nat
BY TimesAssumption DEF Gap, GoneAfter, KnownAfter

LEMMA TableFacts == NoEntries \in [{} -> Entry] /\ DOMAIN NoEntries = {}
BY DEF NoEntries

------------------------------------------------------------------------------
(* How the age of an entry and the next announcement go together.          *)

\* An entry that was just heard of.
LEMMA InTimeNow ==
    ASSUME NEW pending, NEW most \in {Gap, 2 * Gap}, NEW next \in Int, next <= Gap
    PROVE  InTime(pending, most, 0, next)
BY TimeFacts DEF InTime

\* An announcement that was due, or came before its time.
LEMMA InTimeSent ==
    ASSUME NEW pending, NEW most \in {Gap, 2 * Gap}, NEW age \in Nat, NEW due \in Nat, NEW next \in Int,
           InTime(pending, most, age, due), next <= Gap, NEW m, m.late = FALSE
    PROVE  InTime(pending \cup {m}, most, age, next)
<1>1. CASE pending = {}
  BY <1>1, TimeFacts DEF InTime
<1>2. CASE pending # {}
  <2>1. most = Gap => \A n \in pending \cup {m} : pending \cup {m} = {n} => age + next <= 2 * Gap
    <3> SUFFICES ASSUME most = Gap, NEW n \in pending \cup {m}, pending \cup {m} = {n}
                 PROVE  age + next <= 2 * Gap
      OBVIOUS
    <3>1. ~\E k \in pending : k.late
      OBVIOUS
    <3>2. age <= Gap
      BY <1>2, <3>1, TimeFacts DEF InTime
    <3> QED
      BY <3>2, TimeFacts
  <2>2. (\E n \in pending \cup {m} : n.late) <=> (\E n \in pending : n.late)
    OBVIOUS
  <2> QED
    BY <1>2, <2>1, <2>2 DEF InTime
<1> QED
  BY <1>1, <1>2

\* The first announcement that is lost.
LEMMA InTimeLost ==
    ASSUME NEW pending, NEW age \in Nat, NEW next \in Nat, NEW m \in pending,
           InTime(pending, Gap, age, next)
    PROVE  InTime(pending \ {m}, 2 * Gap, age, next)
<1>1. pending \ {m} = {} => age + next <= 2 * Gap
  <2>1. pending \ {m} = {} => pending = {m}
    OBVIOUS
  <2> QED
    BY <2>1 DEF InTime
<1>2. age <= Gap + 1 /\ (~(\E n \in pending : n.late) => age <= Gap)
  BY TimeFacts DEF InTime
<1>3. age <= 2 * Gap
  BY <1>2, TimeFacts
<1> QED
  BY <1>1, <1>3, TimeFacts DEF InTime

\* A second that passes.
LEMMA InTimeSecond ==
    ASSUME NEW pending \in SUBSET Datagram, NEW most \in {Gap, 2 * Gap}, NEW age \in Nat, NEW next \in Int,
           \A m \in pending : ~m.late, InTime(pending, most, age, next)
    PROVE  InTime({[m EXCEPT !.late = TRUE] : m \in pending}, most, age + 1, next - 1)
<1> DEFINE Late == {[m EXCEPT !.late = TRUE] : m \in pending}
<1>1. pending = {} => Late = {}
  OBVIOUS
<1>2. pending # {} => Late # {} /\ (\E m \in Late : m.late)
  <2> SUFFICES ASSUME NEW m \in pending PROVE \E n \in Late : n.late
    OBVIOUS
  <2>1. [m EXCEPT !.late = TRUE] \in Late /\ [m EXCEPT !.late = TRUE].late
    BY DEF Datagram
  <2> QED
    BY <2>1
<1>3. \A n \in Late : Late = {n} => \E m \in pending : pending = {m}
  <2> SUFFICES ASSUME NEW n \in Late, Late = {n} PROVE \E m \in pending : pending = {m}
    OBVIOUS
  <2>1. PICK m \in pending : n = [m EXCEPT !.late = TRUE]
    OBVIOUS
  <2>2. \A k \in pending : k = m
    <3> SUFFICES ASSUME NEW k \in pending PROVE k = m
      OBVIOUS
    <3>1. [k EXCEPT !.late = TRUE] = [m EXCEPT !.late = TRUE]
      BY <2>1
    <3>2. k.late = FALSE /\ m.late = FALSE
      BY DEF Datagram
    <3>3. k.from = m.from /\ k.to = m.to /\ k.type = m.type
      BY <3>1 DEF Datagram
    <3> QED
      BY <3>2, <3>3 DEF Datagram
  <2> QED
    BY <2>2
<1>4. pending # {} => age <= most
  BY DEF InTime
<1>5. most = Gap => \A n \in Late : Late = {n} => age + next <= 2 * Gap
  BY <1>3 DEF InTime
<1> HIDE DEF Late
<1>6. InTime(Late, most, age + 1, next - 1)
  <2>1. CASE pending = {}
    BY <2>1, <1>1, TimeFacts DEF InTime
  <2>2. CASE pending # {}
    BY <2>2, <1>2, <1>4, <1>5, TimeFacts DEF InTime
  <2> QED
    BY <2>1, <2>2
<1> QED
  BY <1>6 DEF Late

\* No entry of a worker that is known is ever as old as the expiry.
LEMMA InTimeNotExpired ==
    ASSUME NEW pending, NEW most \in {Gap, 2 * Gap}, NEW age \in Nat, NEW next \in Nat,
           InTime(pending, most, age, next)
    PROVE  age <= Expire
<1>1. age <= 2 * Gap + 1
  BY TimeFacts DEF InTime
<1> QED
  BY <1>1, TimeFacts

------------------------------------------------------------------------------
(* What the handlers do to the tables, the timers and the net.             *)

LEMMA TableTypes ==
    ASSUME RegTypeOK, NEW l \in Listeners
    PROVE  /\ DOMAIN svr_tbl = Listeners /\ DOMAIN svr_tbl[l] \subseteq Services
           /\ svr_tbl[l] \in [DOMAIN svr_tbl[l] -> Entry]
           /\ \A s \in DOMAIN svr_tbl[l] : svr_tbl[l][s] \in Entry /\ svr_tbl[l][s].age \in Nat
           /\ next_del[l] \in Int /\ -1 <= next_del[l]
BY TimeFacts DEF RegTypeOK, Entry

LEMMA WithEntryIs ==
    ASSUME NEW tbl, DOMAIN tbl \subseteq Services, tbl \in [DOMAIN tbl -> Entry],
           NEW s \in Services, NEW w \in Workers
    PROVE  /\ DOMAIN WithEntry(tbl, s, w) = DOMAIN tbl \cup {s}
           /\ WithEntry(tbl, s, w) \in [DOMAIN tbl \cup {s} -> Entry]
           /\ WithEntry(tbl, s, w)[s].age = 0
           /\ \A k \in DOMAIN tbl : k # s => WithEntry(tbl, s, w)[k] = tbl[k]
BY TimeFacts DEF WithEntry, Entry

\* The table of a worker that takes an announcement.
LEMMA HeardTable ==
    ASSUME RegTypeOK, NEW m \in net, Heard(m), NEW l \in Listeners
    PROVE  /\ DOMAIN svr_tbl' = Listeners
           /\ DOMAIN svr_tbl'[l] \subseteq Services /\ svr_tbl'[l] \in [DOMAIN svr_tbl'[l] -> Entry]
           /\ l # m.to => svr_tbl'[l] = svr_tbl[l]
           /\ DOMAIN svr_tbl[l] \subseteq DOMAIN svr_tbl'[l]
           /\ \A s \in DOMAIN svr_tbl'[l] :
                 svr_tbl'[l][s].age = 0 \/ (s \in DOMAIN svr_tbl[l] /\ svr_tbl'[l][s] = svr_tbl[l][s])
           /\ l = m.to => /\ ServiceOf[m.from] \in DOMAIN svr_tbl'[l]
                          /\ svr_tbl'[l][ServiceOf[m.from]].age = 0
<1> DEFINE s == ServiceOf[m.from]
<1>1. m.to \in Workers /\ m.from \in Workers /\ s \in Services
  BY TimesAssumption DEF RegTypeOK
<1>2. DOMAIN svr_tbl = Listeners /\ DOMAIN svr_tbl[l] \subseteq Services
      /\ svr_tbl[l] \in [DOMAIN svr_tbl[l] -> Entry]
  BY TableTypes
<1>3. CASE l = m.to
  <2>1. svr_tbl' = [svr_tbl EXCEPT ![l] = WithEntry(svr_tbl[l], s, m.from)]
    BY <1>3 DEF Heard
  <2>2. svr_tbl'[l] = WithEntry(svr_tbl[l], s, m.from) /\ DOMAIN svr_tbl' = Listeners
    BY <2>1, <1>2
  <2> HIDE DEF s
  <2>3. /\ DOMAIN svr_tbl'[l] = DOMAIN svr_tbl[l] \cup {s}
        /\ svr_tbl'[l] \in [DOMAIN svr_tbl[l] \cup {s} -> Entry]
        /\ svr_tbl'[l][s].age = 0
        /\ \A k \in DOMAIN svr_tbl[l] : k # s => svr_tbl'[l][k] = svr_tbl[l][k]
    <3> DEFINE tbl == svr_tbl[l]
    <3>1. DOMAIN tbl \subseteq Services /\ tbl \in [DOMAIN tbl -> Entry]
      BY <1>2
    <3> HIDE DEF tbl
    <3>2. /\ DOMAIN WithEntry(tbl, s, m.from) = DOMAIN tbl \cup {s}
          /\ WithEntry(tbl, s, m.from) \in [DOMAIN tbl \cup {s} -> Entry]
          /\ WithEntry(tbl, s, m.from)[s].age = 0
          /\ \A k \in DOMAIN tbl : k # s => WithEntry(tbl, s, m.from)[k] = tbl[k]
      BY <3>1, <1>1, WithEntryIs
    <3> QED
      BY <3>2, <2>2 DEF tbl
  <2>4. DOMAIN svr_tbl'[l] \subseteq Services /\ svr_tbl'[l] \in [DOMAIN svr_tbl'[l] -> Entry]
    BY <2>3, <1>1, <1>2
  <2>5. \A k \in DOMAIN svr_tbl'[l] :
           svr_tbl'[l][k].age = 0 \/ (k \in DOMAIN svr_tbl[l] /\ svr_tbl'[l][k] = svr_tbl[l][k])
    BY <2>3
  <2>6. s \in DOMAIN svr_tbl'[l] /\ DOMAIN svr_tbl[l] \subseteq DOMAIN svr_tbl'[l]
    BY <2>3
  <2> QED
    BY <2>2, <2>3, <2>4, <2>5, <2>6, <1>3 DEF s
<1>4. CASE l # m.to
  <2>1. svr_tbl'[l] = svr_tbl[l] /\ DOMAIN svr_tbl' = Listeners
    BY <1>4, <1>2 DEF Heard
  <2> QED
    BY <2>1, <1>2, <1>4
<1> QED
  BY <1>3, <1>4

LEMMA DatagramsOk ==
    ASSUME RegTypeOK, NEW w \in Workers, NEW type \in Types
    PROVE  /\ Datagrams(w, type) \subseteq Datagram
           /\ \A m \in Datagrams(w, type) : m.from = w /\ m.to \in up \ {w} /\ m.late = FALSE
<1>1. \A v \in Joined(w, type) : v \in up \ {w} /\ v \in Workers
  BY DEF Joined, RegTypeOK
<1>2. SUFFICES ASSUME NEW m \in Datagrams(w, type)
               PROVE  m \in Datagram /\ m.from = w /\ m.to \in up \ {w} /\ m.late = FALSE
  OBVIOUS
<1>3. PICK v \in Joined(w, type) : m = [from |-> w, to |-> v, type |-> type, late |-> FALSE]
  BY <1>2 DEF Datagrams
<1> QED
  BY <1>1, <1>3 DEF Datagram

\* The timer of a worker that announces itself.
LEMMA TimerSet ==
    ASSUME RegTypeOK, NEW w \in Workers,
           \E wait \in SynMin..SynMax : next_syn' = [next_syn EXCEPT ![w] = wait]
    PROVE  /\ next_syn' \in [Workers -> -1..SynMax]
           /\ next_syn'[w] + 1 <= Gap
           /\ \A v \in Workers : v # w => next_syn'[v] = next_syn[v]
<1>1. PICK wait \in SynMin..SynMax : next_syn' = [next_syn EXCEPT ![w] = wait]
  OBVIOUS
<1>2. next_syn \in [Workers -> -1..SynMax] /\ wait \in -1..SynMax /\ wait + 1 <= Gap
  BY TimeFacts DEF RegTypeOK
<1> QED
  BY <1>1, <1>2

LEMMA NextSynInt ==
    ASSUME RegTypeOK, NEW w \in Workers
    PROVE  next_syn[w] \in Int /\ next_syn[w] + 1 \in Nat /\ next_syn[w] + 1 <= Gap
BY TimeFacts DEF RegTypeOK

------------------------------------------------------------------------------
(* Each action keeps the types.                                            *)

LEMMA RegTypeInit == RegInit => IInv
<1> SUFFICES ASSUME RegInit PROVE IInv
  OBVIOUS
<1>1. RegTypeOK
  BY TimeFacts, TableFacts DEF RegInit, RegTypeOK
<1>2. RegInv
  BY TableFacts DEF RegInit, RegInv, KnownInv, AgeInv, NetInv
<1> QED
  BY <1>1, <1>2 DEF IInv

LEMMA TypeStart ==
    ASSUME RegTypeOK, NEW w \in Workers, StartWorker(w)
    PROVE  RegTypeOK'
<1>1. up' \subseteq Workers /\ next_del' \in [Listeners -> -1..DelPeriod]
  BY TimeFacts DEF StartWorker, RegTypeOK
<1>2. net' \subseteq Datagram
  BY DatagramsOk DEF StartWorker, Sent, Types, RegTypeOK, Datagram
<1>3. next_syn' \in [Workers -> -1..SynMax]
  BY TimerSet DEF StartWorker, Sent
<1>4. together' \in [Pairs -> 0..KnownAfter]
  BY TimeFacts DEF StartWorker, RegTypeOK
<1>5. silent' \in [Listeners -> [Services -> 0..GoneAfter]]
  BY TimeFacts, TimesAssumption DEF StartWorker, RegTypeOK
<1> QED
  BY <1>1, <1>2, <1>3, <1>4, <1>5 DEF StartWorker, RegTypeOK, Datagram

LEMMA TypeAnnounce ==
    ASSUME RegTypeOK, NEW w \in Workers, Announce(w)
    PROVE  RegTypeOK'
<1>1. net' \subseteq Datagram
  BY DatagramsOk DEF Announce, Sent, Types, RegTypeOK, Datagram
<1>2. next_syn' \in [Workers -> -1..SynMax]
  BY TimerSet DEF Announce, Sent
<1> QED
  BY <1>1, <1>2 DEF Announce, RegTypeOK, Datagram

LEMMA TypeDie ==
    ASSUME RegTypeOK, NEW w \in Workers, Die(w)
    PROVE  RegTypeOK'
<1>1. next_syn' \in [Workers -> -1..SynMax] /\ next_del' \in [Listeners -> -1..DelPeriod]
  BY TimeFacts DEF Die, RegTypeOK
<1>2. /\ DOMAIN svr_tbl' = Listeners
      /\ \A l \in Listeners : /\ DOMAIN svr_tbl'[l] \subseteq Services
                              /\ svr_tbl'[l] \in [DOMAIN svr_tbl'[l] -> Entry]
  <2>1. svr_tbl' = [l \in Listeners |-> IF l = w THEN NoEntries ELSE svr_tbl[l]]
    BY DEF Die
  <2> QED
    BY <2>1, TableFacts, TableTypes
<1>3. told' \in [Listeners -> SUBSET Services]
  BY DEF Die, RegTypeOK
<1>4. together' \in [Pairs -> 0..KnownAfter]
  BY TimeFacts DEF Die, RegTypeOK
<1>5. up' \subseteq Workers /\ known' \subseteq Pairs /\ missed' \subseteq Pairs /\ net' \subseteq Datagram
      /\ silent' = silent
  BY DEF Die, RegTypeOK, Datagram
<1> QED
  BY <1>1, <1>2, <1>3, <1>4, <1>5 DEF RegTypeOK, Datagram

LEMMA TypeDelExpired ==
    ASSUME RegTypeOK, NEW l \in Listeners, DelExpired(l)
    PROVE  RegTypeOK'
<1> DEFINE kept == {s \in DOMAIN svr_tbl[l] : ~Expired(svr_tbl[l][s])}
<1>1. /\ svr_tbl' = [svr_tbl EXCEPT ![l] = [s \in kept |-> svr_tbl[l][s]]]
      /\ told' = [told EXCEPT ![l] = told[l] \cap kept]
      /\ next_del' = [next_del EXCEPT ![l] = DelPeriod]
      /\ UNCHANGED <<up, next_syn, net, known, missed, together, silent>>
  BY DEF DelExpired, ToldAfter
<1>2. kept \subseteq DOMAIN svr_tbl[l]
  OBVIOUS
<1> HIDE DEF kept
<1>3. /\ DOMAIN svr_tbl' = Listeners
      /\ \A k \in Listeners : /\ DOMAIN svr_tbl'[k] \subseteq Services
                              /\ svr_tbl'[k] \in [DOMAIN svr_tbl'[k] -> Entry]
  <2>1. DOMAIN svr_tbl' = Listeners
    BY <1>1, TableTypes
  <2>2. \A k \in Listeners : k # l => svr_tbl'[k] = svr_tbl[k]
    BY <1>1, TableTypes
  <2>3. svr_tbl'[l] = [s \in kept |-> svr_tbl[l][s]]
    BY <1>1, TableTypes
  <2>4. DOMAIN svr_tbl'[l] \subseteq Services /\ svr_tbl'[l] \in [DOMAIN svr_tbl'[l] -> Entry]
    BY <2>3, <1>2, TableTypes
  <2> QED
    BY <2>1, <2>2, <2>4, TableTypes
<1>4. told' \in [Listeners -> SUBSET Services]
  BY <1>1 DEF RegTypeOK
<1>5. next_del' \in [Listeners -> -1..DelPeriod]
  BY <1>1, TimeFacts DEF RegTypeOK
<1> QED
  BY <1>1, <1>3, <1>4, <1>5 DEF RegTypeOK

LEMMA TypeHeard ==
    ASSUME RegTypeOK, NEW m \in net, Heard(m)
    PROVE  /\ DOMAIN svr_tbl' = Listeners
           /\ \A l \in Listeners : /\ DOMAIN svr_tbl'[l] \subseteq Services
                                   /\ svr_tbl'[l] \in [DOMAIN svr_tbl'[l] -> Entry]
           /\ told' \in [Listeners -> SUBSET Services] /\ known' \subseteq Pairs
<1>1. DOMAIN svr_tbl' = Listeners
  BY TableTypes DEF Heard, RegTypeOK
<1>2. told' \in [Listeners -> SUBSET Services] /\ known' \subseteq Pairs
  BY TimesAssumption DEF Heard, RegTypeOK
<1> QED
  BY <1>1, <1>2, HeardTable

LEMMA TypeHear ==
    ASSUME RegTypeOK, NEW m \in net, HearSyn(m) \/ Hear1st(m)
    PROVE  RegTypeOK'
<1>1. Heard(m)
  BY DEF HearSyn, Hear1st
<1>2. m.to \in Workers /\ "syn" \in Types
  BY DEF RegTypeOK, Types
<1>3. net' \subseteq Datagram
  BY <1>2, DatagramsOk DEF HearSyn, Hear1st, Without, Answer, RegTypeOK, Datagram
<1>4. next_syn' \in [Workers -> -1..SynMax]
  BY <1>2, TimerSet DEF HearSyn, Hear1st, RegTypeOK
<1>5. missed' \subseteq Pairs /\ UNCHANGED <<up, next_del, together, silent>>
  BY DEF HearSyn, Hear1st, RegTypeOK
<1> QED
  BY <1>1, <1>3, <1>4, <1>5, TypeHeard DEF RegTypeOK, Datagram

LEMMA SecondTable ==
    ASSUME RegTypeOK, Second, NEW l \in Listeners
    PROVE  /\ DOMAIN svr_tbl' = Listeners /\ DOMAIN svr_tbl'[l] = DOMAIN svr_tbl[l]
           /\ svr_tbl'[l] = [s \in DOMAIN svr_tbl[l] |-> [svr_tbl[l][s] EXCEPT !.age = @ + 1]]
           /\ \A s \in DOMAIN svr_tbl[l] : /\ svr_tbl'[l][s].age = svr_tbl[l][s].age + 1
                                           /\ svr_tbl'[l][s].addr = svr_tbl[l][s].addr
                                           /\ svr_tbl'[l][s] \in [addr : Workers, age : Nat]
<1>1. svr_tbl' = [k \in Listeners |-> Older(svr_tbl[k])]
  BY DEF Second
<1>2. svr_tbl'[l] = [s \in DOMAIN svr_tbl[l] |-> [svr_tbl[l][s] EXCEPT !.age = @ + 1]]
  BY <1>1 DEF Older
<1>3. \A s \in DOMAIN svr_tbl[l] : svr_tbl[l][s] \in [addr : Workers, age : Nat]
  BY TableTypes, TimeFacts DEF Entry
<1> QED
  BY <1>1, <1>2, <1>3

LEMMA TypeSecond ==
    ASSUME RegTypeOK, AgeInv, Second
    PROVE  RegTypeOK'
<1>1. next_syn' \in [Workers -> -1..SynMax] /\ next_del' \in [Listeners -> -1..DelPeriod]
  BY TimeFacts DEF Second, RegTypeOK
<1>2. ASSUME NEW l \in Listeners
      PROVE  DOMAIN svr_tbl'[l] \subseteq Services /\ svr_tbl'[l] \in [DOMAIN svr_tbl'[l] -> Entry]
  <2>1. ASSUME NEW s \in DOMAIN svr_tbl[l] PROVE svr_tbl'[l][s] \in Entry
    <3>1. l \in up
      BY <2>1, TableFacts DEF AgeInv
    <3>2. 0 <= next_del[l] /\ svr_tbl[l][s].age + next_del[l] <= Expire + DelPeriod
      BY <3>1, <2>1 DEF AgeInv, Second
    <3>3. svr_tbl[l][s].age \in Nat /\ next_del[l] \in Int
      BY <2>1, TableTypes
    <3>4. svr_tbl[l][s].age + 1 \in 0..GoneAfter
      BY <3>2, <3>3, TimeFacts
    <3>5. svr_tbl'[l][s] \in [addr : Workers, age : Nat] /\ svr_tbl'[l][s].age = svr_tbl[l][s].age + 1
      BY <2>1, SecondTable
    <3> QED
      BY <3>4, <3>5 DEF Entry
  <2> QED
    BY <2>1, SecondTable, TableTypes
<1>3. DOMAIN svr_tbl' = Listeners
  BY DEF Second
<1>4. net' \subseteq Datagram
  <2>1. net' = {[m EXCEPT !.late = TRUE] : m \in net}
    BY DEF Second
  <2>2. \A m \in net : m \in Datagram
    BY DEF RegTypeOK, Datagram
  <2>3. \A m \in Datagram : [m EXCEPT !.late = TRUE] \in Datagram
    BY DEF Datagram
  <2> QED
    BY <2>1, <2>2, <2>3
<1>5. together' \in [Pairs -> 0..KnownAfter]
  BY TimeFacts DEF Second, RegTypeOK, Capped
<1>6. silent' \in [Listeners -> [Services -> 0..GoneAfter]]
  BY TimeFacts DEF Second, RegTypeOK, Capped
<1> QED
  BY <1>1, <1>2, <1>3, <1>4, <1>5, <1>6 DEF Second, RegTypeOK, Datagram

LEMMA TypeStep ==
    ASSUME RegTypeOK, AgeInv, [RegNext]_regvars
    PROVE  RegTypeOK'
<1>1. ASSUME NEW w \in Workers, StartWorker(w) PROVE RegTypeOK'
  BY <1>1, TypeStart
<1>2. ASSUME NEW w \in Workers, Announce(w) PROVE RegTypeOK'
  BY <1>2, TypeAnnounce
<1>3. ASSUME NEW w \in Workers, Die(w) PROVE RegTypeOK'
  BY <1>3, TypeDie
<1>4. ASSUME NEW l \in Listeners, DelExpired(l) PROVE RegTypeOK'
  BY <1>4, TypeDelExpired
<1>5. ASSUME NEW m \in net, HearSyn(m) \/ Hear1st(m) PROVE RegTypeOK'
  BY <1>5, TypeHear
<1>6. ASSUME NEW m \in net, IgnoreOwn(m) \/ Lose(m) PROVE RegTypeOK'
  <2>1. net' \subseteq net /\ missed' \subseteq Pairs
    BY <1>6 DEF IgnoreOwn, Lose, Without, RegTypeOK
  <2>2. UNCHANGED <<up, next_syn, next_del, svr_tbl, told, known, together, silent>>
    BY <1>6 DEF IgnoreOwn, Lose
  <2> QED
    BY <2>1, <2>2 DEF RegTypeOK
<1>7. CASE Second
  BY <1>7, TypeSecond
<1>8. CASE UNCHANGED regvars
  BY <1>8 DEF regvars, RegTypeOK
<1> QED
  BY <1>1, <1>2, <1>3, <1>4, <1>5, <1>6, <1>7, <1>8 DEF RegNext

------------------------------------------------------------------------------
(* Datagrams are on their way to workers that run, and tables are looked   *)
(* at in time.                                                             *)

LEMMA NetStep ==
    ASSUME RegTypeOK, NetInv, [RegNext]_regvars
    PROVE  NetInv'
<1>0. "1st" \in Types /\ "syn" \in Types /\ \A m \in net : m.to \in Workers
  BY DEF Types, RegTypeOK
<1>1. ASSUME NEW w \in Workers, StartWorker(w) \/ Announce(w) PROVE NetInv'
  <2>1. PICK type \in Types : net' = net \cup Datagrams(w, type)
    BY <1>0, <1>1 DEF StartWorker, Announce, Sent
  <2>2. \A m \in Datagrams(w, type) : m.from = w /\ m.to \in up \ {w}
    BY DatagramsOk
  <2>3. up \subseteq up'
    BY <1>1 DEF StartWorker, Announce
  <2> QED
    BY <2>1, <2>2, <2>3 DEF NetInv
<1>2. ASSUME NEW w \in Workers, Die(w) PROVE NetInv'
  BY <1>2 DEF Die, NetInv
<1>3. ASSUME NEW m \in net, Hear1st(m) PROVE NetInv'
  <2>1. net' \subseteq net \cup Datagrams(m.to, "syn") /\ up' = up
    BY <1>3 DEF Hear1st, Answer, Without
  <2>2. m.to \in Workers /\ "syn" \in Types
    BY <1>0
  <2>3. \A k \in Datagrams(m.to, "syn") : k.from = m.to /\ k.to \in up \ {m.to}
    BY <2>2, DatagramsOk
  <2> QED
    BY <2>1, <2>3 DEF NetInv
<1>4. ASSUME NEW m \in net, HearSyn(m) \/ IgnoreOwn(m) \/ Lose(m) PROVE NetInv'
  BY <1>4 DEF HearSyn, IgnoreOwn, Lose, Without, NetInv
<1>5. CASE Second
  <2> SUFFICES ASSUME NEW n \in net' PROVE n.to \in up' /\ n.from # n.to
    BY DEF NetInv
  <2>1. PICK m \in net : n = [m EXCEPT !.late = TRUE]
    BY <1>5 DEF Second
  <2>2. n.to = m.to /\ n.from = m.from
    BY <2>1 DEF RegTypeOK
  <2> QED
    BY <1>5, <2>2 DEF Second, NetInv
<1>6. CASE (\E l \in Listeners : DelExpired(l)) \/ UNCHANGED regvars
  BY <1>6 DEF DelExpired, regvars, NetInv
<1> QED
  BY <1>1, <1>2, <1>3, <1>4, <1>5, <1>6 DEF RegNext

LEMMA AgeStep ==
    ASSUME RegTypeOK, AgeInv, NetInv, [RegNext]_regvars
    PROVE  AgeInv'
<1> DEFINE InAge(l) == /\ l \notin up => svr_tbl[l] = NoEntries
                       /\ \A s \in DOMAIN svr_tbl[l] : svr_tbl[l][s].age + next_del[l] <= Expire + DelPeriod
<1> SUFFICES ASSUME NEW l \in Listeners PROVE InAge(l)'
  BY DEF AgeInv
<1>0. InAge(l) /\ l \in Workers /\ DOMAIN next_del = Listeners
  BY TimesAssumption DEF AgeInv, RegTypeOK
<1>1. ASSUME NEW w \in Workers, StartWorker(w) PROVE InAge(l)'
  <2>1. svr_tbl' = svr_tbl /\ up' = up \cup {w}
        /\ next_del'[l] = (IF l = w THEN DelPeriod ELSE next_del[l])
    BY <1>1 DEF StartWorker
  <2>2. l = w => DOMAIN svr_tbl[l] = {}
    BY <1>0, <1>1, TableFacts DEF StartWorker
  <2> QED
    BY <2>1, <2>2, <1>0
<1>2. ASSUME NEW w \in Workers, Die(w) PROVE InAge(l)'
  <2>1. /\ svr_tbl'[l] = (IF l = w THEN NoEntries ELSE svr_tbl[l]) /\ up' = up \ {w}
        /\ next_del'[l] = (IF l = w THEN -1 ELSE next_del[l])
    BY <1>2 DEF Die
  <2> QED
    BY <2>1, <1>0, TableFacts
<1>3. ASSUME NEW k \in Listeners, DelExpired(k) PROVE InAge(l)'
  <2>0. /\ svr_tbl' = [svr_tbl EXCEPT ![k] =
              [s \in {s \in DOMAIN svr_tbl[k] : ~Expired(svr_tbl[k][s])} |-> svr_tbl[k][s]]]
        /\ next_del' = [next_del EXCEPT ![k] = DelPeriod] /\ up' = up /\ k \in up
    BY <1>3 DEF DelExpired
  <2>1. CASE l = k
    <3>1. /\ svr_tbl'[l] = [s \in {s \in DOMAIN svr_tbl[l] : ~Expired(svr_tbl[l][s])} |-> svr_tbl[l][s]]
          /\ next_del'[l] = DelPeriod
      BY <2>0, <2>1, <1>0, TableTypes
    <3>2. ASSUME NEW s \in DOMAIN svr_tbl'[l] PROVE svr_tbl'[l][s].age + next_del'[l] <= Expire + DelPeriod
      <4>1. s \in DOMAIN svr_tbl[l] /\ ~Expired(svr_tbl[l][s]) /\ svr_tbl'[l][s] = svr_tbl[l][s]
        BY <3>1, <3>2
      <4>2. svr_tbl[l][s].age \in Nat
        BY <4>1, TableTypes
      <4> QED
        BY <3>1, <4>1, <4>2, TimeFacts DEF Expired
    <3> QED
      BY <3>2, <2>0, <2>1
  <2>2. CASE l # k
    <3>1. svr_tbl'[l] = svr_tbl[l] /\ next_del'[l] = next_del[l]
      BY <2>0, <2>2, <1>0, TableTypes
    <3> QED
      BY <3>1, <2>0, <1>0
  <2> QED
    BY <2>1, <2>2
<1>4. ASSUME NEW m \in net, HearSyn(m) \/ Hear1st(m) PROVE InAge(l)'
  <2>1. Heard(m) /\ next_del' = next_del /\ up' = up /\ m.to \in up
    BY <1>4 DEF HearSyn, Hear1st, NetInv
  <2>2. l \notin up' => svr_tbl'[l] = NoEntries
    BY <2>1, <1>0, HeardTable
  <2>3. ASSUME NEW s \in DOMAIN svr_tbl'[l] PROVE svr_tbl'[l][s].age + next_del'[l] <= Expire + DelPeriod
    <3>1. svr_tbl'[l][s].age = 0 \/ (s \in DOMAIN svr_tbl[l] /\ svr_tbl'[l][s] = svr_tbl[l][s])
      BY <2>1, <2>3, HeardTable
    <3>2. next_del[l] \in -1..DelPeriod
      BY DEF RegTypeOK
    <3> QED
      BY <3>1, <3>2, <2>1, <1>0, TimeFacts
  <2> QED
    BY <2>2, <2>3
<1>5. CASE Second
  <2>1. DOMAIN svr_tbl'[l] = DOMAIN svr_tbl[l] /\ up' = up
    BY <1>5, SecondTable DEF Second
  <2>2. l \notin up => svr_tbl'[l] = NoEntries
    <3> SUFFICES ASSUME l \notin up PROVE svr_tbl'[l] = NoEntries
      OBVIOUS
    <3>1. svr_tbl'[l] = [s \in DOMAIN svr_tbl[l] |-> [svr_tbl[l][s] EXCEPT !.age = @ + 1]]
      BY <1>5, SecondTable
    <3>2. DOMAIN svr_tbl[l] = {}
      BY <1>0, TableFacts
    <3> QED
      BY <3>1, <3>2 DEF NoEntries
  <2>3. ASSUME NEW s \in DOMAIN svr_tbl'[l] PROVE svr_tbl'[l][s].age + next_del'[l] <= Expire + DelPeriod
    <3>1. l \in up /\ s \in DOMAIN svr_tbl[l]
      BY <2>1, <2>3, <1>0, TableFacts
    <3>2. next_del'[l] = next_del[l] - 1 /\ svr_tbl'[l][s].age = svr_tbl[l][s].age + 1
      BY <1>5, <3>1, SecondTable DEF Second
    <3>3. next_del[l] \in Int /\ svr_tbl[l][s].age \in Nat
      BY <3>1, TableTypes
    <3> QED
      BY <3>1, <3>2, <3>3, <1>0
  <2> QED
    BY <2>1, <2>2, <2>3
<1>6. CASE \/ \E w \in Workers : Announce(w)
           \/ \E m \in net : IgnoreOwn(m) \/ Lose(m)
           \/ UNCHANGED regvars
  <2>1. UNCHANGED <<svr_tbl, next_del, up>>
    BY <1>6 DEF Announce, IgnoreOwn, Lose, regvars
  <2> QED
    BY <2>1, <1>0
<1> QED
  BY <1>1, <1>2, <1>3, <1>4, <1>5, <1>6 DEF RegNext

------------------------------------------------------------------------------
(* A worker that is known stays in the table.                              *)

EntryOf(p) == svr_tbl[p[2]][ServiceOf[p[1]]]

Found(p) ==
    /\ p \in Pairs /\ {p[1], p[2]} \subseteq up /\ ServiceOf[p[1]] # ServiceOf[p[2]]
    /\ ServiceOf[p[1]] \in DOMAIN svr_tbl[p[2]]
    /\ InTime(Coming(p), MostAge(p), EntryOf(p).age, next_syn[p[1]] + 1)

LEMMA KnownIsFound == KnownInv <=> \A p \in known : Found(p)
BY DEF KnownInv, Found, EntryOf

LEMMA PairFacts ==
    ASSUME NEW p \in Pairs
    PROVE  /\ p[1] \in Workers /\ p[2] \in Listeners /\ p[2] \in Workers /\ p[1] # p[2]
           /\ p = <<p[1], p[2]>>
BY TimesAssumption DEF Pairs

LEMMA FoundFacts ==
    ASSUME RegTypeOK, NEW p, Found(p)
    PROVE  /\ p[1] \in Workers /\ p[2] \in Listeners /\ p[2] \in Workers /\ p[1] # p[2]
           /\ p = <<p[1], p[2]>>
           /\ EntryOf(p).age \in Nat /\ next_syn[p[1]] + 1 \in Nat /\ next_syn[p[1]] + 1 <= Gap
           /\ EntryOf(p).age <= Expire
<1>1. p[1] \in Workers /\ p[2] \in Listeners /\ p[2] \in Workers /\ p[1] # p[2] /\ p = <<p[1], p[2]>>
  BY TimesAssumption DEF Found, Pairs
<1>2. EntryOf(p).age \in Nat
  BY <1>1, TableTypes DEF Found, EntryOf
<1>3. next_syn[p[1]] + 1 \in Nat /\ next_syn[p[1]] + 1 <= Gap
  BY <1>1, NextSynInt
<1>4. EntryOf(p).age <= Expire
  <2>1. MostAge(p) \in {Gap, 2 * Gap}
    BY DEF MostAge
  <2> QED
    BY <1>2, <1>3, <2>1, InTimeNotExpired DEF Found
<1> QED
  BY <1>1, <1>2, <1>3, <1>4

\* Nothing that matters to the pair changes.
LEMMA FoundStays ==
    ASSUME NEW p, Found(p), {p[1], p[2]} \subseteq up',
           ServiceOf[p[1]] \in DOMAIN svr_tbl'[p[2]], EntryOf(p)' = EntryOf(p),
           Coming(p)' = Coming(p), (p \in missed') <=> (p \in missed),
           next_syn'[p[1]] = next_syn[p[1]]
    PROVE  Found(p)'
BY DEF Found, MostAge, Gap

\* The worker of the pair announces itself.
LEMMA FoundAnnounced ==
    ASSUME RegTypeOK, NEW p, Found(p), {p[1], p[2]} \subseteq up',
           ServiceOf[p[1]] \in DOMAIN svr_tbl'[p[2]], EntryOf(p)' = EntryOf(p),
           NEW m, m.late = FALSE, Coming(p)' = Coming(p) \cup {m}, (p \in missed') <=> (p \in missed),
           next_syn'[p[1]] \in Int, next_syn'[p[1]] + 1 <= Gap
    PROVE  Found(p)'
<1>1. EntryOf(p).age \in Nat /\ next_syn[p[1]] + 1 \in Nat
  BY FoundFacts
<1>2. MostAge(p) \in {Gap, 2 * Gap} /\ MostAge(p)' = MostAge(p)
  BY DEF MostAge, Gap
<1>3. InTime(Coming(p) \cup {m}, MostAge(p), EntryOf(p).age, next_syn'[p[1]] + 1)
  <2> DEFINE next == next_syn'[p[1]] + 1
             due == next_syn[p[1]] + 1
  <2>1. next \in Int /\ next <= Gap /\ due \in Nat
    BY <1>1, TimeFacts
  <2>2. InTime(Coming(p), MostAge(p), EntryOf(p).age, due)
    BY DEF Found
  <2> HIDE DEF next, due
  <2>3. InTime(Coming(p) \cup {m}, MostAge(p), EntryOf(p).age, next)
    BY <1>1, <1>2, <2>1, <2>2, InTimeSent
  <2> QED
    BY <2>3 DEF next
<1>4. InTime(Coming(p)', MostAge(p)', EntryOf(p)'.age, next_syn'[p[1]] + 1)
  BY <1>2, <1>3
<1> QED
  BY <1>4 DEF Found

\* The pair's announcement arrives, or another one of the same service.
LEMMA FoundHeard ==
    ASSUME NEW p, p \in Pairs, {p[1], p[2]} \subseteq up', ServiceOf[p[1]] # ServiceOf[p[2]],
           ServiceOf[p[1]] \in DOMAIN svr_tbl'[p[2]], EntryOf(p)'.age = 0,
           next_syn'[p[1]] \in Int, next_syn'[p[1]] + 1 <= Gap
    PROVE  Found(p)'
<1>1. MostAge(p)' \in {Gap, 2 * Gap}
  BY DEF MostAge, Gap
<1>2. InTime(Coming(p)', MostAge(p)', 0, next_syn'[p[1]] + 1)
  <2> DEFINE next == next_syn'[p[1]] + 1
  <2>1. next \in Int /\ next <= Gap
    BY TimeFacts
  <2> HIDE DEF next
  <2>2. InTime(Coming(p)', MostAge(p)', 0, next)
    BY <1>1, <2>1, InTimeNow
  <2> QED
    BY <2>2 DEF next
<1> QED
  BY <1>2 DEF Found

\* What a worker sends is on its way to every listener that runs.
Sending(w, v, type) == [from |-> w, to |-> v, type |-> type, late |-> FALSE]

LEMMA SentTo ==
    ASSUME NEW w \in Workers, NEW type \in Types, NEW v, v \in up, v \in Listeners, v # w
    PROVE  /\ Sending(w, v, type) \in Datagrams(w, type) /\ Sending(w, v, type).to = v
           /\ Sending(w, v, type).late = FALSE
           /\ \A n \in Datagrams(w, type) : n.to = v => n = Sending(w, v, type)
<1>1. v \in Joined(w, type)
  BY DEF Joined
<1>2. \A n \in Datagrams(w, type) : n.to = v => n = Sending(w, v, type)
  BY DEF Datagrams, Sending
<1> QED
  BY <1>1, <1>2 DEF Datagrams, Sending

LEMMA SentToPair ==
    ASSUME RegTypeOK, NEW w \in Workers, NEW type \in Types,
           NEW p \in Pairs, {p[1], p[2]} \subseteq up
    PROVE  /\ p[1] = w => \E m : /\ m.late = FALSE
                                 /\ {n \in Datagrams(w, type) : n.from = p[1] /\ n.to = p[2]} = {m}
           /\ p[1] # w => {n \in Datagrams(w, type) : n.from = p[1] /\ n.to = p[2]} = {}
<1>1. \A n \in Datagrams(w, type) : n.from = w
  BY DatagramsOk
<1>2. CASE p[1] = w
  <2>1. p[2] \in up /\ p[2] \in Listeners /\ p[2] # w
    BY <1>2, PairFacts
  <2> DEFINE v == p[2]
             m == Sending(w, v, type)
  <2>2. v \in up /\ v \in Listeners /\ v # w
    BY <2>1
  <2> HIDE DEF v
  <2>3. m \in Datagrams(w, type) /\ m.to = v /\ m.late = FALSE
        /\ \A n \in Datagrams(w, type) : n.to = v => n = m
    BY <2>2, SentTo
  <2> HIDE DEF m
  <2>4. {n \in Datagrams(w, type) : n.from = p[1] /\ n.to = p[2]} = {m}
    BY <1>1, <1>2, <2>3 DEF v
  <2> QED
    BY <1>2, <2>3, <2>4
<1> QED
  BY <1>1, <1>2

\* A worker that sends, and the pairs it belongs to or not.
LEMMA FoundSent ==
    ASSUME RegTypeOK, NEW w \in Workers, NEW type \in Types, NEW p, Found(p),
           Coming(p)' = Coming(p) \cup {n \in Datagrams(w, type) : n.from = p[1] /\ n.to = p[2]},
           \E wait \in SynMin..SynMax : next_syn' = [next_syn EXCEPT ![w] = wait],
           {p[1], p[2]} \subseteq up', ServiceOf[p[1]] \in DOMAIN svr_tbl'[p[2]],
           EntryOf(p)' = EntryOf(p), (p \in missed') <=> (p \in missed)
    PROVE  Found(p)'
<1> DEFINE sent == {n \in Datagrams(w, type) : n.from = p[1] /\ n.to = p[2]}
<1>0. /\ p[1] \in Workers
      /\ next_syn' \in [Workers -> -1..SynMax] /\ next_syn'[w] + 1 <= Gap
      /\ \A v \in Workers : v # w => next_syn'[v] = next_syn[v]
  BY FoundFacts, TimerSet
<1>1. (p[1] = w => \E m : m.late = FALSE /\ sent = {m}) /\ (p[1] # w => sent = {})
  <2>1. p \in Pairs /\ {p[1], p[2]} \subseteq up
    BY DEF Found
  <2> QED
    BY <2>1, SentToPair
<1>2. Coming(p)' = Coming(p) \cup sent
  OBVIOUS
<1> HIDE DEF sent
<1>3. CASE p[1] = w
  <2>1. PICK m : m.late = FALSE /\ Coming(p)' = Coming(p) \cup {m}
    BY <1>1, <1>2, <1>3
  <2>2. next_syn'[p[1]] \in Int /\ next_syn'[p[1]] + 1 <= Gap
    BY <1>0, <1>3, TimeFacts
  <2> QED
    BY <2>1, <2>2, FoundAnnounced
<1>4. CASE p[1] # w
  <2>1. Coming(p)' = Coming(p) /\ next_syn'[p[1]] = next_syn[p[1]]
    BY <1>0, <1>1, <1>2, <1>4
  <2> QED
    BY <2>1, FoundStays
<1> QED
  BY <1>3, <1>4

LEMMA KnownStart ==
    ASSUME RegTypeOK, NEW p, Found(p), NEW w \in Workers, StartWorker(w) \/ Announce(w)
    PROVE  Found(p)'
<1>1. PICK type \in Types : net' = net \cup Datagrams(w, type)
  BY DEF StartWorker, Announce, Sent, Types
<1>2. \E wait \in SynMin..SynMax : next_syn' = [next_syn EXCEPT ![w] = wait]
  BY DEF StartWorker, Announce, Sent
<1>3. {p[1], p[2]} \subseteq up'
  BY DEF StartWorker, Announce, Found
<1>4. svr_tbl' = svr_tbl /\ missed' = missed
  BY DEF StartWorker, Announce
<1>5. EntryOf(p)' = EntryOf(p) /\ ServiceOf[p[1]] \in DOMAIN svr_tbl'[p[2]]
  BY <1>4 DEF EntryOf, Found
<1>6. Coming(p)' = Coming(p) \cup {n \in Datagrams(w, type) : n.from = p[1] /\ n.to = p[2]}
  BY <1>1 DEF Coming
<1> QED
  BY <1>2, <1>3, <1>4, <1>5, <1>6, FoundSent

LEMMA KnownDie ==
    ASSUME RegTypeOK, NEW p, Found(p), NEW w \in Workers, Die(w), p \in known'
    PROVE  Found(p)'
<1>1. w # p[1] /\ w # p[2]
  BY DEF Die
<1>2. p[1] \in Workers /\ p[2] \in Listeners
  BY FoundFacts
<1>3. {p[1], p[2]} \subseteq up' /\ ((p \in missed') <=> (p \in missed))
  BY <1>1 DEF Die, Found
<1>4. svr_tbl'[p[2]] = svr_tbl[p[2]] /\ next_syn'[p[1]] = next_syn[p[1]]
  BY <1>1, <1>2 DEF Die, RegTypeOK
<1>5. EntryOf(p)' = EntryOf(p) /\ ServiceOf[p[1]] \in DOMAIN svr_tbl'[p[2]]
  BY <1>4 DEF EntryOf, Found
<1>6. Coming(p)' = Coming(p)
  BY <1>1 DEF Die, Coming
<1> QED
  BY <1>3, <1>4, <1>5, <1>6, FoundStays

\* The clean-up leaves the entry of a worker that is known.
LEMMA EntryNotExpired ==
    ASSUME RegTypeOK, NEW p, Found(p), NEW l \in Listeners, DelExpired(l)
    PROVE  /\ ServiceOf[p[1]] \in DOMAIN svr_tbl'[p[2]]
           /\ EntryOf(p)' = EntryOf(p)
<1> DEFINE s == ServiceOf[p[1]]
<1>1. p[2] \in Listeners /\ EntryOf(p).age <= Expire /\ EntryOf(p).age \in Nat
  BY FoundFacts
<1>2. s \in DOMAIN svr_tbl'[p[2]] /\ svr_tbl'[p[2]][s] = svr_tbl[p[2]][s]
  <2>1. ~Expired(svr_tbl[p[2]][s]) /\ s \in DOMAIN svr_tbl[p[2]]
    BY <1>1, TimeFacts DEF Expired, EntryOf, Found
  <2>2. svr_tbl' = [svr_tbl EXCEPT ![l] =
            [k \in {k \in DOMAIN svr_tbl[l] : ~Expired(svr_tbl[l][k])} |-> svr_tbl[l][k]]]
    BY DEF DelExpired
  <2> HIDE DEF s
  <2>3. CASE p[2] = l
    <3>1. svr_tbl'[p[2]] =
            [k \in {k \in DOMAIN svr_tbl[l] : ~Expired(svr_tbl[l][k])} |-> svr_tbl[l][k]]
      BY <2>2, <2>3, TableTypes
    <3> QED
      BY <2>1, <2>3, <3>1
  <2>4. CASE p[2] # l
    BY <2>1, <2>2, <2>4, <1>1, TableTypes
  <2> QED
    BY <2>3, <2>4
<1> QED
  BY <1>2 DEF EntryOf

LEMMA KnownDelExpired ==
    ASSUME RegTypeOK, NEW p, Found(p), NEW l \in Listeners, DelExpired(l)
    PROVE  Found(p)'
<1>1. ServiceOf[p[1]] \in DOMAIN svr_tbl'[p[2]] /\ EntryOf(p)' = EntryOf(p)
  BY EntryNotExpired
<1>2. UNCHANGED <<up, next_syn, net, missed>>
  BY DEF DelExpired
<1>3. Coming(p)' = Coming(p) /\ {p[1], p[2]} \subseteq up'
  BY <1>2 DEF Coming, Found
<1> QED
  BY <1>1, <1>2, <1>3, FoundStays

\* What a datagram that is taken leaves: an entry heard now, or as it was.
HeardOf(p) ==
    /\ p \in Pairs /\ {p[1], p[2]} \subseteq up /\ ServiceOf[p[1]] # ServiceOf[p[2]]
    /\ ServiceOf[p[1]] \in DOMAIN svr_tbl[p[2]] /\ EntryOf(p).age = 0

LEMMA HeardPair ==
    ASSUME RegTypeOK, KnownInv, NetInv, NEW m \in net, Heard(m), ~OwnService(m.to, m), up' = up,
           NEW p \in known'
    PROVE  \/ HeardOf(p)'
           \/ /\ Found(p) /\ p # <<m.from, m.to>> /\ EntryOf(p)' = EntryOf(p)
              /\ ServiceOf[p[1]] \in DOMAIN svr_tbl'[p[2]]
<1>1. CASE p = <<m.from, m.to>> /\ p \in Pairs /\ m.from \in up
  <2>1. m.to \in Listeners /\ m.to \in up /\ p[1] = m.from /\ p[2] = m.to
    BY <1>1 DEF Pairs, NetInv
  <2>2. ServiceOf[m.from] \in DOMAIN svr_tbl'[m.to] /\ svr_tbl'[m.to][ServiceOf[m.from]].age = 0
    BY <2>1, HeardTable
  <2> QED
    BY <1>1, <2>1, <2>2 DEF HeardOf, EntryOf, OwnService
<1>2. CASE p \in known
  <2>1. Found(p)
    BY <1>2, KnownIsFound
  <2>2. p[2] \in Listeners /\ p = <<p[1], p[2]>> /\ ServiceOf[p[1]] \in DOMAIN svr_tbl[p[2]]
        /\ p \in Pairs /\ {p[1], p[2]} \subseteq up' /\ ServiceOf[p[1]] # ServiceOf[p[2]]
    BY <2>1, FoundFacts DEF Found
  <2>3. ServiceOf[p[1]] \in DOMAIN svr_tbl'[p[2]]
    BY <2>2, HeardTable
  <2>4. EntryOf(p)'.age = 0 \/ EntryOf(p)' = EntryOf(p)
    BY <2>2, <2>3, HeardTable DEF EntryOf
  <2>5. p = <<m.from, m.to>> => EntryOf(p)'.age = 0
    <3> SUFFICES ASSUME p = <<m.from, m.to>> PROVE EntryOf(p)'.age = 0
      OBVIOUS
    <3>1. p[2] = m.to /\ p[1] = m.from
      OBVIOUS
    <3> QED
      BY <3>1, <2>2, HeardTable DEF EntryOf
  <2> QED
    BY <2>1, <2>2, <2>3, <2>4, <2>5 DEF HeardOf
<1>3. p \in known \/ (p = <<m.from, m.to>> /\ p \in Pairs /\ m.from \in up)
  BY DEF Heard
<1> QED
  BY <1>1, <1>2, <1>3

\* A datagram that is no more on its way was not of this pair.
LEMMA ComingStays ==
    ASSUME RegTypeOK, NEW m \in net, NEW p, Found(p), p # <<m.from, m.to>>
    PROVE  {n \in net \ {m} : n.from = p[1] /\ n.to = p[2]} = Coming(p)
<1>1. p = <<p[1], p[2]>>
  BY FoundFacts
<1>2. ~(m.from = p[1] /\ m.to = p[2])
  BY <1>1
<1> QED
  BY <1>2 DEF Coming

LEMMA KnownHearSyn ==
    ASSUME RegTypeOK, KnownInv, NetInv, NEW m \in net, HearSyn(m), NEW p \in known'
    PROVE  Found(p)'
<1>1. /\ Heard(m) /\ ~OwnService(m.to, m) /\ net' = net \ {m}
      /\ missed' = missed \ {<<m.from, m.to>>} /\ up' = up /\ next_syn' = next_syn
  BY DEF HearSyn, Without
<1>2. CASE HeardOf(p)'
  <2>1. p[1] \in Workers
    BY <1>2 DEF HeardOf, Pairs
  <2>2. next_syn'[p[1]] \in Int /\ next_syn'[p[1]] + 1 <= Gap
    BY <1>1, <2>1, NextSynInt
  <2> QED
    BY <1>2, <2>2, FoundHeard DEF HeardOf
<1>3. CASE /\ Found(p) /\ p # <<m.from, m.to>> /\ EntryOf(p)' = EntryOf(p)
           /\ ServiceOf[p[1]] \in DOMAIN svr_tbl'[p[2]]
  <2>1. Coming(p)' = Coming(p)
    BY <1>1, <1>3, ComingStays DEF Coming
  <2>2. {p[1], p[2]} \subseteq up' /\ ((p \in missed') <=> (p \in missed))
    BY <1>1, <1>3 DEF Found
  <2>3. next_syn'[p[1]] = next_syn[p[1]]
    BY <1>1
  <2> QED
    BY <1>3, <2>1, <2>2, <2>3, FoundStays
<1> QED
  BY <1>1, <1>2, <1>3, HeardPair

LEMMA KnownHear1st ==
    ASSUME RegTypeOK, KnownInv, NetInv, NEW m \in net, Hear1st(m), NEW p \in known'
    PROVE  Found(p)'
<1>1. /\ Heard(m) /\ ~OwnService(m.to, m) /\ net' = (net \ {m}) \cup Datagrams(m.to, "syn")
      /\ missed' = missed \ {<<m.from, m.to>>} /\ up' = up
      /\ \E wait \in SynMin..SynMax : next_syn' = [next_syn EXCEPT ![m.to] = wait]
  BY DEF Hear1st, Without, Answer
<1>2. m.to \in Workers /\ "syn" \in Types
  BY DEF RegTypeOK, Types
<1>3. CASE HeardOf(p)'
  <2>1. p[1] \in Workers
    BY <1>3 DEF HeardOf, Pairs
  <2>2. next_syn'[p[1]] \in Int /\ next_syn'[p[1]] + 1 <= Gap
    <3>1. /\ next_syn' \in [Workers -> -1..SynMax] /\ next_syn'[m.to] + 1 <= Gap
          /\ \A v \in Workers : v # m.to => next_syn'[v] = next_syn[v]
      BY <1>1, <1>2, TimerSet
    <3> QED
      BY <3>1, <2>1, NextSynInt, TimeFacts
  <2> QED
    BY <1>3, <2>2, FoundHeard DEF HeardOf
<1>4. CASE /\ Found(p) /\ p # <<m.from, m.to>> /\ EntryOf(p)' = EntryOf(p)
           /\ ServiceOf[p[1]] \in DOMAIN svr_tbl'[p[2]]
  <2>1. Coming(p)' = {n \in net \ {m} : n.from = p[1] /\ n.to = p[2]}
                     \cup {n \in Datagrams(m.to, "syn") : n.from = p[1] /\ n.to = p[2]}
    BY <1>1 DEF Coming
  <2>2. Coming(p)' = Coming(p) \cup {n \in Datagrams(m.to, "syn") : n.from = p[1] /\ n.to = p[2]}
    BY <2>1, <1>4, ComingStays
  <2>3. {p[1], p[2]} \subseteq up' /\ ((p \in missed') <=> (p \in missed))
    BY <1>1, <1>4 DEF Found
  <2> QED
    BY <1>1, <1>2, <1>4, <2>2, <2>3, FoundSent
<1> QED
  BY <1>1, <1>3, <1>4, HeardPair

LEMMA KnownIgnoreOwn ==
    ASSUME RegTypeOK, NEW p, Found(p), NEW m \in net, IgnoreOwn(m)
    PROVE  Found(p)'
<1>1. /\ OwnService(m.to, m) /\ net' = net \ {m} /\ missed' = missed \ {<<m.from, m.to>>}
      /\ UNCHANGED <<up, next_syn, svr_tbl>>
  BY DEF IgnoreOwn, Without
<1>2. p # <<m.from, m.to>>
  <2>1. p = <<m.from, m.to>> => p[1] = m.from /\ p[2] = m.to
    OBVIOUS
  <2> QED
    BY <1>1, <2>1 DEF OwnService, Found
<1>3. Coming(p)' = Coming(p)
  BY <1>1, <1>2, ComingStays DEF Coming
<1>4. EntryOf(p)' = EntryOf(p) /\ ServiceOf[p[1]] \in DOMAIN svr_tbl'[p[2]]
  BY <1>1 DEF EntryOf, Found
<1>5. {p[1], p[2]} \subseteq up' /\ ((p \in missed') <=> (p \in missed))
  BY <1>1, <1>2 DEF Found
<1> QED
  BY <1>1, <1>3, <1>4, <1>5, FoundStays

LEMMA KnownLose ==
    ASSUME RegTypeOK, NEW p, Found(p), NEW m \in net, Lose(m)
    PROVE  Found(p)'
<1>1. /\ net' = net \ {m} /\ <<m.from, m.to>> \notin missed
      /\ missed' = missed \cup ({<<m.from, m.to>>} \cap Pairs)
      /\ UNCHANGED <<up, next_syn, svr_tbl>>
  BY DEF Lose, Without
<1>2. EntryOf(p)' = EntryOf(p) /\ ServiceOf[p[1]] \in DOMAIN svr_tbl'[p[2]]
      /\ {p[1], p[2]} \subseteq up' /\ p \in Pairs /\ ServiceOf[p[1]] # ServiceOf[p[2]]
      /\ next_syn'[p[1]] = next_syn[p[1]]
  BY <1>1 DEF EntryOf, Found
<1>3. CASE p # <<m.from, m.to>>
  <2>1. Coming(p)' = Coming(p)
    BY <1>1, <1>3, ComingStays DEF Coming
  <2>2. (p \in missed') <=> (p \in missed)
    BY <1>1, <1>3
  <2> QED
    BY <1>2, <2>1, <2>2, FoundStays
<1>4. CASE p = <<m.from, m.to>>
  <2>1. p[1] = m.from /\ p[2] = m.to
    BY <1>4
  <2>2. m \in Coming(p) /\ Coming(p)' = Coming(p) \ {m}
    BY <1>1, <2>1 DEF Coming
  <2>3. MostAge(p) = Gap /\ MostAge(p)' = 2 * Gap
    BY <1>1, <1>2, <1>4 DEF MostAge, Gap
  <2>4. EntryOf(p).age \in Nat /\ next_syn[p[1]] + 1 \in Nat
    BY FoundFacts
  <2>5. InTime(Coming(p), Gap, EntryOf(p).age, next_syn[p[1]] + 1)
    BY <2>3 DEF Found
  <2>6. InTime(Coming(p) \ {m}, 2 * Gap, EntryOf(p).age, next_syn[p[1]] + 1)
    BY <2>2, <2>4, <2>5, InTimeLost
  <2> QED
    BY <1>2, <2>2, <2>3, <2>6 DEF Found
<1> QED
  BY <1>3, <1>4

LEMMA SecondComing ==
    ASSUME RegTypeOK, NEW p, Second
    PROVE  Coming(p)' = {[m EXCEPT !.late = TRUE] : m \in Coming(p)}
<1>1. net' = {[m EXCEPT !.late = TRUE] : m \in net} /\ \A m \in net : m \in Datagram
  BY DEF Second, RegTypeOK, Datagram
<1>2. \A m \in Datagram : /\ [m EXCEPT !.late = TRUE].from = m.from
                          /\ [m EXCEPT !.late = TRUE].to = m.to
  BY DEF Datagram
<1>3. \A n : n \in Coming(p)' <=> \E m \in Coming(p) : n = [m EXCEPT !.late = TRUE]
  BY <1>1, <1>2 DEF Coming
<1> QED
  BY <1>3

LEMMA KnownSecond ==
    ASSUME RegTypeOK, NEW p, Found(p), Second
    PROVE  Found(p)'
<1>1. p[1] \in Workers /\ p[2] \in Listeners /\ EntryOf(p).age \in Nat
      /\ next_syn[p[1]] + 1 \in Nat /\ p[1] \in up /\ ServiceOf[p[1]] \in DOMAIN svr_tbl[p[2]]
  BY FoundFacts DEF Found
<1>2. EntryOf(p)'.age = EntryOf(p).age + 1 /\ ServiceOf[p[1]] \in DOMAIN svr_tbl'[p[2]]
  BY <1>1, SecondTable DEF EntryOf
<1>3. next_syn'[p[1]] = next_syn[p[1]] - 1 /\ up' = up /\ missed' = missed
  BY <1>1 DEF Second
<1>4. Coming(p) \in SUBSET Datagram /\ \A m \in Coming(p) : ~m.late
  BY DEF Coming, Second, RegTypeOK, Datagram
<1>5. Coming(p)' = {[m EXCEPT !.late = TRUE] : m \in Coming(p)}
  BY SecondComing
<1>6. MostAge(p) \in {Gap, 2 * Gap} /\ MostAge(p)' = MostAge(p)
  BY <1>3 DEF MostAge, Gap
<1> DEFINE next == next_syn[p[1]] + 1
<1>7. next \in Int /\ InTime(Coming(p), MostAge(p), EntryOf(p).age, next)
  BY <1>1 DEF Found
<1>8. next_syn'[p[1]] + 1 = next - 1
  BY <1>1, <1>3, NextSynInt
<1> HIDE DEF next
<1>9. InTime(Coming(p)', MostAge(p)', EntryOf(p)'.age, next_syn'[p[1]] + 1)
  <2>1. InTime({[m EXCEPT !.late = TRUE] : m \in Coming(p)}, MostAge(p), EntryOf(p).age + 1, next - 1)
    BY <1>1, <1>4, <1>6, <1>7, InTimeSecond
  <2> QED
    BY <2>1, <1>2, <1>5, <1>6, <1>8
<1> QED
  BY <1>2, <1>3, <1>9 DEF Found

LEMMA KnownStep ==
    ASSUME RegTypeOK, KnownInv, NetInv, [RegNext]_regvars
    PROVE  KnownInv'
<1>0. \A p \in known : Found(p)
  BY KnownIsFound
<1> SUFFICES ASSUME NEW p \in known' PROVE Found(p)'
  BY DEF KnownInv, Found, EntryOf
<1>1. ASSUME NEW w \in Workers, StartWorker(w) \/ Announce(w) PROVE Found(p)'
  <2>1. p \in known
    BY <1>1 DEF StartWorker, Announce
  <2> QED
    BY <1>0, <1>1, <2>1, KnownStart
<1>2. ASSUME NEW w \in Workers, Die(w) PROVE Found(p)'
  <2>1. p \in known
    BY <1>2 DEF Die
  <2> QED
    BY <1>0, <1>2, <2>1, KnownDie
<1>3. ASSUME NEW l \in Listeners, DelExpired(l) PROVE Found(p)'
  <2>1. p \in known
    BY <1>3 DEF DelExpired
  <2> QED
    BY <1>0, <1>3, <2>1, KnownDelExpired
<1>4. ASSUME NEW m \in net, HearSyn(m) PROVE Found(p)'
  BY <1>4, KnownHearSyn
<1>5. ASSUME NEW m \in net, Hear1st(m) PROVE Found(p)'
  BY <1>5, KnownHear1st
<1>6. ASSUME NEW m \in net, IgnoreOwn(m) \/ Lose(m) PROVE Found(p)'
  <2>1. p \in known
    BY <1>6 DEF IgnoreOwn, Lose
  <2> QED
    BY <1>0, <1>6, <2>1, KnownIgnoreOwn, KnownLose
<1>7. CASE Second
  <2>1. p \in known
    BY <1>7 DEF Second
  <2> QED
    BY <1>0, <1>7, <2>1, KnownSecond
<1>8. CASE UNCHANGED regvars
  BY <1>0, <1>8 DEF regvars, Found, EntryOf, Coming, MostAge, Gap
<1> QED
  BY <1>1, <1>2, <1>3, <1>4, <1>5, <1>6, <1>7, <1>8 DEF RegNext

------------------------------------------------------------------------------
(* Theorems.                                                               *)

\* Ages, timers and datagrams keep together in every behaviour of any number of
\* workers, with any times that satisfy the assumption (mcast.c, net.c:640-655).
THEOREM RegistryInvariance == RegSpec => []RegInv
<1>1. RegInit => IInv
  BY RegTypeInit
<1>2. IInv /\ [RegNext]_regvars => IInv'
  BY TypeStep, NetStep, AgeStep, KnownStep DEF IInv, RegInv
<1>3. IInv => RegInv
  BY DEF IInv
<1> QED
  BY <1>1, <1>2, <1>3, PTL DEF RegSpec

\* Every variable keeps its type: no entry gets older than the expiry and one
\* period of the clean-up (mcast.c:97-116).
THEOREM RegistryTypeCorrect == RegSpec => []RegTypeOK
<1>1. RegInit => IInv
  BY RegTypeInit
<1>2. IInv /\ [RegNext]_regvars => IInv'
  BY TypeStep, NetStep, AgeStep, KnownStep DEF IInv, RegInv
<1>3. IInv => RegTypeOK
  BY DEF IInv
<1> QED
  BY <1>1, <1>2, <1>3, PTL DEF RegSpec

\* A worker once heard of is found while it runs, unless two announcements in a
\* row are lost, for any number of workers and any times (mcast.c:97-110, 150-172).
THEOREM LiveWorkerFound == RegSpec => []NeverForgotten
<1>1. RegInv => NeverForgotten
  <2> SUFFICES ASSUME RegInv, NEW p \in known
               PROVE  LET s == ServiceOf[p[1]]
                      IN  /\ GetServiceIpport(p[2], s[1], s[2]) # {}
                          /\ GetServiceIpport(p[2], s[1], 0) # {}
    BY DEF NeverForgotten
  <2> DEFINE s == ServiceOf[p[1]]
  <2>1. s \in DOMAIN svr_tbl[p[2]]
    BY DEF RegInv, KnownInv
  <2> HIDE DEF s
  <2>2. ASSUME NEW id \in {0, s[2]} PROVE svr_tbl[p[2]][s].addr \in GetServiceIpport(p[2], s[1], id)
    BY <2>1, <2>2 DEF GetServiceIpport
  <2>3. GetServiceIpport(p[2], s[1], s[2]) # {} /\ GetServiceIpport(p[2], s[1], 0) # {}
    BY <2>2
  <2> QED
    BY <2>3 DEF s
<1> QED
  BY <1>1, RegistryInvariance, PTL

LEMMA ToldStep ==
    ASSUME RegTypeOK, PluginKnowsTable, [RegNext]_regvars
    PROVE  PluginKnowsTable'
<1> SUFFICES ASSUME NEW l \in Listeners PROVE told'[l] = DOMAIN svr_tbl'[l]
  BY DEF PluginKnowsTable
<1>0. told[l] = DOMAIN svr_tbl[l] /\ DOMAIN svr_tbl = Listeners /\ DOMAIN told = Listeners
  BY DEF PluginKnowsTable, RegTypeOK
<1>1. ASSUME NEW w \in Workers, Die(w) PROVE told'[l] = DOMAIN svr_tbl'[l]
  BY <1>0, <1>1, TableFacts DEF Die
<1>2. ASSUME NEW k \in Listeners, DelExpired(k) PROVE told'[l] = DOMAIN svr_tbl'[l]
  <2> DEFINE kept == {s \in DOMAIN svr_tbl[k] : ~Expired(svr_tbl[k][s])}
  <2>1. /\ svr_tbl' = [svr_tbl EXCEPT ![k] = [s \in kept |-> svr_tbl[k][s]]]
        /\ told' = [told EXCEPT ![k] = told[k] \cap kept]
    BY <1>2 DEF DelExpired, ToldAfter
  <2>2. kept \subseteq DOMAIN svr_tbl[k]
    OBVIOUS
  <2> HIDE DEF kept
  <2>3. CASE l = k
    <3>1. svr_tbl'[l] = [s \in kept |-> svr_tbl[k][s]] /\ told'[l] = told[l] \cap kept
      BY <1>0, <2>1, <2>3
    <3> QED
      BY <3>1, <2>2, <2>3, <1>0
  <2>4. CASE l # k
    BY <1>0, <2>1, <2>4
  <2> QED
    BY <2>3, <2>4
<1>3. ASSUME NEW m \in net, HearSyn(m) \/ Hear1st(m) PROVE told'[l] = DOMAIN svr_tbl'[l]
  <2>1. Heard(m)
    BY <1>3 DEF HearSyn, Hear1st
  <2>2. CASE l = m.to
    <3>1. /\ svr_tbl' = [svr_tbl EXCEPT ![l] = WithEntry(svr_tbl[l], ServiceOf[m.from], m.from)]
          /\ told' = [told EXCEPT ![l] = told[l] \cup {ServiceOf[m.from]}]
      BY <2>1, <2>2 DEF Heard
    <3>2. DOMAIN svr_tbl'[l] = DOMAIN svr_tbl[l] \cup {ServiceOf[m.from]}
      BY <3>1, <1>0 DEF WithEntry
    <3> QED
      BY <3>1, <3>2, <1>0
  <2>3. CASE l # m.to
    BY <2>1, <2>3, <1>0 DEF Heard
  <2> QED
    BY <2>2, <2>3
<1>4. CASE Second
  <2>1. DOMAIN svr_tbl'[l] = DOMAIN svr_tbl[l] /\ told' = told
    BY <1>4, SecondTable DEF Second
  <2> QED
    BY <2>1, <1>0
<1>5. CASE \/ \E w \in Workers : StartWorker(w) \/ Announce(w)
           \/ \E m \in net : IgnoreOwn(m) \/ Lose(m)
           \/ UNCHANGED regvars
  <2>1. svr_tbl' = svr_tbl /\ told' = told
    BY <1>5 DEF StartWorker, Announce, IgnoreOwn, Lose, regvars
  <2> QED
    BY <2>1, <1>0
<1> QED
  BY <1>1, <1>2, <1>3, <1>4, <1>5 DEF RegNext

\* The plugin has been told of exactly the addresses in the table, whatever was
\* heard, lost or dropped (mcast.c:101-103, 189-191).
THEOREM PluginToldOfTable == RegSpec => []PluginKnowsTable
<1>1. RegInit => PluginKnowsTable
  BY TableFacts DEF RegInit, PluginKnowsTable
<1>2. RegTypeOK /\ PluginKnowsTable /\ [RegNext]_regvars => PluginKnowsTable'
  BY ToldStep
<1> QED
  BY <1>1, <1>2, RegistryTypeCorrect, PTL DEF RegSpec

------------------------------------------------------------------------------
(* How long a service is silent.                                           *)

SilentOf(l, s) ==
    /\ Others(l, s) # {} => silent[l][s] = 0
    /\ \A m \in net : m.to = l /\ ServiceOf[m.from] = s =>
          silent[l][s] <= (IF m.late THEN 1 ELSE 0)
    /\ s \in DOMAIN svr_tbl[l] => silent[l][s] <= svr_tbl[l][s].age + 1

LEMMA SilentTypes ==
    ASSUME RegTypeOK, NEW l \in Listeners, NEW s \in Services
    PROVE  silent[l][s] \in Nat /\ (s \in DOMAIN svr_tbl[l] => svr_tbl[l][s].age \in Nat)
BY TableTypes, TimeFacts DEF RegTypeOK

LEMMA SilentStep ==
    ASSUME RegTypeOK, NetInv, SilentInv, [RegNext]_regvars
    PROVE  SilentInv'
<1> SUFFICES ASSUME NEW l \in Listeners, NEW s \in Services PROVE SilentOf(l, s)'
  BY DEF SilentInv, SilentOf
<1>0. SilentOf(l, s) /\ silent[l][s] \in Nat /\ (s \in DOMAIN svr_tbl[l] => svr_tbl[l][s].age \in Nat)
  BY SilentTypes DEF SilentInv, SilentOf
<1>1. ASSUME NEW w \in Workers, StartWorker(w) PROVE SilentOf(l, s)'
  <2>1. /\ up' = up \cup {w} /\ svr_tbl' = svr_tbl /\ net' = net \cup Datagrams(w, "1st")
        /\ silent'[l][s] = IF l # w /\ s = ServiceOf[w] THEN 0 ELSE silent[l][s]
    BY <1>1, TimesAssumption DEF StartWorker, Sent, RegTypeOK
  <2>2. \A m \in Datagrams(w, "1st") : m.from = w /\ m.to # w
    BY DatagramsOk DEF Types
  <2>3. \A v \in Others(l, s)' : v \in Others(l, s) \/ (v = w /\ l # w /\ s = ServiceOf[w])
    BY <2>1 DEF Others
  <2>4. silent'[l][s] <= silent[l][s] /\ silent'[l][s] \in Nat
    BY <2>1, <1>0
  <2>5. Others(l, s)' # {} => silent'[l][s] = 0
    BY <2>1, <2>3, <1>0 DEF SilentOf
  <2>6. \A m \in net' : m.to = l /\ ServiceOf[m.from] = s => silent'[l][s] <= (IF m.late THEN 1 ELSE 0)
    <3> SUFFICES ASSUME NEW m \in net', m.to = l, ServiceOf[m.from] = s
                 PROVE  silent'[l][s] <= (IF m.late THEN 1 ELSE 0)
      OBVIOUS
    <3>1. CASE m \in net
      BY <3>1, <2>4, <1>0 DEF SilentOf
    <3>2. CASE m \in Datagrams(w, "1st")
      BY <3>2, <2>1, <2>2
    <3> QED BY <3>1, <3>2, <2>1
  <2> QED BY <2>1, <2>4, <2>5, <2>6, <1>0 DEF SilentOf
<1>2. ASSUME NEW w \in up, NEW type \in Types, up' = up, silent' = silent, w \in Workers,
             net' \subseteq net \cup Datagrams(w, type)
      PROVE  /\ Others(l, s)' # {} => silent'[l][s] = 0
             /\ \A m \in net' : m.to = l /\ ServiceOf[m.from] = s =>
                   silent'[l][s] <= (IF m.late THEN 1 ELSE 0)
  <2>1. \A m \in Datagrams(w, type) : m.from = w /\ m.to # w
    BY <1>2, DatagramsOk
  <2>2. ASSUME NEW m \in Datagrams(w, type), m.to = l, ServiceOf[m.from] = s PROVE silent[l][s] = 0
    BY <2>1, <2>2, <1>0 DEF Others, SilentOf
  <2>3. Others(l, s)' = Others(l, s)
    BY <1>2 DEF Others
  <2> QED BY <1>0, <1>2, <2>2, <2>3 DEF SilentOf
<1>3. ASSUME NEW w \in Workers, Announce(w) PROVE SilentOf(l, s)'
  <2>1. /\ w \in up /\ up' = up /\ silent' = silent /\ svr_tbl' = svr_tbl
        /\ net' \subseteq net \cup Datagrams(w, "syn") /\ "syn" \in Types
    BY <1>3 DEF Announce, Sent, Types
  <2> QED BY <2>1, <1>0, <1>2 DEF SilentOf
<1>4. ASSUME NEW w \in Workers, Die(w) PROVE SilentOf(l, s)'
  <2>1. /\ silent' = silent /\ net' \subseteq net
        /\ svr_tbl'[l] = (IF l = w THEN NoEntries ELSE svr_tbl[l])
    BY <1>4 DEF Die
  <2>2. Others(l, s)' \subseteq Others(l, s)
    BY <1>4 DEF Die, Others
  <2> QED BY <2>1, <2>2, <1>0, TableFacts DEF SilentOf
<1>5. ASSUME NEW k \in Listeners, DelExpired(k) PROVE SilentOf(l, s)'
  <2>1. UNCHANGED <<up, silent, net>>
    BY <1>5 DEF DelExpired
  <2>2. s \in DOMAIN svr_tbl'[l] => s \in DOMAIN svr_tbl[l] /\ svr_tbl'[l][s] = svr_tbl[l][s]
    <3>1. svr_tbl' = [svr_tbl EXCEPT ![k] =
              [v \in {v \in DOMAIN svr_tbl[k] : ~Expired(svr_tbl[k][v])} |-> svr_tbl[k][v]]]
      BY <1>5 DEF DelExpired
    <3>2. l # k => svr_tbl'[l] = svr_tbl[l]
      BY <3>1, TableTypes
    <3>3. l = k => svr_tbl'[l] =
              [v \in {v \in DOMAIN svr_tbl[l] : ~Expired(svr_tbl[l][v])} |-> svr_tbl[l][v]]
      BY <3>1, TableTypes
    <3> QED BY <3>2, <3>3
  <2> QED BY <2>1, <2>2, <1>0 DEF SilentOf, Others
<1>6. ASSUME NEW m \in net, HearSyn(m) \/ Hear1st(m) PROVE SilentOf(l, s)'
  <2>1. /\ Heard(m) /\ up' = up /\ silent' = silent
        /\ m.to \in up /\ m.to \in Workers /\ "syn" \in Types
        /\ net' \subseteq net \cup Datagrams(m.to, "syn")
    BY <1>6 DEF HearSyn, Hear1st, Without, Answer, Types, NetInv, RegTypeOK
  <2>2. /\ Others(l, s)' # {} => silent'[l][s] = 0
        /\ \A n \in net' : n.to = l /\ ServiceOf[n.from] = s =>
              silent'[l][s] <= (IF n.late THEN 1 ELSE 0)
    BY <2>1, <1>2
  <2>3. ASSUME s \in DOMAIN svr_tbl'[l] PROVE silent[l][s] <= svr_tbl'[l][s].age + 1
    <3>1. CASE s \in DOMAIN svr_tbl[l] /\ svr_tbl'[l][s] = svr_tbl[l][s]
      BY <3>1, <1>0 DEF SilentOf
    <3>2. CASE l = m.to /\ s = ServiceOf[m.from]
      <4>1. svr_tbl'[l][s].age = 0
        BY <2>1, <3>2, HeardTable
      <4> QED BY <4>1, <3>2, <1>0 DEF SilentOf
    <3>3. CASE l = m.to /\ s # ServiceOf[m.from]
      <4>1. svr_tbl'[l] = WithEntry(svr_tbl[l], ServiceOf[m.from], m.from)
        BY <2>1, <3>3, TableTypes DEF Heard
      <4> QED BY <4>1, <3>1, <3>3, <2>3 DEF WithEntry
    <3>4. CASE l # m.to
      BY <3>1, <3>4, <2>1, <2>3, HeardTable
    <3> QED BY <3>2, <3>3, <3>4
  <2> QED BY <2>1, <2>2, <2>3 DEF SilentOf
<1>7. ASSUME NEW m \in net, IgnoreOwn(m) \/ Lose(m) PROVE SilentOf(l, s)'
  BY <1>0, <1>7 DEF IgnoreOwn, Lose, Without, SilentOf, Others
<1>8. CASE Second
  <2>1. /\ Others(l, s)' = Others(l, s)
        /\ silent'[l][s] = IF Others(l, s) = {} THEN Capped(silent[l][s], GoneAfter) ELSE 0
        /\ \A m \in net : ~m.late
    BY <1>8 DEF Second, Others
  <2>2. silent'[l][s] <= silent[l][s] + 1
    BY <2>1, <1>0, TimeFacts DEF Capped
  <2>3. ASSUME NEW n \in net', n.to = l, ServiceOf[n.from] = s
        PROVE  silent'[l][s] <= (IF n.late THEN 1 ELSE 0)
    <3>1. PICK m \in net : n = [m EXCEPT !.late = TRUE]
      BY <1>8 DEF Second
    <3>2. n.to = m.to /\ n.from = m.from /\ n.late
      BY <3>1 DEF RegTypeOK
    <3>3. silent[l][s] <= 0
      BY <2>1, <2>3, <3>2, <1>0 DEF SilentOf
    <3>4. silent'[l][s] \in Nat
      BY <2>1, <1>0, TimeFacts DEF Capped
    <3> QED BY <3>2, <3>3, <3>4, <2>2, <1>0
  <2>4. ASSUME s \in DOMAIN svr_tbl'[l] PROVE silent'[l][s] <= svr_tbl'[l][s].age + 1
    <3>1. s \in DOMAIN svr_tbl[l] /\ svr_tbl'[l][s].age = svr_tbl[l][s].age + 1
      BY <1>8, <2>4, SecondTable
    <3>2. silent[l][s] <= svr_tbl[l][s].age + 1
      BY <3>1, <1>0 DEF SilentOf
    <3>3. silent'[l][s] \in Nat
      BY <2>1, <1>0, TimeFacts DEF Capped
    <3> QED BY <3>1, <3>2, <3>3, <2>2, <1>0
  <2>5. Others(l, s)' # {} => silent'[l][s] = 0
    BY <2>1
  <2> QED BY <2>3, <2>4, <2>5 DEF SilentOf
<1>9. CASE UNCHANGED regvars
  BY <1>0, <1>9 DEF regvars, SilentOf, Others
<1> QED
  BY <1>1, <1>3, <1>4, <1>5, <1>6, <1>7, <1>8, <1>9 DEF RegNext

------------------------------------------------------------------------------
(* How long a worker is alone before a listener has its address.           *)

Stale(p, m) == m.to = p[2] /\ ServiceOf[m.from] = ServiceOf[p[1]] /\ m.from # p[1]

Waiting(p) == InTime(Coming(p), MostAge(p), together[p] - 1, next_syn[p[1]] + 1)

Both(p) ==
    together[p] > 0 =>
        /\ {p[1], p[2]} \subseteq up /\ Alone(p[1])
        /\ \A m \in net : Stale(p, m) => together[p] = 1 /\ m.late
        /\ ~HasAddress(p) => Waiting(p)

LEMMA TogetherIsBoth == TogetherInv <=> \A p \in Pairs : Both(p)
BY DEF TogetherInv, Both, Stale, Waiting

LEMMA BothFacts ==
    ASSUME RegTypeOK, NEW p \in Pairs
    PROVE  /\ together[p] \in Nat /\ together[p] <= KnownAfter
           /\ next_syn[p[1]] + 1 \in Nat /\ next_syn[p[1]] + 1 <= Gap
           /\ MostAge(p) \in {Gap, 2 * Gap}
           /\ p[1] \in Workers /\ p[2] \in Listeners
<1>1. p[1] \in Workers /\ p[2] \in Listeners
  BY PairFacts
<1>2. together[p] \in Nat /\ together[p] <= KnownAfter
  BY TimeFacts DEF RegTypeOK
<1> QED BY <1>1, <1>2, NextSynInt DEF MostAge

\* A listener that waits does not wait long.
LEMMA WaitingBounded ==
    ASSUME RegTypeOK, NEW p \in Pairs, together[p] > 0, Waiting(p)
    PROVE  together[p] < KnownAfter
<1>1. /\ together[p] \in Nat /\ next_syn[p[1]] + 1 \in Nat
      /\ MostAge(p) \in {Gap, 2 * Gap}
  BY BothFacts
<1>2. KnownAfter = 2 * Gap + 3
  BY TimesAssumption DEF KnownAfter, Gap
<1> DEFINE t == together[p]  n == next_syn[p[1]] + 1
<1>3. t \in Nat /\ n \in Nat /\ InTime(Coming(p), MostAge(p), t - 1, n)
  BY <1>1 DEF Waiting
<1> HIDE DEF t, n
<1>4. t - 1 <= 2 * Gap + 1
  BY <1>1, <1>3, TimeFacts DEF InTime
<1>5. t < KnownAfter
  BY <1>2, <1>3, <1>4, TimeFacts
<1> QED BY <1>5 DEF t

\* Nothing that matters to the pair changes, and no former worker sends.
LEMMA BothStays ==
    ASSUME NEW p \in Pairs, Both(p), together'[p] = together[p] \/ together'[p] = 0,
           together'[p] > 0 =>
               /\ {p[1], p[2]} \subseteq up' /\ Alone(p[1])'
               /\ \A m \in net' : Stale(p, m) => m \in net
               /\ HasAddress(p) => HasAddress(p)'
               /\ Coming(p)' = Coming(p) /\ ((p \in missed') <=> (p \in missed))
               /\ next_syn'[p[1]] = next_syn[p[1]]
    PROVE  Both(p)'
<1> SUFFICES ASSUME together'[p] > 0
             PROVE  /\ {p[1], p[2]} \subseteq up' /\ Alone(p[1])'
                    /\ \A m \in net' : Stale(p, m) => together'[p] = 1 /\ m.late
                    /\ ~HasAddress(p)' => Waiting(p)'
  BY DEF Both, Stale
<1>1. together'[p] = together[p]
  OBVIOUS
<1>2. Waiting(p)' <=> Waiting(p)
  BY <1>1 DEF Waiting, MostAge, Gap
<1> QED BY <1>1, <1>2 DEF Both

\* A worker that sends what is nothing stale for the pair.
LEMMA BothSent ==
    ASSUME RegTypeOK, NEW p \in Pairs, Both(p), together[p] > 0, together'[p] = together[p],
           NEW w \in Workers, NEW type \in Types, w = p[1] \/ ServiceOf[w] # ServiceOf[p[1]],
           {p[1], p[2]} \subseteq up' , Alone(p[1])',
           \A m \in net' : Stale(p, m) => m \in net \cup Datagrams(w, type),
           Coming(p)' = Coming(p) \cup {n \in Datagrams(w, type) : n.from = p[1] /\ n.to = p[2]},
           \E wait \in SynMin..SynMax : next_syn' = [next_syn EXCEPT ![w] = wait],
           HasAddress(p) => HasAddress(p)', (p \in missed') <=> (p \in missed)
    PROVE  Both(p)'
<1> DEFINE sent == {n \in Datagrams(w, type) : n.from = p[1] /\ n.to = p[2]}
<1>0. /\ p[1] \in Workers /\ {p[1], p[2]} \subseteq up
      /\ next_syn' \in [Workers -> -1..SynMax] /\ next_syn'[w] + 1 <= Gap
      /\ \A v \in Workers : v # w => next_syn'[v] = next_syn[v]
  BY BothFacts, TimerSet DEF Both
<1>1. (p[1] = w => \E m : m.late = FALSE /\ sent = {m}) /\ (p[1] # w => sent = {})
  <2>1. {p[1], p[2]} \subseteq up
    BY <1>0
  <2>2. /\ p[1] = w => \E m : m.late = FALSE /\ sent = {m}
        /\ p[1] # w => sent = {}
    BY ONLY RegTypeOK, <2>1, SentToPair, w \in Workers, type \in Types, p \in Pairs
  <2> QED BY <2>2
<1>2. Coming(p)' = Coming(p) \cup sent
  OBVIOUS
<1>3. \A m \in Datagrams(w, type) : ~Stale(p, m)
  <2>1. \A m \in Datagrams(w, type) : m.from = w
    BY DatagramsOk
  <2> QED BY <2>1 DEF Stale
<1> HIDE DEF sent
<1>4. CASE p[1] # w
  <2>1. Coming(p)' = Coming(p) /\ next_syn'[p[1]] = next_syn[p[1]]
    BY <1>0, <1>1, <1>2, <1>4
  <2> QED BY <1>3, <2>1, BothStays
<1>5. CASE p[1] = w
  <2>1. PICK m : m.late = FALSE /\ Coming(p)' = Coming(p) \cup {m}
    BY <1>1, <1>2, <1>5
  <2>2. ASSUME Waiting(p) PROVE Waiting(p)'
    <3> DEFINE t == together[p] - 1
               due == next_syn[p[1]] + 1
               next == next_syn'[p[1]] + 1
    <3>1. /\ t \in Nat /\ due \in Nat /\ next \in Int /\ next <= Gap
          /\ MostAge(p) \in {Gap, 2 * Gap} /\ MostAge(p)' = MostAge(p)
      BY <1>0, <1>5, BothFacts, TimeFacts DEF MostAge, Gap
    <3>2. InTime(Coming(p), MostAge(p), t, due)
      BY <2>2 DEF Waiting
    <3> HIDE DEF t, due, next
    <3>3. InTime(Coming(p) \cup {m}, MostAge(p), t, next)
      BY <2>1, <3>1, <3>2, InTimeSent
    <3>4. InTime(Coming(p)', MostAge(p)', together'[p] - 1, next_syn'[p[1]] + 1)
      BY <2>1, <3>1, <3>3 DEF t, next
    <3> QED BY <3>4 DEF Waiting
  <2>3. \A k \in net' : Stale(p, k) => together'[p] = 1 /\ k.late
    BY <1>3 DEF Both
  <2> QED BY <2>2, <2>3 DEF Both, Stale
<1> QED BY <1>4, <1>5

LEMMA BothStart ==
    ASSUME RegTypeOK, NEW p \in Pairs, Both(p), NEW w \in Workers, StartWorker(w)
    PROVE  Both(p)'
<1>1. together'[p] = IF ServiceOf[p[1]] = ServiceOf[w] THEN 0 ELSE together[p]
  BY DEF StartWorker
<1>2. CASE ServiceOf[p[1]] = ServiceOf[w]
  <2>1. together'[p] = 0
    BY <1>1, <1>2
  <2> QED BY <2>1 DEF Both
<1>3. CASE ServiceOf[p[1]] # ServiceOf[w] /\ together[p] > 0
  <2>1. /\ net' = net \cup Datagrams(w, "1st") /\ "1st" \in Types /\ up' = up \cup {w}
        /\ \E wait \in SynMin..SynMax : next_syn' = [next_syn EXCEPT ![w] = wait]
        /\ UNCHANGED <<svr_tbl, known, missed>>
    BY DEF StartWorker, Sent, Types
  <2>2. {p[1], p[2]} \subseteq up' /\ Alone(p[1])'
    BY <1>3, <2>1 DEF Both, Alone
  <2>3. HasAddress(p) => HasAddress(p)'
    BY <2>1 DEF HasAddress
  <2>4. Coming(p)' = Coming(p) \cup {n \in Datagrams(w, "1st") : n.from = p[1] /\ n.to = p[2]}
    BY <2>1 DEF Coming
  <2>5. together'[p] = together[p] /\ ((p \in missed') <=> (p \in missed))
        /\ \A m \in net' : Stale(p, m) => m \in net \cup Datagrams(w, "1st")
    BY <1>1, <1>3, <2>1
  <2> QED BY <1>3, <2>1, <2>2, <2>3, <2>4, <2>5, BothSent
<1>4. CASE ServiceOf[p[1]] # ServiceOf[w] /\ ~(together[p] > 0)
  BY <1>1, <1>4 DEF Both
<1> QED BY <1>2, <1>3, <1>4

LEMMA BothAnnounce ==
    ASSUME RegTypeOK, NEW p \in Pairs, Both(p), NEW w \in Workers, Announce(w)
    PROVE  Both(p)'
<1>1. /\ net' = net \cup Datagrams(w, "syn") /\ "syn" \in Types
      /\ \E wait \in SynMin..SynMax : next_syn' = [next_syn EXCEPT ![w] = wait]
      /\ w \in up /\ UNCHANGED <<up, svr_tbl, known, missed, together>>
  BY DEF Announce, Sent, Types
<1>2. CASE together[p] > 0
  <2>1. {p[1], p[2]} \subseteq up' /\ Alone(p[1])' /\ (w = p[1] \/ ServiceOf[w] # ServiceOf[p[1]])
    BY <1>1, <1>2 DEF Both, Alone
  <2>2. HasAddress(p) => HasAddress(p)'
    BY <1>1 DEF HasAddress
  <2>3. Coming(p)' = Coming(p) \cup {n \in Datagrams(w, "syn") : n.from = p[1] /\ n.to = p[2]}
    BY <1>1 DEF Coming
  <2>4. together'[p] = together[p] /\ ((p \in missed') <=> (p \in missed))
        /\ \A m \in net' : Stale(p, m) => m \in net \cup Datagrams(w, "syn")
    BY <1>1
  <2> QED BY <1>1, <1>2, <2>1, <2>2, <2>3, <2>4, BothSent
<1>3. CASE ~(together[p] > 0)
  BY <1>1, <1>3 DEF Both
<1> QED BY <1>2, <1>3

LEMMA BothDie ==
    ASSUME RegTypeOK, NEW p \in Pairs, Both(p), NEW w \in Workers, Die(w)
    PROVE  Both(p)'
<1>1. together'[p] = IF w \in {p[1], p[2]} THEN 0 ELSE together[p]
  BY DEF Die
<1>2. ASSUME together'[p] > 0
      PROVE  /\ {p[1], p[2]} \subseteq up' /\ Alone(p[1])'
             /\ \A m \in net' : Stale(p, m) => m \in net
             /\ HasAddress(p) => HasAddress(p)'
             /\ Coming(p)' = Coming(p) /\ ((p \in missed') <=> (p \in missed))
             /\ next_syn'[p[1]] = next_syn[p[1]]
  <2>1. w # p[1] /\ w # p[2] /\ together[p] > 0 /\ p[1] \in Workers /\ p[2] \in Listeners
    BY <1>1, <1>2, PairFacts
  <2>2. /\ up' = up \ {w} /\ net' = {m \in net : m.to # w}
        /\ p \in known => p \in known'
        /\ (p \in missed') <=> (p \in missed)
        /\ next_syn'[p[1]] = next_syn[p[1]] /\ svr_tbl'[p[2]] = svr_tbl[p[2]]
    BY <2>1 DEF Die, RegTypeOK
  <2>3. {p[1], p[2]} \subseteq up' /\ Alone(p[1])'
    BY <2>1, <2>2 DEF Both, Alone
  <2>4. HasAddress(p) => HasAddress(p)'
    BY <2>2 DEF HasAddress
  <2>5. Coming(p)' = Coming(p)
    BY <2>1, <2>2 DEF Coming
  <2> QED BY <2>2, <2>3, <2>4, <2>5
<1> QED BY <1>1, <1>2, BothStays

LEMMA BothDelExpired ==
    ASSUME RegTypeOK, KnownInv, NEW p \in Pairs, Both(p), NEW l \in Listeners, DelExpired(l)
    PROVE  Both(p)'
<1>1. UNCHANGED <<up, net, next_syn, known, missed, together>>
  BY DEF DelExpired
<1>2. HasAddress(p) => HasAddress(p)'
  <2> SUFFICES ASSUME HasAddress(p) PROVE HasAddress(p)'
    OBVIOUS
  <2>1. Found(p)
    BY KnownIsFound DEF HasAddress
  <2>2. EntryOf(p)' = EntryOf(p)
    BY <2>1, EntryNotExpired
  <2> QED BY <1>1, <2>2 DEF HasAddress, EntryOf
<1>3. together[p] > 0 => {p[1], p[2]} \subseteq up' /\ Alone(p[1])'
  BY <1>1 DEF Both, Alone
<1>4. Coming(p)' = Coming(p)
  BY <1>1 DEF Coming
<1> QED BY <1>1, <1>2, <1>3, <1>4, BothStays

\* What a datagram of another service, or to another listener, leaves.
LEMMA HeardElsewhere ==
    ASSUME RegTypeOK, NEW m \in net, Heard(m), NEW p \in Pairs, p \in known => Found(p),
           ~(m.to = p[2] /\ ServiceOf[m.from] = ServiceOf[p[1]])
    PROVE  HasAddress(p) => HasAddress(p)'
<1> SUFFICES ASSUME HasAddress(p) PROVE HasAddress(p)'
  OBVIOUS
<1> DEFINE s == ServiceOf[p[1]]
<1>1. p[2] \in Listeners /\ s \in DOMAIN svr_tbl[p[2]] /\ p \in known /\ p \in known'
  BY PairFacts DEF HasAddress, Found, Heard
<1> HIDE DEF s
<1>2. svr_tbl'[p[2]][s] = svr_tbl[p[2]][s]
  <2>1. CASE m.to # p[2]
    BY <2>1, <1>1, HeardTable
  <2>2. CASE m.to = p[2] /\ ServiceOf[m.from] # s
    <3>1. svr_tbl'[p[2]] = WithEntry(svr_tbl[p[2]], ServiceOf[m.from], m.from)
      BY <2>2, <1>1, TableTypes DEF Heard
    <3> QED BY <3>1, <2>2, <1>1 DEF WithEntry
  <2> QED BY <2>1, <2>2 DEF s
<1> QED BY <1>1, <1>2 DEF HasAddress, s

\* The pair's own datagram: the listener has the address now.
LEMMA HeardOwn ==
    ASSUME RegTypeOK, NEW m \in net, Heard(m), NEW p \in Pairs, m.from = p[1], m.to = p[2], p[1] \in up
    PROVE  HasAddress(p)'
<1>1. p[2] \in Listeners /\ p = <<m.from, m.to>>
  BY PairFacts
<1>2. p \in known'
  BY <1>1 DEF Heard
<1>3. svr_tbl'[p[2]] = WithEntry(svr_tbl[p[2]], ServiceOf[p[1]], p[1])
  BY <1>1, TableTypes DEF Heard
<1>4. svr_tbl'[p[2]][ServiceOf[p[1]]].addr = p[1]
  BY <1>3 DEF WithEntry
<1> QED BY <1>2, <1>4 DEF HasAddress

LEMMA BothHear ==
    ASSUME RegTypeOK, KnownInv, NetInv, NEW p \in Pairs, Both(p),
           NEW m \in net, HearSyn(m) \/ Hear1st(m)
    PROVE  Both(p)'
<1>1. /\ Heard(m) /\ up' = up /\ together' = together /\ missed' = missed \ {<<m.from, m.to>>}
      /\ m.to \in up /\ m.to \in Workers /\ "syn" \in Types
      /\ net' \subseteq net \cup Datagrams(m.to, "syn")
  BY DEF HearSyn, Hear1st, Without, Answer, Types, NetInv, RegTypeOK
<1>2. CASE ~(together[p] > 0)
  BY <1>1, <1>2 DEF Both
<1>3. CASE together[p] > 0
  <2>0. {p[1], p[2]} \subseteq up' /\ Alone(p[1])' /\ (m.to = p[1] \/ ServiceOf[m.to] # ServiceOf[p[1]])
    BY <1>1, <1>3 DEF Both, Alone
  <2>1. \A n \in net' : Stale(p, n) => n \in net
    <3>1. \A n \in Datagrams(m.to, "syn") : n.from = m.to
      BY <1>1, DatagramsOk
    <3> QED BY <1>1, <2>0, <3>1 DEF Stale
  <2>2. next_syn'[p[1]] \in Int /\ next_syn'[p[1]] + 1 <= Gap
    <3>1. \/ next_syn' = next_syn
          \/ /\ next_syn' \in [Workers -> -1..SynMax] /\ next_syn'[m.to] + 1 <= Gap
             /\ \A v \in Workers : v # m.to => next_syn'[v] = next_syn[v]
      BY <1>1, TimerSet DEF HearSyn, Hear1st
    <3> QED BY <3>1, BothFacts, TimeFacts, NextSynInt
  <2>3. CASE m.from = p[1] /\ m.to = p[2]
    <3>1. HasAddress(p)'
      BY <1>1, <2>0, <2>3, HeardOwn
    <3> QED BY <1>1, <1>3, <2>0, <2>1, <3>1 DEF Both, Stale
  <2>4. CASE Stale(p, m)
    <3>1. together[p] = 1
      BY <1>3, <2>4 DEF Both
    <3>2. Waiting(p)'
      <4> DEFINE next == next_syn'[p[1]] + 1
      <4>1. next \in Int /\ next <= Gap /\ MostAge(p)' \in {Gap, 2 * Gap}
        BY <2>2, TimeFacts DEF MostAge, Gap
      <4> HIDE DEF next
      <4>2. InTime(Coming(p)', MostAge(p)', 0, next)
        BY <4>1, InTimeNow
      <4>3. together'[p] - 1 = 0
        BY <1>1, <3>1
      <4> QED BY <4>2, <4>3 DEF Waiting, next
    <3> QED BY <1>1, <1>3, <2>0, <2>1, <3>2 DEF Both, Stale
  <2>5. CASE ~(m.to = p[2] /\ ServiceOf[m.from] = ServiceOf[p[1]])
    <3>1. HasAddress(p) => HasAddress(p)'
      BY <1>1, <2>5, HeardElsewhere, KnownIsFound
    <3>2. p # <<m.from, m.to>> /\ ~(m.from = p[1] /\ m.to = p[2])
      BY <2>5
    <3>3. {n \in net \ {m} : n.from = p[1] /\ n.to = p[2]} = Coming(p)
      BY <3>2 DEF Coming
    <3>4. (p \in missed') <=> (p \in missed)
      BY <1>1, <3>2
    <3>5. CASE HearSyn(m)
      <4>1. Coming(p)' = Coming(p) /\ next_syn' = next_syn
        BY <3>3, <3>5 DEF HearSyn, Without, Coming
      <4> QED BY <1>1, <2>0, <2>1, <3>1, <3>4, <4>1, BothStays
    <3>6. CASE Hear1st(m)
      <4>1. /\ net' = (net \ {m}) \cup Datagrams(m.to, "syn")
            /\ \E wait \in SynMin..SynMax : next_syn' = [next_syn EXCEPT ![m.to] = wait]
        BY <3>6 DEF Hear1st, Without, Answer
      <4>2. Coming(p)' = {n \in net \ {m} : n.from = p[1] /\ n.to = p[2]}
                         \cup {n \in Datagrams(m.to, "syn") : n.from = p[1] /\ n.to = p[2]}
        BY <4>1 DEF Coming
      <4>3. Coming(p)' = Coming(p) \cup {n \in Datagrams(m.to, "syn") : n.from = p[1] /\ n.to = p[2]}
        BY <4>2, <3>3
      <4>4. together'[p] = together[p]
            /\ \A n \in net' : Stale(p, n) => n \in net \cup Datagrams(m.to, "syn")
        BY <1>1
      <4> QED BY <1>1, <1>3, <2>0, <3>1, <3>4, <4>1, <4>3, <4>4, BothSent
    <3> QED BY <3>5, <3>6
  <2> QED BY <2>3, <2>4, <2>5 DEF Stale
<1> QED BY <1>2, <1>3

LEMMA BothIgnoreOwn ==
    ASSUME RegTypeOK, NEW p \in Pairs, Both(p), NEW m \in net, IgnoreOwn(m)
    PROVE  Both(p)'
<1>1. /\ OwnService(m.to, m) /\ net' = net \ {m} /\ missed' = missed \ {<<m.from, m.to>>}
      /\ UNCHANGED <<up, next_syn, svr_tbl, known, together>>
  BY DEF IgnoreOwn, Without
<1>2. ASSUME together'[p] > 0
      PROVE  /\ {p[1], p[2]} \subseteq up' /\ Alone(p[1])'
             /\ HasAddress(p) => HasAddress(p)'
             /\ Coming(p)' = Coming(p) /\ ((p \in missed') <=> (p \in missed))
  <2>1. {p[1], p[2]} \subseteq up /\ Alone(p[1]) /\ p[1] # p[2] /\ p = <<p[1], p[2]>>
    BY <1>1, <1>2, PairFacts DEF Both
  <2>2. ~(m.from = p[1] /\ m.to = p[2])
    BY <1>1, <2>1 DEF Alone, OwnService
  <2>3. p # <<m.from, m.to>>
    BY <2>2
  <2>4. Coming(p)' = Coming(p)
    BY <1>1, <2>2 DEF Coming
  <2>5. (p \in missed') <=> (p \in missed)
    BY <1>1, <2>3
  <2>6. HasAddress(p) => HasAddress(p)'
    BY <1>1 DEF HasAddress
  <2>7. {p[1], p[2]} \subseteq up' /\ Alone(p[1])'
    BY <1>1, <2>1 DEF Alone
  <2> QED BY <2>4, <2>5, <2>6, <2>7
<1> QED BY <1>1, <1>2, BothStays

LEMMA BothLose ==
    ASSUME RegTypeOK, NEW p \in Pairs, Both(p), NEW m \in net, Lose(m)
    PROVE  Both(p)'
<1>1. /\ net' = net \ {m} /\ <<m.from, m.to>> \notin missed
      /\ missed' = missed \cup ({<<m.from, m.to>>} \cap Pairs)
      /\ UNCHANGED <<up, next_syn, svr_tbl, known, together>>
  BY DEF Lose, Without
<1>2. HasAddress(p) => HasAddress(p)'
  BY <1>1 DEF HasAddress
<1>3. together[p] > 0 => {p[1], p[2]} \subseteq up' /\ Alone(p[1])'
  BY <1>1 DEF Both, Alone
<1>4. CASE ~(m.from = p[1] /\ m.to = p[2])
  <2>1. Coming(p)' = Coming(p)
    BY <1>1, <1>4 DEF Coming
  <2>2. p # <<m.from, m.to>>
    BY <1>4
  <2>3. (p \in missed') <=> (p \in missed)
    BY <1>1, <2>2
  <2> QED BY <1>1, <1>2, <1>3, <2>1, <2>3, BothStays
<1>5. CASE m.from = p[1] /\ m.to = p[2]
  <2>1. p = <<m.from, m.to>>
    BY <1>5, PairFacts
  <2>2. m \in Coming(p) /\ Coming(p)' = Coming(p) \ {m}
    BY <1>1, <1>5 DEF Coming
  <2>3. MostAge(p) = Gap /\ MostAge(p)' = 2 * Gap
    BY <1>1, <2>1 DEF MostAge, Gap
  <2>4. ASSUME together[p] > 0, Waiting(p) PROVE Waiting(p)'
    <3> DEFINE t == together[p] - 1
               due == next_syn[p[1]] + 1
    <3>1. t \in Nat /\ due \in Nat
      BY <2>4, BothFacts
    <3>2. InTime(Coming(p), Gap, t, due)
      BY <2>3, <2>4 DEF Waiting
    <3>3. t = together'[p] - 1 /\ due = next_syn'[p[1]] + 1
      BY <1>1
    <3> HIDE DEF t, due
    <3>4. InTime(Coming(p) \ {m}, 2 * Gap, t, due)
      BY <2>2, <3>1, <3>2, InTimeLost
    <3> QED BY <2>2, <2>3, <3>3, <3>4 DEF Waiting
  <2>5. ASSUME together[p] > 0, ~HasAddress(p)' PROVE Waiting(p)'
    BY <1>2, <2>4, <2>5 DEF Both
  <2>6. \A n \in net' : n \in net
    BY <1>1
  <2> QED BY <1>1, <1>3, <2>5, <2>6 DEF Both, Stale
<1> QED BY <1>4, <1>5

\* A second: the first together, in which the former workers' datagrams arrive,
\* or one more.
LEMMA BothSecond ==
    ASSUME RegTypeOK, KnownInv, NEW p \in Pairs, Both(p), Second
    PROVE  Both(p)'
<1>1. /\ UNCHANGED <<up, known, missed>>
      /\ together'[p] = IF {p[1], p[2]} \subseteq up /\ Alone(p[1])
                        THEN Capped(together[p], KnownAfter) ELSE 0
      /\ \A m \in net : ~m.late
  BY DEF Second
<1>2. SUFFICES ASSUME {p[1], p[2]} \subseteq up, Alone(p[1])
               PROVE  Both(p)'
  BY <1>1 DEF Both
<1>3. p[1] \in Workers /\ p[2] \in Listeners /\ together[p] \in Nat /\ together[p] <= KnownAfter
      /\ next_syn[p[1]] + 1 \in Nat /\ next_syn[p[1]] + 1 <= Gap /\ MostAge(p) \in {Gap, 2 * Gap}
  BY BothFacts
<1>4. next_syn'[p[1]] = next_syn[p[1]] - 1 /\ MostAge(p)' = MostAge(p)
  BY <1>1, <1>2, <1>3 DEF Second, MostAge, Gap
<1>5. {p[1], p[2]} \subseteq up' /\ Alone(p[1])'
  BY <1>1, <1>2 DEF Alone
<1>6. ASSUME NEW n \in net', Stale(p, n) PROVE together'[p] = 1 /\ n.late
  <2>1. PICK m \in net : n = [m EXCEPT !.late = TRUE]
    BY DEF Second
  <2>2. n.to = m.to /\ n.from = m.from /\ n.late
    BY <2>1 DEF RegTypeOK
  <2>3. ~(together[p] > 0)
    BY <1>1, <1>6, <2>2 DEF Both, Stale
  <2> QED BY <1>1, <1>2, <1>3, <2>2, <2>3, TimeFacts DEF Capped, KnownAfter
<1>7. ASSUME ~HasAddress(p)' PROVE Waiting(p)'
  <2>1. ~HasAddress(p)
    <3> SUFFICES ASSUME HasAddress(p) PROVE HasAddress(p)'
      BY <1>7
    <3>1. ServiceOf[p[1]] \in DOMAIN svr_tbl[p[2]]
      BY KnownIsFound DEF HasAddress, Found
    <3>2. svr_tbl'[p[2]][ServiceOf[p[1]]].addr = svr_tbl[p[2]][ServiceOf[p[1]]].addr
      BY <1>3, <3>1, SecondTable
    <3> QED BY <1>1, <3>2 DEF HasAddress
  <2> DEFINE next == next_syn[p[1]] + 1
  <2>2. next \in Int /\ next - 1 <= Gap /\ next_syn'[p[1]] + 1 = next - 1
    BY <1>3, <1>4, TimeFacts, NextSynInt
  <2>3. CASE together[p] = 0
    <3>1. together'[p] - 1 = 0
      BY <1>1, <1>2, <2>3, TimeFacts DEF Capped, KnownAfter
    <3> HIDE DEF next
    <3>2. InTime(Coming(p)', MostAge(p), 0, next - 1)
      BY <1>3, <2>2, InTimeNow
    <3> QED BY <1>4, <2>2, <3>1, <3>2 DEF Waiting
  <2>4. CASE together[p] > 0
    <3> DEFINE t == together[p] - 1
    <3>1. InTime(Coming(p), MostAge(p), t, next) /\ together[p] < KnownAfter
      BY <2>1, <2>4, WaitingBounded DEF Both, Waiting
    <3>2. t \in Nat /\ together'[p] - 1 = t + 1
      BY <1>1, <1>2, <1>3, <2>4, <3>1 DEF Capped
    <3>3. Coming(p) \in SUBSET Datagram /\ \A m \in Coming(p) : ~m.late
      BY <1>1 DEF Coming, RegTypeOK, Datagram
    <3> HIDE DEF t, next
    <3>4. InTime({[m EXCEPT !.late = TRUE] : m \in Coming(p)}, MostAge(p), t + 1, next - 1)
      BY <1>3, <2>2, <3>1, <3>2, <3>3, InTimeSecond
    <3>5. InTime(Coming(p)', MostAge(p)', together'[p] - 1, next_syn'[p[1]] + 1)
      BY <1>4, <2>2, <3>2, <3>4, SecondComing
    <3> QED BY <3>5 DEF Waiting
  <2> QED BY <1>3, <2>3, <2>4
<1> QED BY <1>5, <1>6, <1>7 DEF Both, Stale

LEMMA TogetherStep ==
    ASSUME RegTypeOK, KnownInv, NetInv, TogetherInv, [RegNext]_regvars
    PROVE  TogetherInv'
<1>1. SUFFICES ASSUME NEW p \in Pairs, Both(p) PROVE Both(p)'
  BY TogetherIsBoth DEF TogetherInv, Both, Stale, Waiting
<1>2. CASE UNCHANGED regvars
  BY <1>1, <1>2 DEF regvars, Both, HasAddress, Waiting, Alone, Coming, MostAge, Gap
<1> QED
  BY <1>1, <1>2, BothStart, BothAnnounce, BothDie, BothDelExpired, BothHear, BothIgnoreOwn,
     BothLose, BothSecond DEF RegNext

------------------------------------------------------------------------------
LEMMA AddrInvariance == RegSpec => [](RegTypeOK /\ AddrInv)
<1>1. RegInit => AddrInv
  <2> SUFFICES ASSUME RegInit PROVE AddrInv
    OBVIOUS
  <2>1. SilentInv
    BY TableFacts DEF RegInit, SilentInv, Others
  <2>2. TogetherInv
    BY DEF RegInit, TogetherInv
  <2> QED BY <2>1, <2>2 DEF AddrInv
<1>2. RegTypeOK /\ RegInv /\ AddrInv /\ [RegNext]_regvars => AddrInv'
  BY SilentStep, TogetherStep DEF RegInv, AddrInv
<1> QED BY <1>1, <1>2, RegistryTypeCorrect, RegistryInvariance, PTL DEF RegSpec

\* What is found of a service that is asked for by name and id is its entry.
LEMMA LookupOne ==
    ASSUME RegTypeOK, NEW l \in Listeners, NEW s \in Services, s[2] # 0
    PROVE  GetServiceIpport(l, s[1], s[2]) =
               IF s \in DOMAIN svr_tbl[l] THEN {svr_tbl[l][s].addr} ELSE {}
<1>1. \A k \in DOMAIN svr_tbl[l] : k[1] = s[1] /\ s[2] \in {0, k[2]} <=> k = s
  <2> SUFFICES ASSUME NEW k \in DOMAIN svr_tbl[l], k[1] = s[1], s[2] = k[2] PROVE k = s
    OBVIOUS
  <2>1. k = <<k[1], k[2]>> /\ s = <<s[1], s[2]>>
    BY TableTypes, TimesAssumption
  <2> QED BY <2>1
<1> QED BY <1>1 DEF GetServiceIpport

\* The table is true, for any number of workers and services and any times that
\* satisfy the assumption: a service that is gone is not found after the expiry
\* and one clean-up, a worker that replaced others is found at its own address
\* although one of its announcements may be lost, and the plugin has been told
\* of what the table holds (mcast.c:97-236, net.c:640-655).
THEOREM AddressesTrue == RegSpec => []TableIsTrue
<1>1. RegTypeOK /\ RegInv /\ AddrInv => GoneWhenDead
  <2> SUFFICES ASSUME RegTypeOK, RegInv, AddrInv, NEW l \in Listeners, NEW s \in Services,
                      silent[l][s] = GoneAfter, s[2] # 0
               PROVE  GetServiceIpport(l, s[1], s[2]) = {}
    BY DEF GoneWhenDead
  <2>1. ASSUME s \in DOMAIN svr_tbl[l] PROVE FALSE
    <3>1. silent[l][s] <= svr_tbl[l][s].age + 1 /\ svr_tbl[l][s].age + next_del[l] <= Expire + DelPeriod
      BY <2>1 DEF AddrInv, SilentInv, RegInv, AgeInv
    <3>2. svr_tbl[l][s].age \in Nat /\ next_del[l] \in Int /\ -1 <= next_del[l]
      BY <2>1, TableTypes
    <3> QED BY <3>1, <3>2, TimeFacts DEF GoneAfter
  <2> QED BY <2>1, LookupOne
<1>2. RegTypeOK /\ RegInv /\ AddrInv => AddressIsCurrent
  <2> SUFFICES ASSUME RegTypeOK, RegInv, AddrInv, NEW p \in Pairs,
                      together[p] = KnownAfter, ServiceOf[p[1]][2] # 0
               PROVE  GetServiceIpport(p[2], ServiceOf[p[1]][1], ServiceOf[p[1]][2]) = {p[1]}
    BY DEF AddressIsCurrent
  <2> DEFINE s == ServiceOf[p[1]]
  <2>1. p[2] \in Listeners /\ s \in Services /\ together[p] > 0 /\ Both(p)
    BY PairFacts, TimesAssumption, TimeFacts, TogetherIsBoth DEF KnownAfter, AddrInv
  <2>2. HasAddress(p)
    <3> SUFFICES ASSUME ~HasAddress(p) PROVE FALSE
      OBVIOUS
    <3>1. Waiting(p)
      BY <2>1 DEF Both
    <3>2. together[p] < KnownAfter
      BY <2>1, <3>1, WaitingBounded
    <3> QED BY <3>2, TimeFacts
  <2>3. s \in DOMAIN svr_tbl[p[2]] /\ svr_tbl[p[2]][s].addr = p[1]
    BY <2>2, KnownIsFound DEF HasAddress, Found, RegInv
  <2> HIDE DEF s
  <2>4. GetServiceIpport(p[2], s[1], s[2]) = {p[1]}
    BY <2>1, <2>3, LookupOne DEF s
  <2> QED BY <2>4 DEF s
<1>3. RegTypeOK /\ RegInv /\ AddrInv /\ PluginKnowsTable => TableIsTrue
  BY <1>1, <1>2 DEF TableIsTrue
<1> QED
  BY <1>3, RegistryTypeCorrect, RegistryInvariance, AddrInvariance, PluginToldOfTable, PTL
=============================================================================
