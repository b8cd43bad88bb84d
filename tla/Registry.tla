------------------------------- MODULE Registry -------------------------------
(***************************************************************************)
(* The service addresses worker processes announce to each other by        *)
(* multicast (mcast.c): a worker announces itself when it starts, asking   *)
(* for answers, and again at random intervals; it keeps the addresses it   *)
(* hears of and forgets those it has not heard of for a while.             *)
(*                                                                         *)
(* A datagram takes less than a second, in any order, or is lost.  Workers *)
(* die and are started again.  Time is what is left of a timer, or the age *)
(* of an entry.  Only Listeners' tables are followed; every worker has one.*)
(***************************************************************************)
EXTENDS Integers, FiniteSets

CONSTANTS Workers, Listeners,
          Services,       \* pairs of a name and an id
          ServiceOf,      \* the name and id each worker is configured with
          SynMin, SynMax, \* 25 and 48: ranged_random(25, 48)
          Expire,         \* 100 seconds without an announcement
          DelPeriod       \* 100: del_expired_addrs

\* The bound on SynMax is what lets one announcement be lost: 2 * 49 + 1 <= 100.
ASSUME TimesAssumption ==
    /\ Listeners \subseteq Workers /\ ServiceOf \in [Workers -> Services]
    /\ \A s \in Services : s = <<s[1], s[2]>>
    /\ SynMin \in Nat /\ SynMax \in Nat /\ Expire \in Nat /\ DelPeriod \in Nat
    /\ SynMin <= SynMax /\ 2 * (SynMax + 1) + 1 <= Expire

VARIABLES up,       \* workers that run
          next_syn, \* per worker: seconds until next_syn_addr_tm; -1: past it
          next_del, \* per listener: seconds until next_del_addrs_tm; -1: past it
          svr_tbl,  \* per listener: the addresses it has, by service
          told,     \* per listener: what its plugin knows by sync_service_info
          net,      \* datagrams on their way
          known,    \* pairs of a worker and a listener that has heard of it
          missed,   \* pairs with a listener whose last datagram was lost
          together, \* how long a worker, alone in its service, and a listener are up
          silent    \* per listener: how long a service has had no other worker

regvars == <<up, next_syn, next_del, svr_tbl, told, net, known, missed, together, silent>>

Pairs == {p \in Workers \X Listeners : p[1] # p[2]}
Types == {"1st", "syn"}
NoEntries == [s \in {} |-> s]

\* The last datagram of the service's former worker may take a second; an
\* announcement is due SynMax + 1 seconds after the one before, the second one,
\* when the first is lost, after twice that; it is heard within two seconds.
KnownAfter == 1 + 2 * (SynMax + 1) + 2

\* The last datagram, the age it takes to expire, the next look at the table.
GoneAfter == 1 + (Expire + 1) + (DelPeriod + 1)

Capped(n, max) == IF n < max THEN n + 1 ELSE max

RegInit ==
    /\ up = {}
    /\ next_syn = [w \in Workers |-> -1] /\ next_del = [l \in Listeners |-> -1]
    /\ svr_tbl = [l \in Listeners |-> NoEntries]
    /\ told = [l \in Listeners |-> {}]
    /\ net = {} /\ known = {} /\ missed = {}
    /\ together = [p \in Pairs |-> 0]
    /\ silent = [l \in Listeners |-> [s \in Services |-> GoneAfter]]

-----------------------------------------------------------------------------
(* send_addr_mcast_pkg: to every worker that has joined the group.  A      *)
(* worker whose table is not followed only reacts to a first announcement. *)

Joined(w, type) == IF type = "1st" THEN up \ {w} ELSE (up \cap Listeners) \ {w}

Datagrams(w, type) ==
    {[from |-> w, to |-> v, type |-> type, late |-> FALSE] : v \in Joined(w, type)}

Sent(w, type) ==
    /\ net' = net \cup Datagrams(w, type)
    /\ \E wait \in SynMin..SynMax : next_syn' = [next_syn EXCEPT ![w] = wait]

\* handle_init: create_addr_mcast_socket, then the first announcement
StartWorker(w) ==
    /\ w \notin up /\ up' = up \cup {w}
    /\ Sent(w, "1st")
    /\ next_del' = [l \in Listeners |-> IF l = w THEN DelPeriod ELSE next_del[l]]
    /\ silent' = [l \in Listeners |-> [silent[l] EXCEPT ![ServiceOf[w]] = IF l = w THEN @ ELSE 0]]
    /\ together' = [p \in Pairs |-> IF ServiceOf[p[1]] = ServiceOf[w] THEN 0 ELSE together[p]]
    /\ UNCHANGED <<svr_tbl, told, known, missed>>

\* the timer of net_loop
Announce(w) ==
    /\ w \in up /\ next_syn[w] = -1
    /\ Sent(w, "syn")
    /\ UNCHANGED <<up, next_del, svr_tbl, told, known, missed, together, silent>>

-----------------------------------------------------------------------------
(* proc_addr_mcast_pkg.                                                    *)

OwnService(l, m) == ServiceOf[m.from] = ServiceOf[l]

\* a bug: the time of an entry is set when it is new, not when it is heard again
WithEntryOnce(tbl, s, w) ==
    [k \in DOMAIN tbl \cup {s} |->
        IF k # s THEN tbl[k]
        ELSE [addr |-> w, age |-> IF s \in DOMAIN tbl THEN tbl[s].age ELSE 0]]

\* a bug: an entry keeps its first address
WithEntryFirst(tbl, s, w) ==
    [k \in DOMAIN tbl \cup {s} |->
        IF k # s THEN tbl[k]
        ELSE [addr |-> IF s \in DOMAIN tbl THEN tbl[s].addr ELSE w, age |-> 0]]

\* a new entry, or the present one, whatever address it had
WithEntry(tbl, s, w) ==
    [k \in DOMAIN tbl \cup {s} |-> IF k = s THEN [addr |-> w, age |-> 0] ELSE tbl[k]]

Heard(m) ==
    LET s == ServiceOf[m.from]
    IN  IF m.to \in Listeners
        THEN /\ svr_tbl' = [svr_tbl EXCEPT ![m.to] = WithEntry(@, s, m.from)]
             /\ told' = [told EXCEPT ![m.to] = @ \cup {s}]
             /\ known' = known \cup ({<<m.from, m.to>>} \cap {p \in Pairs : m.from \in up})
        ELSE UNCHANGED <<svr_tbl, told, known>>

Without(m) == net \ {m}

IgnoreOwn(m) ==
    /\ m \in net /\ OwnService(m.to, m)
    /\ net' = Without(m) /\ missed' = missed \ {<<m.from, m.to>>}
    /\ UNCHANGED <<up, next_syn, next_del, svr_tbl, told, known, together, silent>>

HearSyn(m) ==
    /\ m \in net /\ m.type = "syn" /\ ~OwnService(m.to, m)
    /\ Heard(m)
    /\ net' = Without(m) /\ missed' = missed \ {<<m.from, m.to>>}
    /\ UNCHANGED <<up, next_syn, next_del, together, silent>>

\* the answer to a first announcement, which sets the timer anew
Answer(w) == Datagrams(w, "syn")

Hear1st(m) ==
    /\ m \in net /\ m.type = "1st" /\ ~OwnService(m.to, m)
    /\ Heard(m)
    /\ net' = Without(m) \cup Answer(m.to)
    /\ \E wait \in SynMin..SynMax : next_syn' = [next_syn EXCEPT ![m.to] = wait]
    /\ missed' = missed \ {<<m.from, m.to>>}
    /\ UNCHANGED <<up, next_del, together, silent>>

-----------------------------------------------------------------------------
(* del_expired_addrs.                                                      *)

\* a bug: as long as two announcements at the most
ExpiredSoon(e) == e.age > SynMax + 1

\* a bug: an entry is never dropped
ExpiredNever(e) == FALSE

Expired(e) == e.age > Expire

\* a bug: the plugin is not told of what is dropped
ToldKept(l, kept) == told[l]

ToldAfter(l, kept) == told[l] \cap kept

DelExpired(l) ==
    /\ l \in up /\ next_del[l] = -1
    /\ LET kept == {s \in DOMAIN svr_tbl[l] : ~Expired(svr_tbl[l][s])}
       IN  /\ svr_tbl' = [svr_tbl EXCEPT ![l] = [s \in kept |-> svr_tbl[l][s]]]
           /\ told' = [told EXCEPT ![l] = ToldAfter(l, kept)]
    /\ next_del' = [next_del EXCEPT ![l] = DelPeriod]
    /\ UNCHANGED <<up, next_syn, net, known, missed, together, silent>>

\* get_service_ipport: the entry of that id, or any of the name
GetServiceIpport(l, name, id) ==
    {svr_tbl[l][s].addr : s \in {k \in DOMAIN svr_tbl[l] : k[1] = name /\ id \in {0, k[2]}}}

-----------------------------------------------------------------------------
(* Loss, death, and a second that passes: by then every worker has taken   *)
(* its turn, and what was sent in the second before has arrived.           *)

Lose(m) ==
    /\ m \in net /\ <<m.from, m.to>> \notin missed
    /\ net' = Without(m) /\ missed' = missed \cup ({<<m.from, m.to>>} \cap Pairs)
    /\ UNCHANGED <<up, next_syn, next_del, svr_tbl, told, known, together, silent>>

Die(w) ==
    /\ w \in up /\ up' = up \ {w}
    /\ net' = {m \in net : m.to # w}
    /\ known' = {p \in known : w \notin {p[1], p[2]}}
    /\ missed' = {p \in missed : w \notin {p[1], p[2]}}
    /\ next_syn' = [next_syn EXCEPT ![w] = -1]
    /\ next_del' = [l \in Listeners |-> IF l = w THEN -1 ELSE next_del[l]]
    /\ svr_tbl' = [l \in Listeners |-> IF l = w THEN NoEntries ELSE svr_tbl[l]]
    /\ told' = [l \in Listeners |-> IF l = w THEN {} ELSE told[l]]
    /\ together' = [p \in Pairs |-> IF w \in {p[1], p[2]} THEN 0 ELSE together[p]]
    /\ UNCHANGED silent

Others(l, s) == {w \in up \ {l} : ServiceOf[w] = s}

Alone(w) == \A v \in up \ {w} : ServiceOf[v] # ServiceOf[w]

Older(tbl) == [s \in DOMAIN tbl |-> [tbl[s] EXCEPT !.age = @ + 1]]

Second ==
    /\ \A w \in up : next_syn[w] >= 0
    /\ \A l \in Listeners \cap up : next_del[l] >= 0
    /\ \A m \in net : ~m.late
    /\ net' = {[m EXCEPT !.late = TRUE] : m \in net}
    /\ next_syn' = [w \in Workers |-> IF w \in up THEN next_syn[w] - 1 ELSE -1]
    /\ next_del' = [l \in Listeners |-> IF l \in up THEN next_del[l] - 1 ELSE -1]
    /\ svr_tbl' = [l \in Listeners |-> Older(svr_tbl[l])]
    /\ together' = [p \in Pairs |-> IF {p[1], p[2]} \subseteq up /\ Alone(p[1])
                                    THEN Capped(together[p], KnownAfter) ELSE 0]
    /\ silent' = [l \in Listeners |-> [s \in Services |->
                     IF Others(l, s) = {} THEN Capped(silent[l][s], GoneAfter) ELSE 0]]
    /\ UNCHANGED <<up, told, known, missed>>

RegNext ==
    \/ \E w \in Workers : StartWorker(w) \/ Announce(w) \/ Die(w)
    \/ \E l \in Listeners : DelExpired(l)
    \/ \E m \in net : IgnoreOwn(m) \/ HearSyn(m) \/ Hear1st(m) \/ Lose(m)
    \/ Second

RegSpec == RegInit /\ [][RegNext]_regvars
-----------------------------------------------------------------------------
(* Properties.                                                             *)

Entry == [addr : Workers, age : 0..GoneAfter]

\* Every variable has its type; an entry is dropped before it is older than the
\* expiry and one period of the clean-up.
RegTypeOK ==
    /\ up \subseteq Workers
    /\ next_syn \in [Workers -> -1..SynMax] /\ next_del \in [Listeners -> -1..DelPeriod]
    /\ DOMAIN svr_tbl = Listeners
    /\ \A l \in Listeners :
          /\ DOMAIN svr_tbl[l] \subseteq Services
          /\ svr_tbl[l] \in [DOMAIN svr_tbl[l] -> Entry]
    /\ told \in [Listeners -> SUBSET Services] /\ known \subseteq Pairs /\ missed \subseteq Pairs
    /\ net \subseteq [from : Workers, to : Workers, type : Types, late : BOOLEAN]
    /\ together \in [Pairs -> 0..KnownAfter]
    /\ silent \in [Listeners -> [Services -> 0..GoneAfter]]

\* A worker once heard of is found as long as it runs, unless two of its
\* announcements in a row are lost (mcast.c:97-110, 150-172).
NeverForgotten ==
    \A p \in known :
        LET s == ServiceOf[p[1]]
        IN  /\ GetServiceIpport(p[2], s[1], s[2]) # {}
            /\ GetServiceIpport(p[2], s[1], 0) # {}

\* A service no worker offers any more is not found after the expiry and one
\* period of the clean-up (mcast.c:97-116, 232-236; net.c:644-646).  The id 0
\* asks for any service of the name.
GoneWhenDead ==
    \A l \in Listeners : \A s \in Services :
        silent[l][s] = GoneAfter /\ s[2] # 0 => GetServiceIpport(l, s[1], s[2]) = {}

\* A worker that has been the only one of its service for long enough is found
\* at its own address, whoever had the service before (mcast.c:212-225).
AddressIsCurrent ==
    \A p \in Pairs :
        LET w == p[1] l == p[2] s == ServiceOf[w]
        IN  together[p] = KnownAfter /\ s[2] # 0 => GetServiceIpport(l, s[1], s[2]) = {w}

\* The plugin has been told of exactly the addresses in the table
\* (mcast.c:101-103, 189-191).
PluginKnowsTable == \A l \in Listeners : told[l] = DOMAIN svr_tbl[l]

\* The table holds what it should, and the plugin has been told of it: nothing
\* that is gone, nothing of a worker that has been replaced (mcast.c:97-236).
TableIsTrue == RegTypeOK /\ GoneWhenDead /\ AddressIsCurrent /\ PluginKnowsTable
=============================================================================
