----------------------------- MODULE PluginReload -----------------------------
(***************************************************************************)
(* The plugin (text.so) of the parent and of every worker, and its reload  *)
(* by a multicast datagram (dll.c, mcast.c, reload_so.c).  Each process    *)
(* has a socket of its own and reloads when it comes to the datagram; a    *)
(* worker that is started again has the plugin its parent has at fork, and *)
(* hears nothing that was sent before it opened its socket.                *)
(***************************************************************************)
EXTENDS Integers, Sequences
CONSTANTS BindEntries,   \* workers: one per entry of the bind file
          FirstEntry,    \* bc->configs[0]
          OnlineName, OnlineId,  \* of an entry
          Sos, BootSo,   \* files one may ask for; the one of the configuration
          Incomplete,    \* files that do not load or lack a mandatory symbol
          MaxRequests, MaxForks  \* bounds

Parent == "parent"
Procs == BindEntries \cup {Parent}

ASSUME PluginAssumption ==
    /\ FirstEntry \in BindEntries /\ Parent \notin BindEntries
    /\ BootSo \in Sos \ Incomplete /\ Incomplete \subseteq Sos
    /\ MaxRequests \in Nat /\ MaxForks \in Nat

VARIABLES state,    \* of a process: "down", "forked" (no socket yet), "joined"
          handle,   \* dll.handle: the plugin it has, or "none"
          mail,     \* datagrams its socket holds
          requests, \* how many were sent
          forks,    \* how many workers were started again
          latest,   \* the plugin asked of all workers of the first name last
          apart     \* processes that missed that, or were sent one of their own

plugvars == <<state, handle, mail, requests, forks, latest, apart>>

\* of this server, and of another one in the same multicast group
Names == {OnlineName[w] : w \in BindEntries} \cup {"another"}
Requests == [svr_name : Names, svr_id : {0} \cup {OnlineId[w] : w \in BindEntries}, new_so_name : Sos]

\* after register_plugin in main and the first forks, which share its plugin
PlugInit ==
    /\ state = [p \in Procs |-> "forked"]
    /\ handle = [p \in Procs |-> BootSo]
    /\ mail = [p \in Procs |-> <<>>]
    /\ requests = 0 /\ forks = 0 /\ latest = BootSo /\ apart = {}

InState(s) == {p \in Procs : state[p] = s}

\* create_addr_mcast_socket, by a worker in handle_init, by the parent in main
Join(p) ==
    /\ state[p] = "forked"
    /\ state' = [state EXCEPT ![p] = "joined"]
    /\ UNCHANGED <<handle, mail, requests, forks, latest, apart>>

ForFirst(m) == m.svr_name = OnlineName[FirstEntry]
ForAll(m) == m.svr_id = 0

\* The tool reload_so sends one datagram; any socket may miss it.
Notify(m, receivers) ==
    /\ requests < MaxRequests /\ requests' = requests + 1
    /\ mail' = [p \in Procs |-> IF p \in receivers THEN Append(mail[p], m) ELSE mail[p]]
    /\ \/ /\ ForFirst(m) /\ ForAll(m)
          /\ latest' = m.new_so_name /\ apart' = Procs \ receivers
       \/ /\ ForFirst(m) /\ ~ForAll(m)
          /\ apart' = apart \cup {w \in BindEntries : OnlineId[w] = m.svr_id} /\ UNCHANGED latest
       \/ ~ForFirst(m) /\ UNCHANGED <<latest, apart>>
    /\ UNCHANGED <<state, handle, forks>>

-----------------------------------------------------------------------------
(* proc_reload_plugin.                                                     *)

\* a bug: a reload is for the workers only
MineOfWorker(p, m) ==
    p # Parent /\ m.svr_name = OnlineName[p] /\ m.svr_id \in {0, OnlineId[p]}

\* is the request for this process
Mine(p, m) ==
    \/ p # Parent /\ m.svr_name = OnlineName[p] /\ m.svr_id \in {0, OnlineId[p]}
    \/ p = Parent /\ ForFirst(m) /\ ForAll(m)

Handled(p) == [mail EXCEPT ![p] = Tail(@)]

Next1(p) == state[p] = "joined" /\ mail[p] # <<>>

Exited(p) ==
    /\ state' = [state EXCEPT ![p] = "down"]
    /\ handle' = [handle EXCEPT ![p] = "none"]
    /\ mail' = [mail EXCEPT ![p] = <<>>]

NotMine(p) ==
    /\ Next1(p) /\ ~Mine(p, Head(mail[p]))
    /\ mail' = Handled(p)
    /\ UNCHANGED <<state, handle, requests, forks, latest, apart>>

\* before_reload answers -1, or, once it is loaded, a worker's reload_global_data
PluginRefuses(p) ==
    /\ Next1(p) /\ Mine(p, Head(mail[p]))
    /\ Exited(p)
    /\ UNCHANGED <<requests, forks, latest, apart>>

\* a bug: a plugin that does not load leaves the process without one
RegisterFailedKept(p) ==
    /\ handle' = [handle EXCEPT ![p] = "none"] /\ mail' = Handled(p) /\ UNCHANGED state

\* register_plugin has closed the handle, or never had one: exit(-1)
RegisterFailed(p) == Exited(p)

Reload(p) ==
    /\ Next1(p) /\ Mine(p, Head(mail[p]))
    /\ LET so == Head(mail[p]).new_so_name
       IN  IF so \in Incomplete
           THEN RegisterFailed(p)
           ELSE handle' = [handle EXCEPT ![p] = so] /\ mail' = Handled(p) /\ UNCHANGED state
    /\ UNCHANGED <<requests, forks, latest, apart>>

-----------------------------------------------------------------------------
(* Death and restart.                                                      *)

Crash(w) ==
    /\ w \in BindEntries \ InState("down")
    /\ Exited(w)
    /\ UNCHANGED <<requests, forks, latest, apart>>

\* A worker ends when the parent's end of its pipe hangs up.
Orphaned(w) == state[Parent] = "down" /\ Crash(w)

\* a bug: the child goes on with the sockets of its parent
MailOfParent(w) == [mail EXCEPT ![w] = mail[Parent]]

\* net_exit closes what was inherited; the child opens a socket later
MailOfChild(w) == [mail EXCEPT ![w] = <<>>]

\* the parent has yet to come to a reload for all, or has missed it
Awaits(p) == \E i \in DOMAIN mail[p] : Mine(p, mail[p][i])

Behind == Parent \in apart \/ Awaits(Parent)

\* restart_child_process: fork
ForkAgain(w) ==
    /\ state[Parent] = "joined" /\ state[w] = "down"
    /\ forks < MaxForks /\ forks' = forks + 1
    /\ state' = [state EXCEPT ![w] = "forked"]
    /\ handle' = [handle EXCEPT ![w] = handle[Parent]]
    /\ mail' = MailOfChild(w)
    /\ apart' = IF Behind THEN apart \cup {w} ELSE apart \ {w}
    /\ UNCHANGED <<requests, latest>>

PlugNext ==
    \/ \E p \in Procs : Join(p) \/ NotMine(p) \/ PluginRefuses(p) \/ Reload(p)
    \/ \E m \in Requests : \E receivers \in SUBSET InState("joined") : Notify(m, receivers)
    \/ \E w \in BindEntries : Crash(w) \/ Orphaned(w) \/ ForkAgain(w)

PlugSpec == PlugInit /\ [][PlugNext]_plugvars
-----------------------------------------------------------------------------
(* Properties.                                                             *)

\* Every variable has its type, and only an open socket holds datagrams.
PlugTypeOK ==
    /\ state \in [Procs -> {"down", "forked", "joined"}]
    /\ handle \in [Procs -> Sos \cup {"none"}]
    /\ mail \in [Procs -> Seq(Requests)]
    /\ \A p \in Procs : mail[p] # <<>> => state[p] = "joined"
    /\ requests \in 0..MaxRequests /\ forks \in 0..MaxForks
    /\ latest \in Sos /\ apart \subseteq Procs

\* No process runs without a complete plugin, or with the pointers of one that
\* is closed, whatever file it was told to load and whoever fails
\* (dll.c:42-78, mcast.c:284-295).
NeverWithoutPlugin ==
    \A p \in Procs : state[p] # "down" => handle[p] \in Sos \ Incomplete

\* Told to reload all workers of the first name, the parent reloads too, so that
\* a worker started again does not run the old plugin (changelog.txt:90-91).  It
\* holds for every process that has emptied its socket, unless it missed the
\* datagram or was started again before the parent came to it.
Named == {Parent} \cup {w \in BindEntries : OnlineName[w] = OnlineName[FirstEntry]}

NoOldPlugin ==
    \A p \in Named : state[p] # "down" /\ p \notin apart /\ ~Awaits(p) => handle[p] = latest
=============================================================================
