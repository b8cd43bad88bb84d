------------------------------ MODULE ProcTitle ------------------------------
(***************************************************************************)
(* The title a worker shows (daemon.c): it is written over the memory of   *)
(* the arguments and, when that is too short, over the environment behind  *)
(* them, whose strings are copied first.  The parent starts again with the *)
(* arguments it saved.                                                     *)
(*                                                                         *)
(* One process is followed: the parent until it forks or starts again, a   *)
(* worker from then on.  Memory is never exhausted.  The plugin may change *)
(* the environment; the library never writes into a string it has given    *)
(* out, so a string outside the area is kept as its text.                  *)
(***************************************************************************)
EXTENDS Integers, Sequences, SequencesExt

CONSTANTS Len1,       \* the length of each word
          VarOf,      \* the variable each word of an environment sets
          ArgLists, EnvLists, Titles,
          TITLE_SIZE, \* char title[64]
          MaxEnvCalls, MaxExecs

Words == DOMAIN Len1

\* One word at the most is the empty one.
ASSUME TitleAssumption ==
    /\ TITLE_SIZE \in Nat /\ TITLE_SIZE > 2
    /\ Len1 \in [Words -> Nat] /\ DOMAIN VarOf \cup Titles \subseteq Words
    /\ \A v, w \in Words : Len1[v] = 0 /\ Len1[w] = 0 => v = w
    /\ ArgLists \subseteq Seq(Words) \ {<<>>} /\ EnvLists \subseteq Seq(Words)

VARIABLES mem,       \* the bytes from argv[0] on
          environ,   \* where each string is: an address, or 0 and its text
          arg_end, env_start, saved_argv,
          role,      \* "boot", "parent", "worker"
          title,     \* the title asked for
          args, env, \* the arguments, and the environment as set
          env_calls, execs

titlevars == <<mem, environ, arg_end, env_start, saved_argv, role, title, args, env, env_calls, execs>>

NUL == <<"", 0>>
Text(word) == [k \in 1..Len1[word] |-> <<word, k>>]
Stored(word) == Append(Text(word), NUL)
WordOf(text) == CHOOSE word \in Words : Text(word) = text

\* the addresses of words laid one behind the other, the first at 1
Address(words, i) == Len(FlattenSeq([k \in 1..(i - 1) |-> Stored(words[k])])) + 1

\* strlen, and the string at an address
Strlen(m, at) == (CHOOSE x \in at..Len(m) : m[x] = NUL /\ \A y \in at..(x - 1) : m[y] # NUL) - at
StringAt(m, at) == SubSeq(m, at, at + Strlen(m, at) - 1)
After(m, at) == at + Strlen(m, at) + 1

Reads(m, e) == IF e.at = 0 THEN e.text ELSE StringAt(m, e.at)

OnHeap(text) == [at |-> 0, text |-> text]

\* exec: the arguments, and behind them the environment
Laid(av, ev) ==
    /\ mem' = FlattenSeq([k \in DOMAIN (av \o ev) |-> Stored((av \o ev)[k])])
    /\ environ' = [k \in DOMAIN ev |-> [at |-> Address(av \o ev, Len(av) + k), text |-> <<>>]]
    /\ arg_end' = 0 /\ env_start' = 0 /\ saved_argv' = <<>> /\ role' = "boot"
    /\ args' = av /\ env' = ev

TitleInit ==
    /\ mem = <<>> /\ environ = <<>> /\ arg_end = 0 /\ env_start = 0 /\ saved_argv = <<>>
    /\ role = "none" /\ title = "" /\ args = <<>> /\ env = <<>> /\ env_calls = 0 /\ execs = 0

Exec ==
    /\ role = "none" /\ \E av \in ArgLists, ev \in EnvLists : Laid(av, ev)
    /\ UNCHANGED <<title, env_calls, execs>>

-----------------------------------------------------------------------------
(* daemon_start.                                                           *)

\* dup_argv
DupArgv(m, av) == [i \in DOMAIN av |-> OnHeap(StringAt(m, Address(av, i)))]

\* Limits, signal handlers and the change to the background leave all this alone.
DaemonStart ==
    /\ role = "boot" /\ role' = "parent"
    /\ arg_end' = After(mem, Address(args, Len(args)))
    /\ env_start' = IF environ = <<>> THEN 0 ELSE environ[1].at
    /\ saved_argv' = DupArgv(mem, args)
    /\ UNCHANGED <<mem, environ, title, args, env, env_calls, execs>>

\* the plugin: setenv and unsetenv
Setenv(word) ==
    /\ role \in {"parent", "worker"} /\ env_calls < MaxEnvCalls /\ env_calls' = env_calls + 1
    /\ LET old == {i \in DOMAIN env : VarOf[env[i]] = VarOf[word]}
       IN  /\ environ' = IF old = {} THEN Append(environ, OnHeap(Text(word)))
                         ELSE [i \in DOMAIN environ |-> IF i \in old THEN OnHeap(Text(word)) ELSE environ[i]]
           /\ env' = IF old = {} THEN Append(env, word)
                     ELSE [i \in DOMAIN env |-> IF i \in old THEN word ELSE env[i]]
    /\ UNCHANGED <<mem, arg_end, env_start, saved_argv, role, title, args, execs>>

Unsetenv(i) ==
    /\ role \in {"parent", "worker"} /\ env_calls < MaxEnvCalls /\ env_calls' = env_calls + 1
    /\ i \in DOMAIN env
    /\ environ' = RemoveAt(environ, i) /\ env' = RemoveAt(env, i)
    /\ UNCHANGED <<mem, arg_end, env_start, saved_argv, role, title, args, execs>>

Fork ==
    /\ role = "parent" /\ role' = "worker"
    /\ UNCHANGED <<mem, environ, arg_end, env_start, saved_argv, title, args, env, env_calls, execs>>

-----------------------------------------------------------------------------
(* daemon_set_title, in run_worker_process.                                *)

\* vsnprintf
TitleText(t) == SubSeq(Text(t), 1, Min({Len1[t], TITLE_SIZE - 2}))

\* the strings that lie one behind the other from env_start on
Adjoining ==
    {i \in DOMAIN environ : \A k \in 1..i :
        /\ environ[k].at = (IF k = 1 THEN env_start ELSE After(mem, environ[k - 1].at))
        /\ environ[k].at # 0}

\* a bug: the strings stay where they are
NotMoved(i) == environ[i]

Moved(i) == OnHeap(StringAt(mem, environ[i].at))

\* a bug: what is left of the arguments stays
OverStart(text, end) ==
    [x \in DOMAIN mem |-> IF x = Min({Len(text) + 1, end - 1}) THEN NUL
                          ELSE IF x <= Len(text) /\ x < end THEN text[x] ELSE mem[x]]

\* strcpy and memset, or stpncpy when there is too little room
Over(text, end) ==
    [x \in DOMAIN mem |-> IF x >= end THEN mem[x]
                          ELSE IF x <= Len(text) /\ x < end - 1 THEN text[x] ELSE NUL]

SetTitle(t) ==
    /\ role = "worker" /\ title = "" /\ title' = t
    /\ LET text == TitleText(t)
           stretch == arg_end - 1 < Len(text) + 1 /\ env_start = arg_end
           last == IF Adjoining = {} THEN 0 ELSE Max(Adjoining)
           end == IF ~stretch THEN arg_end
                  ELSE IF last = 0 THEN env_start
                  ELSE After(mem, environ[last].at)
       IN  /\ environ' = [i \in DOMAIN environ |->
                             IF stretch /\ i \in Adjoining THEN Moved(i) ELSE environ[i]]
           /\ env_start' = IF stretch THEN 0 ELSE env_start
           /\ arg_end' = end
           /\ mem' = Over(text, end)
    /\ UNCHANGED <<saved_argv, role, args, env, env_calls, execs>>

\* daemon_stop: the parent, asked to start again, becomes the program anew
DaemonStop ==
    /\ role = "parent" /\ execs < MaxExecs /\ execs' = execs + 1
    /\ Laid([i \in DOMAIN saved_argv |-> WordOf(Reads(mem, saved_argv[i]))],
            [i \in DOMAIN environ |-> WordOf(Reads(mem, environ[i]))])
    /\ UNCHANGED <<title, env_calls>>

TitleNext ==
    \/ Exec \/ DaemonStart \/ Fork \/ DaemonStop
    \/ \E word \in DOMAIN VarOf : Setenv(word)
    \/ \E i \in DOMAIN env : Unsetenv(i)
    \/ \E t \in Titles : SetTitle(t)

TitleSpec == TitleInit /\ [][TitleNext]_titlevars
-----------------------------------------------------------------------------
(* Properties.                                                             *)

\* The environment reads as it was set, though a title has been written over
\* its memory; the saved arguments are those of the start (daemon.c:126-136, 240-252).
StringsIntact ==
    /\ [i \in DOMAIN environ |-> Reads(mem, environ[i])] = [i \in DOMAIN env |-> Text(env[i])]
    /\ role \in {"parent", "worker"} =>
          [i \in DOMAIN saved_argv |-> Reads(mem, saved_argv[i])] = [i \in DOMAIN args |-> Text(args[i])]

\* The memory of the arguments shows the title, as much of it as there is room
\* for, and nothing of what was there before (daemon.c:253-261).
TitleShown ==
    role = "worker" /\ title # "" =>
        LET shown == StringAt(mem, 1)
        IN  /\ IsPrefix(shown, TitleText(title))
            /\ Len(shown) < Len(TitleText(title)) => Len(shown) = arg_end - 2
            /\ \A x \in (Len(shown) + 1)..(arg_end - 1) : mem[x] = NUL

\* The title is shown, and the strings whose memory it takes are still whole
\* (daemon.c:229-262).
TitleKept == StringsIntact /\ TitleShown
=============================================================================
