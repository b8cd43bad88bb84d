# AsyncServ: a verification project

AsyncServ (`src/async`) is a TCP server framework in C. A parent process owns
all client sockets; one worker process per configured "online id" runs the
service's plugin. The two talk through a pair of lock-free shared-memory rings,
with a pipe beside each ring to wake its reader. `src/async_test` is a second,
unfinished version of the same server with its own configuration store, logger
and socket helpers. The rest of the repository (editor settings, exercises,
samples, generated build files) holds no logic of the server.

The models are about what makes this program hard to test: two processes
without a lock on one ring, wake-ups by edge and by pipe, socket numbers that
are given out again, pushes that may be refused, workers that die.

## 1. Inventory

| Part | State | Operations | Hard behaviour | What makes it correct |
|---|---|---|---|---|
| Shared-memory queue: `shmq.c`, `shmq.h` | per queue `head`, `tail`, the block headers in the ring, a pipe | `do_shmq_create`, `shmq_push` (`align_queue_head`), `shmq_pop` (`align_queue_tail`) | one writer and one reader without a lock; wrap-around with and without a PAD block; the reader keeps a pointer to a block `tail` has passed | what is pushed is popped, whole, once, in order; the lent block is not overwritten; neither side finds the ring corrupt; an empty ring takes a block |
| Event loops: `net.c` `net_loop`, `main.c`, `service.c` | where each process is in its round, the events of the round, bytes in the pipes | `epoll_wait`, `handle_pipe_event`, `handle_send_queue`, `handle_recv_queue` | the parent sleeps without a limit; pipe drained and queue emptied in different orders | no process sleeps on work it will not be woken for |
| Connections: `epi.fds` in `net.c` | type, id, flags, buffers per fd; close queue; etin queue; id counter | `do_add_conn`, `do_del_conn`, `do_open_conn`, `net_recv`, `schedule_output`, `iterate_close_queue`, idle timeout | fd numbers are given out again; refused pushes; closes crossing each other | a client only gets answers to its own requests; both tables agree when all is handled |
| Sessions: `fds.cn` in `service.c`, `net_if.c` | session (id, peer) per fd | `handle_open`, `handle_close`, `handle_process`, `send_pkg_to_client`, `close_client_conn` | looked up by fd alone | a package is served under its own session; every close is reported |
| Socket input and output: `do_read_conn`, `net_recv`, `net_send`, `do_write_conn` | receive and send buffers, package length, EPOLLOUT | read, parse, push; write, merge, arm | edge-triggered epoll, partial writes, stale events | bytes keep their order; nothing stays behind unwatched |
| Supervisor: `main.c`, `daemon.c`, `restart_child_process` | `child_pids`, `restart_cnt`, `stop`, `restart` | spawn, SIGCHLD, SIGTERM, SIGHUP, hang-up of a pipe, `killall_children` | handlers interleave with the loop; a child may die before its pid is stored | a stop request ends; a dead worker is restarted up to the limit |
| Pipe ends across fork: `close_shmq_pipe`, `do_destroy_shmq`, `net_exit` | fd table of every process | fork, close, number reuse | stale numbers in `pipe_handles`, events handled by number | a hang-up is seen if the other side is gone, and under which conditions only then |
| Worker's end: `service.c` `handle_init`, `handle_fini` | `epi.fds`, `stop` | the loop of `run_worker_process` | output left on the plugin's connections, `fini_service` asked again | a told worker leaves nothing unsent |
| Address registry: `mcast.c` | known addresses and their times | announce, answer, refresh, expire, look up | lost and late datagrams, workers that die and come back | a live server is not forgotten, a dead one is; the plugin knows the table |
| Plugins: `dll.c`, `mcast.c`, `reload_so.c` | `dll.handle` of every process | register, unregister, reload by datagram | each process reloads in its own time or not at all; failure half-way | no process is ever without a complete plugin; all come to the same one |
| Bind configuration and `async_test` configuration: `bindconf.c`, `config.c` | the pairs, up to 500 entries | line by line; a Lua table | keys said twice, last entry, last line | what runs is what the file says |
| Process title: `daemon.c` | the memory of arguments and environment | `daemon_start`, `daemon_set_title`, `daemon_stop` | strings in use lie where the title goes | no string in use is written over |
| `async_test` logger: `tlog.c` | a file per process and level, the clock, the disk | open, go on to the next file, stop and resume | files shared by name, day and slice boundaries, full disk | limits are kept, no line is lost in a closed file |
| `async_test` files: `fileutils.c` | the directories | `tlog_mkdir_with_parents` | other processes make the same | it makes them, and is not disturbed |
| `async_test` sockets: `tcp.c` | descriptors, bytes on their way | send and receive loops; listen, accept, connect | part done, interrupted, not ready; any call failing | bytes keep their order; no descriptor is left; errno is kept |

How they interact: the parent accepts a client (`do_open_conn`), gives the
connection the next id and pushes OPEN on the worker's `recvq`; packages follow
as DATA (`net_recv`), the end as CLOSE (`do_del_conn(fd, 1)`). The worker keeps
a session per fd and calls the plugin; the plugin's replies go back as DATA on
`sendq`, its wish to close as FIN. The parent compares id and fd of what comes
back with its table (`schedule_output`). Each push writes a byte to the queue's
pipe. The death of a process closes its pipe ends: the parent sees EPOLLHUP,
deletes the worker's connections and starts a new worker with new queues, up to
`child_restart_limit` times; a worker that sees its parent's hang-up stops.
Workers of all servers hear each other by multicast, where the parents listen
too, for reload requests only. Configuration and bind entries are read before
anything is forked; the title is set by each worker after the fork.

## 2. Modules

| Module | Models | Checked or proved with |
|---|---|---|
| `BlockFifo` | what a queue promises: a FIFO channel of blocks, each accepted whole or refused, lent to the reader and given back | implemented by `ShmQueue` |
| `ShmQueue` | `shmq.c`, one access to a shared word per action | `ShmQueueInv`, `MCShmQueue`, `ShmQueueProofs` |
| `ShmQueueInv` | the inductive invariant of the ring | |
| `ShmQueueProofs` | theorems about the ring | |
| `NotifyLoop` | the two `net_loop`s around the two queues and pipes | `MCNotifyLoop`, `NotifyLoopProofs` |
| `NotifyLoopProofs` | theorems about the loops | |
| `ConnSession` | connection table and session table of one worker | `MCConnSession`, `ConnSessionProofs` |
| `ConnSessionProofs` | theorems about the tables | |
| `WorkerPipes` | who holds which pipe end, by descriptor number, across fork, restart and death | `MCWorkerPipes`, `WorkerPipesProofs` |
| `WorkerPipesProofs` | theorems about the pipe ends | |
| `Supervisor` | spawn and restart of workers, signal handlers, shutdown | `MCSupervisor`, `SupervisorProofs` |
| `SupervisorProofs` | theorems about the supervisor | |
| `NetLoop` | `net_loop` with buffers, edge-triggered epoll, the two queues, asynchronous connects, callbacks | `MCNetLoop`, `NetLoopProofs` |
| `NetLoopProofs` | the inductive invariant of `net_loop` and theorems from it | |
| `Registry` | addresses announced by multicast | `MCParts`, `RegistryProofs` |
| `RegistryProofs` | theorems about the registry | |
| `PluginReload` | the plugin of parent and workers and its reload | `MCParts`, `PartsProofs` |
| `WorkerEnd` | how a worker that is told to stop ends | `MCParts`, `PartsProofs` |
| `ProcTitle` | arguments, environment and title in memory | `MCParts`, `PartsProofs` |
| `ConfigFiles` | configuration and bind entries, both loaders | `MCParts`, `PartsProofs` |
| `LogFiles` | the log files of `tlog.c` | `MCParts`, `PartsProofs` |
| `MakeDirs` | `tlog_mkdir_with_parents` by several processes | `MCParts`, `PartsProofs` |
| `TcpStream` | the send and receive loops of `tcp.c`, with a caller at each end | `MCParts`, `PartsProofs` |
| `TcpOpen` | the calls of `tcp.c` that make a socket | `MCParts`, `PartsProofs` |
| `PartsProofs` | theorems about the eight modules from `PluginReload` to here | |

The modules are layers. `ShmQueue` shows that the byte ring is the channel of
`BlockFifo`. `NotifyLoop` and `ConnSession` use that channel, a bounded
sequence, for the queues: the first for the time between a push and the
reader's waking, the second for the meaning of the blocks. `WorkerPipes` stands
beside them. It shows that the parent sees a hang-up when a worker is gone, and
that it takes a worker for gone only when it is, with two exceptions: a worker is
past its restart limit, or the event was of a client that had the number before.
`ConnSession` is about one worker and no other and has the hang-up of a dead worker
only: both exceptions take a second worker whose pipe was closed. `Supervisor` has both exceptions, as a choice where the numbers allow
them, and adds pids and signals. `NetLoop` is the inside of what
`ConnSession` takes as one step: how bytes come in and go out. `WorkerEnd` adds
to `Supervisor` what a told worker waits for. The remaining modules have no
process in common with one another; `MCParts` puts them side by side and lets
the first state pick the one that runs.

### ShmQueue

State: `head`, `tail` are `shm_head_t`'s words; `mem[o]` is the block header
found at offset `o`, with the lengths that matter and an opaque value instead
of id, fd and data; storing a block destroys every block it overlaps
(`Store`). `ppc` and `cpc` are the places in `shmq_push` and `shmq_pop` between
two accesses to shared words, `mb` and `cnt` the writer's locals, `held` the
block the reader's caller looks at. `unread` is a history variable: where the
published and unread blocks start. It never guards an action.

Actions, in the order of the code. Writer: `PushCall` (the length check),
`AlignFits`, `AlignFull`, `AlignWrap`, `WrapShort`, `WrapPad`, `TurnHead`
(`align_queue_head`), `NotBehind`, `Behind`, `Room`, `Retry`, `GiveUp` (the loop
of ten, whose condition reads `tail` twice), `Copy`, `Publish`, `Notify`.
Reader: `PopCall`, `AlignTail`, `TurnTail`, `Recheck`, `Load`, `Release`,
`DrainPipe`. The debug check that ends the process (`shmq.c:126-135`) and the
branch "should be impossible" (`shmq.c:81-91`) are in the model; that they are
never reached is a property, not an assumption.

Memory order: the model is sequentially consistent. That is what this code gets
on x86, where stores of one process are seen in order, as long as the compiler
keeps the order of the source, which the object code in the repository does
(`head` and `tail` are `volatile`; the header and data stores before them are
not, so another compiler could move them). `handle_recv_queue` writes into the
block it holds before it pushes it to the other ring (`service.c:150-152`): into
bytes the ring has given up, after the last use, so it is not an action.

Constants: the sizes and the number of retries. `SizesAssumption` says what the
code takes for granted: a block header fits in a page, one page fits in the
ring. `shmq_length` and `incoming_packet_max_size` are configurable and not
checked by the code.

### NotifyLoop

One round of `net_loop` is a sequence of places: the parent waits, empties
`sendq` (`ParentPop` until it fails), handles the events of the round in any
order (`ParentDrain`, `ParentRecv`), and waits again; the worker waits, drains
its pipe, calls `proc_events`, empties `recvq`. A push is two actions, publish
and notify, because the reader can run between them; a refused push drops the
package. `back` remembers from which callback the worker pushed. The parent
waits without a limit (`main.c:309`), the worker's wait may return with nothing
(`net_loop_interval`).

### ConnSession

`conn[f]` is the id of the connection the parent has on `f`, `sess[f]` the id
of the session the worker has on `f`. Blocks carry type, fd and id; what they
say is abstracted away. Actions of the parent: `CloseFlagged`
(`iterate_close_queue`), `OutputDiscard`, `OutputFin`, `OutputData`
(`schedule_output`, with `net_send` succeeding or deleting the connection),
`Accept` (`do_open_conn`), `Receive` and `DeleteVictim` (`net_recv` and the
`do_del_conn` after a refused push, two steps because the worker may make room
in between), `PeerGone` (close by the client, error, idle timeout), `WorkerHup`,
`HupDelete`, `HupRestart` (`handle_pipe_event`, `restart_child_process`).
Of the worker: `HandleOpen`, `HandleClose`, `HandleProcess`, `ProcessKeeps`,
`ProcessCloses`, `PluginCloses`, `Reply`, and `Crash` at any point. `lost`, `asked`
and `wire` are history variables: which CLOSE and FIN blocks were refused; whose
packages the plugin was given under a session, any of which it may answer by it (a
block on `sendq` bears the id of the session, and in the model the `asker` too, which
the code does not have); and the last reply written, with the connection it went to
and the one that asked.

`iterate_close_queue` deletes all flagged connections in one action: between two
of them nothing shared changes, for it pushes nothing. `do_del_conn` is one
action with the push in it, for the rest of it is the parent's own.

### WorkerPipes

`fds` and `wfds[p]` are the descriptor tables of the parent and of each worker
process: what is open under each number. `handles` is `pipe_handles` of every
worker's two queues, which keep a number after it is closed; `conns` is `epi.fds`.
Numbers are given out lowest first. A process `<<w, g>>` is the `g`-th started
for worker `w`.

Parent: `Spawn` (one round of the loop in `main`: `shmq_create`, fork,
`close_shmq_pipe`, `do_add_conn`, `net_start`), `Accept`, `CloseClient`, `Fetch`
(`epoll_wait` returns the hang-ups of this moment: `events`), then one step for each
event, in any order and by number, which may stand for something else by then:
`SkipEvent` (for nothing: "delayed epoll events"), `ClientHup` (for a client), `Restart`
and `GiveUp` (for a pipe: `handle_pipe_event` with the connections it deletes, and
`restart_child_process`, where fork may fail), `ParentDies`. Of an event the model
remembers what it was fetched for, which no guard looks at. A worker begins with
the parent's table at the fork; `Initialise` closes what `close_shmq_pipe` and
`net_exit` close, by the numbers the tables had at the fork, in one action, for
nobody else sees its table but through the pipes that hang up. `Crash` may come
before it. `HungUp` is the kernel's rule: no process has the write end open.
Descriptors a worker opens afterwards (its epoll, the plugin's files) take
numbers it no longer closes and are left out. Nothing opens past `MaxFd`
(section 3); the proofs hold for any.

### Supervisor

`pc` is the parent's place: in the loop of `main` that starts workers (`spawn`,
`store`), in its main loop (`test` of `stop`, `enter`, `poll` in `epoll_wait`,
`events`, `restore` after the fork of a restart), in `killall_children` (`kill`,
`send`, `wait`), `done`. `child_pids`, `restart_cnt`, `stop`, `restart` are the
program's; `pipe` says whose hang-up the parent will see; `pstate`, `of` and `told`
are the worker processes, `told` those whose own `stop` is set, by SIGTERM or by
being forked when the parent's is. A dead process hangs up at once and is a zombie
until SIGCHLD is handled, so that the two notices come in either order.

A hang-up of a worker that lives comes in two ways, both found with `WorkerPipes`.
A process forked for `w` when others have been given up (`stale`) may lose ends of its
own pipes (`lost`) to the numbers the parent remembers for those (`MayLose`), at most one
for each: without `sendq1` its pipe seems hung up some time after (`SeemsDead`), without
`recvq0` it does not see its parent close the other pipe. And an event of the batch
may be of a client whose number the new pipe was given (`EventForOld`). Which workers
can meet either depends on numbers this module does not have: `LosesTo` and `StaleFor`
say so, and the theorems are for any value of them. `Replace`, `ForkFails` and `GiveUp`
are then what `handle_pipe_event` does, to a worker that is dead or not: one that
lives and still has `recvq0` sees the hang-up and stops (`Hears`), and its entry in
`child_pids` is overwritten all the same. `replaced` is history: who was alive then.

The handlers `SigTerm`, `SigHup` and `SigChld` are actions enabled between any two
steps; in `epoll_wait` they make it return with EINTR. `killall_children` reads
`child_pids[i]` twice (two loads in the object code too): the second read of 0
makes `kill(0, SIGTERM)`, which reaches the whole process group. What fork, the
pipe and the store have between them is the parent's own, so `Register` is one
action after the fork. `asked` and `groupKilled` are history variables.

### NetLoop

`ep` holds the fd table (`epi.fds`: type, flags, lengths, the mask given to
epoll), the two queues, and for each descriptor what the kernel has: unread
bytes, room to write, how the peer ended, and whether it is on epoll's ready
list. `Reported` and `NotedIf` are epoll: edge-triggered sockets are put on the
ready list by an arrival or by `epoll_ctl`, and taken off when reported. `pc` is
the place in `net_loop`: `close` and `etin` (the walks of the two queues), `wait`,
`sendq`, `events` (one per event left in `evs`, in any order), `accept`, `recv`,
`parse`, `out` (`do_write_conn` after input). `it` is the next element the walk of
the etin queue has saved; a walk that follows an element which has left its queue
goes to `broken`, and nothing is said of what comes then. A callback of the
plugin may send, close, or connect, on its own connection (`tame`) or on any.
Bytes are counted; what `get_pkg_len` makes of them is chosen. Asynchronous
connects go through `AsynConnect`, `HandleAsynConnect` and `AsynOutcome`; `owed` is
the set of those whose callback is still to come. `close_head` and `etin_head` are
sequences, and `list_del` takes out the place at which a descriptor is found
(`Place`); that it is there, and once, is `QueuesAgree`.

### Registry, PluginReload

`Registry`: per listener `svr_tbl`, and `told`, what its plugin has been told; per
worker what is left of its timers; `net`, datagrams less than a second old, in any
order. `Second` lets a second pass once every worker has had its turn, so that no
worker sleeps longer than the one second of its loop. `Lose` loses a datagram, but
not two in a row between the same two. `Hear1st` answers, which sets the answering
worker's own timer anew.

`PluginReload`: per process the plugin it has and the datagrams its socket holds. A
restarted worker has the plugin of its parent at the fork and a new socket.
A process that is given an incomplete file ends: the old plugin is closed before
`register_plugin` fails, and nothing puts it back (`mcast.c:285-291`). `apart` holds the processes of which `NoOldPlugin` says nothing.

### WorkerEnd, ProcTitle

`WorkerEnd` has the place of each connection in the table, which of them have
output left, `maxfd`, and what `fini_service` has said. It assumes of the plugin
that the call of `fini_service` that returns 0 sends nothing.

`ProcTitle` has the memory from `argv[0]` on as a sequence of bytes, and where
each string of the environment is. The words are chosen so that titles fit the
arguments, need the environment, or fit nowhere; the plugin sets and unsets
variables before and after. `DaemonStop` starts the program again: the memory is
laid out anew from what the parent saved.

### ConfigFiles, LogFiles, MakeDirs, TcpStream, TcpOpen

`ConfigFiles` reads a file one line per step, the words of a line and its
indentation standing for its text. `LogFiles` has, per process, its `logfile_t`, and
the sizes of all files by day, slice and number; a process ends and another with
the same prefix starts. `MakeDirs` has one step for each `stat` and `mkdir`;
a `mkdir` may find the directory made, a file or nothing where its parent should
be, or be denied by the system for any other reason (`Denied`).
`TcpStream` has one step per system call of `safe_tcp_send_n`, `safe_tcp_recv` and
`safe_tcp_recv_n`, and callers that believe `tcp.h`: 0 is the end of the connection.
`TcpOpen` has the row of system calls of each function, any of which fails.

## 3. Runs

| Run | Instance | Result |
|---|---|---|
| `ring` | ring of 10 bytes, ring header 1, block header 2, page 3, two retries, two values | `NeverCorrupt`, `EmptyRingHasRoom`, `IInv`, `HeldIntact`, `FifoSpec` hold |
| `loops` | three packages, queues of two, pipes of two bytes | `WorkerWoken`, `RequestHandled`, `LeftOnlyAsleep` hold |
| `loops_lost` | two packages | `ReplyDelivered` is violated |
| `session` | one fd, three connections, queues of two, two crashes, restart limit 1 | `ServedOwnSession`, `ReplyReachesOwner`, `TablesKept`, `ClosedIsReported` hold |
| `session_two` | two fds, three connections, queues of one, one crash | `IInv` holds, `ServedOwnSession` with it |
| `session_sender` | one fd, two connections, no crash | `ServedBySender` is violated |
| `pipes` | three workers, one restart each, one client, fork fails once | `EndsKept`, `HoldsOwnEndsAtFirst`, `HangupMeansDeath` hold |
| `pipes_stale` | two workers, one restart each, no client | `HoldsOwnEnds` is violated |
| `supervisor` | two workers, two restarts each, six processes, the first may lose an end to the second's number, the second meet an old event, `fini_service` may ask for time | `KnownUntilDead`, `IInv`, `NoneLeft`, `RestartsKept`, `StopEnds`, `HeardWithTraffic` hold |
| `supervisor_ghost` | one worker, no restart | `WaitEnds` is violated |
| `netloop` | a listening socket, two connections, a buffer of two bytes, three or more bytes arriving | `QueuesKept`, `InputKept`, `OutputKept`, `ConnectKept`, `UnreadRead`, `ConnectAnswered` hold |
| `parts` | one instance each of the nine modules beside | `Registry`: `NeverForgotten`, `TableIsTrue`; `PluginReload`: `NeverWithoutPlugin`, `NoOldPlugin`; `LogFiles`: `LogKept`, `LinesKept`; `MakeDirs`: `DirsMade`; `ConfigFiles`: `FilesRead`; `TcpStream`: `StreamKept`; `TcpOpen`: `CallsClean`; `ProcTitle`: `TitleKept`; `WorkerEnd`: `NothingUnsent`: all hold |

Properties that belong together are checked as one; the parts have names and
comments of their own in the modules, and the text below uses them.

| Checked as | Parts |
|---|---|
| `TablesKept` | `TypeOK` of `ConnSession`, `TablesAgree` |
| `EndsKept` | `TypeOK` of `WorkerPipes`, `HoldsOnlyOwn`, `NoLeak` |
| `HangupMeansDeath` | `HangupIsTrue`, `ParentHangupIsTrue`, `DeathIsSeen`, `ParentDeathIsSeen` |
| `RestartsKept` | `RestartsCapped`, `RestartAsAsked` |
| `QueuesKept` | `TypeOK` of `NetLoop`, `QueuesAgree`, `WalkSafe` |
| `InputKept` | `RoomToRead`, `UnreadNoticed` |
| `OutputKept` | `OutputArmed`, `SendBounded`, `FinFlushes` |
| `ConnectKept` | `CallbackKept`, `ConnectedTrue` |
| `TableIsTrue` | `RegTypeOK`, `GoneWhenDead`, `AddressIsCurrent`, `PluginKnowsTable` |
| `LogKept` | `LogTypeOK`, `SizeBounded`, `DailyCount`, `NeverDeadFd` |
| `LinesKept` | `RightFile`, `AttemptsSpaced` |
| `DirsMade` | `MadeWhenTold`, `FailsForAFile` |
| `FilesRead` | `ConfigFaithful`, `EntriesComplete` |
| `StreamKept` | `Intact`, `EndIsTold` |
| `CallsClean` | `NoFdLeft`, `ErrnoKept` |
| `TitleKept` | `StringsIntact`, `TitleShown` |

`IInv` of the ring and of the supervisor contains the type invariant. `TypeOK` of
`NotifyLoop`, `AllTold`, `PlugTypeOK` and the inductive invariants of the other modules
are in no run: they are proved (section 4).

Why the bounds are enough. `ring`: ten bytes hold three pages behind the header,
with blocks of two and three bytes the writer turns with nothing, with less than
a header and with room for a PAD block left, both sides wrap many times, the
ring fills, and retries run out; two values tell a block from its neighbour.
The proofs cover every other size. `loops`: three packages let one reply arrive
while another's wake-up is handled and a third is queued; queues fill at two.
`session`: three connections on one fd allow the blocks of a connection to meet
the next one and the one after it; two crashes with a limit of one reach the
parent that goes on without a worker. `session_two` lets connections compete
for a queue of one block.

`pipes`: a client connected between two forks shifts the numbers, so that a worker
is restarted with numbers that were its own or another's before; each worker may pass
its limit while the others are still within it. With two workers no late event of a
client meets a pipe (tried with two restarts each, and with two clients): it takes a third for a low number to be free, given to a client and asked for by a
restart. What an event may outlive is proved for any number of workers, clients and
restarts (`EventsAreTrue`). The run takes more than three minutes.

`supervisor`: with two workers and two restarts each, a worker can die before its
pid is stored, in the loop, between the two reads of `killall_children` and while
it waits; both can die under one SIGCHLD; one may be past its limit, the other then
lose an end by it, be replaced while it lives, and be restarted once more. Signals
are not bounded. `CntMod` is 256, the values of a `uint8_t`. `MaxPid` is the bound
of the model, six processes, all two workers with two restarts ever start; fork fails
when they are used up, and pids are not given out again. `LosesTo` and `StaleFor` say
which worker may be taken for dead while it lives, and by what: the first by an end it
closed itself, which is the case `pipes_stale` shows with two workers, the second by an
event of a client, so that each of the two is met and the other worker is only ever
dead when its pipe hangs up. The proofs hold for every choice.

`netloop`: a third byte fills the buffer of two and leaves one behind; two
connections let a callback of one close the other, and a number be given out again
within a batch; `Room` and `SendLimit` of two are passed by one send. `Budget` bounds
what the environment does, by role: five steps for a parent, three for a worker
whose plugin is tame, two for one that is not.

`parts`: the first state chooses the module, and the others stay where they
begin, so that each is checked as it would be alone. `Registry`: three workers, of
which one listens and two have the same name; the intervals are 1 where the code
has 25 to 48, and the expiry the smallest the assumption allows, so that a
service is forgotten and found again. `PluginReload`: two workers, a good, another
good and a bad file, two requests, two restarts. `LogFiles`: four configurations
(slices, a daily limit, both, a limit above the highest), two processes, a time
across midnight, a disk that fills. `MakeDirs`: two processes, three paths of which two share
a parent and one is longer. `ConfigFiles`: every configuration of up to three lines of nine
kinds and every bind file of up to four lines of five kinds, with and without the
last newline, and tables of three rows; the array has room for two entries.
`TcpStream`: six bytes, three in the connection, calls for one to four.
`TcpOpen`: two descriptors, three calls. `ProcTitle`: titles of one, four and seven
characters (seven of nine is what `title[64]` leaves of a longer one), environments
of up to three strings, two changes, one restart. `WorkerEnd`: four places.
`MaxCalls`, `MaxRequests`, `MaxForks`, `MaxLives`, `MaxLines`, `MaxSize`, `Start`, `End`,
`MaxEnvCalls` and `MaxExecs` are bounds of the models.

`MaxFd`, `MaxClient` and `MaxForkFail` are bounds of the model too: `MaxFd` is
enough for a restart with everything else open. After a failed fork, whose four ends stay
open, no other worker is restarted in the model until one has been given up; `EMFILE`
is not modelled.
`MaxId` and `MaxCrash` are bounds of the model: the id is a 32-bit counter and
the number of crashes is not limited. All other constants stand for limits the
code has. `RestartLimit` is `child_restart_limit`.

### What the violated properties show

* `ReplyDelivered`: `net_loop` in the parent empties `sendq` first
  (`net.c:520-522`) and drains the pipe later in the same round (`net.c:717`). A
  reply published in between has its wake-up byte thrown away and its block left
  in the queue; the parent sleeps in `epoll_wait(-1)`. Any later event of any
  socket delivers it, which is what `LeftOnlyAsleep` says, but on a quiet server
  the client waits. The worker drains first and pops after, and `WorkerWoken`
  proves that order right.
* `ServedBySender`: `do_del_conn` ignores the result of
  the CLOSE push (`net.c:221`). With `recvq` full the worker never learns of the
  close. The next client on that fd is then refused by `handle_open`, and until
  the FIN for it comes round its packages are processed under the session of
  the client before it; the plugin is never told of the close (`dll.h:51` says
  "each time"). `ServedOwnSession` and `ClosedIsReported` state what
  does hold: without a refused CLOSE neither happens.
* `HoldsOwnEnds`: a restarted worker closes `sendq.pipe_handles[0]` of all
  workers (`shmq.c:224`), also of one that is past its restart limit, whose
  descriptor the parent has closed already. The number may be given to the new
  worker's own `sendq` write end. The worker then lives with no way to hold its
  pipe open, the parent sees a hang-up at once, drops its clients and counts a
  crash: a worker past its limit takes the others with it. As long as none is
  past its limit, `HoldsOwnEndsAtFirst` shows that this does not happen. `EndsKept`
  and the other parts of `HangupMeansDeath` hold with stale numbers too.
* `WaitEnds`: `child_pids[i]` is stored after the pipe is registered and the port
  opened (`main.c:285-288`, `service.c:255-257`). A worker that dies before, for
  instance because its plugin fails to initialise, may be reaped before its pid is
  there; the store then leaves a pid that no SIGCHLD removes, until a restart
  overwrites it. If a stop comes first, or the limit is reached, the parent waits
  in `killall_children` for ever, while it serves nobody. `StopEnds` says that
  nothing else keeps it there.

Some properties hold under a condition that a reader should know.

* `HeardWithTraffic` has a `fini_service` and traffic as hypotheses. `stop` is
  tested before `epoll_wait(-1)`, so that a signal in between is not acted on until
  a socket has an event (the same when `fini_service` asks for time); and without
  `fini_service`, an optional function by `dll.h:67`, the parent never stops.
* `TablesAgree` leaves out connections whose CLOSE or FIN was refused:
  `ServedBySender` shows what a refused CLOSE comes to; for a refused FIN see below.
* `HangupIsTrue` is about the time until a worker is past its limit, and leaves out the
  late event of a client; `KnownUntilDead`, `AllTold` and `NoneLeft` leave out workers that were
  replaced alive, which both may lead to.
* `RestartsCapped` is about limits below 256: a `uint8_t` never reaches a
  higher one, and the worker is restarted for ever. No run shows it, for it takes
  256 deaths of one worker.
* `RestartAsAsked` leaves out a parent that has signalled itself: if a worker dies
  between the two reads in `killall_children`, its own SIGTERM handler clears
  `restart`, and a server asked to restart (SIGHUP) ends.

* `WalkSafe`, `CallbackKept`, `ConnectedTrue` and `ConnectAnswered` are about a
  plugin that keeps to its own connection while events are handled. One that closes
  another connection in the callback of a package read from the etin queue leads
  the walk to an element that has left it (`net.c:119`); one that closes and connects
  again may get a number of which an event is still in the batch.
* `UnreadNoticed` leaves out the listening socket after an accept that failed
  otherwise than by a full table (`net.c:264`): the clients left in the backlog
  wait for the next one.
* `SizeBounded` says how far the limit on a file's size is exceeded: each process
  counts from 0 what it adds to a file that is there.
* `EndIsTold` says when `safe_tcp_recv_n` tells of an end that is none.
* `ErrnoKept` leaves out `safe_tcp_connect`, which closes the socket after the
  failure and does not save errno.

### What else the models showed

Behaviour of the code that the modules have as it is, and that differs from
what a comment says or a reader would expect. No run is spent on them; the first three are
what the exceptions in `TablesAgree`, `HangupIsTrue` and `NoneLeft` stand for.

* A client can stay connected without a session. `close_client_conn` ignores the result
  of the FIN push (`net_if.c:286`), as `do_del_conn` does that of CLOSE. With `sendq` full
  the session is gone and the client is not told; `handle_process` drops what it sends,
  until it leaves or is idle too long. A connection that `handle_open` refuses may be
  left in the same way. `net_if.h:180-181` says that a request to close is sent.
* A client's event can be taken for a worker's death, with no worker past its limit
  (the comment at `net.c:686` says "Child Crashed"). `net_loop` takes the events of a
  batch by number and only compares numbers (`net.c:527`). The restart of one worker has
  left a low number free and a client of another worker sits on it. That worker dies, the
  client is reset, and both events are in one batch, the pipe's first.
  `handle_pipe_event` closes the client, the new pipe is given its number, and the
  client's `EPOLLHUP` is taken for the hang-up of the worker just started: it
  is replaced while it lives, and a restart is counted. `HangupIsTrue` says that
  this is the only such case before some worker is past its limit; in `pipes` it fails
  when its last disjunct is left out.
* The server can end or start anew while a worker runs. One that is taken for dead,
  because of such an event or because it has lost its `sendq` end (`HoldsOwnEnds`), is
  replaced, and `restart_child_process` overwrites its pid (`service.c:257`). It hears of
  that by `recvq`'s pipe and stops in its own time, but nobody waits for it, though
  `daemon.c:281` says "wait for all child exit". With three workers it may lose its end of
  that pipe too, to a second stale number, and then nobody tells it either (`Deaf`).
  `KnownUntilDead`, `AllTold` and `NoneLeft` say that only workers replaced alive are left
  so, and that those need a second worker whose pipe was closed before; with one
  worker all have exited (`SingleWorkerExits`). In `supervisor`, `AllChildrenExited` fails.

* `tcp.h:112-123` says of `safe_tcp_recv_n` that 0 means closed. It returns 0 on a
  close though bytes came before it, and 0 when the socket is not ready and none came.
* `safe_tcp_connect` ignores the result of `set_io_blockability`;
  `safe_socket_listen` that of `inet_pton`, and then binds to any address.
* `dll.h:67` says `fini_service` is called only once; both loops call it in every
  round until it returns 0.
* A told worker stays while a peer of its plugin does not read, and the parent waits
  for it in `killall_children` without a limit. Replies the worker pushes after the
  parent has left its loop reach nobody.
* `config.c`: a line that repeats a pair is refused with the whole file. An
  indented `#` line is a setting, or a bind entry with id 0.
* `bindconf.c`: a file whose last line has no newline sends the loop to `NULL + 1`;
  the number of entries is looked at after the entry is written. A malformed row of
  the Lua table is an error outside any protected call.
* `mcast.c`, reload: a worker of a name that is not the first entry's, started
  again, gets the plugin of the parent, which it had before its own reload.
* `tlog.c`: a daily limit, once reached, is not reset the next day; a log directory
  given from the root is always refused (`fileutils.c:12-15` compares a truth value with
  a character); the first stop on a full disk may end with the next line, as the time
  it counts from is still 0; the line that resumes is not written to the file; slices
  that do not divide a day share names across days; `get_local_eth` ignores its argument.
* `fileutils.c`: a file in place of the last directory is taken for success when it
  came between `stat` and `mkdir`.
* `async_test` `net.c:142` registers the number of the port in place of the listening
  socket; `netutils.c` starts its thread only if a field is set that has just been
  cleared; `async_test` `main.c:91` reads `max_log_size` where `service.c:86` reads
  `max_log_files`.
* `net.c:397` copies between overlapping ranges with `memcpy`; `do_open_conn` ignores a
  failure of `do_add_conn`; a connection that `accept` cannot take leaves the parent
  asleep with its listening socket on the etin queue, until another event.
* `dup_argv` leaves `saved_argv` NULL when memory is short, and `free_argv` then reads it.

### Fairness

`NotifyLoop`: weak fairness of the parent as a whole and of the worker's loop as
a whole. Each is one thread that the kernel runs, so it takes its next step if it
has one; callbacks return. There is no fairness of clients or of the plugin's
replies. `ParentWait` is enabled only when something is ready, so fairness does
not wake the parent from a sleep that the kernel would not end.
`ConnSession`: weak fairness of the worker's taking of blocks and of the return
of `proc_pkg_from_client`: its loop wakes at least every second. The parent has
no fairness, and crashes are never fair.
`WorkerPipes` needs none: its properties are of states and steps.
`Supervisor`: weak fairness of the parent as one thread and of the delivery of
SIGCHLD; a worker told to stop ends, and a `fini_service` asked again and again
says 0 in the end (strong fairness of `LeaveLoop`), which `dll.h` asks of a plugin.
Traffic is not fair: `HeardWithTraffic` has it as a hypothesis.
`NetLoop`: weak fairness of the process that runs `net_loop`, one thread, and of the
kernel's answer to a connect, which comes or times out. Peers, traffic and callbacks
that do more than return are not fair. `UnreadRead` is about workers, whose wait ends
after a second; the parent waits without a limit and has the safety property only.
The modules of `parts` need none: their properties are of states and steps.

Deadlock is checked in the runs of `ShmQueue`, `NotifyLoop` and `ConnSession`:
clients, plugin and parent can always move in these models until the named
bounds stop them, and a model stopped by a bound still has steps of the loops.
It is not in those of `WorkerPipes`, where every process may be dead, of
`Supervisor`, which ends, of `NetLoop`, which stops in `broken` and sleeps when the
bound on the environment is used up, and of `parts`, whose modules end (a program
that has read its files, a call that has returned) or use up a bound.

## 4. Proofs

All proofs are of the specifications the runs check, for every value of the
constants that satisfies the named assumptions.

`ShmQueueProofs`, from `SizesAssumption`:

* `Invariance`: `Spec => []IInv`. `IInv` (module `ShmQueueInv`) is the
  conjunction of the type invariant, `Layout`, `ProducerInv` and `ConsumerInv`.
  `NeverCorrupt` is not inductive: that the reader's next header is sound depends
  on where all unread blocks lie. `Layout` says it in five parts: every unread
  block is whole and in the range of the ring's shape (`BlocksInv`); they are
  disjoint and in order (`OrderInv`); each begins where the one before ends or,
  once, at the start after a turn that is marked (`ChainInv`); the first is at
  `tail` and the last ends at `head`, up to a turn (`EndsInv`); a writer that has
  turned keeps a page away from `tail` (`GapInv`). The last two parts of `IInv`
  say what each process may rely on between its accesses, such as that the
  writer about to copy still has its room however far the reader has got.
* `TypeCorrect`, `QueueNeverCorrupt`, `EmptyQueueHasRoom` follow from it.
* `HeldBlockIntact`: the action property, from the lemma that the stores of
  `WrapPad` and `Copy` keep clear of the lent and of every unread block
  (`StoreFrame`, `BlocksKept`).
* `RingIsFifo`: `Spec => FifoSpec`. `Publish` accepts, `GiveUp` and `AlignFull`
  refuse, `Load` lends, `Release` gives back; every other step leaves the
  abstract state alone.

`NotifyLoopProofs`, from `LoopAssumption`: `LoopTypeCorrect` and
`WorkerNeverMissesBlock`, with an invariant that adds to `WorkerWoken` that a
push of the worker returns into a callback and never straight into `epoll_wait`.

`ConnSessionProofs`, from `ConnAssumption`: `ConnInvariance` (`Spec => []IInv`), and
from it `OwnSessionServed`, `ReplyToOwner` and `TablesTheSame`. `ServedOwnSession` is
not inductive: which session a package meets is settled by the blocks in front of
it. `IInv` follows each session from its OPEN block at a place of `recvq` into the
worker's table, which it counts as place 0 (`Holds`): no id is at two places
(`HeldOnce`); between a session and a package of another connection on its fd
there is a CLOSE, and one is coming as soon as the connection is gone, unless
that CLOSE was refused (`EndsInTime`); a connection that is there has no CLOSE
behind its session (`NotClosed`). In the other direction a FIN is about a session
that has left every place (`FinIsTrue`), and a connection without a session has a
FIN on its way, noted or refused (`FinIsComing`). That a client gets answers to its own
requests only is not settled by the comparison of ids: the id in a reply is that of the
session, which may be another client's than the one that asked. `AnswersInv` says
that this takes a session whose CLOSE was refused, that the connection of such a
session is no more, and that no two connections have one id; so what bears its id is
discarded. The proof asks of each step where
the sessions of the next state were before: a push changes no place, a take moves
all by one (`TakePlaces`), and only `Accept` adds one, with an id above all others.

`SupervisorProofs`, from `SupervisorAssumption`: `SupervisorInvariance`
(`Spec => []IInv`), and from it `SupervisorTypeCorrect`, `WorkerNeverForgotten`,
`EveryWorkerTold`, `NoWorkerLeft`, `SingleWorkerExits`, `RestartsBounded`. `KnownUntilDead` is not inductive: the store of a
new pid would forget an old process of the same worker if it lived. `ForkInv` says
that the one just forked is the only one but for those it replaces; that follows at start
from the order of the loop (`SpawnInv`) and on restart from the event it answers: another
that lives has its pipe in epoll (`PipeInv`), so that it is the one at the
pipe's other end, and is counted as replaced. That an event of a living worker's pipe
takes a different worker's, closed before, is said of events (`EvsInv`) and of the
ends a process has lost (`LostInv`). `ToldInv` follows the loop of `killall_children`,
and says of those replaced that they were told by their pipe or could not be.
`SingleWorkerExits` is the case in which there is no different worker. For `RestartsBounded`, `CountInv`
counts the processes started for a worker against its counter for as long as the
worker may still be restarted: the counter wraps only with the restart after which
it may not, so that the count holds though the counter does not. `AskInv` says that the
two flags are what was asked last, and that no place after the main loop is
reached without them.

`WorkerPipesProofs`, from `PipesAssumption`: `PipesInvariant` (`Spec => []IInv`), and
from it `EndsAreKept`, `OwnEndsHeld`, `HangupIsDeath`. `HoldsOnlyOwn` is not inductive: a
new process closes what it inherited by the numbers the parent remembers, so that
what it is left with depends on three tables of the parent agreeing with the
descriptors at the moment of the fork. `TableInv` says so of the connection table,
`HandlesInv` of the numbers remembered, except for the one closed when a worker was given
up: that one may be any descriptor later, which is why `OwnEndsHeld` and half of
`HangupIsDeath` need that no worker is past its limit. `MadeInv` and `SpawnInv` say which
pipes can exist at all, so that those of the next fork are new; `WorkerInv` says that
what a process has that is not its own is among the numbers it is about to close.
`Spawn` and `Restart` come to the same proof: `Fresh` is what holds of the tables
before the pipes are made, `Made` what holds with them, and `ForkStep` what a
fork then does, whether it fails or not. For `HangupIsDeath` a second invariant is on top of
the first: `EventInv` (`EventsAreTrue`) says that an event not yet handled is of a client, or of
the pipe that is still there and whose other end nobody has. A step that closes a
pipe is the one that handles its event, and no process ever opens the write end of a pipe
that has hung up.

`RegistryProofs`, from `TimesAssumption` (the one inequality the code's 25, 48 and 100
satisfy: `2 * (SynMax + 1) + 1 <= Expire`): `RegistryInvariance`, and from it
`RegistryTypeCorrect`, `LiveWorkerFound`, `PluginToldOfTable`, `AddressesTrue`. `NeverForgotten` needs to
know that no entry of a living worker is ever older than the expiry when
`del_expired_addrs` looks. `RegInv` says, for each pair of a worker and a listener that
has heard of it, how old the entry may be: with `Gap` the longest time between two
announcements, its age and the time to the next one are together at most `Gap`, or
`2 * Gap` after a loss; while a datagram is on its way the age alone is, one more if
it is late; and if a single one is on its way, its loss still leaves `2 * Gap`. That
only running workers are sent datagrams (`NetInv`) is needed for a death in between.
The proof has a lemma for each way the four of them change: an announcement, an
arrival, a loss, a second. `AddrInv` is needed for `AddressesTrue`: a service is
silent no longer than its entry is old, but for the second its last datagram took
(`SilentInv`), and until a listener has the address of a worker that is alone in its
service, the next announcement is due in the time it has been alone, or in twice that
after a loss (`TogetherInv`, with the same `InTime` as before). The two statements are about
ids other than 0, which asks for any service of the name.

`PartsProofs` is about the modules that run alone. For each of them the invariant is
inductive for any number of processes, files, lines, bytes or calls:

* `PluginReload`, from `PluginAssumption`: `PluginTypeCorrect`, `PluginAlwaysThere` and
  `PluginIsLatest`. A file is registered whole or the process ends, and forks copy
  what is complete. `NoOldPlugin` speaks of a process that waits for nothing; `LatestInv`
  says of one that does that the last datagram in its socket that is meant for it
  asks for the latest plugin.
* `WorkerEnd`, from `EndAssumption` (descriptors are numbers, 0 is not one of a
  connection): `WorkerEndsSent`. The loop over the connections stops at `maxfd`, so
  `EndInv` says that nothing in use is above it, whatever has been opened and closed
  in between, and that only connections have output left.
* `TcpOpen`, from `OpenAssumption`: `FailuresClean`. `InProgress` says of a call that it is
  at a place of its row of system calls, that the row makes one descriptor at one
  place, and that the call has it exactly when it is past that place. So what the
  failure paths close is what was made, and nobody else's.
* `MakeDirs`, from `MakeAssumption` (a path has at least one part): `DirectoriesMade`.
  What one process has found or made, no other takes away; `CallFine` says that every
  part before the one in hand is there.
* `TcpStream`, from `StreamAssumption` (no call asks for nothing): `BytesWhole`, with its
  action property `EndIsTold`. `StreamInv` has the bytes received, those in the buffer of
  a call that has not returned, and those on their way as one sequence, which is the
  beginning of what was sent; every step cuts it elsewhere or lengthens it.
* `LogFiles`, from `LogAssumption` (limits are natural numbers; time begins late enough
  for a time of 0 to mean never): `LogIsBounded`, `LinesGoRight`. `SizeBounded` is not inductive: a file grows by
  what the processes that have it open may still write. `SizesInv` counts that as a
  set, `Left(f)`, of pairs of a process and a line, and says that the size and its
  cardinality together stay within the bound: a line takes one pair away, and a
  process that starts brings no more than its number. `FileInv` says that the file a process has is
  that of its day and slice, and `SpacedInv` relates the last two failures of a
  process to the time from which it waits.
* `ConfigFiles`, from `ConfigAssumption` (files are sequences of lines of words):
  `FilesAreSaid`. `PairsInv(n)` says of the lines before the `n`-th that the pairs have the
  last value of each key, that each value fits and none is said twice in a row;
  `EntriesInv(n)` that an entry's place in the array is the number of entry lines up to
  its own; `RowsInv`, for the Lua table, whose rows come in any order, that the array
  has each row as often as the rows already taken.
* `ProcTitle`, from `TitleAssumption` (words are told apart by their texts, so that one
  at the most is empty; there is an argument): `TitleStays`.
  `StoredAt` says that a word lies in memory up to its NUL, `EnvironInv` that each string
  of the environment is a copy, or lies behind the arguments where exec put it, the
  strings in their order and none over another. That `exec` lays out such a memory is
  proved by induction over the number of words (`LayingNext`, `AddressOrder`,
  `LaidIsStored`), with `LeastThere`, the least element of a set of numbers, in the place of an
  induction rule. `AdjoiningIs` says that the strings that are moved are the first
  ones, so that those that stay lie behind the end of the title, which `Over` leaves
  alone (`OverIs`, `Copying`). `HeadIs` reads the title back from the memory.

`NetLoopProofs`, from `SizesAssumption` of `NetLoop`: `NetInvariant` (`Spec => []IInv`), and from it `QueuesSound`, `InputSound`, `OutputSound`,
`ConnectSound`, for any number of descriptors, any page, limit and send buffer, and
whatever number of bytes, clients and closes the environment has left. None of the
four is inductive. That no input is overlooked depends on where the loop is and
which events of the batch are still to be handled; that a walk stays on its queue,
on which connections a callback may take away. `Good` is what holds of the table by
itself: `Fine` of each entry and its socket (only what is read and written is
queued, and the entry knows what the kernel has), `QueuesFine` (flag and place agree,
each descriptor is at one place), `MaxFine`. `PlaceInv` says where the loop is with
what, `BatchInv` what the events left in a batch are about: those of a plugin that
keeps to its own connection are about the connections they were reported for, since
nobody else deletes them. `WalkInv` keeps the saved element on its queue. `InputInv`
and `OutputInv` say of each descriptor that it has notice, or an event left, or is
the one in hand; `ConnectInv` that a connect whose callback is owed has not lost its
entry. The proof is in layers. First, what each function does to the table for the
descriptor `f` it is called with (`Step`): the table stays good, and every other entry
and socket in use is left as it was. A place of the loop is then proved from
`Moved`, which says so of an action as a whole, callbacks included; for a plugin that
touches any connection it says only what that leaves, which is why the walk and
the connects are spoken of under `tame`. The steps of the kernel and the peers may
come at any place and share one lemma (`QuietKept`): they change no queue and no
type, and give notice of all they bring.

The invariants were checked with TLC on the instances of the runs before they were
proved: those of the ring, the sessions and the supervisor in the runs of section 3, the others by
adding them to the run's configuration.

Every safety property and every action property of the passing runs is proved. Only
model-checked are the liveness properties (`RequestHandled`, `LeftOnlyAsleep`,
`ClosedIsReported`, `StopEnds`, `HeardWithTraffic`, `UnreadRead`, `ConnectAnswered`),
which are out of the prover's reach, as is ENABLED.

## 5. Plan

Done: the ring, the loops, sessions, pipe ends, supervisor; the bytes of a
connection and batches of events (`NetLoop`); registry and reload; the parts of
`async_test` that are complete. What is left, by importance:

1. `NetLoop`: UDP and multicast sockets in the same batch of events.
2. The server information and the socket helpers of `src/async`, of which only what
   the modelled parts call is in the models.

## 6. Not modelled

Formatting and the wording of logs, address parsing, option parsing, the listing of
interfaces (`get_ip`), glib's hash table (a function from fd to session here), the
kernel's TCP below what epoll and the calls report, the plugin (its freedom is the
nondeterminism of the callbacks), memory exhaustion, UDP sockets of the plugin,
samples, editor settings, generated build files.

Of `async_test`: its `net.c`, `service.c`, `shmq.c`, `daemon.c`, `mcast.c` and `dll.c` are
earlier or unfinished copies of what `src/async` has, with a loop that serves nobody;
`log_fun.c` chooses the number of a log file but nothing writes to it; the thread of
`netutils.c` is never started. Wrappers of one system call have no behaviour of their own.
