# Verification of linux_unix_system_programming

The repository is a collection of about a hundred small C and C++ programs,
written along two books on Linux programming: `src/TLPI/chapterNN` (The Linux
Programming Interface) and `src/hplsp/chapterN` (high-performance servers on
Linux). It has no common library and no tests. A program is a few dozen lines,
but several of them are real concurrent or distributed systems in small: a file
server that forks, two processes that hand a buffer to and fro, an epoll server
with threads. This directory has TLA+ models of those, TLC configurations that
check them on small instances, and TLAPS proofs of most of their safety
properties for every instance.

Paths below are relative to `src/`. `PROJECT.json` maps each definition of a
module to the lines it models and lists runs, mutants, findings, hazards and
theorems.

## 1. Inventory

### 1.1 Programs with a protocol, and where they are modelled

| Program | State | Operations | Interaction | Module |
|---|---|---|---|---|
| Binary semaphores, `TLPI/chapter47/binary_sems.c` | a System V semaphore | init available or in use, reserve, release | `semop()`, with EINTR | `BinarySems` |
| Shared-memory transfer, `TLPI/chapter48/svshm_*` | segment with count and buffer, two semaphores, offsets and totals | start-up, turn taking, copy, tear-down | shared memory, semaphores | `ShmXfer`, `SlotTransfer`, `ShmXferProofs` |
| File server, `TLPI/chapter46/server` | server queue, a queue per client, children, pending SIGCHLD, `errno` | receive, fork, send a file, reap | message queues, signals, fork | `SvMsgFile`, `SvMsgFileProofs` |
| Sequence numbers, `TLPI/chapter44/FIFO_SERVER_CLIENT` | well-known FIFO, a FIFO per client, next number | open, request, answer | FIFOs whose `open()` waits for the other end | `FifoSeqnum`, `FifoSeqnumProofs` |
| Shared counter, `TLPI/chapter30/thread_incr*.c` | a global, a mutex | load, store, lock, unlock, join | shared memory | `ThreadIncr`, `MCThreadsProofs` |
| Reaping threads, `TLPI/chapter30/thread_multijoin.c` | array of states, two counters, mutex, condition | terminate, signal, join | shared memory, condition variable | `MultiJoin`, `MCThreadsProofs` |
| Cancellation, `TLPI/chapter32/thread_cleanup.c` | block, mutex, condition, cleanup stack | wait, cancel, signal, clean up | deferred cancellation | `ThreadCleanup`, `MCThreadsProofs` |
| Read with a timeout, `TLPI/chapter23/timed_read.c` | handler, alarm, pending call | sigaction, alarm, read | a signal | `TimedRead`, `MCThreadsProofs` |
| One-shot server, `hplsp/chapter9/9_4_EPOLLONESHOT.cpp` | descriptors, epoll set, threads | accept, start a thread, read, re-arm | epoll, threads, sockets | `EpollOneshot`, `MCSocketsProofs` |
| TCP and UDP echo, `hplsp/chapter9/9_8_TCP_UDP.cpp` | accept queue, connections, datagrams, ready list | accept, echo, close | edge-triggered epoll, sockets | `EpollEcho`, `MCSocketsProofs` |
| Level triggering, `hplsp/chapter9/9_3_epoll_LT_ET.cpp` | accept queue, connections, one edge, a limit of descriptors | accept, read a block, close | level-triggered connections, edge-triggered listening socket | `LevelTriggered` |
| Stream transfer, `TLPI/chapter57/us_xfr_*.c` | path of the socket, backlog, data on its way | bind, accept, copy | UNIX sockets, several servers | `UsXfr`, `MCSocketsProofs` |
| Datagram case server, `TLPI/chapter59/i6d_ucase_*.c` | datagrams on their way | send, convert, answer | UDP | `UcaseUdp` |
| Socket library, `TLPI/chapter59/inet_sockets.c` | address list, descriptors | connect, listen, bind | one socket after the other until one will do | `InetSockets`, `MCProcessesProofs` |
| `ls \| wc -l`, `TLPI/chapter44/pipe_ls_wc.c` | three descriptor tables, a pipe | fork, dup2, close, exec, wait | pipe, inheritance | `PipeLsWc`, `MCProcessesProofs` |
| Simple pipe, `TLPI/chapter44/simple_pipe.c` | ends of a pipe in two processes | fork, close, write, read | pipe, inheritance | `SimplePipe`, `MCProcessesProofs` |
| Daemon, `TLPI/chapter37/become_daemon.c` | three processes, sessions, descriptors | fork, setsid, close, dup2 | inheritance | `BecomeDaemon`, `MCProcessesProofs` |
| Waiting for children, `TLPI/chapter26/multi_wait.c` | a tree of processes | fork, sleep, wait | fork, wait | `MultiWait`, `MCProcessesProofs` |
| Copying files, `TLPI/chapter4/{copy,tee,cp_hole}.c` | file contents, offsets, descriptors | read, write, lseek, close | none (sequential) | `FileCopy`, `MCProcessesProofs` |
| `my_dup()`, `my_dup2()`, `TLPI/chapter5/exercise/dup.c` | a descriptor table | fcntl, close | none (sequential) | `Dup2`, `MCProcessesProofs` |
| Appending, `TLPI/chapter5/exercise/{atomic_append,file_append_5.2}.c` | a file, an offset per process | open, lseek, write | a file of several processes | `SharedFile`, `MCObjectsProofs` |
| POSIX shared memory, `TLPI/chapter54/pshm_*.c` | an object, its size, mappings | create, resize, map, copy | shared memory without synchronisation | `PosixShm`, `MCObjectsProofs` |
| Message queue tools, `TLPI/chapter46/svmsg_*.c`, `TLPI/chapter52/pmsg_*.c` | a bounded queue | create, send, receive by type or priority | message queues | `MsgQueueTools` |

What is hard in them, and what makes each correct:

- **Transfer, semaphores.** Two processes with no common ancestor share a
  segment. Start-up is a race (the reader may run before the semaphores exist),
  and the end is one (the writer removes what the reader still uses). Correct:
  one turn at a time, output a prefix of input whatever dies, a successful exit
  of either means all was delivered, and that of the writer that nothing is left.
- **File server.** SIGCHLD is not queued, the handler shares `errno` with the
  main loop that tests it, queues fill up, clients die. Correct: no zombie is
  forgotten, no signal stops the server, files arrive whole and in order, a
  fault costs at most the request in hand.
- **Sequence numbers.** `open()` of a FIFO waits for a partner that may have
  died, on the FIFO it found, whatever becomes of the name; lengths are added
  unchecked. Correct: disjoint ranges as long as the next number never went back,
  and only a client that died, or failed while the server waited, can block it.
- **Threads.** Lost updates; a thread that learns its index from a variable its
  creator goes on changing; a state that is announced before the thread has
  ended; a condition set without the mutex; an alarm that comes before the call
  it is to interrupt. Correct: exact totals with the mutex; counters that agree
  with the array; block and mutex given back; what ends a wait is lost in the
  window before it and nowhere else.
- **epoll servers.** A one-shot or edge-triggered descriptor that is not looked
  at again is forgotten for ever. Correct: no input is left that nobody will be
  told of, but what came behind another of the same burst; one thread for a
  socket.
- **Datagrams, queues.** Datagrams are lost, doubled and overtaken, and an answer
  does not say what it answers; a receiver that selects waits while the queue is
  full. Correct: what is printed is the right answer unless the network doubled
  one, and nobody waits but for a named reason.
- **Objects without synchronisation.** `fstat()`, `mmap()` and the copy, or
  `lseek()` and `write()`, are separate calls. Correct: damage comes only from a
  process that came in between.
- **Processes and descriptors.** An end of a pipe left open anywhere keeps its
  reader waiting; closing in the wrong order closes the wrong thing when
  standard descriptors were closed at the start. Correct: everybody ends.
- **Files.** Any call may fail; holes, short last blocks, old files that are
  longer, an output that is the input. Correct: what is in the output when and however the program ends.

### 1.2 Programs that are not modelled

Each is a component in `PROJECT.json` with its reason. In short:

- no behaviour to model: files that do not compile (`prod_condvar.c`,
  `real_timer.c`, `system.c`, `epoll_input.c`, the chat server), programs that
  stop before their protocol begins (`9_5`, the echo service of chapter 60),
  files with an empty `main()` or none (`multi_SIGCHLD.c`, the self-pipe and
  timer files, `free_and_sbrk.c`, `t_setpriority.c`, `lib/`);
- one system call, or calls in a row with nothing between them, and their
  output: chapters 6 to 12, 15, 18, 19, 20, 21, most of 24 to 29 and 63,
  scatter-gather (5), and hplsp 5, 6, 8, 11-1;
- the state is that of a library or of the terminal: `popen()` (44), `crypt()`
  (21), hang-up signals (34);
- the chat client (hplsp 9-6), a program of one process whose one defect is in
  section 5.

`README.md` of the repository says only that these are notes. What the code is
said to do is in comments, messages, `assert()`s and header comments, and those
are what the findings quote.

## 2. Plan

Modelled, in this order: the transfer (with its abstract specification), the
file server, sequence numbers, counters and threads, the epoll servers, pipes,
files, stream sockets, daemon, multi_wait; then the programs that meet in one
object of the kernel (shared memory, appending, datagrams, message queues), the
socket library, `my_dup2()`, the simple pipe, the timed read and level
triggering. Proved, in this order: the transfer and its refinement, counters,
file server, sequence numbers, threads, processes, objects, sockets.

Next:

1. An abstract specification of request and answer that both `FifoSeqnum` and
   `SvMsgFile` implement, and `ThreadIncr` with the mutex as an implementation of
   an atomic counter (`StoreByStore` is its step).
2. The System V queue of the file server removed and created again, and a second
   writer or reader on live objects in `ShmXfer` (section 7).

A new program of threads, sockets, processes or objects joins the instance module
of its kind (section 3) and brings one or two properties; where a property of
another program there says the same of the same hazard, the instance module
states their conjunction. Modules instantiated there state their assumption on
the constants as a definition (`UsXfrAssumption`), which the instance module
assumes.

## 3. How the modules are written

One module for a program or for the programs of one protocol. A variable that
ends in `pc` names the next statement of a process or thread, other variables
have the names of the source. An action is one system call, or one access to
shared memory, together with the private computation that follows it; private
computation is not interleaved with anything. The kernel (pipes, queues,
signals, epoll, sockets) is modelled as far as the program can tell and marked
`external` in the map.

Failures are actions bounded by a counter (`MaxFaults`) or by their nature (a
fork that fails ends its process). Liveness properties say what happens when no
fault occurs (`faults > 0 \/ ...` as the goal), so one run has both. Operators
named `X_...` or `Definition_Change` are mutants, the plausible mistakes that
`PROJECT.json` substitutes one at a time to see that each property can fail; no
specification uses them.

`ShmXfer` EXTENDS `BinarySems` and composes its operations with the two
programs; `SlotTransfer` is the abstract specification of the pair. The other
modules stand alone, as the programs do.

Modules `MC...` hold the instances for TLC. `MCThreads`, `MCSockets`,
`MCProcesses` and `MCObjects` check several small programs of one kind in one
run: they instantiate the modules side by side, a variable `program` chosen
initially says which of them runs, and the others stay in an initial state. So a
run explores the union of the behaviours of its programs, not their product, and
an invariant of one of them holds in the run if and only if it holds in the
module's own specification. Their properties are conjunctions of those of the
instances (`DescriptorsRight` is that of four programs); a mutant breaks one
conjunct. The theorems about them are about these modules as they stand, so they
cover every value of every constant and all programs at once. `MCShmXfer`,
`MCSvMsgFile` and `MCFifoSeqnum` each EXTEND one module.

## 4. Modules, runs and what they show

### Run `shm_xfer`: BinarySems, ShmXfer, SlotTransfer

`BinarySems` has `initSemAvailable`, `initSemInUse`, `reserveSem` and
`releaseSem`; a `semop()` that waits may be interrupted, and is retried or not
as `bsRetryOnEintr` says. `ShmXfer` has an action for each statement of writer
and reader from start-up to tear-down, process death at any point, and failing
reads and writes.

Five bytes, a buffer of two, two faults, one interruption: one turn, the output
a prefix of the input, clean exits, both exit without faults, and the pair
implements `SlotTransfer`. The reader's last release (`RLastRelease`) and what it
prints before it exits (`RPrint`) are two actions: the writer may be through
with its tear-down, or the reader be killed, between them. So `CleanExit` says of
a writer that has exited that all of the input is in the output and the reader is
past its last release, not that it has exited; of a reader that has exited, that
it delivered everything. 10,383 states. Five bytes suffice to reuse each semaphore
and to have full, short and empty chunks; the proofs lift the bound. Fairness:
WF for each program; the scheduler runs a process that can run, and a `semop()`
that can proceed is woken. `shm_received` shows a finding: the reader's total
reads the segment after the turn was given back.

### Run `svmsg`: SvMsgFile

Server main loop, SIGCHLD handler that may interrupt it between any two steps,
one child per request, clients. Message sizes are the real ones; `MSGMNB` is
lowered so that a full data message, or one request, fills a queue.

A two-chunk and a missing file, two faults (kills, failing fork or read, a
removed queue): types, zombies, order, bounded loss, children that give up, a
server that is not stopped by signals, and without faults nobody is left
unserved and whole files arrive (`AllServed`). Two clients are enough for two
children to end under one blocked SIGCHLD, and two faults for a server that dies
and is started again while something else fails. Fairness: WF for the server,
its handler, each child and each client.

### Run `fifo_seqnum`: FifoSeqnum

An `open()` of a FIFO is two steps: find it, and proceed when the other end is
there. The first may fail, because the name is gone or no descriptor is left. The
second depends only on the FIFO that was found: the server that waits for a
client's reader (`waitClient`) is not woken when the client removes the name as
it exits, and a client that waits for the server (`waitServer`) waits for the FIFO
of one run of it (`serverFd`, `run`). A client that finds no well-known FIFO exits
(`refused`).

A length is what `atoi()` makes of the argument, any int; the sum wraps
(`MaxInt`, `Wrap`), which is what the build does, though C leaves it undefined.
`wentBack` records the runs whose `seqNum` once became smaller, and
`RangesDisjoint` holds for the others: of a run in which it has, nothing is said.
`MaxFds` is the limit of descriptors: the server closes no client FIFO.

Three clients that ask for 3, -1 and 5 numbers of an int of four bits, so that
ranges could overlap, go back and overflow; two descriptors, so that they run
out; two deaths or failing calls, of the server too, which may then be started
again, and exits at once if a killed one left its FIFO. 228,950 states. Fairness: WF for the server and each client.

### Run `threads`: MultiJoin, ThreadCleanup, TimedRead, ThreadIncr

`MultiJoin`: three threads are enough for one to take the index of another while
a third is reaped. A thread reads main's loop variable at any time after its
creation. `CountersAgree` relates both counters to the array, whatever index each
thread read; `EndsUnlessRaced` says that nothing but a misread index keeps main
from its end. Main's last unlock (`MainUnlock`) and its exit (`MainExit`) are two
steps: a thread that waited for the mutex may still count itself and set an entry
TERMINATED that was JOINED, so what is counted is what main has reaped and not
what the array says it has. `threads_terminated` is a finding (two threads
suffice).

`ThreadCleanup`: deferred cancellation acts in `printf()` and
`pthread_cond_wait()` only; with and without an argument (signal or cancel), at
any point of the thread's life, with up to two spurious wakeups.

`TimedRead`: the alarm may come at every point, also before `read()`, and
`SA_RESTART` and the timeout are options. `LostOnlyInWindow` says for both
programs that what should end a wait is lost only in the window before it.

`ThreadIncr`: both counter programs, told apart by the variable `locked`, which is
chosen initially and never changes. Without the mutex a compiler may keep the
global in a register over several rounds, so a thread may skip loads and stores.
Arguments -1 to 4: what can be lost, that with the mutex nothing is, and that both
end. 106,541 states in all.

Fairness: WF for main and each thread, for the timed program and for its alarm,
which the kernel delivers. A process that ends takes its threads along. Nothing
makes a spurious wakeup happen, or input come to the timed read.

### Run `sockets`: EpollOneshot, EpollEcho, LevelTriggered, UsXfr

`EpollOneshot`: descriptors are numbers that are reused, and a thread learns its
socket from a variable of main. The properties of the one-shot protocol hold as
long as no such mix-up happens (`Disturbed`), and the model says exactly when it
does; `sockets_once` is the finding that a disturbance does put two threads on a
socket. Two connections, two descriptors, three threads, two messages each
(`OneShotHolds`); safety only.

`EpollEcho`: a single thread and edge-triggered descriptors. `edges` is the
set of descriptors on the ready list of epoll; those that are readable when
`epoll_wait()` returns become `evlist`, and main handles the events of one call
in any order, as the kernel promises none. `reading` is the connection whose
inner loop runs until `recv()` would block.
Clients send blocks or datagrams, half-close, leave, and are reset. One client
with two blocks and one that sends nothing, one answer of room, a datagram with
and one without data: `NothingUnread` is the invariant that makes edge triggering
work, `EndsAreNoticed` its liveness part under WF of the server. A connection
never holds input without an event. Of connections and datagrams that wait
without an edge each one came behind another: the history variable `behind`
collects what came to a queue that was not empty, unless the server had the event
for the one thing in it in hand. So one that comes alone is never excused. Two blocks are needed for the signal: the first echo provokes the
reset, the second meets it.

`LevelTriggered`: the listening socket is edge-triggered, connections are not.
With one descriptor for two clients (`MaxOpen`) an `accept()` fails and its edge
is used up; the same two properties say what that can cost. WF of the server.

`UsXfr`: a server removes the path, binds, listens and serves one client after
the other; `path` is the server the name stands for. Two servers, two clients of
two blocks, room for one, a path left over or not, one death of any process at
any point: inputs are not mixed, and success means delivery also at a server
whose path was taken. Two blocks and room for one make a client wait while its
server reads; a client that dies early is one with less input. Fairness: WF for
each process, none for a death. `sockets_read` is a finding: a read error makes
the client loop for ever.

### Run `processes`: PipeLsWc, SimplePipe, BecomeDaemon, Dup2, InetSockets, MultiWait, FileCopy

Processes with descriptor tables or a tree of processes; any `fork()` may fail.
`PipeLsWc`: three lines through a pipe of two, all choices of closed standard
descriptors; `MaxFd = 4` leaves room for the pipe above the standard ones.
`BecomeDaemon`: all sets of five open descriptors, all combinations of the four
flags, forks and an `open()` that fail; one process acts at a time, safety only.
The invariants say that the call returns in one process, which has no terminal
and the files its flags ask for; what is said of `/dev/null` does not hold
and is the run `processes_reopen`. `MultiWait`: two
times, so eight processes in four generations; a process is the set of values of
`j` on the way to it. Fairness: WF for each process of both pipes and of the
tree.

`SimplePipe`: five bytes through a pipe of three with a buffer of two, so that
the writer waits for room and the last read is short. The parent's `write()` may
be cut short at any point (it says so and goes on, and `lost` is what was never
written), the child's is not looked at: `AllEnd` says that both end, and that the
child has read everything unless the parent's write was short. `Dup2`: every
table of five descriptors (`OpenMax`), every pair of arguments; where `newFd` is
free the result is compared with what `dup2()` does, and no other descriptor ever
changes. `InetSockets`: up to three calls in one process with two
descriptors and up to two addresses each, every call failing or not; descriptors
leaked by earlier calls are why there are several. `DescriptorsRight` is the
property of the last two and of the daemon and the pipeline: each descriptor is
where it must be and nowhere else, and the daemon has no terminal.

`FileCopy`: `copy`, `tee`, `tee -a` ("tee_append") and `cp_hole`, chosen
initially. A file is a sequence of bytes with `HOLE` for a byte that is not
allocated. Blocks of two, all inputs up to two and a half blocks over a hole, a
zero and a letter; the output is new, one of three old files, or the input itself
(`same`), in which case `Input`, what `read()` finds, is what the program has made
of it. Each call may fail; `CopyRight` compares the output, and what `tee` sends
to its standard output, with the input at every step and at the end. It says what
the programs do, which is not always to copy: `cp_hole` leaves the bytes of an old
file where the input has zeros, and nowhere else (`CopiedOrOld`), and of a
`copy f f` that succeeds it says nothing (`Emptied`; section 5). Safety only, it is
sequential.

The run has 63,664 states.

### Run `objects`: PosixShm, SharedFile, UcaseUdp, MsgQueueTools

`PosixShm`: one creator, two writers and one reader of an object of 0 or 3 bytes
on pages of two, texts of three bytes and of one: an object can shrink below a
mapping, a page may be gone under a copy, and a text be longer or shorter than
the last. `SharedFile`: three processes of either program append blocks of two
bytes to a file of one; a write may be short. `MixedOnlyIfRaced` says for both
that only a process that came between another's steps does damage; `raced` and
the offsets tell when that was so. Nothing waits there: safety only.

`UcaseUdp`: two clients, messages of three bytes (cut to a buffer of two), one
and none; up to two faults: a datagram lost or doubled, a server that dies. They
may overtake each other at any time. WF for server and clients, none for the
network: a datagram on its way may arrive late but `recvfrom()` takes one if
there is one.

`MsgQueueTools`: creators, three senders and two receivers of a queue of two
messages; options chosen so that each branch of the selection by type, by
priority, cut or refused, waiting or not, occurs. WF of the whole: each program
has two steps at most. `MessagesIntact` and `AllAnswered` are stated for both.

`CHECK_DEADLOCK FALSE` is set, with its reason beside it, where the system stops:
programs end, and servers wait when no client is left. That a program does not
stop too early is what the liveness properties say.

## 5. Findings

Five violation runs, each for one sentence of a comment, header or check that
the code does not keep; `PROJECT.json` quotes the sentence and the line.

| Run | Property | Code |
|---|---|---|
| `shm_received` | `ReceivedBytes` | `TLPI/chapter48/svshm_xfr_reader.c:30` adds a count that is no longer its own |
| `threads_terminated` | `JoinsTerminated` | `TLPI/chapter30/thread_multijoin.c:94` gives all threads one address |
| `sockets_once` | `OneThreadPerSocket` | `hplsp/chapter9/9_4_EPOLLONESHOT.cpp:133` likewise, and line 75 goes on after `close()` |
| `sockets_read` | `ReadErrorEnds` | `TLPI/chapter57/us_xfr_cl.c:28` keeps -1 in a `size_t` |
| `processes_reopen` | `ReopensStandard` | `TLPI/chapter37/become_daemon.c:50` has the arguments of `dup2()` swapped |

The models have the behaviour of these further divergences, met while modelling,
without a run of their own. No invariant states as right what a comment of the
repository contradicts: the property concerned leaves the case out, or says only
what follows from the code, and its comment tells which.

- `svmsg_file_client.c:87` counts the closing message as file data, and
  `svmsg_file_server.c:33` announces a file whose `read()` failed as completed;
- `fifo_seqnum_client.c:72` compares the size of the answer with that of another
  structure, so a client that got its answer exits with a failure;
- `thread_multijoin.c:134-137` reports every thread as reaped in the first pass,
  and `numUnjoined` (line 14) becomes negative;
- `cp_hole.c:36` opens without `O_TRUNC` and line 52 moves over zeros, so an old
  output file keeps its data where lines 2-3 want a hole;
- `copy.c:41` and 57 empty an output that is the input before it is read: `copy f
  f` ends with success and an empty file; `copy.c:89` closes descriptor 0 and not
  its output; `tee -a f < f` reads what it appends and does not end (not modelled);
- `simple_pipe.c:43` does not look at the result of `write()`, and lines 69-72 go
  on after a part of a message;
- `fifo_seqnum_client.c:32` sends what `atoi()` gives and `fifo_seqnum_server.c:86`
  adds it: a negative length makes later ranges overlap earlier ones;
- `9_8_TCP_UDP.cpp:90` accepts one connection, and line 96 takes one datagram,
  for each edge; its `assert(num > 0)` (line 97) fails for an empty datagram;
- `becomeDaemon(0)`, the only call in the repository, returns 0 only where
  `/dev/null` cannot be opened, for then each comparison (`become_daemon.c:48-52`)
  is of -1 with -1;
- `multi_wait.c:34` falls through: the children fork too;
- `svmsg_file_server.c:45` sends the pointer and not the message it points to, so
  the end that `svmsg_file.h:39` announces as type `RESP_MT_END` arrives with an
  address for its type (the client stops at any type but data);
- `dup.c:36` refuses a `newFd` in use, which the comment at line 49 says is closed
  first, so that lines 43-53 are never of use; `LikeDup2` says nothing of such a
  `newFd`, and the run of the daemon has the place of a run that would;
- `inet_sockets.c:111` leaves the socket open when `listen()` fails, and line 25
  goes on after a failing `getaddrinfo()` with a list that was not set;
- `9_8_TCP_UDP.cpp:90` and `9_3_epoll_LT_ET.cpp:49` strand all but one of the
  connections of a burst until the next one comes;
- `svmsg_create.c` tests flags and a counter it has not initialised, and
  `pmsg_send.c` and `pmsg_receive.c` misread `getopt()` (without options one never
  ends and the other prints its usage; `-n` has no effect);
- `file_append_5.2.c` opens without `O_APPEND` and overwrites the beginning.

And these are in programs that are not modelled:

- `id_echo_cl.c:17` assigns the value of a comparison, and `id_echo_sv.c` calls
  `becomeDaemon(0)`, which fails, so client and server never meet;
- the chat client (hplsp `9_6`) tests `POLLIN` before `POLLRDHUP`: a connection
  closed by the server makes it turn for ever.

## 6. Proofs

`tlapm` checks seven modules; each extends a component or an instance module and
states no assumption but those of the components (the constants are naturals,
sequences or distinct names). Few of the properties are inductive; each
paragraph names the invariant that is.

**ShmXferProofs**, for every input, buffer size, number of faults and
interruptions. None of the properties is inductive: that the output is a prefix
needs to know what is in the segment, which depends on whose turn it is.
`IInv` adds to the types
`StartInv` (no reader passes its start-up before the semaphores are
initialised), `OneTurn` (the sum of both semaphores and of the holders is 1),
`DataInv` (the buffer holds the next bytes due, by whose turn it is), `EofInv`
(a read of 0 is the last), `EndInv` (what is still attached) and `TotalInv` (the
counters differ by the chunk on its way). One lemma per conjunct, one step per
action. From it follow `TypeCorrect`, `TurnIsUnique`, `MutualExclusion`,
`PrefixDelivered` and `WriterExitsClean` (`CleanExit`, of both programs), and step simulation gives
`RefinesSlot`: `Spec => Slot!Spec` under the mapping of `pos`, `output` and the
end marker `EofBar`.

**SvMsgFileProofs**, for every set of clients, files, queue size and number of
faults. `NoZombieForgotten`: a zombie that is the server's child has a SIGCHLD
pending or a handler still in `waitpid()`; inductive with the types of children
and `NoParent`, that a server that does not run has none. `ServerKeepsRunning`:
the server leaves its loop only with its queue removed; the invariant `StopInv`
speaks of `ErrnoSeen`, the errno that main will see once a running handler has
put `savedErrno` back. `FewAreForgotten` (`LossInv`): as long as its queue is
there, the requests that are `Forgotten` (not queued, nor in the server's hands,
nor with a child, nor answered) are at most as many as the faults. A request
that is tracked stays so, and each fault may lose the track of one.
`ChunksInOrder`: what a client has, what lies in its queue and what its child
has in hand are one front of its file, chunk after chunk. That a request is
answered once (`OnceInv`) makes it the work of one child. `TypesKept`: with the
types go the limits of the queues. `QueuedBytes`, what the messages of a queue
add up to, is a recursive function: `SumsExist` and `SumsAgree` show that there
is one such sum (`Induction` is derived from the well-foundedness of < on the
naturals), `BytesAppend` and `BytesTail` what `msgsnd()` and `msgrcv()` do to it.

**FifoSeqnumProofs**, for every set of clients, every length an int can have, and
any number of descriptors and faults. `TypeCorrect`, which says that `seqNum`
stays an int; `NumbersUnique` from `GrantInv` (a range granted by a run of the
server whose number never went back ends at or before the next number) and
`AnswerInv` (what a client has read was granted to it); `OnlyDeathBlocks` from
`AskedInv` (a request is in one place at most), `AwaitInv` (which FIFO a client
waits for) and `WaitInv`: until the server opens its FIFO a client is waiting for
that or has ended, and one that has ended by itself has removed it.

**MCThreadsProofs**, for every number of threads, arguments and wakeups.
`TypeCorrect`; `CountersRight` from `ReapInv` (who holds the mutex, where main's
loop stands, who was joined, the counters as numbers of threads that have ended
and of entries main has reaped); `HandlerCleansUp` and `LostInWindow` from `CleanInv` (the handler is on
the stack exactly between push and pop, the block is freed once) and `TimedInv`.
For the counters, for every set of counts, `ExactCount` and `StoreByStore` with the
mutex, and without it `BoundedLoss`, that at least two rounds survive. That lower
bound is the delicate one: `NotAllLost` says that a thread past its first store
has a positive copy, so its last store leaves at least two.

**MCProcessesProofs**, for every number of arguments, descriptors, addresses and
calls. `ByeIsAlone` from `FamilyInv`: `CountsUp` (the loop variable only grows),
`Lineage` (a process was forked by the one that has all its values but the last)
and `Fresh`. For a descendant d of p the least value of d that p has not names
the first child of p on the way to it, which p has reaped, so by induction over
the descent d has ended. `DescriptorsKept` from one invariant for each of the
pipeline, the daemon, `my_dup2()` and the address loops, that says what each
descriptor is at each statement. `CopiesAreRight`, for every block size, input
and output file, from `CopyInv`: `Offsets` relates the two file offsets and the
buffer, `Prefix` says what `copy` and `tee` have written, `Gets` what `tee` has
put on its standard output, `Sparse` what `cp_hole` has written or moved over so
far and that the rest is old, and `Itself` that a file copied to itself still
holds its input, or, by `copy`, nothing. `TypesKept` from these, and
from `Counted` (`numDead` is the number of children in `reaped`), `PipeData`,
`SimpleTypes` and `InetMore`, where the open descriptors are a running sum over
the calls that opened them.

**MCObjectsProofs**, for every number of processes, texts, sizes and pages.
`DamageOnlyByRace`: the file never shrinks, so a block written at the end where
its process found it stays whole; for shared memory `ShmInv` says what each
writer and reader that was not raced has copied so far, and that there is then
one writer only. The arithmetic of pages is `RoundedUp` and `PagesEnough`.
`NothingIsMixedUp`: for the datagram server `UcaseInv` says that a client none of
whose datagrams was doubled has at most one on its way or with the server, and
that it is about its current message; datagrams on their way are a bag. For the
message queues `QueueInv` says that each sender is found once in the queue or
with a receiver (`SentOnce`), that the queue is in the order of sending, and that
what was taken was sent before all of its type that is still queued (`InOrder`).
`TypesKept` needs `ShmSizes` besides: nobody copies more than it has mapped.

**MCSocketsProofs**, for every number of connections, descriptors, threads,
servers, clients and blocks. `OneShotKept` from `FdInv`: as long as nothing
disturbs the protocol an open descriptor is armed, in the list main works off,
or in the hands of one thread, and in no two of these; `DisturbanceStays`.
`InputsApart` from `XfrInv`: who waits in a backlog has nothing written and waits
once, and while a server reads from a client what it has written of it is the end
of its output.
`NothingStaysUnread` from `EchoInv` and `LevelInv`: backlogs and datagram queues
hold each of their members once (`Lists`), whoever main is reading from or has an
event for is readable (`EchoInHand`), a readable connection has an edge or an
event (`EchoReported`), and of what waits in a queue without one everything came
behind another (`EchoStranded`).
`TypesKept` follows from these with `OneShotCounted` and `XfrTyped`.

Only model-checked: liveness, which is out of the prover's reach, as is ENABLED
(`BothExit`, `AllServed`, `ChildGivesUp`, `AnsweredUnlessExhausted`,
`EndsUnlessRaced`, `EndsAreNoticed`, `SuccessIsDelivered`, `AllAnswered`,
`AllEnd`). Every invariant of the passing runs is a theorem. The library's
induction theorems take an operator as a parameter, which the provers cannot
instantiate; where a proof needs induction over numbers or data it is done over
a set of numbers, from `WFMin` of the library.

## 7. What the models leave out

- Errors of calls that can only fail for want of memory or by misuse
  (`sigemptyset`, `pthread_mutex_unlock` and the like), and of `close()`, unless
  a property is about them.
- Formatting of output, usage messages and argument parsing, except where an
  argument is a bound of the protocol.
- Partial writes to pipes and sockets in `UsXfr` (blocks are whole) and
  `PipeLsWc`; reuse of descriptor numbers in `EpollEcho` (nothing is opened
  between the two `close()` of a connection); a `connect()` that waits for room in
  the backlog of `UsXfr`, which is one that comes later.
- A second writer or reader started on live objects in `ShmXfer`; a server of
  `SvMsgFile` that creates its queue anew after it was removed; a FIFO left by a
  client with the same process id in `FifoSeqnum`.
- Failing `accept()`, `epoll_wait()` and `sendto()` in `EpollEcho`, resets in
  `EpollOneshot`, and what the notes of the components name.
- Weak memory in `ThreadIncr` beyond merged rounds, and in `MultiJoin` beyond
  late reads of the index.
